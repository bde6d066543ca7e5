\* A node that falls silent: start() has ended the watchdog that would notice.
SPECIFICATION FairSpec
CONSTANTS
  SilentCommands = 3
  Loads <- MCSilentLoads
  Packets = {"p", "q"}
  RetransmitMax = 1
  PerHour = 1
  MaxCopies = 1
PROPERTIES
  DeadLinkIsNoticed
CHECK_DEADLOCK FALSE
