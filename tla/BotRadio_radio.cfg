\* Two packets at once, one packet while the link breaks, and messages while it breaks.
SPECIFICATION FairSpec
CONSTANTS
  SilentCommands = 3
  Loads <- MCLoads
  Packets = {"p", "q"}
  RetransmitMax = 2
  PerHour = 1
  MaxCopies = 2
INVARIANTS
  NothingStranded
  HeardIsTold
PROPERTIES
  WatchedLinkIsNoticed
CHECK_DEADLOCK FALSE
