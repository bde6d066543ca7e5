\* Sessions and attempts: commands and their answers, drains, lost links, overlapping calls, retries.
SPECIFICATION FairSpec
CONSTANTS
  Sessions <- MCSessions
  Messages = {"m1", "m2"}
  RetryLimit = 1
  Loads <- MCLoads
INVARIANTS NothingLeftInRadio BacklogIsTold LinkIsKnown
PROPERTY EveryAttemptEnds
CHECK_DEADLOCK FALSE
