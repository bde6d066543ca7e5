\* A phone that loses, reorders and repeats what a restarting bot sends; a tick is two minutes.
SPECIFICATION FeedSpec
CONSTANTS
  Warnings = {"w1"}
  Tasks = {"schedule"}
  SeqModulus = 16
  PartsPerAnswer = 0
  MaxBatch = 1
  MaxVersion = 2
  MaxTime = 2
  AheadLimit = 8
  ReorderWindow = 4
  DuplicateWindow = 2
  DuplicateWindowReset = 1
  DigestMargin = 1
  CancelRetention = 30
  ReorderRecency = 5
  MaxDelay = 1
  MaxAir = 4
  MaxRestarts = 1
INVARIANTS
  LossIsKnown
  NoGhost
  NeverOlder

CHECK_DEADLOCK FALSE
