\* Either feed, each product in time, late or lost, and one thing going wrong.
SPECIFICATION Spec
CONSTANTS
  WarningGrace = 1
  OtherGrace = 2
  WarningAge = 8
  LsrAge = 7
  OtherAge = 6
  UfnGrace = 3
  DayLength = 12
  DefaultLife = 2
  ListWindow = 3
  FirstLookback = 5
  FetchPerPoll = 2
  ObsWindow = 4
  ObsPerPoll = 2
  RadarGrace = 2
  Keep = 8
  FilledKept = 10
  Stations = {"KAUS", "KATT"}
  Scripts <- MCScripts
  Sources = {"internet", "sdr"}
  HourWindow = 4
  PollWindow = 1
  HourEvery = 3
  MaxBackoff = 2
  FeedKeysKept = 8
  CompactFactor = 1
  CompactSlack = 1
  Horizon = 9
  FirstStarts = {1, 5}
  MaxFaults = 1
INVARIANTS
  OneCopy
  TakenInTime
  FileHasWhatIsHeld
  ListFollowsNws
CHECK_DEADLOCK FALSE
