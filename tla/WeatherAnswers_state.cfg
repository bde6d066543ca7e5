\* Answers of two bots, lost, late, repeated and asked for again, on a phone
\* whose app is closed once.
SPECIFICATION Spec
CONSTANTS
  Cases <- MainCases
  TileOf <- MCTileOf
  LiesIn <- MCLiesIn
  LeadOf <- MCLeadOf
  Near <- MCNear
  NamedAreas = 0
  EventName = 0
  Whatever = Whatever
  SeqModulus = 6
  AheadLimit = 3
  ReorderWindow = 2
  DuplicateWindow = 2
  DuplicateWindowReset = 4
  FutureTolerance = 1
  MaxAreaSweeps = 3
  MaxRadarTiles = 3
  RadarRetention = 1
  MaxUnbundled = 2
  TextRetention = 1
  MaxTexts = 2
  ForecastRetention = 1
  MaxForecasts = 2
  ObservationRetention = 1
  MaxObservations = 2
  Window = 1
  PartsKept = 2
  MeshDelay = 0
  MaxDelay = 1
  PacketsPerTick = 2
  StartTime = 10
  MaxTime = 12
  MaxUpsets = 1
  MaxReplays = 1
INVARIANTS
  OneBuildPerMap
  GroundIsKept
  NewestIsShown
PROPERTIES
  AnsweredIsHeld
  KeepsOwnAnswers
CHECK_DEADLOCK FALSE
