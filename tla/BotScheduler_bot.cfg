\* The tick loop beside a run-now or an answer, with a restart.
SPECIFICATION Spec
CONSTANTS
  Warnings = {"w1"}
  LifeSafety = {"w1"}
  Tickers = {"ticker"}
  Portals = {"caller"}
  Askers = {"caller"}
  JobOrder <- MCJobOrder
  Interval <- MCInterval
  Jitter = 0
  DigestAfterCancel = 1
  RepeatAfter = 1
  Ceiling = 2
  Hour = 1
  SeqModulus = 16
  PartsPerAnswer = 2
  Replies = {"ok", "refused"}
  MaxVersion = 1
  MaxTime = 2
  MaxAir = 3
  MaxRestarts = 1
  MaxEvents = 1
INVARIANTS
  ToldOnce
  DigestsKeepTheirInterval
PROPERTIES KeepsBroadcastPromise

CHECK_DEADLOCK FALSE
