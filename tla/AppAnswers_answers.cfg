\* Two phones ask for sweeps, for parts of one and for a radar loop, again and at once.
SPECIFICATION Spec
CONSTANTS
  Phones = {"ana", "ben"}
  Requests = {"texas", "again", "usa", "both", "one", "radar"}
  PhoneOf <- MCPhoneOf
  KindOf <- MCKindOf
  ItemsOf <- MCItemsOf
  States = {11, 12}
  Country = 10
  StatesOf <- MCStatesOf
  Advisories = {"texas", "again"}
  MaxSweep = 2
  Window <- MCWindow
  SenderGap = 1
  CopyGap = 2
  Budget = 4
  Tasks = {1, 2, 3}
  MaxTime = 2
INVARIANTS
  AnsweredOnce
  WindowsFollowAir
CHECK_DEADLOCK FALSE
