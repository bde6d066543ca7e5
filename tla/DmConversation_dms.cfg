\* One person's command and `more`, resent under old and new timestamps, over a mesh that loses and delays.
SPECIFICATION Spec
CONSTANTS
  Contacts = {"a"}
  Replies = {1, 2}
  KeyOf <- Alone
  Bodies <- AllBodies
  QueueMax = 2
  MeasureOnly = FALSE
  EarlyMax = 1
  MaxSends = 2
  Commands = {"wx"}
  More = "more"
  Pages = 2
  MaxDms = 3
INVARIANTS
  ListensForEveryTry
  RowTellsTruth
  QueuedOnce
  PagesInOrder
PROPERTIES KeepsDmPromise
CHECK_DEADLOCK FALSE
