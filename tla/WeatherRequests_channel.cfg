\* Radios that flood datagrams: two taps, resends, answers, the end of a connection.
SPECIFICATION Spec
CONSTANTS
  Requests = {"r1", "r2"}
  Floods = {TRUE}
  AckLimit = 1
  MaxTime = 4
  LastAsk = 1
  MaxConnects = 2
  MaxForeignAcks = 0
  MaxIngests = 1
  Bots <- MCBots
  Kinds <- MCKinds
  BotOf <- MCBotOf
  KindOf <- MCKindOf
  LetterOf <- MCLetterOf
  AnyBotKinds <- MCAnyBotKinds
  SlotKinds <- MCKinds
  SharedSlotKinds <- MCAnyBotKinds
  AlertKinds <- MCAlertKinds
  Announced <- MCBots
  Messages <- Effects
  Spacing = 1
  ChannelTimeout = 2
  DmTimeout = 3
  RecentWindow = 3
  SeqModulus = 2
INVARIANTS PendingIsWatched TimestampNamesRequest
PROPERTIES KeepsPromise
CHECK_DEADLOCK FALSE
