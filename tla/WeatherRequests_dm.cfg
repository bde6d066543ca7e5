\* Radios with or without datagrams: the ladder of direct messages, confirmations, the flood; fair behaviours settle everything.
SPECIFICATION FairSpec
CONSTANTS
  Requests = {"r1"}
  Floods = {TRUE, FALSE}
  AckLimit = 1
  MaxTime = 4
  LastAsk = 1
  MaxConnects = 1
  MaxForeignAcks = 1
  MaxIngests = 1
  Bots <- MCBots
  Kinds <- MCKinds
  BotOf <- MCBotOf
  KindOf <- MCKindOf
  LetterOf <- MCLetterOf
  AnyBotKinds <- MCAnyBotKinds
  SlotKinds <- MCKinds
  SharedSlotKinds <- MCAnyBotKinds
  AlertKinds <- MCAlertKinds
  Announced <- MCBots
  Messages <- Effects
  Spacing = 1
  ChannelTimeout = 2
  DmTimeout = 2
  RecentWindow = 3
  SeqModulus = 256
INVARIANTS Inv ConfirmationsAreKept
PROPERTIES EveryRequestSettles
CHECK_DEADLOCK FALSE
