\* The source of the messages may be stopped and started again.
SPECIFICATION BridgePart
CONSTANTS
  h1 = h1
  h2 = h2
  a = a
  b = b
  x = x
  RpmiHart = {h1, h2}
  NoRpmiHart = NoRpmiHart
  MsgSlots <- OneMessage
  TokenMod = 3
  PucMisfits = FALSE
  Budgets <- FiveBudgets
  BDomain = {a, b, x}
  NoBDomain = NoBDomain
  Host = b
  Source = {a}
  BEntry <- EntryAll
  MayStop = {a, x}
  MaxLives = 3
  CHart = {h1, h2}
  PucFacts <- SomeFacts
  MaxTypes = 3
  PageTypes = 2
  MaxSysmsi = 2
  EventBuf = 5
  EventMax = 3
  MaxEvents = 7
  StoresReorder = FALSE
INVARIANT AnswerGoesToSender
CHECK_DEADLOCK FALSE
