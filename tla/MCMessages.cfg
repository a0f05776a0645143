\* Two harts; more calls and messages than rings hold, and a token space they wrap;
\* three domains on one hart.
SPECIFICATION Spec
CONSTANTS
  h1 = h1
  h2 = h2
  a = a
  b = b
  x = x
  RpmiHart = {h1, h2}
  NoRpmiHart = NoRpmiHart
  MsgSlots <- TwoMessages
  TokenMod = 3
  PucMisfits = FALSE
  Budgets <- FiveBudgets
  BDomain = {a, b, x}
  NoBDomain = NoBDomain
  Host = b
  Source = {a}
  BEntry <- EntryAll
  MayStop = {b, x}
  MaxLives = 3
  CHart = {h1, h2}
  PucFacts <- SomeFacts
  MaxTypes = 3
  PageTypes = 2
  MaxSysmsi = 2
  EventBuf = 5
  EventMax = 3
  MaxEvents = 7
  StoresReorder = FALSE
INVARIANTS RingIsFifo AnswerGoesToSender ClientsFollowThePuc
PROPERTIES AnswerIsOurs PucIsHeard
CHECK_DEADLOCK FALSE
