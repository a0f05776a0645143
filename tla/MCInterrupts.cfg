\* Two harts and every event; a timer of two halves of one bit, one and two harts,
\* two domains; three harts that boot two domains.
SPECIFICATION FairSpecOfOne
CONSTANTS
  Hart = {h1, h2}
  NoHart = NoHart
  Base = 2
  TimerDomains = {0, 1}
  Boot = 0
  Boards <- SomeBoards
  Asks = {1, 2}
  BHart = {0, 1, 2}
  HartCount = 3
  Trees <- SomeTrees
  NoSmode <- SomeNoSmode
  Named <- SomeNamed
INVARIANTS NoStrandedEvent TimeIsTrue
PROPERTIES ImplementsMailbox TimerFires BootEnds
CHECK_DEADLOCK FALSE
