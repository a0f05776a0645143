\* Three harts fence each other all the time: queues are full.
SPECIFICATION FairFencingSpec
CONSTANTS
  N = 3
  Arg = {a1}
  NoArg = NoArg
  PlatformPower = FALSE
  QueueLen = 1
  NoHart = NoHart
INVARIANTS FencedOnReturn
PROPERTIES FenceReturns
CHECK_DEADLOCK FALSE
