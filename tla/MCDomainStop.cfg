\* A hart that moves between two domains, and one that stops and starts them.
SPECIFICATION FairSpec
CONSTANTS
  h1 = h1
  h2 = h2
  h3 = h3
  NoHart = NoHart
  NoDomain = NoDomain
  Hart <- Harts
  D = 3
  Home <- HomeApart
  Possible <- AllPossible
  BootHart <- BootApart
  EntryFrom <- EntryByAll
  ResetAllowed = {0, 1}
  Bridge <- BridgeOneTwo
PROPERTY StopReturns
CHECK_DEADLOCK FALSE
