\* Two harts of one domain, one of them visiting another, and a third that stops
\* and starts them.
SPECIFICATION Spec
CONSTANTS
  h1 = h1
  h2 = h2
  h3 = h3
  NoHart = NoHart
  NoDomain = NoDomain
  Hart <- ThreeHarts
  D = 3
  Home <- HomeOfThree
  Possible <- OneVisits
  BootHart <- BootOfThree
  EntryFrom <- EntryByAll
  ResetAllowed = {0}
  Bridge <- BridgeOneTwo
INVARIANTS MasksAreTrue RunsItsContext StopIsComplete
CHECK_DEADLOCK FALSE
