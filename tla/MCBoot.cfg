\* Two harts from reset, with a platform that powers them, two arguments; three
\* harts and three domains in the tables; small trees.
SPECIFICATION SpecOfOne
CONSTANTS
  N = 2
  Arg = {a1, a2}
  NoArg = NoArg
  PlatformPower = TRUE
  BHart = {0, 1, 2}
  HartCount = 3
  Trees <- SomeTrees
  NoSmode <- SomeNoSmode
  Named <- SomeNamed
  RHart = {0, 1, 2}
  MaxNodes = 2
  MaxBackends = 2
  RpmiTypes = {"COLD"}
  MayReset = {1}
  NoDepth = 99
  Blobs <- SomeStarts
  Names <- SomeNames
  EditProps <- SomeProps
  Room = 11
  MaxEdits = 4
  FixupCases <- SomeCases
  Buffers = {8, 12, 24}
  SwNames <- TwoNames
  SwProps <- ThreeProps
  MaxCalls = 8
INVARIANTS TreeIsFollowed SystemResets BlobIsTheTree WritesTheTree HandsOverTheRest
PROPERTIES StartArgsStable
CHECK_DEADLOCK FALSE
