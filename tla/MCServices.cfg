\* Two domains on a hart for what it switches, two harts for what they share, and
\* every instruction and range of a small machine.
SPECIFICATION SpecOfOne
CONSTANTS
  a = a
  b = b
  h1 = h1
  h2 = h2
  PDomain = {a, b}
  PBoot = a
  HwCounters = {0, 3}
  FwFirst = 4
  NrCounters = 5
  Xlen = 4
  TreeRanges <- SomeRanges
  MaxEventRanges = 2
  DefaultRanges <- FixedOnly
  FwEvents = {4}
  Features = {{}, {"SSCOFPMF", "SMCNTRPMF"}}
  HalfMod = 2
  StartValues = {3}
  MaxTicks = 2
  MaxCalls = 4
  Workloads <- SomeWorkloads
  TDomain = {a, b}
  TBoot = a
  NrTriggers = 2
  TrigTypes <- SomeTypes
  HasTinfo = TRUE
  ZeroType = 15
  Configs <- SomeConfigs
  Rejected <- SomeRejected
  MaxDbtrCalls = 4
  FDomain = {a, b}
  FBoot = a
  Sticks <- BothLengths
  MaxFwftCalls = 6
  Top = 32
  MonBase = 8
  MonSplit = 12
  MonSize = 8
  MapChoices <- SomeMaps
  PDom = {h1, a, b}
  RootDom = h1
  Listed <- SomeLists
  Inherits = {b}
  Grains = {1, 2, 4}
  PmpCount = 16
  MaxRegions = 5
  Windows <- SomeWindows
  MaxPmpSteps = 4
  Domains = {0, 1, 2}
  Boot = 0
  HartFeatures <- SomeFeatures
  Written = {3}
  MaxSwitches = 3
  Sender = {h1, h2}
  Server = {a}
  Pieces = 1
  MaxSends = 2
  MpxyHart = {h1, h2}
  HartDomain <- HartDomains
  MTree <- SomeNodes
  BadOwner = BadOwner
  RunChannels <- OneChannel
  NrSseEvents = 2
  PoolSize = 3
  PageIds = 2
  GoodMsi <- TwoAddresses
  Writes <- MsiWrites
  Sources <- BridgeSources
  VLenB = 4
  VRegs = 8
  MemSize = 24
  VPageSize = 4
  Insns <- SomeInsns
  AHart = {h1, h2}
  WBits = 2
  Ops = {"min", "maxu", "xor"}
  AmoTries = 2
  MaxStores = 1
  MaxTraps = 2
  Regs = {0, 3, 31}
  Counters = {0, 1, 2, 31}
  PageSize = 4
  MaxPages = 3
  MaxAddr = 31
INVARIANTS CountersAreTheDomains TriggersAreTheDomains LocksHold EntriesAreRight FindsItsState ForwardingIsExact ChannelsAreTheTrees AccessIsTheInsn AmoIsOne EmulatesTheInsn CoversRange
CHECK_DEADLOCK FALSE
