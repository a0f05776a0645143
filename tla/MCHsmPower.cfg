\* A platform that powers harts down and releases them again.
SPECIFICATION FairSpecOfOne
CONSTANTS
  N = 2
  Arg = {a1}
  NoArg = NoArg
  PlatformPower = TRUE
  Order <- SomeOrder
  WordBits = 2
  Msis = 2
  Kinds = {"mswi", "plicsw", "imsic"}
  MaxEvents = 4
PROPERTIES StartHappens
CHECK_DEADLOCK FALSE
