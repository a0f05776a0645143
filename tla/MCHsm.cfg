\* Two booted harts, no platform to power them; four harts at each device.
SPECIFICATION FairSpecOfOne
CONSTANTS
  N = 2
  Arg = {a1}
  NoArg = NoArg
  PlatformPower = FALSE
  Order <- SomeOrder
  WordBits = 2
  Msis = 2
  Kinds = {"mswi", "plicsw", "imsic"}
  MaxEvents = 4
INVARIANTS StateMatchesHart KickReachesItsHart
PROPERTIES ImplementsLifecycle StartHappens SuspendedHartWakes
CHECK_DEADLOCK FALSE
