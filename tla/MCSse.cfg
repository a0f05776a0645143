\* Two harts, a local event on one of them and a global one.
SPECIFICATION Spec
CONSTANTS
  N = 2
  LocalId = {2}
  GlobalId = {3}
  Priority = {0, 1}
  Movers = {0}
  Used <- UsedEvents
  Written <- WrittenAttrs
INVARIANTS HandlersNest NothingForgotten
