SPECIFICATION Spec
CONSTANTS
  Clients = {c1, c2}
  Limit = 2
  Window = 3
  PruneInterval = 3
  MaxTime = 7
INVARIANTS
  TypeOK
  WindowBound
  IdleIsForgotten
PROPERTIES
  ImplementsSlidingWindow
CHECK_DEADLOCK FALSE
