SPECIFICATION Spec
CONSTANTS
  Calls = {c1, c2, c3, c4}
  Keys = {k1, k2}
  Results = {v1}
  Errors = {e1}
  NoCall = NoCall
INVARIANTS
  TypeOK
  SingleExecution
  RegistryIsLive
  WaitersShareTheOutcome
  OnlyCancellationStrands
PROPERTIES
  WaitersAreAnswered
  ImplementsSingleFlight
CHECK_DEADLOCK FALSE
