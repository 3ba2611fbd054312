SPECIFICATION Spec
CONSTANTS
  Fetches = {f1, f2}
  Versions = {"three", "two"}
  PageCount <- MCPageCount
  MaxPages = 3
  UpstreamConcurrency = 2
  PageConcurrency = 1
  MaxRetries = 1
  BlockTimes = {1}
  None = None
INVARIANTS
  TypeOK
  PermitsAddUp
  SuccessIsComplete
PROPERTIES
  EveryFetchReturns
CHECK_DEADLOCK FALSE
