SPECIFICATION Spec
CONSTANTS
  Requests = {r1, r2}
  Versions = {v1}
  Collectors = {}
  ArchiveTypes = {"event", "none"}
  Faults = {"archive", "crash"}
  None = None
INVARIANTS
  ArchivedNeverErrors
PROPERTIES
  EveryRequestIsAnswered
CHECK_DEADLOCK FALSE
