SPECIFICATION Spec
CONSTANTS
  Requests = {r1, r2}
  Versions = {v1, v2}
  Collectors = {c1}
  ArchiveTypes = {"time_series", "reference"}
  Faults = {}
  None = None
SYMMETRY Symmetry
VIEW View
INVARIANTS
  TypeOK
  SeenIsArchived
  NoBare304
  OneFetchInFlight
CHECK_DEADLOCK FALSE
