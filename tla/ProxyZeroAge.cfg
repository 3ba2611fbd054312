SPECIFICATION Spec
CONSTANTS
  Requests = {r1, r2}
  Versions = {v1, v2}
  Collectors = {c1}
  ArchiveTypes = {"time_series"}
  Faults = {}
  None = None
SYMMETRY Symmetry
INVARIANT RestoredBodyIsServed
CHECK_DEADLOCK FALSE
