SPECIFICATION Spec
CONSTANTS
  Instances = {"i1", "i2"}
  Jobs = {"orders", "history"}
  HistoryJobs = {"history"}
  MaxTypes = 2
  Concurrency = 1
  Capacity = 2
  NoOne = NoOne
  Ghost = Ghost
INVARIANTS
  TypeOK
  JobsAreExclusive
  LocksAreBacked
PROPERTIES
  EveryRunEnds
