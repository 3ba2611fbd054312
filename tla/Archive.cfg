SPECIFICATION Spec
CONSTANTS
  NumWrites = 3
  Contents = {"a", "b", "c"}
  NamesOf <- MCNamesOf
  OrdersOf <- MCOrdersOf
  BatchSize = 1000
  Kinds = {"market", "series", "reference", "names", "event"}
  MaxMinute = 1
  Faults = {"statement"}
INVARIANTS
  TypeOK
  CommittedIsComplete
  SuccessIsArchived
  NamesAgree
PROPERTIES
  AppendOnly
  ImplementsAtomicArchive
  EveryWriteEnds
CHECK_DEADLOCK FALSE
