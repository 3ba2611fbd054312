SPECIFICATION Spec
CONSTANTS
  NumWrites = 2
  Contents = {"a"}
  NamesOf <- MCNamesOf
  OrdersOf <- MCOrdersMoved
  BatchSize = 1000
  Kinds = {"market"}
  MaxMinute = 1
  Faults = {}
INVARIANT NoWriteIsRefused
CHECK_DEADLOCK FALSE
