\* Four calls: a hard reset after the first and the last, soft ones between.
SPECIFICATION Spec
CONSTANTS
  MaxCalls = 4
  MaxRows = 2
  LIMIT = 1
  RESET_EVERY = 3
INVARIANTS
  TypeOK
  StartsClean
PROPERTIES
  ImplementsExecutor
  EveryCallReturns
CHECK_DEADLOCK FALSE
