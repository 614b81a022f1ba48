\* A backend that refuses second writes (ShardedDiskCache) and whose first
\* writes and reads may fail.
SPECIFICATION Spec
CONSTANTS
  Ids = {a, b, c}
  Scores = {0, 1, 2}
  INIT_CACHE_CAP = 2
  CACHE_CAP = 3
  IN_FLIGHT_CAP = 1
  GRACE_PERIOD = 1
  U8 = 3
  CACHE_ADJUSTMENT_TICK = 2
  CACHE_MISS_THRESHHOLD = 60
  PROTECTED_RATIO = 50
  WriteOnce = TRUE
  IOFaults = TRUE
  MaxRequests = 2
SYMMETRY Symmetry
INVARIANTS
  TypeOK
  TiersAgree
  WithinCapacity
PROPERTIES
  EvictsTheWorst
