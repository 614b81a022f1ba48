\* A backend that keeps every entry (BinaryBlob, InMemory), no I/O errors.
SPECIFICATION Spec
CONSTANTS
  Ids = {a, b, c, d}
  Scores = {0, 1}
  INIT_CACHE_CAP = 2
  CACHE_CAP = 3
  IN_FLIGHT_CAP = 2
  GRACE_PERIOD = 1
  U8 = 4
  CACHE_ADJUSTMENT_TICK = 2
  CACHE_MISS_THRESHHOLD = 60
  PROTECTED_RATIO = 50
  WriteOnce = FALSE
  IOFaults = FALSE
  MaxRequests = 2
SYMMETRY Symmetry
INVARIANTS
  NoEntryLost
PROPERTIES
  ImplementsCorpusHandler
