\* Refills are cut at both ends: to 3 for a batch of 1, to 4 for one of 3.
SPECIFICATION BatchSpec
CONSTANTS
  Ids = {a, b, c}
  MaxSize = 3
  MIN_REFILL = 3
  MAX_REFILL = 4
  BATCH_MULTIPLICATOR = 2
  BASE_PERSISTENCE = 1
  MaxMagnitude = 2
INVARIANTS
  BatchOK
  EnergyIsConserved
  PreparedSuffices
PROPERTIES
  CulledFadeOut
CHECK_DEADLOCK FALSE
