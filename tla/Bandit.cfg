\* Two normalizations, so that an arm may miss both. Arms do not see each other.
SPECIFICATION Spec
CONSTANTS
  Arms = {a}
  RESCALE = 2
  MaxEpoch = 5
INVARIANTS
  TypeOK
  DecaysByAge
CHECK_DEADLOCK FALSE
