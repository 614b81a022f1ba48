\* The seeds may all be refused.
SPECIFICATION Spec
CONSTANTS
  Literal = l1
  Seeds = {s1}
  Children = {c1, c2}
  Edges = {e1}
  Scores = {0}
  None = None
  MAX_DIVERSITY_WINDOW = 1
  CULL_AFTER = 1
  GC_AT = 20
  GC_MIN_ABSOLUTE = 1
INVARIANTS
  EmptyEngineIsHarmless
CHECK_DEADLOCK FALSE
