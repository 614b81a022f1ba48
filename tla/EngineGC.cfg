\* A window of one and a cull at the third pass, so that entries go.
SPECIFICATION Spec
CONSTANTS
  Literal = l1
  Seeds = {s1}
  Children = {c1, c2, c3, c4}
  Edges = {e1, e2}
  Scores = {0, 1}
  None = None
  MAX_DIVERSITY_WINDOW = 1
  CULL_AFTER = 2
  GC_AT = 20
  GC_MIN_ABSOLUTE = 1
SYMMETRY Symmetry
INVARIANTS
  TypeOK
  RecordsAreKept
  CorpusSpansCoverage
  OthersFollowCorpus
PROPERTIES
  NewCoverageIsKept
CHECK_DEADLOCK FALSE
