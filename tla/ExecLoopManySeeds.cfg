\* More seeds than the oracle queue has room for.
SPECIFICATION Spec
CONSTANTS
  Literal = l1
  Seeds = {s1, s2}
  Children = {c1, c2}
  Tokens = {k1, k2}
  Oracles = {o1}
  CONCURRENCY_LIMIT = 2
  QUEUE_SIZE = 2
  RESET_EVERY = 1
  None = None
CHECK_DEADLOCK FALSE
PROPERTIES
  CapturesAreTaken
