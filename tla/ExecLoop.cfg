\* Two tests contend for one token, before the loop and in it; the oracle queue
\* holds the captures of the first query and of all seeds, and no more.
SPECIFICATION Spec
CONSTANTS
  Literal = l1
  Seeds = {s1, s2}
  Children = {c1, c2}
  Tokens = {k1}
  Oracles = {o1, o2}
  CONCURRENCY_LIMIT = 2
  QUEUE_SIZE = 3
  RESET_EVERY = 2
  None = None
INVARIANTS
  TypeOK
  TokensConserved
  OwnCoverage
  HooksFiredOnce
  CapturesAccounted
  PillsComeLast
PROPERTIES
  Terminates
