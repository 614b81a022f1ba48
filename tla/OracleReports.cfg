\* Two workers and a second run of the program.
SPECIFICATION Spec
CONSTANTS
  q1 = q1
  q2 = q2
  q3 = q3
  f1 = f1
  f2 = f2
  timeout = timeout
  asan = asan
  plain = plain
  Workers = {w1, w2}
  Queries <- MCQueries
  Forms <- MCForms
  Form <- MCForm
  Captures <- MCCaptures
  Timeout = timeout
  None = None
  MaxRuns = 2
SYMMETRY Symmetry
INVARIANTS
  TypeOK
  OneReportPerBug
  OnlyEarlierRunsCollide
  NoBugForgotten
