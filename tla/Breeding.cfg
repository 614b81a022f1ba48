\* Two groups of rules for each child, up to twice; children of up to two
\* statements that rules in up to two places of the forest have mutated are bred further.
SPECIFICATION Spec
CONSTANTS
  Outcomes <- MCOutcomes
  Nodes <- MCNodes
  Forests <- MCForests
  Batches <- MCBatches
  SHORT = 1
  MAX_DEPTH = 2
  CHOOSE_GROUPS = 2
  REPEATS <- MCRepeats
  MaxSize = 2
  MaxRules = 2
CONSTRAINT SmallChild
INVARIANTS
  TypeOK
  MutationsReachTheEngine
  RulesKeepTheirWord
