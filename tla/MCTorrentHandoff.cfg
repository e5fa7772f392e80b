SPECIFICATION Spec
CONSTANTS
  f1 = f1
  f2 = f2
  File <- TwoFiles
  Length <- TwoLengths
  Setups <- MCSetups
  MaxActive = 2
  MaxRuns = 2
  MaxChanges = 1
INVARIANT ProgressAddsUp
PROPERTIES
  NeverHandedTwice
  CompletesSelection
  HandoffEnds
CHECK_DEADLOCK FALSE
