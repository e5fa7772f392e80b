SPECIFICATION Spec
CONSTANTS
  Size = 2
  Suffix = {0, 1, 2}
  Uris = 2
  Tries = {0, 1, 2}
  MaxNotFound = 2
  Opts <- AllOptions
  Existing <- MCExisting
  Changeable = FALSE
  MaxRuns = 2
INVARIANTS
  CompleteFile
  
  TriesUsed
PROPERTY CanceledRunEnds
CHECK_DEADLOCK FALSE
