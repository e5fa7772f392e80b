SPECIFICATION Spec
CONSTANTS
  Chunks = 4
  Units <- MCUnits
  MaxTries = 2
  Splits <- MCSplits
  MaxEvents = 2
INVARIANTS
  ChunksAccounted
  ProgressAccounted
  SuccessIsComplete
  StaysBelowRejected
PROPERTY Returns
CHECK_DEADLOCK FALSE
