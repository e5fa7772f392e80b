SPECIFICATION Spec
CONSTANTS
  Gid = {g1, g2}
  Incarnations = {i1, i2}
  Download <- MCDownload
  GidOf <- MCGidOf
  Run = {r1, r2}
  NoDownload = NoDownload
  NoRun = NoRun
  MaxActiveVals = {1, 2}
  MaxResultVals = {1}
  KeepVals = {TRUE}
  Positions <- MCPositions
  HandlerCancels = FALSE
  MaxCallers = 1
  MaxExiting = 1
SYMMETRY MCSymmetry
INVARIANT Inv
PROPERTIES
  LifecycleSpec
  StartsWithinLimit
  RunNeverPauses
