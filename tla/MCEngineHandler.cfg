SPECIFICATION Spec
CONSTANTS
  Gid = {g1}
  Incarnations = {i1}
  Download <- MCDownload
  GidOf <- MCGidOf
  Run = {r1}
  NoDownload = NoDownload
  NoRun = NoRun
  MaxActiveVals = {1}
  MaxResultVals = {1}
  KeepVals = {TRUE}
  Positions = {9}
  HandlerCancels = TRUE
  MaxCallers = 1
  MaxExiting = 1
SYMMETRY MCSymmetry
PROPERTIES
  RunErrorReported
