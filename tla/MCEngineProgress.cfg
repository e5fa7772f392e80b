SPECIFICATION ProgressSpec
CONSTANTS
  Gid = {g1, g2}
  Incarnations = {i1}
  Download <- MCDownload
  GidOf <- MCGidOf
  Run = {r1, r2}
  NoDownload = NoDownload
  NoRun = NoRun
  MaxActiveVals = {1, 2}
  MaxResultVals = {0, 1}
  KeepVals = {TRUE, FALSE}
  Positions = {9}
  HandlerCancels = TRUE
  MaxCallers = 2
  MaxExiting = 1
  MaxCalls = 3
CHECK_DEADLOCK FALSE
INVARIANTS
  StoppedExact
  ResultLimit
PROPERTIES
  WaitingStarts
  CloseCompletes
