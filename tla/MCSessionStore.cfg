SPECIFICATION Spec
CONSTANTS
  Handler = {h1, h2}
  Callback = {k1, k2}
  Closer = closer
  NoOne = noOne
  MaxVersion = 3
  MaxCrashes = 1
INVARIANTS
  CloseSaves
  ChangesOnTheirWay
PROPERTIES
  FileNeverGoesBack
  CloseEnds
CHECK_DEADLOCK FALSE
