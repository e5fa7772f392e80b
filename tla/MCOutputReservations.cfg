SPECIFICATION Spec
CONSTANTS
  Uri = {u1, u2}
  Torrent = {t1}
  Magnet = {t1}
  f = f
  f1 = f1
  f11 = f11
  linked = linked
  other = other
  kf = kf
  kf1 = kf1
  kf11 = kf11
  kother = kother
  dir1 = dir1
  dir2 = dir2
  a = a
  b = b
  Path <- MCPath
  Key <- MCKey
  KeyOf <- MCKeyOf
  Renamed <- MCRenamed
  Target = {f, other}
  Dir = {dir1, dir2}
  File = {a, b}
  Selection <- OneFile
  Layout <- MCLayout
  AutoRename = TRUE
  Overwrite = FALSE
  Continue = TRUE
  MaxRuns <- MCMaxRuns
  Added <- Pairs
  MaxRequests = 2
  NoPath = NoPath
  NoOwner = NoOwner
INVARIANTS
  ReservationInv
  UriWritersExclusive
  
SYMMETRY Swaps
CHECK_DEADLOCK FALSE
