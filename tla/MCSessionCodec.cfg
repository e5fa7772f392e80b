SPECIFICATION Spec
CONSTANTS
  Gid <- MCGid
  Key <- MCKey
  Item = {"x", "y"}
  Uri = {"u", "u v"}
  Spaced = {"u v"}
  Link <- MCLink
  Index = {1}
  MaxKeys = 2
  MaxItems = 2
  MaxUris = 1
  MaxDownloads = 2
  MaxFile = 19
  MaxTorrent = 2
  Layers <- MCLayers
  Crowd <- MCCrowd
INVARIANTS RefusalsExplained RoundTrip
CHECK_DEADLOCK FALSE
