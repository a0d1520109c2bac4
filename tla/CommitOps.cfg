\* Every request of up to four operations on six paths.
CONSTANTS
  h = h  b = b  at = at  q = q
  Paths <- MCPaths
  Blobs = {h, b, at, q}
  None = None
  Pointers = {q}
  PointerTo <- MCPointerTo
  AttrPath <- MCAttrPath
  Tracks <- MCTracks
  HeadTrees <- MCHeadTrees
  Blocked <- MCBlocked
  LfsEnabled = TRUE
  MaxOps = 4
SPECIFICATION Spec
INVARIANTS
  TypeOK
  ReplayIsHarmless
  BlockedPathsKeepContent
PROPERTIES
  MovesLoseNothing
