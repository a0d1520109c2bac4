\* Requests of up to four operations without policies.
CONSTANTS
  h = h  b = b  at = at  q = q
  Paths <- MCPaths
  Blobs = {h, b, at, q}
  None = None
  Pointers = {q}
  PointerTo <- MCPointerTo
  AttrPath <- MCAttrPath
  Tracks <- MCTracks
  HeadTrees <- MCHeadTrees
  Blocked <- MCNoneBlocked
  LfsEnabled = TRUE
  MaxOps = 4
SPECIFICATION Spec
INVARIANTS
  TreeIsInOrder
