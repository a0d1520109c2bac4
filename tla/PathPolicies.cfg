\* Pushes and API commits under path policies that change.
SPECIFICATION Spec
CONSTANTS
  small = small  big = big
  Paths <- MCPaths
  Patterns <- MCPatterns
  ClientTrees <- MCClientTrees
  Blobs = {small, big}
  Big = {big}
  MaxCommits = 3
  Refs = {main, dev}
  Pushes = {push}
  ApiCalls = {api}
  None = None
INVARIANTS NoBigBlobs
PROPERTIES BlockedContentIsOld
CONSTRAINTS BoundLines BoundHistory
SYMMETRY Symmetry
