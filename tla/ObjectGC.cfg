\* Uploads, commits and git gc.
SPECIFICATION Spec
CONSTANTS
  x = x  y = y
  Repos <- MCRepos
  Blobs = {b1}
  Calls = {c1, c2}
  None = None
INVARIANTS CommittedBlobsStay
PROPERTIES GarbageGoes
