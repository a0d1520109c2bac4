\* Three calls on a disk, or on a bucket with its clients.
CONSTANTS
  a = a  b = b
  Oids = {a, b}
  SizeOf <- MCSizeOf
  Sizes = {1, 2}
  Calls = {c1, c2, c3}
  None = None
SPECIFICATION Spec
SYMMETRY MCCalls
CHECK_DEADLOCK FALSE
INVARIANTS
  TypeOK
  RegisteredUploadsAreWhole
  UploadsLeaveNoOrphans
  HonestObjectsAreWhole
  SuccessMeansConfirmed
  DownloadsAreHonest
PROPERTIES
  ConfirmedRowsAreKept
