\* Two pushes and a branch creation, or a push, a commit and a deletion; clients
\* hang up or stall, git subprocesses fail or are killed.
CONSTANTS
  k1 = k1  k2 = k2  k3 = k3
  t1 = t1  t2 = t2
  main = main  dev = dev
  ssh = ssh  http = http  commit = commit  branch = branch  deletion = deletion
  Zero = Zero  Omitted = Omitted  None = None
  Refs = {main, dev}
  Head = main
  Commits = {k1, k2, k3}
  Trees = {t1, t2}
  Parent <- MCParent
  Tree <- MCTree
  Requests <- MCRequests
  InitRefs <- MCInitRefs
  InitObjects <- MCInitObjects
  Pushes = {ssh, http}
  HttpPushes = {http}
  Committers = {commit}
  Creators = {branch}
  Deleters = {deletion}
  Failing = {commit, deletion}
  Disconnects = TRUE
SPECIFICATION FairSpec
CONSTRAINT BoundTogether
INVARIANTS
  TypeOK
  WindowExcludesPushes
  QuietPushReportsItsMoves
  RefusedMovesNothing
  PinHonoured
  CommitExtendsHead
PROPERTIES
  DefaultBranchStays
  ImplementsAtomic
  CallsEnd
