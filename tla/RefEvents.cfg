\* A push and a commit, with no failure of any kind.
CONSTANTS
  k1 = k1  k2 = k2  k3 = k3
  t1 = t1  t2 = t2
  main = main  dev = dev
  ssh = ssh  http = http  commit = commit  branch = branch  deletion = deletion
  Zero = Zero  Omitted = Omitted  None = None
  Refs = {main, dev}
  Head = main
  Commits = {k1, k2, k3}
  Trees = {t1, t2}
  Parent <- MCParent
  Tree <- MCTree
  Requests <- MCRequests
  InitRefs <- MCInitRefs
  InitObjects <- MCInitObjects
  Pushes = {ssh}
  HttpPushes = {}
  Committers = {commit}
  Creators = {}
  Deleters = {}
  Failing = {}
  Disconnects = FALSE
SPECIFICATION Spec
\* Every call may have been answered.
CHECK_DEADLOCK FALSE
INVARIANTS
  EventsAreMoves
