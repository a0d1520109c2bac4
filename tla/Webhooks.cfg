\* Two events, two workers, a channel of one, and a restart.
CONSTANTS
  e1 = e1  e2 = e2
  r1 = r1  r2 = r2
  Repos = {r1, r2}
  Urls = {u1, u2}
  Silent = {u2}
  Events = {e1, e2}
  RepoOf <- MCRepoOf
  Workers = {w1, w2}
  Capacity = 1
  Attempts = 2
  MaxId = 2
  MaxRestarts = 1
  QueryFails = TRUE
  Idle = Idle
  None = None
SPECIFICATION FairSpec
INVARIANTS
  TypeOK
  EventsConserved
  HandledReachesAll
  PostsAreWanted
PROPERTIES
  KeepsLedger
  EventsEnd
