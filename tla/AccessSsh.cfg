\* An operator's own call over SSH.
CONSTANTS
  owner = owner  r = r
  Users = {admin, owner, guest}
  Admin = admin
  Repos = {r}
  OwnerOf <- MCOwnerOf
  Grantees = {guest}
  KeyHolders = {owner, admin}
  TokenHolders = {guest, admin}
  Granted = {"write"}
  Fingerprints = {k}
  Secrets = {h}
  AdminSecrets = {s1, s2}
  Ops = {"receive-pack", "download"}
  Calls = {c}
  Conns = {n}
  Operators = {o}
  TTL = 1
  MaxTime = 1
  MaxStarts = 2
  None = None
SPECIFICATION Spec
\* The process may be stopped and its starts used up.
CHECK_DEADLOCK FALSE
INVARIANTS
  DenialsAreDue
