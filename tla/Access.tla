------------------------------- MODULE Access --------------------------------
(***************************************************************************)
(* Who may do what: accounts, tokens, SSH keys and permissions, the calls  *)
(* that are admitted by them, and the seeding of the admin account.        *)
(*                                                                         *)
(* Every statement on the database is one step.  A call looks its          *)
(* credential up, then reads the repository, then the permission, so that  *)
(* it decides on values of three different moments; a connection of SSH    *)
(* looks its key up once and serves any number of calls.  Rows are named   *)
(* by what is unique about them: a token by its secret, a key by its       *)
(* fingerprint, an account by its name (accounts are never deleted).       *)
(* Stamps of creation and last use, which only listings show, are left out.*)
(***************************************************************************)
EXTENDS Naturals, FiniteSets

CONSTANTS
  Users, Admin,     \* names of accounts, and the one that is seeded
  Repos, OwnerOf,   \* repositories and their owners
  Grantees, Granted,  \* bounds: whom operators make grants to, and of which roles
  KeyHolders, TokenHolders,  \* bounds: for whom they add keys and mint tokens
  Fingerprints,     \* SSH keys
  Secrets,          \* tokens that are drawn at random, each at most once
  AdminSecrets,     \* values that ADMIN_TOKEN takes
  Ops,              \* bound: what calls ask for
  Calls, Conns,     \* calls of the git servers, connections of SSH
  Operators,        \* calls of the control API
  TTL,              \* lfsTokenTTL
  MaxTime, MaxStarts,   \* bounds
  None

Roles == {"read", "write", "admin"}
GitOps == {"upload-pack", "receive-pack"}
LfsOps == {"download", "upload"}

ASSUME NameAssumption ==
  /\ Admin \in Users /\ Grantees \cup KeyHolders \cup TokenHolders \subseteq Users
  /\ Granted \subseteq Roles /\ OwnerOf \in [Repos -> Users]
  /\ Ops \subseteq GitOps \cup LfsOps
  /\ Secrets \cap AdminSecrets = {} /\ None \notin Users \cup Secrets \cup AdminSecrets \cup Conns
ASSUME BoundAssumption == TTL \in Nat /\ MaxTime \in Nat /\ MaxStarts \in Nat

Tokens == Secrets \cup AdminSecrets
Visibilities == {"public", "private"}
Times == 0 .. MaxTime + TTL

TokenRow == [user : Users, expires : Times \cup {None}]
\* A call of a git server: its account (None: anonymous) and the rights it
\* carries, its connection (None: HTTP), its request, the visibility it read.
Call == [user : Users \cup {None}, admin : BOOLEAN, conn : Conns \cup {None},
         repo : Repos, op : Ops, seen : Visibilities,
         at : {"named", "resolved", "allowed", "denied"}]
\* What was true at some moment since a call began: it was entitled, it was
\* not, the visibility of its repository differed from what it read.
Past == [could : BOOLEAN, lacked : BOOLEAN, moved : BOOLEAN]
Blank == [could |-> FALSE, lacked |-> FALSE, moved |-> FALSE]

ASSUME RowAssumption == None \notin TokenRow \cup Call \cup Roles \cup Times

VARIABLES
  users,       \* table users: absent (None), "plain" or "admin"
  tokens,      \* table tokens
  keys,        \* table ssh_keys: the account of each fingerprint
  grants,      \* table permissions
  visibility,  \* column of table repositories
  now,         \* the clock of the host
  boot,        \* where main stands
  secret,      \* ADMIN_TOKEN of this process
  collecting,  \* is the loop that collects expired tokens running?
  conns,       \* the account of each SSH connection
  calls,       \* where each call stands
  admitted,    \* calls of the control API that passed requireAdmin
  starts,      \* counts the starts, for the bound
  drawn,       \* history: the start in which each secret was drawn
  past         \* history: Past of each call

tables == <<users, tokens, keys, grants, visibility>>
process == <<boot, secret, collecting, starts>>
history == <<drawn, past>>
vars == <<tables, process, history, now, conns, calls, admitted>>

Init ==
  /\ users = [u \in Users |-> IF \E r \in Repos : OwnerOf[r] = u THEN "plain" ELSE None]
  /\ tokens = [h \in Tokens |-> None]
  /\ keys = [f \in Fingerprints |-> None]
  /\ grants = [x \in Users \X Repos |-> None]
  /\ visibility \in [Repos -> Visibilities]
  /\ now = 0 /\ boot = "down" /\ secret = None /\ collecting = FALSE
  /\ conns = [s \in Conns |-> None]
  /\ calls = [c \in Calls |-> None]
  /\ admitted = {}
  /\ starts = 0
  /\ drawn = [h \in Secrets |-> 0]
  /\ past = [c \in Calls |-> Blank]

Up == boot = "up"

-------------------------------------------------------------------------------
(* The statements on the tables.                                            *)

\* Faulty: the pragma foreign_keys is left out of the connection string.
NoForeignKeys(u) == TRUE

\* Foreign keys are enforced: a row's user_id names a user.
UserExists(u) == users[u] # None

\* The condition of GetUserByToken.
Live(h) == tokens[h] # None /\ (tokens[h].expires = None \/ tokens[h].expires > now)

UserByToken(h) == IF Live(h) THEN tokens[h].user ELSE None
UserByFingerprint(f) == keys[f]

\* token_hash is unique.
CreateToken(h, u, expires) ==
  /\ UserExists(u) /\ tokens[h] = None
  /\ tokens' = [tokens EXCEPT ![h] = [user |-> u, expires |-> expires]]

DeleteToken(h, u) ==
  /\ tokens[h] # None /\ tokens[h].user = u
  /\ tokens' = [tokens EXCEPT ![h] = None]

\* Faulty: nothing is deleted.
KeepTokensByUser(u) == tokens' = tokens

DeleteTokensByUser(u) ==
  tokens' = [h \in Tokens |-> IF tokens[h] # None /\ tokens[h].user = u THEN None ELSE tokens[h]]

\* The condition of DeleteExpiredTokens.
Expired(h) == tokens[h] # None /\ tokens[h].expires # None /\ tokens[h].expires <= now

DeleteExpiredTokens == tokens' = [h \in Tokens |-> IF Expired(h) THEN None ELSE tokens[h]]

\* Secrets are drawn at random; None: without expiry.
Mint(h, u, expires) ==
  drawn[h] = 0 /\ drawn' = [drawn EXCEPT ![h] = starts] /\ CreateToken(h, u, expires)

\* On conflict do nothing: the caller is told that the name is taken.
CreateUserRow(u) == users[u] = None /\ users' = [users EXCEPT ![u] = "plain"]

\* On conflict do update set is_admin = 1.
EnsureAdminUser == users' = [users EXCEPT ![Admin] = "admin"]

\* fingerprint is unique.
CreateKey(f, u) == UserExists(u) /\ keys[f] = None /\ keys' = [keys EXCEPT ![f] = u]
DeleteKey(f, u) == keys[f] = u /\ keys' = [keys EXCEPT ![f] = None]

\* On conflict do update: the latest role counts.
UpsertPermission(u, r, role) == UserExists(u) /\ grants' = [grants EXCEPT ![<<u, r>>] = role]
DeletePermission(u, r) == grants' = [grants EXCEPT ![<<u, r>>] = None]

-------------------------------------------------------------------------------
(* Roles.                                                                   *)

Level(role) ==
  CASE role = "read" -> 10 [] role = "write" -> 20 [] role = "admin" -> 30 [] OTHER -> 0

\* Faulty: any role is enough for any other.
AtLeastAny(role, other) == Level(role) > 0

AtLeast(role, other) == Level(role) >= Level(other)

\* Faulty: the lower of two roles.
MinRole(a, b) == IF Level(a) >= Level(b) THEN b ELSE a

MaxRole(a, b) == IF Level(a) >= Level(b) THEN a ELSE b

ValidRole(role) == Level(role) # 0
GrantedRole(u, r) == grants[<<u, r>>]

\* Faulty: every service asks for the role of a reader.
RequiredOfReaders(op) == "read"

Required(op) == IF op \in {"receive-pack", "upload"} THEN "write" ELSE "read"

\* The decision on a call: what the public may, and what the account may by
\* being an operator or the owner, or by its grant.
Authorized(call) ==
  LET public == IF call.seen = "public" THEN "read" ELSE None
      own == IF call.user = None THEN None
             ELSE IF call.admin \/ call.user = OwnerOf[call.repo] THEN "admin"
             ELSE GrantedRole(call.user, call.repo)
  IN AtLeast(MaxRole(public, own), Required(call.op))

\* Reference: is a call's account entitled to it in this state?
Entitled(call) ==
  \/ visibility[call.repo] = "public" /\ Required(call.op) = "read"
  \/ /\ call.user # None
     /\ \/ users[call.user] = "admin" \/ call.user = OwnerOf[call.repo]
        \/ /\ GrantedRole(call.user, call.repo) # None
           /\ Required(call.op) = "read" \/ GrantedRole(call.user, call.repo) \in {"write", "admin"}

Decided(c) == calls[c] # None /\ calls[c].at \in {"allowed", "denied"}

\* Notes, in the state reached, what the undecided calls could rely on.
Note ==
  past' = [c \in Calls |->
    IF calls'[c] = None \/ Decided(c) THEN past[c]
    ELSE LET before == IF calls[c] = None THEN Blank ELSE past[c]
         IN [could |-> before.could \/ Entitled(calls[c])',
             lacked |-> before.lacked \/ ~Entitled(calls[c])',
             moved |-> before.moved \/ (/\ calls'[c].at = "resolved"
                                        /\ visibility'[calls'[c].repo] # calls'[c].seen)]]

-------------------------------------------------------------------------------
(* Start and stop of the process.                                           *)

Start(s) ==
  /\ boot = "down" /\ starts < MaxStarts
  /\ boot' = IF s = None THEN "up" ELSE "ensure"
  /\ secret' = s /\ starts' = starts + 1 /\ collecting' = TRUE
  /\ UNCHANGED <<tables, history, now, conns, calls, admitted>>

Booting(step, next) ==
  /\ boot = step /\ boot' = next
  /\ UNCHANGED <<secret, collecting, starts, keys, grants, visibility, history,
                 now, conns, calls, admitted>>

\* SeedAdmin: three statements, and the process ends if one of them fails.
SeedUser == Booting("ensure", "wipe") /\ EnsureAdminUser /\ UNCHANGED tokens
SeedWipe == Booting("wipe", "seed") /\ DeleteTokensByUser(Admin) /\ UNCHANGED users
SeedToken == Booting("seed", "up") /\ CreateToken(secret, Admin, None) /\ UNCHANGED users

\* The process ends: a signal, log.Fatal, a crash.
Stop ==
  /\ boot # "down" /\ boot' = "down" /\ secret' = None
  /\ conns' = [s \in Conns |-> None] /\ calls' = [c \in Calls |-> None] /\ admitted' = {}
  /\ collecting' = FALSE /\ past' = [c \in Calls |-> Blank]
  /\ UNCHANGED <<tables, starts, drawn, now>>

Tick ==
  /\ now < MaxTime /\ now' = now + 1
  /\ UNCHANGED <<tables, process, history, conns, calls, admitted>>

-------------------------------------------------------------------------------
(* The loop that collects expired tokens.                                   *)

Collect ==
  /\ Up /\ collecting /\ DeleteExpiredTokens
  /\ UNCHANGED <<users, keys, grants, visibility, process, history, now, conns,
                 calls, admitted>>

\* Faulty: the loop returns when its statement fails.
ReturnsOnError == FALSE

\* An error is logged and the loop goes on.
GoesOnAfterError == collecting

CollectFails ==
  /\ Up /\ collecting /\ collecting' = GoesOnAfterError
  /\ UNCHANGED <<tables, boot, secret, starts, history, now, conns, calls, admitted>>

-------------------------------------------------------------------------------
(* Calls of the git servers.                                                *)

\* The account of a row of users, that of a call without a credential, and the
\* one a session gets back from its connection, which carries no admin right.
ToAccount(u) == [user |-> u, admin |-> users[u] = "admin"]
Anonymous == [user |-> None, admin |-> FALSE]
AccountFromPermissions(u) == [user |-> u, admin |-> FALSE]

Begin(c, account, conn, r, op) ==
  /\ Up /\ calls[c] = None
  /\ calls' = [calls EXCEPT ![c] =
       [user |-> account.user, admin |-> account.admin, conn |-> conn, repo |-> r, op |-> op,
        seen |-> "private", at |-> "named"]]
  /\ UNCHANGED <<tables, process, drawn, now, conns, admitted>> /\ Note

\* WithAccount: a token that is given must be good; none means anonymous.
HttpCall(c, h, r, op) ==
  /\ h # None => UserByToken(h) # None
  /\ Begin(c, IF h = None THEN Anonymous ELSE ToAccount(UserByToken(h)), None, r, op)

\* The callback of the handshake looks the key up.
Handshake(s, f) ==
  /\ Up /\ conns[s] = None /\ UserByFingerprint(f) # None
  /\ conns' = [conns EXCEPT ![s] = UserByFingerprint(f)]
  /\ UNCHANGED <<tables, process, history, now, calls, admitted>>

SshCall(c, s, r, op) ==
  conns[s] # None /\ Begin(c, AccountFromPermissions(conns[s]), s, r, op)

\* The connection goes away and its context is cancelled.
HangUp(s) ==
  /\ conns[s] # None /\ conns' = [conns EXCEPT ![s] = None]
  /\ calls' = [c \in Calls |-> IF calls[c] # None /\ calls[c].conn = s THEN None ELSE calls[c]]
  /\ past' = [c \in Calls |-> IF calls'[c] = None THEN Blank ELSE past[c]]
  /\ UNCHANGED <<tables, process, drawn, now, admitted>>

\* GetRepositoryByPath.
Resolve(c) ==
  /\ calls[c] # None /\ calls[c].at = "named"
  /\ calls' = [calls EXCEPT ![c] = [@ EXCEPT !.at = "resolved", !.seen = visibility[calls[c].repo]]]
  /\ UNCHANGED <<tables, process, history, now, conns, admitted>>

Decide(c) ==
  /\ calls[c] # None /\ calls[c].at = "resolved"
  /\ calls' = [calls EXCEPT ![c] =
       [@ EXCEPT !.at = IF Authorized(calls[c]) THEN "allowed" ELSE "denied"]]
  /\ UNCHANGED <<tables, process, history, now, conns, admitted>>

\* What is served is the business of other modules.
Finish(c) ==
  /\ Decided(c)
  /\ calls' = [calls EXCEPT ![c] = None] /\ past' = [past EXCEPT ![c] = Blank]
  /\ UNCHANGED <<tables, process, drawn, now, conns, admitted>>

\* git-lfs-authenticate answers with a token of its own.
MintForLfs(c, h) ==
  /\ calls[c] # None /\ calls[c].at = "allowed"
  /\ calls[c].conn # None /\ calls[c].op \in LfsOps
  /\ Mint(h, calls[c].user, now + TTL)
  /\ calls' = [calls EXCEPT ![c] = None] /\ past' = [past EXCEPT ![c] = Blank]
  /\ UNCHANGED <<users, keys, grants, visibility, process, now, conns, admitted>>

-------------------------------------------------------------------------------
(* Calls of the control API.                                                *)

\* requireAdmin.
Admit(o, h) ==
  /\ Up /\ o \notin admitted
  /\ UserByToken(h) # None /\ ToAccount(UserByToken(h)).admin
  /\ admitted' = admitted \cup {o}
  /\ UNCHANGED <<tables, process, history, now, conns, calls>>

Ends(o) ==
  /\ o \in admitted /\ admitted' = admitted \ {o}
  /\ UNCHANGED <<process, now, conns, calls>>

\* A reading or invalid request, or one whose statement fails or finds nothing.
Answer(o) == Ends(o) /\ UNCHANGED <<tables, history>>

CreateUser(o, u) ==
  Ends(o) /\ CreateUserRow(u) /\ UNCHANGED <<tokens, keys, grants, visibility, history>>
AddSSHKey(o, f, u) ==
  Ends(o) /\ CreateKey(f, u) /\ UNCHANGED <<users, tokens, grants, visibility, history>>
RemoveSSHKey(o, f, u) ==
  Ends(o) /\ DeleteKey(f, u) /\ UNCHANGED <<users, tokens, grants, visibility, history>>

\* The handler mints without expiry.
MintToken(o, h, u) ==
  /\ Ends(o) /\ Mint(h, u, None) /\ UNCHANGED <<users, keys, grants, visibility, past>>
RevokeToken(o, h, u) ==
  Ends(o) /\ DeleteToken(h, u) /\ UNCHANGED <<users, keys, grants, visibility, history>>
RevokeAllTokens(o, u) ==
  Ends(o) /\ DeleteTokensByUser(u) /\ UNCHANGED <<users, keys, grants, visibility, history>>

Grant(o, u, r, role) ==
  /\ Ends(o) /\ ValidRole(role) /\ UpsertPermission(u, r, role)
  /\ UNCHANGED <<users, tokens, keys, visibility, drawn>> /\ Note
Revoke(o, u, r) ==
  /\ Ends(o) /\ DeletePermission(u, r)
  /\ UNCHANGED <<users, tokens, keys, visibility, drawn>> /\ Note
SetVisibility(o, r, v) ==
  /\ Ends(o) /\ visibility' = [visibility EXCEPT ![r] = v]
  /\ UNCHANGED <<users, tokens, keys, grants, drawn>> /\ Note

-------------------------------------------------------------------------------
Next ==
  \/ \E s \in AdminSecrets \cup {None} : Start(s)
  \/ SeedUser \/ SeedWipe \/ SeedToken \/ Stop \/ Tick \/ Collect \/ CollectFails
  \/ \E c \in Calls, r \in Repos, op \in Ops :
       \/ \E h \in Tokens \cup {None} : HttpCall(c, h, r, op)
       \/ \E s \in Conns : SshCall(c, s, r, op)
  \/ \E s \in Conns : HangUp(s) \/ \E f \in Fingerprints : Handshake(s, f)
  \/ \E c \in Calls : Resolve(c) \/ Decide(c) \/ Finish(c) \/ \E h \in Secrets : MintForLfs(c, h)
  \/ \E o \in Operators :
       \/ \E h \in Tokens : Admit(o, h)
       \/ Answer(o)
       \/ \E u \in Users :
            \/ CreateUser(o, u) \/ RevokeAllTokens(o, u)
            \/ \E h \in Tokens : RevokeToken(o, h, u)
            \/ \E f \in Fingerprints : RemoveSSHKey(o, f, u)
       \/ \E u \in KeyHolders, f \in Fingerprints : AddSSHKey(o, f, u)
       \/ \E u \in TokenHolders, h \in Secrets : MintToken(o, h, u)
       \/ \E r \in Repos :
            \/ \E u \in Grantees : Revoke(o, u, r) \/ \E role \in Granted : Grant(o, u, r, role)
            \/ \E v \in Visibilities : SetVisibility(o, r, v)

\* The ticker of the collector fires for as long as the process runs.
Spec == Init /\ [][Next]_vars /\ WF_vars(Collect)

-------------------------------------------------------------------------------
\* Types: rows refer to accounts that exist, and so do calls and connections.
TypeOK ==
  /\ users \in [Users -> {None, "plain", "admin"}]
  /\ tokens \in [Tokens -> TokenRow \cup {None}]
  /\ \A h \in Tokens : tokens[h] # None => users[tokens[h].user] # None
  /\ keys \in [Fingerprints -> Users \cup {None}]
  /\ \A f \in Fingerprints : keys[f] # None => users[keys[f]] # None
  /\ grants \in [Users \X Repos -> Roles \cup {None}]
  /\ visibility \in [Repos -> Visibilities]
  /\ now \in 0 .. MaxTime
  /\ boot \in {"down", "ensure", "wipe", "seed", "up"}
  /\ secret \in AdminSecrets \cup {None} /\ (boot \in {"ensure", "wipe", "seed"} => secret # None)
  /\ collecting \in BOOLEAN
  /\ conns \in [Conns -> Users \cup {None}]
  /\ \A s \in Conns : conns[s] # None => users[conns[s]] # None
  /\ calls \in [Calls -> Call \cup {None}]
  /\ admitted \subseteq Operators
  /\ starts \in 0 .. MaxStarts
  /\ drawn \in [Secrets -> 0 .. MaxStarts]
  /\ past \in [Calls -> Past]

Verdict(c, v) == calls[c] # None /\ calls[c].at = v

\* A call that is allowed was entitled at one moment since it began, although
\* its account, the visibility and the grant are read at different moments
\* while operators change them (permissions/service.go:33).
AllowedWasEntitled == \A c \in Calls : Verdict(c, "allowed") => past[c].could

\* Was the account of a denied call without the right at some moment since it
\* began, or were visibility and grant changed between its reads?
Due(c) == past[c].lacked \/ past[c].moved

\* Nobody is turned away without a reason: operators have "implicit access to all
\* repos" (migrations/0001_users_and_repos.sql:7), "implicit admin on every repo"
\* (permissions/service.go:41).  Over SSH they have not: their identity loses the
\* admin right between the handshake and the session (gitssh/server.go:113, :465).
DenialsAreDue == \A c \in Calls : Verdict(c, "denied") => Due(c)

\* Every other denial is due: whoever is turned away over HTTP, or over SSH without
\* being an operator, lacked the right at a moment of the call, although account,
\* visibility and grant are read at different moments (permissions/service.go:33).
OtherDenialsAreDue ==
  \A c \in Calls :
    Verdict(c, "denied") /\ (calls[c].conn = None \/ users[calls[c].user] # "admin") => Due(c)

\* A push that gets as far as its events has an account: dispatchPush reads
\* it without asking (smart/handlers.go:212).
PushersAreKnown ==
  \A c \in Calls : Verdict(c, "allowed") /\ calls[c].op = "receive-pack" => calls[c].user # None

\* A process that was given an ADMIN_TOKEN accepts, for the admin account,
\* that token and those drawn since it started, and none of an earlier
\* configuration, wherever earlier starts were interrupted
\* (auth/service.go:52, README.md:61).
AdminTokensAreCurrent ==
  Up /\ secret # None =>
    \A h \in Tokens : UserByToken(h) = Admin =>
      h = secret \/ (h \in Secrets /\ drawn[h] = starts)

\* A token that is refused because of its age leaves the table, also when the
\* collector's statement failed before (auth/service.go:201).
ExpiredTokensGo ==
  \A h \in Secrets :
    (Up /\ tokens[h] # None /\ UserByToken(h) = None) ~> (~Up \/ tokens[h] = None)
===============================================================================
