----------------------------- MODULE AccessProofs -----------------------------
(***************************************************************************)
(* Theorems about Access, for any number of accounts, tokens, repositories,*)
(* calls, starts and steps of the clock.                                   *)
(***************************************************************************)
EXTENDS Access, TLAPS

USE DEF Up

-------------------------------------------------------------------------------
(* Roles.                                                                   *)

LEMMA Levels ==
  /\ Level("read") = 10 /\ Level("write") = 20 /\ Level("admin") = 30 /\ Level(None) = 0
  /\ \A role \in Roles \cup {None} : Level(role) \in Nat
  BY RowAssumption DEF Level, Roles

\* The higher of two roles is enough where one of them is.
LEMMA MaxRoleSuffices ==
  ASSUME NEW a \in Roles \cup {None}, NEW b \in Roles \cup {None}, NEW role \in Roles
  PROVE  AtLeast(MaxRole(a, b), role) <=> AtLeast(a, role) \/ AtLeast(b, role)
  BY Levels DEF AtLeast, MaxRole

\* Where a grant is read, roles are compared as the reference says.
LEMMA GrantSuffices ==
  ASSUME NEW g \in Roles \cup {None}, NEW op
  PROVE  /\ AtLeast("admin", Required(op))
         /\ AtLeast(g, Required(op)) <=>
              g # None /\ (Required(op) = "read" \/ g \in {"write", "admin"})
         /\ Required(op) \in Roles
  BY Levels, RowAssumption DEF AtLeast, Required, Roles

\* The decision on a call, without roles.
Permitted(call) ==
  \/ call.seen = "public" /\ Required(call.op) = "read"
  \/ /\ call.user # None
     /\ \/ call.admin \/ call.user = OwnerOf[call.repo]
        \/ /\ GrantedRole(call.user, call.repo) # None
           /\ Required(call.op) = "read" \/ GrantedRole(call.user, call.repo) \in {"write", "admin"}

LEMMA AuthorizedIsPermitted ==
  ASSUME TypeOK, NEW call \in Call
  PROVE  Authorized(call) <=> Permitted(call)
  <1> DEFINE public == IF call.seen = "public" THEN "read" ELSE None
             own == IF call.user = None THEN None
                    ELSE IF call.admin \/ call.user = OwnerOf[call.repo] THEN "admin"
                    ELSE GrantedRole(call.user, call.repo)
  <1>1. call.user # None => GrantedRole(call.user, call.repo) \in Roles \cup {None}
    BY DEF TypeOK, Call, GrantedRole
  <1>2. public \in Roles \cup {None} /\ own \in Roles \cup {None}
    BY <1>1 DEF Roles
  <1>3. Required(call.op) \in Roles
    BY GrantSuffices
  <1>4. Authorized(call) <=> AtLeast(public, Required(call.op)) \/ AtLeast(own, Required(call.op))
    <2>1. Authorized(call) <=> AtLeast(MaxRole(public, own), Required(call.op))
      BY DEF Authorized
    <2> HIDE DEF public, own
    <2> QED BY <2>1, <1>2, <1>3, MaxRoleSuffices
  <1>5. AtLeast(public, Required(call.op)) <=> call.seen = "public" /\ Required(call.op) = "read"
    BY GrantSuffices, RowAssumption DEF Roles
  <1>6. AtLeast(own, Required(call.op)) <=>
          /\ call.user # None
          /\ \/ call.admin \/ call.user = OwnerOf[call.repo]
             \/ /\ GrantedRole(call.user, call.repo) # None
                /\ Required(call.op) = "read" \/ GrantedRole(call.user, call.repo) \in {"write", "admin"}
    <2>1. CASE call.user = None
      BY <2>1, GrantSuffices
    <2>2. CASE call.user # None /\ (call.admin \/ call.user = OwnerOf[call.repo])
      BY <2>2, GrantSuffices
    <2>3. CASE call.user # None /\ ~(call.admin \/ call.user = OwnerOf[call.repo])
      <3>1. own = GrantedRole(call.user, call.repo)
        BY <2>3 DEF GrantedRole
      <3> HIDE DEF own
      <3> QED BY <2>3, <3>1, <1>2, GrantSuffices
    <2> QED BY <2>1, <2>2, <2>3
  <1> HIDE DEF public, own
  <1> QED BY <1>4, <1>5, <1>6 DEF Permitted

-------------------------------------------------------------------------------
(* The inductive invariant.                                                 *)

\* Only a process that is up serves anybody.
ServeInv == boot # "up" => admitted = {} /\ \A c \in Calls : calls[c] = None

\* The admin's tokens, from the wipe on.
SeedInv ==
  /\ boot = "seed" => \A h \in Tokens : tokens[h] # None => tokens[h].user # Admin
  /\ boot = "up" /\ secret # None =>
       \A h \in Tokens : tokens[h] # None /\ tokens[h].user = Admin =>
         h = secret \/ (h \in Secrets /\ drawn[h] = starts)

\* The account of a call is that of a row, but for the admin right over SSH.
AccountInv ==
  \A c \in Calls : calls[c] # None =>
    /\ calls[c].conn # None => calls[c].user # None
    /\ calls[c].user # None =>
         /\ users[calls[c].user] # None
         /\ calls[c].admin => users[calls[c].user] = "admin"
         /\ calls[c].conn = None /\ users[calls[c].user] = "admin" => calls[c].admin

-------------------------------------------------------------------------------
(* Types.                                                                   *)

LEMMA CreateTokenType ==
  ASSUME TypeOK, NEW h \in Tokens, NEW u \in Users, NEW e \in Times \cup {None},
         CreateToken(h, u, e)
  PROVE  /\ tokens' \in [Tokens -> TokenRow \cup {None}]
         /\ \A k \in Tokens : tokens'[k] # None => users[tokens'[k].user] # None
  <1>1. [user |-> u, expires |-> e] \in TokenRow
    BY DEF TokenRow
  <1> QED BY <1>1 DEF CreateToken, UserExists, TypeOK

\* Tokens that go, in any number.
LEMMA FewerTokensType ==
  ASSUME TypeOK,
         \/ \E h \in Tokens, u \in Users : DeleteToken(h, u)
         \/ \E u \in Users : DeleteTokensByUser(u)
         \/ DeleteExpiredTokens
         \/ UNCHANGED tokens
  PROVE  /\ tokens' \in [Tokens -> TokenRow \cup {None}]
         /\ \A h \in Tokens : tokens'[h] \in {tokens[h], None}
  BY DEF DeleteToken, DeleteTokensByUser, DeleteExpiredTokens, TypeOK

\* Calls that go, in any number.
CallsGo ==
  /\ calls' \in [Calls -> Call \cup {None}] /\ past' \in [Calls -> Past]
  /\ \A c \in Calls : calls'[c] # None => calls'[c] = calls[c] /\ past'[c] = past[c]

LEMMA BlankType == Blank \in Past
  BY DEF Blank, Past

LEMMA CallsGoTypes ==
  ASSUME TypeOK
  PROVE  /\ \A c \in Calls :
              calls' = [calls EXCEPT ![c] = None] /\ past' = [past EXCEPT ![c] = Blank] => CallsGo
         /\ calls' = [c \in Calls |-> None] /\ past' = [c \in Calls |-> Blank] => CallsGo
         /\ \A s \in Conns :
              /\ calls' = [c \in Calls |-> IF calls[c] # None /\ calls[c].conn = s THEN None ELSE calls[c]]
              /\ past' = [c \in Calls |-> IF calls'[c] = None THEN Blank ELSE past[c]]
              => CallsGo
         /\ UNCHANGED <<calls, past>> => CallsGo
  BY BlankType DEF CallsGo, TypeOK

\* What Note writes.
LEMMA NoteType ==
  ASSUME TypeOK, Note
  PROVE  past' \in [Calls -> Past]
  <1>1. \A could, lacked, moved \in BOOLEAN :
          [could |-> could, lacked |-> lacked, moved |-> moved] \in Past
    BY DEF Past
  <1> SUFFICES ASSUME NEW c \in Calls, ~(calls'[c] = None \/ Decided(c))
               PROVE  LET before == IF calls[c] = None THEN Blank ELSE past[c]
                      IN [could |-> before.could \/ Entitled(calls[c])',
                          lacked |-> before.lacked \/ ~Entitled(calls[c])',
                          moved |-> before.moved \/ (/\ calls'[c].at = "resolved"
                                                     /\ visibility'[calls'[c].repo] # calls'[c].seen)]
                         \in Past
    BY DEF Note, TypeOK
  <1> QED BY <1>1

\* What Note adds to the history of a call that is undecided.
LEMMA NoteMeans ==
  ASSUME TypeOK, Note, NEW c \in Calls, calls'[c] # None
  PROVE  /\ Decided(c) => past'[c] = past[c]
         /\ ~Decided(c) =>
              /\ past'[c].could <=> (calls[c] # None /\ past[c].could) \/ Entitled(calls[c])'
              /\ past'[c].lacked <=> (calls[c] # None /\ past[c].lacked) \/ ~Entitled(calls[c])'
              /\ past'[c].moved <=> \/ calls[c] # None /\ past[c].moved
                                    \/ /\ calls'[c].at = "resolved"
                                       /\ visibility'[calls'[c].repo] # calls'[c].seen
  <1>1. Decided(c) => past'[c] = past[c]
    BY DEF Note
  <1>2. ASSUME ~Decided(c)
        PROVE  LET before == IF calls[c] = None THEN Blank ELSE past[c]
               IN /\ past'[c].could = (before.could \/ Entitled(calls[c])')
                  /\ past'[c].lacked = (before.lacked \/ ~Entitled(calls[c])')
                  /\ past'[c].moved = (before.moved \/ (/\ calls'[c].at = "resolved"
                                                        /\ visibility'[calls'[c].repo] # calls'[c].seen))
    BY <1>2 DEF Note
  <1>3. Blank.could = FALSE /\ Blank.lacked = FALSE /\ Blank.moved = FALSE
    BY DEF Blank
  <1>4. CASE calls[c] = None
    BY <1>1, <1>2, <1>3, <1>4, Zenon
  <1>5. CASE calls[c] # None
    BY <1>1, <1>2, <1>5, Zenon
  <1> QED BY <1>4, <1>5

-------------------------------------------------------------------------------
(* Calls of the git servers.                                                *)

\* The history of a call covers what it has read and what is so now.
PastInv ==
  \A c \in Calls : calls[c] # None =>
    /\ calls[c].at \in {"named", "resolved"} =>
         /\ Entitled(calls[c]) => past[c].could
         /\ Entitled(calls[c]) \/ past[c].lacked
    /\ calls[c].at = "resolved" =>
         /\ calls[c].seen = "public" /\ Required(calls[c].op) = "read" => past[c].could
         /\ visibility[calls[c].repo] = calls[c].seen \/ past[c].moved

GitInv == AccountInv /\ PastInv /\ AllowedWasEntitled /\ OtherDenialsAreDue /\ PushersAreKnown

\* Steps that change nothing a decision reads.
LEMMA QuietGit ==
  ASSUME TypeOK, GitInv, CallsGo, UNCHANGED <<grants, visibility>>,
         \A u \in Users : /\ users'[u] = "admin" <=> users[u] = "admin"
                          /\ users[u] # None => users'[u] # None
  PROVE  GitInv'
  <1>1. \A c \in Calls : calls[c] # None => calls[c].user \in Users \cup {None}
    BY DEF TypeOK, Call
  <1>2. \A c \in Calls : calls'[c] # None => (Entitled(calls[c])' <=> Entitled(calls[c]))
    BY <1>1 DEF CallsGo, Entitled, GrantedRole
  <1>3. AccountInv'
    BY <1>1 DEF GitInv, AccountInv, CallsGo
  <1>4. PastInv'
    BY <1>2 DEF GitInv, PastInv, CallsGo
  <1>5. AllowedWasEntitled' /\ PushersAreKnown'
    BY DEF GitInv, AllowedWasEntitled, PushersAreKnown, Verdict, CallsGo
  <1>6. OtherDenialsAreDue'
    BY <1>1 DEF GitInv, AccountInv, OtherDenialsAreDue, Due, Verdict, CallsGo
  <1> QED BY <1>3, <1>4, <1>5, <1>6 DEF GitInv

\* Grants and visibility change, and every undecided call takes note.
LEMMA NotedGit ==
  ASSUME TypeOK, GitInv, UNCHANGED <<calls, users>>, Note
  PROVE  GitInv'
  <1>1. AccountInv'
    BY DEF GitInv, AccountInv
  <1>2. \A c \in Calls : calls[c] # None =>
          \/ calls[c].at \in {"named", "resolved"} /\ ~Decided(c)
          \/ calls[c].at \in {"allowed", "denied"} /\ Decided(c)
    BY DEF TypeOK, Call, Decided
  <1>3. PastInv'
    BY <1>2, NoteMeans DEF GitInv, PastInv
  <1>4. \A c \in Calls : Decided(c) => past'[c] = past[c]
    BY NoteMeans DEF Decided
  <1>5. AllowedWasEntitled' /\ OtherDenialsAreDue' /\ PushersAreKnown'
    BY <1>2, <1>4 DEF GitInv, AllowedWasEntitled, OtherDenialsAreDue, Due, PushersAreKnown, Verdict, Decided
  <1> QED BY <1>1, <1>3, <1>5 DEF GitInv

\* A call begins.
LEMMA BeginGit ==
  ASSUME TypeOK, GitInv, NEW c \in Calls, NEW account, NEW conn, NEW r \in Repos, NEW op \in Ops,
         account.user \in Users \cup {None}, account.admin \in BOOLEAN,
         conn \in Conns \cup {None}, conn # None => account.user # None,
         account.user # None => users[account.user] # None,
         account.admin => users[account.user] = "admin",
         conn = None /\ account.user # None /\ users[account.user] = "admin" => account.admin,
         Begin(c, account, conn, r, op)
  PROVE  /\ calls' \in [Calls -> Call \cup {None}] /\ past' \in [Calls -> Past]
         /\ GitInv'
  <1> DEFINE new == [user |-> account.user, admin |-> account.admin, conn |-> conn, repo |-> r,
                     op |-> op, seen |-> "private", at |-> "named"]
  <1>1. /\ new \in Call /\ new.user = account.user /\ new.conn = conn
        /\ new.at = "named" /\ new.seen = "private"
    BY DEF Call, Visibilities
  <1>2. new.admin = account.admin
    OBVIOUS
  <1>3. /\ calls[c] = None /\ calls' = [calls EXCEPT ![c] = new] /\ Note
        /\ UNCHANGED <<users, grants, visibility>>
    BY DEF Begin, tables
  <1> HIDE DEF new
  <1>4. calls'[c] = new /\ \A d \in Calls : d # c => calls'[d] = calls[d]
    BY <1>3 DEF TypeOK
  <1>5. new # None
    BY <1>1, RowAssumption
  <1>6. calls' \in [Calls -> Call \cup {None}]
    BY <1>1, <1>3 DEF TypeOK
  <1>7. past' \in [Calls -> Past]
    BY <1>3, NoteType
  <1>8. AccountInv'
    BY <1>1, <1>2, <1>3, <1>4 DEF GitInv, AccountInv
  <1>9. ~Decided(c) /\ \A d \in Calls : calls[d] # None =>
          \/ calls[d].at \in {"named", "resolved"} /\ ~Decided(d)
          \/ calls[d].at \in {"allowed", "denied"} /\ Decided(d)
    BY <1>3 DEF TypeOK, Call, Decided
  <1>10. PastInv'
    <2> SUFFICES ASSUME NEW d \in Calls, calls'[d] # None
                 PROVE  /\ calls'[d].at \in {"named", "resolved"} =>
                             /\ Entitled(calls[d])' => past'[d].could
                             /\ Entitled(calls[d])' \/ past'[d].lacked
                        /\ calls'[d].at = "resolved" =>
                             /\ calls'[d].seen = "public" /\ Required(calls'[d].op) = "read" => past'[d].could
                             /\ visibility'[calls'[d].repo] = calls'[d].seen \/ past'[d].moved
      BY DEF PastInv
    <2>1. CASE d = c
      BY <2>1, <1>1, <1>3, <1>4, <1>9, NoteMeans
    <2>2. CASE d # c
      BY <2>2, <1>3, <1>4, <1>9, NoteMeans DEF GitInv, PastInv
    <2> QED BY <2>1, <2>2
  <1>11. \A d \in Calls : Decided(d) => past'[d] = past[d]
    BY <1>3, <1>4, <1>9, NoteMeans DEF Decided
  <1>12. AllowedWasEntitled' /\ OtherDenialsAreDue' /\ PushersAreKnown'
    BY <1>1, <1>3, <1>4, <1>11
    DEF GitInv, AllowedWasEntitled, OtherDenialsAreDue, Due, PushersAreKnown, Verdict, Decided
  <1> QED BY <1>6, <1>7, <1>8, <1>10, <1>12 DEF GitInv

\* A call reads its repository.
LEMMA ResolveGit ==
  ASSUME TypeOK, GitInv, NEW c \in Calls, Resolve(c)
  PROVE  calls' \in [Calls -> Call \cup {None}] /\ GitInv'
  <1> DEFINE new == [calls[c] EXCEPT !.at = "resolved", !.seen = visibility[calls[c].repo]]
  <1>1. calls[c] \in Call /\ calls[c].at = "named" /\ visibility[calls[c].repo] \in Visibilities
    BY DEF Resolve, TypeOK, Call
  <1>2. /\ new \in Call /\ new.at = "resolved" /\ new.seen = visibility[calls[c].repo]
        /\ new.user = calls[c].user /\ new.conn = calls[c].conn
        /\ new.repo = calls[c].repo /\ new.op = calls[c].op /\ new.admin = calls[c].admin
    BY <1>1 DEF Call
  <1>3. /\ calls' = [calls EXCEPT ![c] = new]
        /\ UNCHANGED <<users, grants, visibility, past>>
    BY DEF Resolve, tables, history
  <1> HIDE DEF new
  <1>4. calls'[c] = new /\ \A d \in Calls : d # c => calls'[d] = calls[d]
    BY <1>3 DEF TypeOK
  <1>5. calls' \in [Calls -> Call \cup {None}] /\ calls[c] # None
    BY <1>1, <1>2, <1>3, RowAssumption DEF TypeOK
  <1>6. \A d \in Calls : Entitled(calls[d])' <=> Entitled(calls[d])
    BY <1>2, <1>3, <1>4 DEF Entitled, GrantedRole
  <1>7. AccountInv'
    BY <1>2, <1>3, <1>4, <1>5 DEF GitInv, AccountInv
  <1>8. Entitled(calls[c]) => past[c].could
    BY <1>1, <1>5 DEF GitInv, PastInv
  <1>9. visibility[calls[c].repo] = "public" /\ Required(calls[c].op) = "read" => past[c].could
    BY <1>8 DEF Entitled
  <1>10. PastInv'
    BY <1>1, <1>2, <1>3, <1>4, <1>5, <1>6, <1>9 DEF GitInv, PastInv
  <1>11. AllowedWasEntitled' /\ OtherDenialsAreDue' /\ PushersAreKnown'
    BY <1>2, <1>3, <1>4 DEF GitInv, AllowedWasEntitled, OtherDenialsAreDue, Due, PushersAreKnown, Verdict
  <1> QED BY <1>5, <1>7, <1>10, <1>11 DEF GitInv

\* A call is decided on what it has read and on the grant there is now.
LEMMA DecideGit ==
  ASSUME TypeOK, GitInv, NEW c \in Calls, Decide(c)
  PROVE  calls' \in [Calls -> Call \cup {None}] /\ GitInv'
  <1> DEFINE new == [calls[c] EXCEPT !.at = IF Authorized(calls[c]) THEN "allowed" ELSE "denied"]
  <1>1. calls[c] \in Call /\ calls[c].at = "resolved" /\ calls[c] # None
    BY DEF Decide, TypeOK
  <1>2. /\ new \in Call /\ new.at = IF Permitted(calls[c]) THEN "allowed" ELSE "denied"
        /\ new.user = calls[c].user /\ new.conn = calls[c].conn
        /\ new.repo = calls[c].repo /\ new.op = calls[c].op /\ new.admin = calls[c].admin
    <2>1. \A at \in {"allowed", "denied"} : LET k == [calls[c] EXCEPT !.at = at]
            IN /\ k \in Call /\ k.at = at /\ k.user = calls[c].user /\ k.conn = calls[c].conn
               /\ k.repo = calls[c].repo /\ k.op = calls[c].op /\ k.admin = calls[c].admin
      BY <1>1 DEF Call
    <2>2. Authorized(calls[c]) <=> Permitted(calls[c])
      BY <1>1, AuthorizedIsPermitted
    <2> QED BY <2>1, <2>2
  <1>3. calls' = [calls EXCEPT ![c] = new] /\ UNCHANGED <<users, grants, visibility, past>>
    BY DEF Decide, tables, history
  <1> HIDE DEF new
  <1>4. calls'[c] = new /\ \A d \in Calls : d # c => calls'[d] = calls[d]
    BY <1>3 DEF TypeOK
  <1>5. calls' \in [Calls -> Call \cup {None}]
    BY <1>2, <1>3 DEF TypeOK
  <1>6. AccountInv'
    BY <1>1, <1>2, <1>3, <1>4 DEF GitInv, AccountInv
  <1>7. PastInv'
    <2>1. \A d \in Calls : Entitled(calls[d])' <=> Entitled(calls[d])
      BY <1>2, <1>3, <1>4 DEF Entitled, GrantedRole
    <2> QED BY <2>1, <1>2, <1>3, <1>4 DEF GitInv, PastInv
  <1>8. /\ Entitled(calls[c]) => past[c].could
        /\ Entitled(calls[c]) \/ past[c].lacked
        /\ calls[c].seen = "public" /\ Required(calls[c].op) = "read" => past[c].could
        /\ visibility[calls[c].repo] = calls[c].seen \/ past[c].moved
    BY <1>1 DEF GitInv, PastInv
  <1>9. Permitted(calls[c]) => past[c].could
    BY <1>1, <1>8 DEF Permitted, Entitled, GitInv, AccountInv
  <1>10. ~Permitted(calls[c]) =>
           \/ past[c].lacked \/ past[c].moved
           \/ calls[c].conn # None /\ users[calls[c].user] = "admin"
    BY <1>1, <1>8 DEF Permitted, Entitled, GitInv, AccountInv
  <1>11. Permitted(calls[c]) /\ calls[c].op = "receive-pack" => calls[c].user # None
    BY DEF Permitted, Required
  <1>12. AllowedWasEntitled'
    BY <1>2, <1>3, <1>4, <1>9 DEF GitInv, AllowedWasEntitled, Verdict
  <1>13. OtherDenialsAreDue'
    BY <1>2, <1>3, <1>4, <1>10 DEF GitInv, OtherDenialsAreDue, Due, Verdict
  <1>14. PushersAreKnown'
    BY <1>2, <1>3, <1>4, <1>11 DEF GitInv, PushersAreKnown, Verdict
  <1> QED BY <1>5, <1>6, <1>7, <1>12, <1>13, <1>14 DEF GitInv

-------------------------------------------------------------------------------
(* Steps.                                                                   *)

Inv == TypeOK /\ ServeInv /\ SeedInv /\ GitInv

LEMMA InitInv == Init => Inv
  <1>1. ASSUME Init PROVE TypeOK
    <2>1. /\ users \in [Users -> {None, "plain", "admin"}]
          /\ grants \in [Users \X Repos -> Roles \cup {None}]
          /\ visibility \in [Repos -> Visibilities] /\ past \in [Calls -> Past]
      BY <1>1, BlankType DEF Init
    <2>2. now \in 0 .. MaxTime /\ starts \in 0 .. MaxStarts /\ drawn \in [Secrets -> 0 .. MaxStarts]
      BY <1>1, BoundAssumption DEF Init
    <2> QED BY <1>1, <2>1, <2>2 DEF Init, TypeOK
  <1> QED BY <1>1
  DEF Init, Inv, ServeInv, SeedInv, GitInv, AccountInv, PastInv, AllowedWasEntitled,
      OtherDenialsAreDue, Due, PushersAreKnown, Verdict, Visibilities, Roles

\* Start, seeding, stop, the clock and the collector.
LEMMA BootInv ==
  ASSUME Inv,
         \/ \E s \in AdminSecrets \cup {None} : Start(s)
         \/ SeedUser \/ SeedWipe \/ SeedToken \/ Stop \/ Tick \/ Collect \/ CollectFails
  PROVE  Inv'
  <1> USE DEF Inv, tables, process, history
  <1>1. CASE \E s \in AdminSecrets \cup {None} : Start(s)
    <2>1. TypeOK'
      BY <1>1, BoundAssumption DEF Start, TypeOK
    <2>2. GitInv'
      BY <1>1, CallsGoTypes, QuietGit DEF Start
    <2> QED BY <1>1, <2>1, <2>2 DEF Start, ServeInv, SeedInv
  <1>2. CASE SeedUser
    <2>1. TypeOK'
      BY <1>2, NameAssumption, RowAssumption DEF SeedUser, Booting, EnsureAdminUser, TypeOK, Roles
    <2>2. \A c \in Calls : calls'[c] = None
      BY <1>2 DEF SeedUser, Booting, ServeInv
    <2>3. GitInv'
      BY <2>2 DEF GitInv, AccountInv, PastInv, AllowedWasEntitled, OtherDenialsAreDue, Due, PushersAreKnown, Verdict
    <2> QED BY <1>2, <2>1, <2>3 DEF SeedUser, Booting, ServeInv, SeedInv
  <1>3. CASE SeedWipe
    <2>1. /\ tokens' \in [Tokens -> TokenRow \cup {None}]
          /\ \A h \in Tokens : tokens'[h] \in {tokens[h], None}
      BY <1>3, NameAssumption, FewerTokensType DEF SeedWipe
    <2>2. TypeOK'
      BY <1>3, <2>1 DEF SeedWipe, Booting, TypeOK
    <2>3. GitInv'
      BY <1>3, CallsGoTypes, QuietGit DEF SeedWipe, Booting
    <2>4. SeedInv'
      BY <1>3 DEF SeedWipe, Booting, DeleteTokensByUser, SeedInv, TypeOK
    <2> QED BY <1>3, <2>2, <2>3, <2>4 DEF SeedWipe, Booting, ServeInv
  <1>4. CASE SeedToken
    <2>1. secret \in Tokens /\ Admin \in Users /\ None \in Times \cup {None}
      BY <1>4, NameAssumption DEF SeedToken, Booting, TypeOK, Tokens
    <2>2. /\ tokens' \in [Tokens -> TokenRow \cup {None}]
          /\ \A k \in Tokens : tokens'[k] # None => users[tokens'[k].user] # None
      BY <1>4, <2>1, CreateTokenType DEF SeedToken
    <2>3. TypeOK'
      BY <1>4, <2>2 DEF SeedToken, Booting, TypeOK
    <2>4. GitInv'
      BY <1>4, CallsGoTypes, QuietGit DEF SeedToken, Booting
    <2>5. SeedInv'
      BY <1>4, <2>1 DEF SeedToken, Booting, CreateToken, SeedInv, TypeOK
    <2> QED BY <1>4, <2>3, <2>4, <2>5 DEF SeedToken, Booting, ServeInv
  <1>5. CASE Stop
    <2>1. CallsGo
      BY <1>5, CallsGoTypes DEF Stop
    <2>2. TypeOK'
      BY <1>5, <2>1, NameAssumption DEF Stop, TypeOK, CallsGo
    <2>3. GitInv'
      BY <1>5, <2>1, QuietGit DEF Stop
    <2> QED BY <1>5, <2>2, <2>3 DEF Stop, ServeInv, SeedInv
  <1>6. CASE Tick
    <2>1. TypeOK'
      BY <1>6, BoundAssumption DEF Tick, TypeOK
    <2>2. GitInv'
      BY <1>6, CallsGoTypes, QuietGit DEF Tick
    <2> QED BY <1>6, <2>1, <2>2 DEF Tick, ServeInv, SeedInv
  <1>7. CASE Collect \/ CollectFails
    <2>1. /\ tokens' \in [Tokens -> TokenRow \cup {None}]
          /\ \A h \in Tokens : tokens'[h] \in {tokens[h], None}
      BY <1>7, FewerTokensType DEF Collect, CollectFails
    <2>2. TypeOK'
      BY <1>7, <2>1 DEF Collect, CollectFails, GoesOnAfterError, TypeOK
    <2>3. GitInv'
      BY <1>7, CallsGoTypes, QuietGit DEF Collect, CollectFails
    <2>4. SeedInv'
      BY <1>7, <2>1 DEF Collect, CollectFails, SeedInv
    <2> QED BY <1>7, <2>2, <2>3, <2>4 DEF Collect, CollectFails, ServeInv
  <1> QED BY <1>1, <1>2, <1>3, <1>4, <1>5, <1>6, <1>7

\* A token is drawn while the process is up.
LEMMA MintInv ==
  ASSUME Inv, NEW h \in Secrets, NEW u \in Users, NEW e \in Times \cup {None}, Mint(h, u, e),
         boot = "up", UNCHANGED <<boot, secret, starts>>
  PROVE  /\ tokens' \in [Tokens -> TokenRow \cup {None}]
         /\ \A k \in Tokens : tokens'[k] # None => users[tokens'[k].user] # None
         /\ drawn' \in [Secrets -> 0 .. MaxStarts]
         /\ SeedInv'
  <1>1. h \in Tokens /\ CreateToken(h, u, e)
    BY DEF Mint, Tokens
  <1>2. /\ tokens' \in [Tokens -> TokenRow \cup {None}]
        /\ \A k \in Tokens : tokens'[k] # None => users[tokens'[k].user] # None
    BY <1>1, CreateTokenType DEF Inv
  <1>3. drawn' \in [Secrets -> 0 .. MaxStarts] /\ drawn'[h] = starts
        /\ \A k \in Secrets : k # h => drawn'[k] = drawn[k]
    BY DEF Mint, Inv, TypeOK
  <1>4. \A k \in Tokens : k # h => tokens'[k] = tokens[k]
    BY <1>1 DEF CreateToken, Inv, TypeOK
  <1> QED BY <1>2, <1>3, <1>4 DEF Inv, SeedInv

\* Calls of the git servers.
LEMMA ServeStepInv ==
  ASSUME Inv,
         \/ \E c \in Calls, r \in Repos, op \in Ops :
              \/ \E h \in Tokens \cup {None} : HttpCall(c, h, r, op)
              \/ \E s \in Conns : SshCall(c, s, r, op)
         \/ \E s \in Conns : HangUp(s) \/ \E f \in Fingerprints : Handshake(s, f)
         \/ \E c \in Calls : Resolve(c) \/ Decide(c) \/ Finish(c) \/ \E h \in Secrets : MintForLfs(c, h)
  PROVE  Inv'
  <1> USE DEF Inv, tables, process, history
  <1>1. ASSUME NEW c \in Calls, NEW r \in Repos, NEW op \in Ops,
               NEW h \in Tokens \cup {None}, HttpCall(c, h, r, op)
        PROVE  Inv'
    <2> DEFINE account == IF h = None THEN Anonymous ELSE ToAccount(UserByToken(h))
    <2>1. Begin(c, account, None, r, op)
      BY <1>1 DEF HttpCall
    <2>2. h # None => /\ UserByToken(h) \in Users /\ users[UserByToken(h)] # None
                      /\ tokens[h] # None
      BY <1>1 DEF HttpCall, UserByToken, Live, TypeOK, TokenRow
    <2>3. /\ account.user \in Users \cup {None} /\ account.admin \in BOOLEAN
          /\ account.user # None => users[account.user] # None
          /\ account.admin => users[account.user] = "admin"
          /\ account.user # None /\ users[account.user] = "admin" => account.admin
      BY <2>2 DEF Anonymous, ToAccount
    <2> HIDE DEF account
    <2>4. calls' \in [Calls -> Call \cup {None}] /\ past' \in [Calls -> Past] /\ GitInv'
      BY <2>1, <2>3, BeginGit
    <2>5. TypeOK'
      BY <2>1, <2>4 DEF Begin, TypeOK
    <2> QED BY <2>1, <2>4, <2>5 DEF Begin, ServeInv, SeedInv
  <1>2. ASSUME NEW c \in Calls, NEW r \in Repos, NEW op \in Ops, NEW s \in Conns, SshCall(c, s, r, op)
        PROVE  Inv'
    <2> DEFINE account == AccountFromPermissions(conns[s])
    <2>1. Begin(c, account, s, r, op) /\ conns[s] \in Users /\ conns[s] # None /\ s # None
      BY <1>2, NameAssumption DEF SshCall, TypeOK
    <2>2. /\ account.user = conns[s] /\ users[conns[s]] # None
          /\ account.admin \in BOOLEAN /\ ~account.admin
      BY <1>2 DEF AccountFromPermissions, SshCall, TypeOK
    <2> HIDE DEF account
    <2>3. calls' \in [Calls -> Call \cup {None}] /\ past' \in [Calls -> Past] /\ GitInv'
      BY <2>1, <2>2, BeginGit
    <2>4. TypeOK'
      BY <2>1, <2>3 DEF Begin, TypeOK
    <2> QED BY <2>1, <2>3, <2>4 DEF Begin, ServeInv, SeedInv
  <1>3. ASSUME NEW s \in Conns, HangUp(s) PROVE Inv'
    <2>1. CallsGo
      BY <1>3, CallsGoTypes DEF HangUp
    <2>2. TypeOK'
      BY <1>3, <2>1 DEF HangUp, TypeOK, CallsGo
    <2>3. GitInv'
      BY <1>3, <2>1, QuietGit DEF HangUp
    <2> QED BY <1>3, <2>1, <2>2, <2>3 DEF HangUp, ServeInv, SeedInv, CallsGo
  <1>4. ASSUME NEW s \in Conns, NEW f \in Fingerprints, Handshake(s, f) PROVE Inv'
    <2>1. TypeOK'
      BY <1>4 DEF Handshake, UserByFingerprint, TypeOK
    <2>2. GitInv'
      BY <1>4, CallsGoTypes, QuietGit DEF Handshake
    <2> QED BY <1>4, <2>1, <2>2 DEF Handshake, ServeInv, SeedInv
  <1>5. ASSUME NEW c \in Calls, Resolve(c) PROVE Inv'
    BY <1>5, ResolveGit DEF Resolve, TypeOK, ServeInv, SeedInv
  <1>6. ASSUME NEW c \in Calls, Decide(c) PROVE Inv'
    BY <1>6, DecideGit DEF Decide, TypeOK, ServeInv, SeedInv
  <1>7. ASSUME NEW c \in Calls, Finish(c) PROVE Inv'
    <2>1. CallsGo
      BY <1>7, CallsGoTypes DEF Finish
    <2>2. TypeOK' /\ GitInv'
      BY <1>7, <2>1, QuietGit DEF Finish, TypeOK, CallsGo
    <2> QED BY <1>7, <2>1, <2>2 DEF Finish, ServeInv, SeedInv, CallsGo
  <1>8. ASSUME NEW c \in Calls, NEW h \in Secrets, MintForLfs(c, h) PROVE Inv'
    <2>1. CallsGo
      BY <1>8, CallsGoTypes DEF MintForLfs
    <2>2. calls[c].user \in Users /\ now + TTL \in Times /\ boot = "up"
      BY <1>8, BoundAssumption DEF MintForLfs, TypeOK, Call, Times, GitInv, AccountInv, ServeInv
    <2>3. /\ tokens' \in [Tokens -> TokenRow \cup {None}]
          /\ \A k \in Tokens : tokens'[k] # None => users[tokens'[k].user] # None
          /\ drawn' \in [Secrets -> 0 .. MaxStarts] /\ SeedInv'
      BY <1>8, <2>2, MintInv DEF MintForLfs
    <2>4. TypeOK' /\ GitInv'
      BY <1>8, <2>1, <2>3, QuietGit DEF MintForLfs, TypeOK, CallsGo
    <2> QED BY <1>8, <2>1, <2>3, <2>4 DEF MintForLfs, ServeInv, CallsGo
  <1> QED BY <1>1, <1>2, <1>3, <1>4, <1>5, <1>6, <1>7, <1>8

\* Calls of the control API.  An admitted one means that the process is up.
LEMMA ControlInv ==
  ASSUME Inv, NEW o \in Operators,
         \/ \E h \in Tokens : Admit(o, h)
         \/ Answer(o)
         \/ \E u \in Users :
              \/ CreateUser(o, u) \/ RevokeAllTokens(o, u)
              \/ \E h \in Tokens : RevokeToken(o, h, u)
              \/ \E f \in Fingerprints : RemoveSSHKey(o, f, u)
         \/ \E u \in KeyHolders, f \in Fingerprints : AddSSHKey(o, f, u)
         \/ \E u \in TokenHolders, h \in Secrets : MintToken(o, h, u)
         \/ \E r \in Repos :
              \/ \E u \in Grantees : Revoke(o, u, r) \/ \E role \in Granted : Grant(o, u, r, role)
              \/ \E v \in Visibilities : SetVisibility(o, r, v)
  PROVE  Inv'
  <1> USE DEF Inv, tables, process, history, Ends
  <1>1. CASE (\E h \in Tokens : Admit(o, h)) \/ Answer(o)
    <2>1. TypeOK'
      BY <1>1 DEF Admit, Answer, TypeOK
    <2>2. GitInv'
      BY <1>1, CallsGoTypes, QuietGit DEF Admit, Answer
    <2> QED BY <1>1, <2>1, <2>2 DEF Admit, Answer, ServeInv, SeedInv
  <1>2. ASSUME NEW u \in Users, CreateUser(o, u) PROVE Inv'
    <2>1. TypeOK'
      BY <1>2, RowAssumption DEF CreateUser, CreateUserRow, TypeOK
    <2>2. \A v \in Users : /\ users'[v] = "admin" <=> users[v] = "admin"
                           /\ users[v] # None => users'[v] # None
      BY <1>2, RowAssumption DEF CreateUser, CreateUserRow, TypeOK, Roles
    <2>3. GitInv'
      BY <1>2, <2>2, CallsGoTypes, QuietGit DEF CreateUser
    <2> QED BY <1>2, <2>1, <2>3 DEF CreateUser, ServeInv, SeedInv
  <1>3. ASSUME \/ \E u \in Users : RevokeAllTokens(o, u)
               \/ \E u \in Users, h \in Tokens : RevokeToken(o, h, u)
        PROVE  Inv'
    <2>1. /\ tokens' \in [Tokens -> TokenRow \cup {None}]
          /\ \A h \in Tokens : tokens'[h] \in {tokens[h], None}
      BY <1>3, FewerTokensType DEF RevokeAllTokens, RevokeToken
    <2>2. /\ UNCHANGED <<users, keys, grants, visibility, process, history, now, conns, calls>>
          /\ admitted' \subseteq admitted
      BY <1>3 DEF RevokeAllTokens, RevokeToken
    <2>3. TypeOK'
      BY <2>1, <2>2 DEF TypeOK
    <2>4. GitInv'
      BY <2>2, CallsGoTypes, QuietGit
    <2> QED BY <2>1, <2>2, <2>3, <2>4 DEF ServeInv, SeedInv
  <1>4. ASSUME NEW u \in Users, NEW f \in Fingerprints, RemoveSSHKey(o, f, u) \/ AddSSHKey(o, f, u)
        PROVE  Inv'
    <2>1. TypeOK'
      BY <1>4 DEF RemoveSSHKey, AddSSHKey, DeleteKey, CreateKey, UserExists, TypeOK
    <2>2. GitInv'
      BY <1>4, CallsGoTypes, QuietGit DEF RemoveSSHKey, AddSSHKey
    <2> QED BY <1>4, <2>1, <2>2 DEF RemoveSSHKey, AddSSHKey, ServeInv, SeedInv
  <1>5. ASSUME NEW u \in Users, NEW h \in Secrets, MintToken(o, h, u) PROVE Inv'
    <2>1. boot = "up" /\ None \in Times \cup {None}
      BY <1>5 DEF MintToken, ServeInv
    <2>2. /\ tokens' \in [Tokens -> TokenRow \cup {None}]
          /\ \A k \in Tokens : tokens'[k] # None => users[tokens'[k].user] # None
          /\ drawn' \in [Secrets -> 0 .. MaxStarts] /\ SeedInv'
      BY <1>5, <2>1, MintInv DEF MintToken
    <2>3. TypeOK'
      BY <1>5, <2>2 DEF MintToken, TypeOK
    <2>4. GitInv'
      BY <1>5, CallsGoTypes, QuietGit DEF MintToken
    <2> QED BY <1>5, <2>2, <2>3, <2>4 DEF MintToken, ServeInv
  <1>6. ASSUME NEW r \in Repos,
               \/ \E u \in Users : Revoke(o, u, r) \/ \E role \in Roles : Grant(o, u, r, role)
               \/ \E v \in Visibilities : SetVisibility(o, r, v)
        PROVE  Inv'
    <2>1. /\ grants' \in [Users \X Repos -> Roles \cup {None}]
          /\ visibility' \in [Repos -> Visibilities]
      <3>1. CASE \E v \in Visibilities : SetVisibility(o, r, v)
        BY <3>1 DEF SetVisibility, TypeOK
      <3>2. ASSUME NEW u \in Users, NEW g \in Roles \cup {None}, grants' = [grants EXCEPT ![<<u, r>>] = g]
            PROVE  grants' \in [Users \X Repos -> Roles \cup {None}]
        BY <3>2 DEF TypeOK
      <3>3. CASE \E u \in Users : Revoke(o, u, r) \/ \E role \in Roles : Grant(o, u, r, role)
        BY <3>2, <3>3 DEF Revoke, Grant, DeletePermission, UpsertPermission, TypeOK
      <3> QED BY <1>6, <3>1, <3>3
    <2>2. /\ UNCHANGED <<users, tokens, keys, process, drawn, now, conns, calls>> /\ Note
          /\ admitted' \subseteq admitted
      BY <1>6 DEF Revoke, Grant, SetVisibility
    <2>3. TypeOK'
      BY <2>1, <2>2, NoteType DEF TypeOK
    <2>4. GitInv'
      BY <2>2, NotedGit
    <2> QED BY <2>2, <2>3, <2>4 DEF ServeInv, SeedInv
  <1> QED BY <1>1, <1>2, <1>3, <1>4, <1>5, <1>6, NameAssumption

LEMMA NextInv == ASSUME Inv, [Next]_vars PROVE Inv'
  <1>1. CASE Next
    BY <1>1, BootInv, ServeStepInv, ControlInv DEF Next
  <1>2. CASE UNCHANGED vars
    <2>1. GitInv'
      BY <1>2, CallsGoTypes, QuietGit DEF Inv, vars, tables, history
    <2> QED BY <1>2, <2>1 DEF Inv, vars, tables, process, history, TypeOK, ServeInv, SeedInv
  <1> QED BY <1>1, <1>2

LEMMA InvHolds == Spec => []Inv
  <1>1. Inv /\ [Next]_vars => Inv'
    BY NextInv
  <1> QED BY InitInv, <1>1, PTL DEF Spec

-------------------------------------------------------------------------------
(* Tokens, from one state to the next.                                      *)

\* A drawn token's row is kept as it is or deleted, and the clock goes on.
LEMMA DrawnTokenStep ==
  ASSUME TypeOK, NEW h \in Secrets, drawn[h] # 0, [Next]_vars
  PROVE  tokens'[h] \in {tokens[h], None} /\ now' \in Nat /\ now <= now'
  <1> USE DEF TypeOK
  <1>1. now \in Nat /\ h \in Tokens
    BY BoundAssumption DEF Tokens
  <1>2. ASSUME NEW k \in Tokens, NEW u, NEW e, CreateToken(k, u, e), k # h
        PROVE  tokens'[h] = tokens[h]
    BY <1>1, <1>2 DEF CreateToken
  <1>3. ASSUME NEW k \in Secrets, NEW u, NEW e, Mint(k, u, e)
        PROVE  tokens'[h] = tokens[h]
    <2>1. k \in Tokens /\ k # h /\ CreateToken(k, u, e)
      BY <1>3 DEF Mint, Tokens
    <2> QED BY <2>1, <1>2
  <1>4. ASSUME \/ \E k \in Tokens, u \in Users : DeleteToken(k, u)
               \/ \E u \in Users : DeleteTokensByUser(u)
               \/ DeleteExpiredTokens
               \/ UNCHANGED tokens
        PROVE  tokens'[h] \in {tokens[h], None}
    BY <1>1, <1>4, FewerTokensType
  <1>5. CASE SeedToken
    <2>1. secret \in Tokens /\ secret # h /\ CreateToken(secret, Admin, None) /\ now' = now
      BY <1>5, NameAssumption DEF SeedToken, Booting, Tokens
    <2> QED BY <2>1, <1>1, <1>2
  <1>6. CASE Tick
    <2>1. now' = now + 1 /\ UNCHANGED tokens
      BY <1>6 DEF Tick, tables
    <2> QED BY <2>1, <1>1
  <1>7. CASE \/ \E c \in Calls, k \in Secrets : MintForLfs(c, k)
             \/ \E o \in Operators, u \in Users, k \in Secrets : MintToken(o, k, u)
    BY <1>7, <1>1, <1>3 DEF MintForLfs, MintToken, Ends
  <1>8. CASE \/ SeedWipe \/ Collect
             \/ \E o \in Operators, u \in Users :
                  RevokeAllTokens(o, u) \/ \E k \in Tokens : RevokeToken(o, k, u)
    BY <1>8, <1>1, <1>4, NameAssumption
    DEF SeedWipe, Booting, Collect, RevokeAllTokens, RevokeToken, Ends
  <1>9. CASE UNCHANGED <<tokens, now>>
    BY <1>9, <1>1
  <1>10. SeedUser \/ Stop \/ CollectFails \/ (\E s \in AdminSecrets \cup {None} : Start(s))
         => UNCHANGED <<tokens, now>>
    BY DEF SeedUser, Booting, Stop, CollectFails, Start, tables
  <1>11. (\E c \in Calls, r \in Repos, op \in Ops :
            \/ \E k \in Tokens \cup {None} : HttpCall(c, k, r, op)
            \/ \E s \in Conns : SshCall(c, s, r, op)) => UNCHANGED <<tokens, now>>
    BY DEF HttpCall, SshCall, Begin, tables
  <1>12. (\E s \in Conns : HangUp(s) \/ \E f \in Fingerprints : Handshake(s, f))
         => UNCHANGED <<tokens, now>>
    BY DEF HangUp, Handshake, tables
  <1>13. (\E c \in Calls : Resolve(c) \/ Decide(c) \/ Finish(c)) => UNCHANGED <<tokens, now>>
    BY DEF Resolve, Decide, Finish, tables
  <1>14. (\E o \in Operators : Answer(o) \/ \E k \in Tokens : Admit(o, k)) => UNCHANGED <<tokens, now>>
    BY DEF Answer, Admit, Ends, tables
  <1>15. (\E o \in Operators, u \in Users :
            \/ CreateUser(o, u)
            \/ \E f \in Fingerprints : RemoveSSHKey(o, f, u) \/ AddSSHKey(o, f, u))
         => UNCHANGED <<tokens, now>>
    BY DEF CreateUser, RemoveSSHKey, AddSSHKey, Ends
  <1>16. (\E o \in Operators, r \in Repos :
            \/ \E u \in Users : Revoke(o, u, r) \/ \E role \in Granted : Grant(o, u, r, role)
            \/ \E v \in Visibilities : SetVisibility(o, r, v)) => UNCHANGED <<tokens, now>>
    BY DEF Revoke, Grant, SetVisibility, Ends
  <1>17. UNCHANGED vars => UNCHANGED <<tokens, now>>
    BY DEF vars, tables
  <1> QED BY <1>5, <1>6, <1>7, <1>8, <1>9, <1>10, <1>11, <1>12, <1>13, <1>14, <1>15, <1>16, <1>17,
             NameAssumption DEF Next

-------------------------------------------------------------------------------
\* Every row, connection and call keeps referring to an account that exists,
\* under the foreign keys of the tables (db/db.go:18).
THEOREM TypeCorrect == Spec => []TypeOK
  BY InvHolds, PTL DEF Inv

\* Whoever is let in was entitled to it at a moment of the call, although the
\* decision reads three moments (permissions/service.go:33).
THEOREM AllowedAreEntitled == Spec => []AllowedWasEntitled
  BY InvHolds, PTL DEF Inv, GitInv

\* Whoever is turned away lacked the right at a moment of the call, or it was
\* changed in between, or is an operator over SSH (gitssh/server.go:459).
THEOREM DeniedAreDue == Spec => []OtherDenialsAreDue
  BY InvHolds, PTL DEF Inv, GitInv

\* No anonymous push gets past the decision (smart/handlers.go:212).
THEOREM PushesHaveAccounts == Spec => []PushersAreKnown
  BY InvHolds, PTL DEF Inv, GitInv

\* Once a start has succeeded, no admin token of an earlier configuration is
\* accepted, wherever earlier starts stopped (auth/service.go:52).
THEOREM AdminTokensCurrent == Spec => []AdminTokensAreCurrent
  <1>1. Inv => AdminTokensAreCurrent
    <2> SUFFICES ASSUME Inv, boot = "up", secret # None, NEW h \in Tokens, UserByToken(h) = Admin
                 PROVE  h = secret \/ (h \in Secrets /\ drawn[h] = starts)
      BY DEF AdminTokensAreCurrent
    <2>1. tokens[h] # None /\ tokens[h].user = Admin
      BY NameAssumption DEF UserByToken, Live
    <2> QED BY <2>1 DEF Inv, SeedInv
  <1> QED BY <1>1, InvHolds, PTL

\* A drawn token stays its account's for as long as it is accepted, and once it
\* is refused, because it was revoked, ran out or was collected, no later call,
\* restart or token makes it good again (auth/service.go:86, :186, :205).
KeepsOrDies ==
  \A h \in Secrets : drawn[h] # 0 =>
    /\ UserByToken(h)' \in {UserByToken(h), None}
    /\ UserByToken(h) = None => UserByToken(h)' = None

\* Every step of the system treats the drawn tokens so.
THEOREM DeadTokensStayDead == Spec => [][KeepsOrDies]_vars
  <1>1. ASSUME TypeOK, [Next]_vars, NEW h \in Secrets, drawn[h] # 0
        PROVE  /\ UserByToken(h)' \in {UserByToken(h), None}
               /\ UserByToken(h) = None => UserByToken(h)' = None
    <2>1. tokens'[h] \in {tokens[h], None} /\ now \in Nat /\ now' \in Nat /\ now <= now'
      BY <1>1, DrawnTokenStep, BoundAssumption DEF TypeOK
    <2>2. tokens[h] \in TokenRow \cup {None}
      BY <1>1 DEF TypeOK, Tokens
    <2>3. Live(h)' => Live(h) /\ tokens'[h] = tokens[h]
      <3>1. SUFFICES ASSUME Live(h)' PROVE Live(h) /\ tokens'[h] = tokens[h]
        OBVIOUS
      <3>2. tokens'[h] = tokens[h] /\ tokens[h] # None
        BY <2>1, <3>1 DEF Live
      <3>3. tokens[h].expires = None \/ (tokens[h].expires \in Nat /\ tokens[h].expires > now')
        BY <2>2, <3>1, <3>2, BoundAssumption DEF Live, TokenRow, Times
      <3> QED BY <2>1, <3>2, <3>3 DEF Live
    <2>4. Live(h) => UserByToken(h) = tokens[h].user /\ tokens[h].user # None
      BY <2>2, NameAssumption DEF UserByToken, Live, TokenRow
    <2> QED BY <2>3, <2>4 DEF UserByToken
  <1>2. TypeOK /\ [Next]_vars => KeepsOrDies
    BY <1>1 DEF KeepsOrDies
  <1> QED BY <1>2, TypeCorrect, PTL DEF Spec
===============================================================================
