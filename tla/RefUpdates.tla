------------------------------ MODULE RefUpdates ------------------------------
(***************************************************************************)
(* The refs of one repository and everybody who moves them:                *)
(*                                                                         *)
(*   - `git push' over SSH or HTTP, which runs git receive-pack inside     *)
(*     Local.ReceivePack, one push of a repository at a time;              *)
(*   - the content API's commit (Local.ApplyCommit) and the branch API     *)
(*     (Local.CreateBranch, Local.DeleteBranch), which take no lock and    *)
(*     rely on the compare-and-swap of git update-ref.                     *)
(*                                                                         *)
(* Each call is an element of Pushes, Committers, Creators or Deleters and *)
(* runs once.  The sets may be of any size, so a client that calls again   *)
(* is another element.  A step of a call is one git subprocess, or the     *)
(* code between two of them, so that calls interleave as the processes do. *)
(***************************************************************************)

CONSTANTS
  Refs,          \* ref names that may exist in the repository
  Head,          \* the branch the symbolic ref HEAD names; no code changes it
  Commits,       \* commit ids that may come to exist
  Trees,         \* tree ids
  Parent, Tree,  \* a commit id determines its (first) parent and its tree
  Zero,          \* the all-zero object id: the ref does not exist
  Omitted,       \* expectedHeadSha / expectedSha left out of a request
  None,          \* no value yet; the lock of nobody; a listing that failed
  Pushes,        \* ReceivePack calls ...
  HttpPushes,    \* ... of which these come over smart HTTP, the rest over SSH
  Committers, Creators, Deleters,   \* API calls, by kind
  Requests,      \* the requests each API call may carry
  InitRefs, InitObjects,            \* the repository to begin with
  Failing,       \* the calls whose git subprocesses may fail or time out
  Disconnects    \* may receive-pack end in error (client gone, context ended)?

ApiCalls == Committers \cup Creators \cup Deleters
Calls == Pushes \cup ApiCalls
Sha0 == Commits \cup {Zero}
RefMap == [Refs -> Sha0]

ASSUME ShaAssumption ==
  /\ Zero \notin Commits
  /\ Omitted \notin Sha0
  /\ Parent \in [Commits -> Sha0]
  /\ Tree \in [Commits -> Trees]
  /\ \A k \in Commits : Parent[k] # k

ASSUME CallAssumption ==
  /\ HttpPushes \subseteq Pushes
  /\ Pushes \cap ApiCalls = {}
  /\ Committers \cap Creators = {}
  /\ Deleters \cap (Committers \cup Creators) = {}
  /\ None \notin Calls

\* What a request may say.  pin is the expected old value: create's is the zero
\* id it passes to update-ref.  want is the tree a commit's operations produce,
\* the commit a new branch points at, or the zero id of a deletion.
RequestSpace(c) ==
  IF c \in Committers THEN [ref : Refs, pin : Sha0 \cup {Omitted}, want : Trees]
  ELSE IF c \in Creators THEN [ref : Refs, pin : {Zero}, want : Commits]
  ELSE [ref : Refs, pin : Sha0 \cup {Omitted}, want : {Zero}]

ASSUME RequestAssumption == \A c \in ApiCalls : Requests[c] \subseteq RequestSpace(c)

ASSUME InitAssumption ==
  /\ Head \in Refs
  /\ InitRefs \in RefMap
  /\ InitObjects \subseteq Commits
  /\ \A r \in Refs : InitRefs[r] \in InitObjects \cup {Zero}
  /\ \A k \in InitObjects : Parent[k] \in InitObjects \cup {Zero}

ASSUME FailureAssumption == Failing \subseteq Calls /\ Disconnects \in BOOLEAN

VARIABLES
  refs,      \* refs[r]: the object ref r names, Zero when it does not exist
  objects,   \* commits in the object database
  lock,      \* the push that holds the repository's mutex, or None
  pc,        \* what each call does next; a final value is its answer
  advert,    \* the refs a pushing client was told about
  before,    \* the listing ReceivePack took before the push, None if it failed
  report,    \* the changes ReceivePack returned
  req,       \* the request of an API call
  chg,       \* the ref change an API call is about to make or has made
  moves,     \* history: every ref change that took place, with its author
  during,    \* history: the changes that fell between a push's two listings, and
             \* those of its ref while an API call was under way
  reported   \* history: the changes handed to the webhook dispatcher

vars == <<refs, objects, lock, pc, advert, before, report, req, chg,
          moves, during, reported>>

Change == [by : Calls, ref : Refs, old : Sha0, new : Sha0]

\* Local.listRefs taken before receive-pack starts, until the listing after it.
InWindow == {"listed", "receiving", "packed"}
\* The values of pc for which the mutex is held (ReceivePack's deferred unlock).
Holding == {"locked"} \cup InWindow
PushDone == {"ok", "failed"}
\* An API call between its request and its swap.
UnderWay == {"called", "read", "built"}
\* GitFailed is answered as HeadMismatch or BranchExists is.
ApiDone == {"ok", "HeadMismatch", "RevNotFound", "BranchExists", "GitFailed",
            "DefaultBranch", "NothingToCommit", "Refused"}
Done == PushDone \cup ApiDone

Init ==
  /\ refs = InitRefs
  /\ objects = InitObjects
  /\ lock = None
  /\ pc = [c \in Calls |-> "new"]
  /\ advert = [p \in Pushes |-> InitRefs]
  /\ before = [p \in Pushes |-> None]
  /\ report = [p \in Pushes |-> {}]
  /\ req = [c \in ApiCalls |-> None]
  /\ chg = [c \in ApiCalls |-> None]
  /\ moves = {}
  /\ during = [c \in Calls |-> {}]
  /\ reported = {}

Goto(c, label) == pc' = [pc EXCEPT ![c] = label]

-------------------------------------------------------------------------------
(* What git does to a ref.                                                  *)

\* Faulty: an update-ref that is not given the old value.
AnyHead(r, old) == TRUE

\* The old value git update-ref and receive-pack compare under the ref's lock.
HeadIs(r, old) == refs[r] = old

\* Does the history of c note a change of ref r?
Notes(c, r) ==
  IF c \in Pushes THEN pc[c] \in InWindow ELSE pc[c] \in UnderWay /\ req[c].ref = r

\* The ref of m takes its new value; the history notes what it replaced.
MoveRef(m) ==
  LET done == [by |-> m.by, ref |-> m.ref, old |-> refs[m.ref], new |-> m.new] IN
  /\ refs' = [refs EXCEPT ![m.ref] = m.new]
  /\ moves' = moves \cup {done}
  /\ during' = [c \in Calls |-> IF Notes(c, m.ref) THEN during[c] \cup {done} ELSE during[c]]

RefsStay == UNCHANGED <<refs, moves, during>>

\* What rev-parse of its ref may answer c: ApplyCommit and DeleteBranch read every
\* error, a transient one too, as "the branch does not exist".
RevParse(c) == {refs[req[c].ref]} \cup (IF c \in Failing THEN {Zero} ELSE {})

-------------------------------------------------------------------------------
(* A push.                                                                  *)

\* GET info/refs of a push over HTTP: a request of its own, with no lock.
HttpAdvertise(p) ==
  /\ p \in HttpPushes /\ pc[p] = "new"
  /\ advert' = [advert EXCEPT ![p] = refs]
  /\ Goto(p, "advertised")
  /\ UNCHANGED <<refs, objects, lock, before, report, req, chg, moves, during, reported>>

\* An authorised receive-pack request reaches ReceivePack and asks for the lock.
Arrive(p) ==
  /\ pc[p] = IF p \in HttpPushes THEN "advertised" ELSE "new"
  /\ Goto(p, "waiting")
  /\ UNCHANGED <<refs, objects, lock, advert, before, report, req, chg,
                 moves, during, reported>>

\* Faulty: pushes do not exclude each other.
LockIgnored == TRUE

\* Local.lockRepo waits for the mutex of the storage path.
LockFree == lock = None

LockRepo(p) ==
  /\ p \in Pushes /\ pc[p] = "waiting"
  /\ LockFree
  /\ lock' = p
  /\ Goto(p, "locked")
  /\ UNCHANGED <<refs, objects, advert, before, report, req, chg,
                 moves, during, reported>>

\* listRefs before the push; its error is remembered and the push goes on.
\* receive-pack starts: over SSH it has yet to advertise, over HTTP it reads.
ListBefore(p) ==
  /\ p \in Pushes /\ pc[p] = "locked"
  /\ \/ before' = [before EXCEPT ![p] = refs]
     \/ p \in Failing /\ UNCHANGED before
  /\ Goto(p, IF p \in HttpPushes THEN "receiving" ELSE "listed")
  /\ UNCHANGED <<refs, objects, lock, advert, report, req, chg,
                 moves, during, reported>>

SshAdvertise(p) ==
  /\ p \in Pushes /\ pc[p] = "listed"
  /\ advert' = [advert EXCEPT ![p] = refs]
  /\ Goto(p, "receiving")
  /\ UNCHANGED <<refs, objects, lock, before, report, req, chg,
                 moves, during, reported>>

\* receive-pack's own rule for a bare repository (receive.denyDeleteCurrent).
PushMayDelete(r) == r # Head

\* receive-pack carries out one command of the push, on a ref no earlier command
\* of it named: a transaction of its own that fails, and changes nothing, when
\* the ref no longer has the advertised value.  The pack brought every object
\* that the new value reaches and the pre-receive hook let the push through.
PushUpdate(p, r, new) ==
  /\ p \in Pushes /\ pc[p] = "receiving"
  /\ new # advert[p][r]
  /\ new = Zero => PushMayDelete(r)
  /\ ~ \E m \in moves : m.by = p /\ m.ref = r
  /\ HeadIs(r, advert[p][r])
  /\ \E closure \in SUBSET (Commits \ objects) :
       /\ objects' = objects \cup closure
       /\ new \in objects' \cup {Zero}
       /\ \A k \in closure : /\ Parent[k] \in objects' \cup {Zero}
                             /\ k = new \/ \E j \in closure : Parent[j] = k
  /\ MoveRef([by |-> p, ref |-> r, old |-> advert[p][r], new |-> new])
  /\ UNCHANGED <<lock, pc, advert, before, report, req, chg, reported>>

\* receive-pack exits successfully, whatever became of its commands.
PackEnds(p) ==
  /\ p \in Pushes /\ pc[p] = "receiving"
  /\ Goto(p, "packed")
  /\ UNCHANGED <<refs, objects, lock, advert, before, report, req, chg,
                 moves, during, reported>>

\* Faulty: a return without the unlock.
KeepLock(p) == lock

\* The deferred unlock of ReceivePack, whichever way it returns.
Unlock(p) == None

\* receive-pack fails or is killed, before or after it moved refs: ReceivePack
\* returns the error and no changes.
PackFails(p) ==
  /\ Disconnects
  /\ p \in Pushes /\ pc[p] \in {"listed", "receiving"}
  /\ Goto(p, "failed")
  /\ lock' = Unlock(p)
  /\ UNCHANGED <<refs, objects, advert, before, report, req, chg,
                 moves, during, reported>>

\* Faulty: the second loop of DiffRefs, over the created refs, is missing.
DiffWithoutCreated(p, b, a) ==
  {[by |-> p, ref |-> r, old |-> b[r], new |-> a[r]] :
     r \in {s \in Refs : b[s] # a[s] /\ b[s] # Zero}}

\* Deleted, updated and created refs between two listings; Zero stands for a
\* ref a listing does not have.
DiffRefs(p, b, a) ==
  {[by |-> p, ref |-> r, old |-> b[r], new |-> a[r]] : r \in {s \in Refs : b[s] # a[s]}}

\* listRefs after the push, the comparison and the unlock.  An error of either
\* listing leaves the push with no changes to report.
ListAfter(p) ==
  /\ p \in Pushes /\ pc[p] = "packed"
  /\ \/ /\ before[p] # None
        /\ report' = [report EXCEPT ![p] = DiffRefs(p, before[p], refs)]
     \/ /\ before[p] = None \/ p \in Failing
        /\ report' = [report EXCEPT ![p] = {}]
  /\ lock' = Unlock(p)
  /\ Goto(p, "dispatching")
  /\ UNCHANGED <<refs, objects, advert, before, req, chg, moves, during, reported>>

\* dispatchPush of the transports, after the lock is gone: one event for each
\* change, in no particular order (DiffRefs ranges over Go maps).
DispatchPush(p) ==
  /\ p \in Pushes /\ pc[p] = "dispatching"
  /\ \/ \E m \in report[p] \ reported :
          /\ reported' = reported \cup {m}
          /\ UNCHANGED pc
     \/ /\ report[p] \subseteq reported
        /\ Goto(p, "ok")
        /\ UNCHANGED reported
  /\ UNCHANGED <<refs, objects, lock, advert, before, report, req, chg, moves, during>>

-------------------------------------------------------------------------------
(* The content API and the branch API.                                      *)

\* The service has found the repository's row and decoded the request.
Receive(c) ==
  /\ c \in ApiCalls /\ pc[c] = "new"
  /\ \E rq \in Requests[c] : req' = [req EXCEPT ![c] = rq]
  /\ Goto(c, "called")
  /\ UNCHANGED <<refs, objects, lock, advert, before, report, chg,
                 moves, during, reported>>

ApiRest == <<lock, advert, before, report, req, reported>>

\* c is answered with an error before it touched anything.
Answer(c, error) == Goto(c, error) /\ UNCHANGED <<objects, chg>> /\ RefsStay

\* The next step of c may replace old by new.
Intend(c, old, new) ==
  chg' = [chg EXCEPT ![c] = [by |-> c, ref |-> req[c].ref, old |-> old, new |-> new]]

\* Faulty: the expected value is not compared with the head that was read.
PinIgnored(c, old) == TRUE

\* The expected old value of the request, when there is one.
PinHolds(c, old) == req[c].pin \in {Omitted, old}

\* Validation of the request, then: ApplyCommit resolves the branch head and
\* checks the expected value against it.  A missing branch is created only for an expected zero id.
CommitRead(c) ==
  /\ c \in Committers /\ pc[c] = "called"
  /\ \E old \in RevParse(c) :
       \/ Answer(c, "Refused")
       \/ old = Zero /\ req[c].pin # Zero /\ Answer(c, "RevNotFound")
       \/ old # Zero /\ ~PinHolds(c, old) /\ Answer(c, "HeadMismatch")
       \/ /\ IF old = Zero THEN req[c].pin = Zero ELSE PinHolds(c, old)
          /\ Intend(c, old, Zero)
          /\ Goto(c, "read")
          /\ UNCHANGED objects /\ RefsStay
  /\ UNCHANGED ApiRest

\* Object checks, staging in the private index, write-tree and commit-tree.
\* The commit's parent is the head that was read.
CommitBuild(c) ==
  /\ c \in Committers /\ pc[c] = "read"
  /\ LET old == chg[c].old
         same == old # Zero /\ Tree[old] = req[c].want
     IN \/ Answer(c, "Refused")
        \/ same /\ Answer(c, "NothingToCommit")
        \/ /\ ~same
           /\ \E k \in Commits :
                /\ Parent[k] = old /\ Tree[k] = req[c].want
                /\ objects' = objects \cup {k}
                /\ Intend(c, old, k)
           /\ Goto(c, "built")
           /\ RefsStay
  /\ UNCHANGED ApiRest

\* CreateBranch checks that the commit exists; the branch must not.
CreateRead(c) ==
  /\ c \in Creators /\ pc[c] = "called"
  /\ \/ Answer(c, "Refused")
     \/ (req[c].want \notin objects \/ c \in Failing) /\ Answer(c, "RevNotFound")
     \/ /\ req[c].want \in objects
        /\ Intend(c, Zero, req[c].want)
        /\ Goto(c, "built")
        /\ UNCHANGED objects /\ RefsStay
  /\ UNCHANGED ApiRest

\* Faulty: the default branch is like any other.
DefaultForgotten(r) == FALSE

\* The branch HEAD points at.
IsDefault(r) == r = Head

\* DeleteBranch resolves the head, refuses the default branch and checks the
\* expected value.
DeleteRead(c) ==
  /\ c \in Deleters /\ pc[c] = "called"
  /\ \E old \in RevParse(c) :
       LET default == IsDefault(req[c].ref) IN
       \/ Answer(c, "Refused")
       \/ old = Zero /\ Answer(c, "RevNotFound")
       \/ old # Zero /\ default /\ Answer(c, "DefaultBranch")
       \/ old # Zero /\ ~default /\ ~PinHolds(c, old) /\ Answer(c, "HeadMismatch")
       \/ /\ old # Zero /\ ~default /\ PinHolds(c, old)
          /\ Intend(c, old, Zero)
          /\ Goto(c, "built")
          /\ UNCHANGED objects /\ RefsStay
  /\ UNCHANGED ApiRest

\* What a failed update-ref is reported as.
Lost(c) == IF c \in Creators THEN "BranchExists" ELSE "HeadMismatch"

\* Faulty: after a lost race the update is forced.
ForceRef(c) == MoveRef(chg[c])

\* A lost race changes nothing.
LeaveRef(c) == RefsStay

\* git update-ref <ref> <new> <old>.  Any failure is answered as a lost race; a
\* subprocess that is killed may have moved the ref or not.
UpdateRef(c) ==
  /\ c \in ApiCalls /\ pc[c] = "built"
  /\ \/ HeadIs(chg[c].ref, chg[c].old) /\ MoveRef(chg[c]) /\ Goto(c, "moved")
     \/ ~HeadIs(chg[c].ref, chg[c].old) /\ LeaveRef(c) /\ Goto(c, Lost(c))
     \/ c \in Failing /\ RefsStay /\ Goto(c, "GitFailed")
     \/ c \in Failing /\ HeadIs(chg[c].ref, chg[c].old) /\ MoveRef(chg[c]) /\ Goto(c, "GitFailed")
  /\ UNCHANGED <<objects, chg>>
  /\ UNCHANGED ApiRest

\* Service.dispatchPush, then the answer.
DispatchApi(c) ==
  /\ c \in ApiCalls /\ pc[c] = "moved"
  /\ reported' = reported \cup {chg[c]}
  /\ Goto(c, "ok")
  /\ UNCHANGED <<refs, objects, lock, advert, before, report, req, chg, moves, during>>

-------------------------------------------------------------------------------
PushStep(p) ==
  \/ HttpAdvertise(p) \/ Arrive(p) \/ LockRepo(p) \/ ListBefore(p)
  \/ SshAdvertise(p)
  \/ \E r \in Refs, new \in Sha0 : PushUpdate(p, r, new)
  \/ PackEnds(p) \/ PackFails(p) \/ ListAfter(p) \/ DispatchPush(p)

ApiStep(c) ==
  \/ Receive(c) \/ CommitRead(c) \/ CommitBuild(c)
  \/ CreateRead(c) \/ DeleteRead(c) \/ UpdateRef(c) \/ DispatchApi(c)

Next ==
  \/ \E p \in Pushes : PushStep(p)
  \/ \E c \in ApiCalls : ApiStep(c)

Spec == Init /\ [][Next]_vars

\* Clients need not begin a call, nor go on with a push that receive-pack serves:
\* only the context of the request ends it, and that has no deadline.  What the
\* server does by itself goes on: goroutines are scheduled, and every git
\* subprocess of runGit ends (it gets 30 s).
Serve(p) == LockRepo(p) \/ ListBefore(p) \/ ListAfter(p) \/ DispatchPush(p)
Answering(c) == CommitRead(c) \/ CommitBuild(c) \/ CreateRead(c)
                \/ DeleteRead(c) \/ UpdateRef(c) \/ DispatchApi(c)

FairSpec ==
  /\ Spec
  /\ \A p \in Pushes : WF_vars(Serve(p))
  /\ \A c \in ApiCalls : WF_vars(Answering(c))

-------------------------------------------------------------------------------
(* Properties.                                                              *)

Labels == {"new", "advertised", "waiting", "dispatching", "called", "read",
           "built", "moved"} \cup Holding \cup Done
Request == [ref : Refs, pin : Sha0 \cup {Omitted}, want : Trees \cup Sha0]

\* What a call past its checks holds: a change of the requested ref whose old
\* value is the expected one when the request has one.
Intended(c) ==
  /\ chg[c] \in [by : {c}, ref : {req[c].ref},
                 old : objects \cup {Zero}, new : objects \cup {Zero}]
  /\ req[c].pin \in {Omitted, chg[c].old}

\* Type invariant.  Every ref names an object of the repository, and so does
\* every parent of one; a call past its checks holds an intended change.
TypeOK ==
  /\ refs \in [Refs -> objects \cup {Zero}]
  /\ objects \subseteq Commits
  /\ \A k \in objects : Parent[k] \in objects \cup {Zero}
  /\ lock \in Pushes \cup {None}
  /\ pc \in [Calls -> Labels]
  /\ advert \in [Pushes -> RefMap]
  /\ before \in [Pushes -> RefMap \cup {None}]
  /\ report \in [Pushes -> SUBSET Change]
  /\ req \in [ApiCalls -> Request \cup {None}]
  /\ chg \in [ApiCalls -> Change \cup {None}]
  /\ \A c \in ApiCalls :
       /\ pc[c] # "new" => req[c] \in Requests[c]
       /\ pc[c] \in {"read", "built", "moved", "ok"} => Intended(c)
  /\ moves \subseteq Change
  /\ during \in [Calls -> SUBSET Change]
  /\ reported \subseteq Change

\* The mutex keeps other pushes out of the window between a push's two
\* listings: every change that falls into it is the push's own or an API call's
\* (local.go:128, "important to lock concurrent pushes").
WindowExcludesPushes ==
  \A p \in Pushes : pc[p] \in InWindow =>
    \A m \in during[p] : m.by \in Pushes => m.by = p

\* A push in whose window no API call moved a ref reports exactly the changes it
\* made: none is forgotten, none is foreign, and old and new are those of the
\* change, although the report is computed from two listings only.
QuietPushReportsItsMoves ==
  \A p \in Pushes :
    (/\ pc[p] = "dispatching" /\ before[p] # None
     /\ \A m \in during[p] : m.by = p)
      => \/ report[p] = {m \in moves : m.by = p}
         \/ p \in Failing /\ report[p] = {}   \* the second listing failed

\* The API never announces a change that it did not make: the old and new
\* values of its event are those of the swap that took place.
ApiReportsAreMoves ==
  \A m \in reported : m.by \in ApiCalls => m \in moves

\* A request with an expected head replaces exactly that head, however long ago
\* it was compared (README.md:353, "Compare-and-swap").
PinHonoured ==
  \A m \in moves : m.by \in ApiCalls => req[m.by].pin \in {Omitted, m.old}

\* An API commit has the head it replaces as its parent: no commit that reached
\* the branch meanwhile is dropped from its history.
CommitExtendsHead ==
  \A m \in moves : m.by \in Committers => Parent[m.new] = m.old

\* Once the default branch exists no call deletes it (local_branch.go:72,
\* "clones never land on a missing ref").
DefaultBranchStays == [][refs[Head] # Zero => refs'[Head] # Zero]_refs

\* A call that is refused has moved nothing, in whatever order it read the head
\* and others moved it; only the answer to an update-ref that failed or was
\* killed may hide a change.
RefusedMovesNothing ==
  \A c \in ApiCalls :
    pc[c] \in ApiDone \ {"ok", "GitFailed"} => \A m \in moves : m.by # c

\* Assumption on the clients, which nothing in the code enforces (local.go:162,
\* the pack runs under the request's context only): whoever is served by
\* receive-pack sends the rest of the push or hangs up.
ClientsGoOn == \A p \in Pushes : []<>(pc[p] \notin {"listed", "receiving"})

\* Every API call the server has accepted is answered, whatever pushing clients
\* do; and every push is, with the mutex free for the next, provided that the
\* clients of pushes go on.  One that stalls keeps the mutex, and every other
\* push of the repository waiting, for as long as its connection stays open.
\* (A call runs once, so "always in the end" says that each of them ends.)
CallsEnd ==
  /\ <>[](\A c \in ApiCalls : pc[c] \in {"new"} \cup ApiDone)
  /\ ClientsGoOn => <>[](\A p \in Pushes : pc[p] \in {"new", "advertised"} \cup PushDone)

\* Each event is a change its author made.  README.md:414 and :434: one delivery
\* per changed ref, before/after being the ref's ids around the push.
EventsAreMoves == reported \subseteq moves

-------------------------------------------------------------------------------
(* The calls implement atomic operations on the refs (AtomicRefs).           *)

OutcomeOf(c) ==
  CASE pc[c] = "new" -> "idle"
    [] pc[c] \in UnderWay -> "open"
    [] pc[c] \in {"moved", "ok"} -> "ok"
    [] pc[c] \in {"HeadMismatch", "BranchExists"} -> "mismatch"
    [] pc[c] = "GitFailed" -> "broken"
    [] OTHER -> "refused"

Atomic == INSTANCE AtomicRefs WITH
  outcome <- [c \in ApiCalls |-> OutcomeOf(c)],
  overtaken <- {c \in ApiCalls : during[c] # {}}

\* Every API call takes effect at one moment between its request and its answer,
\* on the head of that moment, or has no effect.  It answers that an expected
\* head does not match only if there is a moment at which it does not.  A request
\* without one is answered so only if the branch moved while it was under way:
\* then not the last write wins, as src/README.md:352 has it, but the first.
ImplementsAtomic == Atomic!Spec
===============================================================================
