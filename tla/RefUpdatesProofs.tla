--------------------------- MODULE RefUpdatesProofs ---------------------------
(***************************************************************************)
(* Theorems about RefUpdates, for every set of calls, refs and commits and *)
(* with every failure allowed.                                             *)
(***************************************************************************)
EXTENDS RefUpdates, TLAPS

\* The requests of a call are requests.
LEMMA RequestType == ASSUME NEW c \in ApiCalls
                     PROVE  /\ Requests[c] \subseteq Request
                            /\ Requests[c] \subseteq RequestSpace(c)
  <1>1. RequestSpace(c) \subseteq Request
    BY DEF RequestSpace, Request, Sha0
  <1>2. QED BY <1>1, RequestAssumption

LEMMA InitTypeOK == Init => TypeOK
  BY InitAssumption, ShaAssumption
  DEF Init, TypeOK, RefMap, Sha0, Labels, Calls, Change

\* A ref that takes a value of the object database keeps the type invariant of
\* the variables MoveRef changes.
LEMMA MoveRefType ==
  ASSUME TypeOK, NEW m \in Change, objects \subseteq objects', objects' \subseteq Commits,
         m.new \in objects' \cup {Zero}, MoveRef(m)
  PROVE  /\ refs' \in [Refs -> objects' \cup {Zero}]
         /\ moves' \subseteq Change
         /\ during' \in [Calls -> SUBSET Change]
  <1> DEFINE done == [by |-> m.by, ref |-> m.ref, old |-> refs[m.ref], new |-> m.new]
  <1>1. done \in Change
    BY DEF Change, TypeOK, Sha0
  <1>2. refs' \in [Refs -> objects' \cup {Zero}]
    BY DEF MoveRef, TypeOK, Change
  <1>3. moves' \subseteq Change
    BY <1>1 DEF MoveRef, TypeOK
  <1>4. during' \in [Calls -> SUBSET Change]
    BY <1>1 DEF MoveRef, TypeOK
  <1> QED BY <1>2, <1>3, <1>4

\* The history of a push notes the change when it falls into its window.
LEMMA PushNotes ==
  ASSUME NEW m, MoveRef(m), NEW q \in Pushes
  PROVE  during'[q] = IF pc[q] \in InWindow
                      THEN during[q] \cup {[by |-> m.by, ref |-> m.ref, old |-> refs[m.ref], new |-> m.new]}
                      ELSE during[q]
  BY DEF MoveRef, Notes, Calls

LEMMA PushStepType ==
  ASSUME TypeOK, NEW p \in Pushes, PushStep(p)
  PROVE  TypeOK'
  <1> USE CallAssumption
  <1>0. /\ \A c \in ApiCalls : c # p
        /\ p \in Calls
    BY DEF Calls
  <1>1. CASE HttpAdvertise(p)
    BY <1>0, <1>1 DEF HttpAdvertise, Goto, TypeOK, Labels, Calls, Intended, RefMap, Sha0
  <1>2. CASE Arrive(p)
    BY <1>0, <1>2 DEF Arrive, Goto, TypeOK, Labels, Calls, Intended
  <1>3. CASE LockRepo(p)
    BY <1>0, <1>3 DEF LockRepo, Goto, TypeOK, Labels, Holding, Calls, Intended
  <1>4. CASE ListBefore(p)
    BY <1>0, <1>4 DEF ListBefore, Goto, TypeOK, Labels, Holding, InWindow, Calls, Intended, RefMap, Sha0
  <1>5. CASE SshAdvertise(p)
    BY <1>0, <1>5 DEF SshAdvertise, Goto, TypeOK, Labels, Holding, InWindow, Calls, Intended, RefMap, Sha0
  <1>6. ASSUME NEW r \in Refs, NEW new \in Sha0, PushUpdate(p, r, new)
        PROVE  TypeOK'
    <2> DEFINE m == [by |-> p, ref |-> r, old |-> advert[p][r], new |-> new]
    <2>1. m \in Change
      BY <1>0 DEF Change, TypeOK, RefMap
    <2>2. /\ objects \subseteq objects'
          /\ objects' \subseteq Commits
          /\ \A k \in objects' : Parent[k] \in objects' \cup {Zero}
          /\ new \in objects' \cup {Zero}
      BY <1>6 DEF PushUpdate, TypeOK
    <2>3. /\ refs' \in [Refs -> objects' \cup {Zero}]
          /\ moves' \subseteq Change
          /\ during' \in [Calls -> SUBSET Change]
      BY <1>6, <2>1, <2>2, MoveRefType DEF PushUpdate
    <2> QED BY <1>6, <2>2, <2>3 DEF PushUpdate, TypeOK, Intended
  <1>7. CASE PackEnds(p)
    BY <1>0, <1>7 DEF PackEnds, Goto, TypeOK, Labels, Holding, InWindow, Calls, Intended
  <1>8. CASE PackFails(p)
    BY <1>0, <1>8 DEF PackFails, Unlock, Goto, TypeOK, Labels, Done, PushDone, Calls, Intended
  <1>9. CASE ListAfter(p)
    <2>1. before[p] # None => DiffRefs(p, before[p], refs) \subseteq Change
      BY <1>0 DEF DiffRefs, Change, TypeOK, RefMap, Sha0
    <2>2. report' \in [Pushes -> SUBSET Change]
      BY <1>9, <2>1 DEF ListAfter, TypeOK
    <2> QED BY <1>0, <1>9, <2>2 DEF ListAfter, Unlock, Goto, TypeOK, Labels, Calls, Intended
  <1>10. CASE DispatchPush(p)
    BY <1>0, <1>10 DEF DispatchPush, Goto, TypeOK, Labels, Done, PushDone, Calls, Intended
  <1> QED BY <1>1, <1>2, <1>3, <1>4, <1>5, <1>6, <1>7, <1>8, <1>9, <1>10 DEF PushStep

\* An error answer of an API call, and a step that sets its intended change.
LEMMA AnswerType ==
  ASSUME TypeOK, NEW c \in ApiCalls, NEW e \in ApiDone \ {"ok"},
         Answer(c, e), pc[c] # "new", UNCHANGED ApiRest
  PROVE  TypeOK'
  BY DEF Answer, Goto, RefsStay, ApiRest, TypeOK, Labels, Done, ApiDone, Calls, Intended

LEMMA IntendType ==
  ASSUME TypeOK, NEW c \in ApiCalls, pc[c] # "new", NEW label \in {"read", "built"},
         NEW old \in objects' \cup {Zero}, NEW new \in objects' \cup {Zero},
         req[c].pin \in {Omitted, old},
         objects \subseteq objects', objects' \subseteq Commits,
         \A k \in objects' : Parent[k] \in objects' \cup {Zero},
         Intend(c, old, new), Goto(c, label), RefsStay, UNCHANGED ApiRest
  PROVE  TypeOK'
  <1>1. req[c] \in Request
    BY RequestType DEF TypeOK
  <1>2. [by |-> c, ref |-> req[c].ref, old |-> old, new |-> new] \in Change
    BY <1>1 DEF Change, Request, Sha0, Calls
  <1>3. chg' \in [ApiCalls -> Change \cup {None}]
    BY <1>2 DEF Intend, TypeOK
  <1>4. pc' \in [Calls -> Labels]
    BY DEF Goto, TypeOK, Labels, Calls
  <1>5. ASSUME NEW d \in ApiCalls
        PROVE  /\ pc'[d] # "new" => req'[d] \in Requests[d]
               /\ pc'[d] \in {"read", "built", "moved", "ok"} => Intended(d)'
    <2>1. CASE d = c
      BY <2>1 DEF Intend, Goto, ApiRest, TypeOK, Intended, Calls
    <2>2. CASE d # c
      BY <2>2 DEF Intend, Goto, ApiRest, TypeOK, Intended, Calls
    <2> QED BY <2>1, <2>2
  <1> QED BY <1>3, <1>4, <1>5 DEF RefsStay, ApiRest, TypeOK

LEMMA ApiStepType ==
  ASSUME TypeOK, NEW c \in ApiCalls, ApiStep(c)
  PROVE  TypeOK'
  <1>0. c \in Calls
    BY DEF Calls
  <1>1. CASE Receive(c)
    <2>1. req' \in [ApiCalls -> Request \cup {None}]
      BY <1>1, RequestType DEF Receive, TypeOK
    <2> QED BY <1>0, <1>1, <2>1 DEF Receive, Goto, TypeOK, Labels, Calls, Intended
  <1>2. CASE CommitRead(c)
    <2>1. req[c].ref \in Refs
      BY <1>2, RequestType DEF CommitRead, TypeOK, Request
    <2>2. PICK old \in RevParse(c) :
            \/ \E e \in {"Refused", "RevNotFound", "HeadMismatch"} : Answer(c, e)
            \/ /\ req[c].pin \in {Omitted, old}
               /\ Intend(c, old, Zero) /\ Goto(c, "read")
               /\ UNCHANGED objects /\ RefsStay
      BY <1>2 DEF CommitRead, PinHolds
    <2>3. old \in objects \cup {Zero}
      BY <2>1 DEF RevParse, TypeOK
    <2>4. pc[c] # "new" /\ UNCHANGED ApiRest
      BY <1>2 DEF CommitRead
    <2>5. CASE \E e \in {"Refused", "RevNotFound", "HeadMismatch"} : Answer(c, e)
      BY <2>4, <2>5, AnswerType DEF ApiDone
    <2>6. CASE /\ req[c].pin \in {Omitted, old}
               /\ Intend(c, old, Zero) /\ Goto(c, "read")
               /\ UNCHANGED objects /\ RefsStay
      BY <2>3, <2>4, <2>6, IntendType DEF TypeOK
    <2> QED BY <2>2, <2>5, <2>6
  <1>3. CASE CommitBuild(c)
    <2>1. /\ pc[c] = "read" /\ UNCHANGED ApiRest
          /\ chg[c].old \in objects \cup {Zero}
          /\ req[c].pin \in {Omitted, chg[c].old}
      BY <1>3 DEF CommitBuild, TypeOK, Intended
    <2>2. CASE \E e \in {"Refused", "NothingToCommit"} : Answer(c, e)
      BY <2>1, <2>2, AnswerType DEF ApiDone
    <2>3. ASSUME NEW k \in Commits, Parent[k] = chg[c].old,
                 objects' = objects \cup {k}, Intend(c, chg[c].old, k),
                 Goto(c, "built"), RefsStay
          PROVE  TypeOK'
      <3>1. \A j \in objects' : Parent[j] \in objects' \cup {Zero}
        BY <2>1, <2>3 DEF TypeOK
      <3> QED BY <2>1, <2>3, <3>1, IntendType DEF TypeOK
    <2> QED BY <1>3, <2>2, <2>3 DEF CommitBuild
  <1>4. CASE CreateRead(c)
    <2>1. /\ pc[c] = "called" /\ UNCHANGED ApiRest
          /\ \/ \E e \in {"Refused", "RevNotFound"} : Answer(c, e)
             \/ /\ req[c].want \in objects
                /\ Intend(c, Zero, req[c].want)
                /\ Goto(c, "built")
                /\ UNCHANGED objects /\ RefsStay
      BY <1>4 DEF CreateRead
    <2>2. req[c].pin = Zero
      BY <1>4, RequestType, CallAssumption DEF CreateRead, RequestSpace, TypeOK
    <2>3. CASE \E e \in {"Refused", "RevNotFound"} : Answer(c, e)
      BY <2>1, <2>3, AnswerType DEF ApiDone
    <2> QED BY <2>1, <2>2, <2>3, IntendType DEF TypeOK
  <1>5. CASE DeleteRead(c)
    <2>1. req[c].ref \in Refs
      BY <1>5, RequestType DEF DeleteRead, TypeOK, Request
    <2>2. PICK old \in RevParse(c) :
            \/ \E e \in {"Refused", "RevNotFound", "DefaultBranch", "HeadMismatch"} : Answer(c, e)
            \/ /\ req[c].pin \in {Omitted, old}
               /\ Intend(c, old, Zero) /\ Goto(c, "built")
               /\ UNCHANGED objects /\ RefsStay
      BY <1>5 DEF DeleteRead, PinHolds
    <2>3. old \in objects \cup {Zero}
      BY <2>1 DEF RevParse, TypeOK
    <2>4. pc[c] # "new" /\ UNCHANGED ApiRest
      BY <1>5 DEF DeleteRead
    <2>5. CASE \E e \in {"Refused", "RevNotFound", "DefaultBranch", "HeadMismatch"} : Answer(c, e)
      BY <2>4, <2>5, AnswerType DEF ApiDone
    <2>6. CASE /\ req[c].pin \in {Omitted, old}
               /\ Intend(c, old, Zero) /\ Goto(c, "built")
               /\ UNCHANGED objects /\ RefsStay
      BY <2>3, <2>4, <2>6, IntendType DEF TypeOK
    <2> QED BY <2>2, <2>5, <2>6
  <1>6. CASE UpdateRef(c)
    <2>1. /\ pc[c] = "built" /\ UNCHANGED <<objects, chg>> /\ UNCHANGED ApiRest
          /\ Intended(c)
          /\ chg[c] \in Change
      BY <1>6, <1>0, RequestType DEF UpdateRef, TypeOK, Intended, Change, Sha0, Request
    <2>2. PICK label \in {"moved", "HeadMismatch", "BranchExists", "GitFailed"} :
            /\ Goto(c, label)
            /\ MoveRef(chg[c]) \/ RefsStay
      BY <1>6 DEF UpdateRef, Lost, LeaveRef
    <2>3. /\ refs' \in [Refs -> objects' \cup {Zero}]
          /\ moves' \subseteq Change
          /\ during' \in [Calls -> SUBSET Change]
      <3>1. CASE MoveRef(chg[c])
        BY <2>1, <3>1, MoveRefType DEF TypeOK, Intended
      <3>2. CASE RefsStay
        BY <2>1, <3>2 DEF RefsStay, TypeOK
      <3> QED BY <2>2, <3>1, <3>2
    <2>4. pc' = [pc EXCEPT ![c] = label] /\ pc' \in [Calls -> Labels]
      BY <1>0, <2>2 DEF Goto, TypeOK, Labels, Done, ApiDone
    <2>5. ASSUME NEW d \in ApiCalls
          PROVE  /\ pc'[d] # "new" => req'[d] \in Requests[d]
                 /\ pc'[d] \in {"read", "built", "moved", "ok"} => Intended(d)'
      BY <1>0, <2>1, <2>4 DEF ApiRest, TypeOK, Intended, Calls
    <2> QED BY <2>1, <2>3, <2>4, <2>5 DEF ApiRest, TypeOK
  <1>7. CASE DispatchApi(c)
    <2>1. chg[c] \in Change
      BY <1>7, <1>0, RequestType DEF DispatchApi, TypeOK, Intended, Change, Sha0, Request
    <2> QED BY <1>0, <1>7, <2>1
            DEF DispatchApi, Goto, TypeOK, Labels, Done, ApiDone, Intended
  <1> QED BY <1>1, <1>2, <1>3, <1>4, <1>5, <1>6, <1>7 DEF ApiStep

\* The type invariant of RefUpdates is inductive.
THEOREM TypeCorrect == Spec => []TypeOK
  <1>1. TypeOK /\ [Next]_vars => TypeOK'
    <2> SUFFICES ASSUME TypeOK, [Next]_vars PROVE TypeOK'
      OBVIOUS
    <2>1. CASE UNCHANGED vars
      BY <2>1 DEF vars, TypeOK, Intended
    <2> QED BY <2>1, PushStepType, ApiStepType DEF Next
  <1> QED BY <1>1, InitTypeOK, PTL DEF Spec

-------------------------------------------------------------------------------
(* The window of a push.                                                    *)

Early == {"new", "advertised", "waiting", "locked"}
OwnMoves(p) == {m \in moves : m.by = p}
Quiet(p) == \A m \in during[p] : m.by = p

\* The mutex is held by the push that is between lockRepo and its return.
LockInv == \A p \in Pushes : pc[p] \in Holding <=> lock = p

\* Before its window a push has moved nothing and its window has seen nothing.
EarlyInv == \A p \in Pushes : pc[p] \in Early => during[p] = {} /\ OwnMoves(p) = {}

\* While only the push itself moves refs, the listing it took tells what each
\* ref it has not moved still is, and what each ref it has moved was.
Tracks(p) ==
  /\ during[p] = OwnMoves(p)
  /\ \A r \in Refs : (\A m \in OwnMoves(p) : m.ref # r) => refs[r] = before[p][r]
  /\ \A m \in OwnMoves(p) :
       /\ m.old = before[p][m.ref] /\ m.new = refs[m.ref] /\ m.old # m.new
QuietInv ==
  \A p \in Pushes : before[p] # None /\ Quiet(p) =>
    /\ pc[p] \in InWindow => Tracks(p)
    /\ pc[p] = "dispatching" => report[p] = OwnMoves(p) \/ (p \in Failing /\ report[p] = {})

(* The changes of an API call.                                              *)

\* A built commit has the head that was read as its parent.
BuiltInv ==
  \A c \in Committers : pc[c] = "built" => Parent[chg[c].new] = chg[c].old

\* A call that has moved a ref is past update-ref, and the move is its change.
MovesInv ==
  /\ \A m \in moves : m.by \in ApiCalls =>
       /\ pc[m.by] \in ApiDone \cup {"moved"}
       /\ m = chg[m.by]
       /\ req[m.by].pin \in {Omitted, m.old}
       /\ m.by \in Committers => Parent[m.new] = m.old
  /\ \A c \in ApiCalls : pc[c] = "moved" => chg[c] \in moves
  /\ \A p \in Pushes : \A m \in report[p] : m.by = p
  /\ \A m \in reported : m.by \in ApiCalls => m \in moves

\* No deletion of the default branch is on its way.
DefaultInv ==
  \A c \in ApiCalls : pc[c] \in {"read", "built"} =>
    /\ c \in Deleters => chg[c].ref # Head
    /\ c \notin Deleters /\ pc[c] = "built" => chg[c].new # Zero

-------------------------------------------------------------------------------
(* What a step of one call leaves alone.                                    *)

LEMMA ApiFrame ==
  ASSUME TypeOK, NEW c \in ApiCalls, ApiStep(c)
  PROVE  /\ UNCHANGED <<lock, advert, before, report>>
         /\ \A d \in Calls : d # c => pc'[d] = pc[d]
         /\ \A p \in Pushes : pc'[p] = pc[p]
         /\ \A d \in ApiCalls : d # c => req'[d] = req[d] /\ chg'[d] = chg[d]
         /\ pc[c] = "moved" \/ UNCHANGED reported
         /\ \/ RefsStay /\ pc'[c] # "moved"
            \/ /\ pc[c] = "built" /\ pc'[c] \in {"moved"} \cup ApiDone /\ HeadIs(chg[c].ref, chg[c].old)
               /\ MoveRef(chg[c]) /\ UNCHANGED <<req, chg, reported>>
  <1>0. c \in Calls /\ \A p \in Pushes : p # c /\ p \in Calls
    BY CallAssumption DEF Calls
  <1>1. CASE Receive(c)
    BY <1>0, <1>1 DEF Receive, Goto, RefsStay, TypeOK, Calls
  <1>2. CASE CommitRead(c)
    BY <1>0, <1>2 DEF CommitRead, Answer, Intend, ApiRest, Goto, RefsStay, TypeOK, Calls
  <1>3. CASE CommitBuild(c)
    BY <1>0, <1>3 DEF CommitBuild, Answer, Intend, ApiRest, Goto, RefsStay, TypeOK, Calls
  <1>4. CASE CreateRead(c)
    BY <1>0, <1>4 DEF CreateRead, Answer, Intend, ApiRest, Goto, RefsStay, TypeOK, Calls
  <1>5. CASE DeleteRead(c)
    BY <1>0, <1>5 DEF DeleteRead, Answer, Intend, ApiRest, Goto, RefsStay, TypeOK, Calls
  <1>6. CASE UpdateRef(c)
    BY <1>0, <1>6 DEF UpdateRef, Lost, LeaveRef, ApiRest, ApiDone, Goto, RefsStay, TypeOK, Calls
  <1>7. CASE DispatchApi(c)
    BY <1>0, <1>7 DEF DispatchApi, Goto, RefsStay, TypeOK, Calls
  <1> QED BY <1>1, <1>2, <1>3, <1>4, <1>5, <1>6, <1>7 DEF ApiStep

LEMMA PushFrame ==
  ASSUME TypeOK, NEW p \in Pushes, PushStep(p)
  PROVE  /\ UNCHANGED <<req, chg>>
         /\ \A d \in Calls : d # p => pc'[d] = pc[d]
         /\ \A c \in ApiCalls : pc'[c] = pc[c]
         /\ \A q \in Pushes : q # p => before'[q] = before[q] /\ report'[q] = report[q]
         /\ RefsStay \/ \E r \in Refs, new \in Sha0 : PushUpdate(p, r, new)
  <1>0. \A c \in ApiCalls : p # c /\ c \in Calls
    BY CallAssumption DEF Calls
  <1> USE DEF Goto, RefsStay, TypeOK, Calls
  <1>1. CASE HttpAdvertise(p) BY <1>0, <1>1 DEF HttpAdvertise
  <1>2. CASE Arrive(p) BY <1>0, <1>2 DEF Arrive
  <1>3. CASE LockRepo(p) BY <1>0, <1>3 DEF LockRepo
  <1>4. CASE ListBefore(p) BY <1>0, <1>4 DEF ListBefore
  <1>5. CASE SshAdvertise(p) BY <1>0, <1>5 DEF SshAdvertise
  <1>6. ASSUME NEW r \in Refs, NEW new \in Sha0, PushUpdate(p, r, new)
        PROVE  /\ UNCHANGED <<req, chg, pc, before, report>>
               /\ \E s \in Refs, n \in Sha0 : PushUpdate(p, s, n)
    BY <1>6 DEF PushUpdate
  <1>7. CASE PackEnds(p) BY <1>0, <1>7 DEF PackEnds
  <1>8. CASE PackFails(p) BY <1>0, <1>8 DEF PackFails
  <1>9. CASE ListAfter(p) BY <1>0, <1>9 DEF ListAfter
  <1>10. CASE DispatchPush(p) BY <1>0, <1>10 DEF DispatchPush
  <1> QED BY <1>1, <1>2, <1>3, <1>4, <1>5, <1>6, <1>7, <1>8, <1>9, <1>10 DEF PushStep

\* A push reports changes in its own name, and announces what it reported.
LEMMA PushReports ==
  ASSUME TypeOK, NEW p \in Pushes, PushStep(p)
  PROVE  /\ \A q \in Pushes : \A m \in report'[q] : m \in report[q] \/ m.by = q
         /\ \A m \in reported' : m \in reported \/ m \in report[p]
  <1>1. CASE HttpAdvertise(p) BY <1>1 DEF HttpAdvertise
  <1>2. CASE Arrive(p) BY <1>2 DEF Arrive
  <1>3. CASE LockRepo(p) BY <1>3 DEF LockRepo
  <1>4. CASE ListBefore(p) BY <1>4 DEF ListBefore
  <1>5. CASE SshAdvertise(p) BY <1>5 DEF SshAdvertise
  <1>6. CASE \E r \in Refs, new \in Sha0 : PushUpdate(p, r, new) BY <1>6 DEF PushUpdate
  <1>7. CASE PackEnds(p) BY <1>7 DEF PackEnds
  <1>8. CASE PackFails(p) BY <1>8 DEF PackFails
  <1>9. CASE ListAfter(p) BY <1>9 DEF ListAfter, DiffRefs, TypeOK
  <1>10. CASE DispatchPush(p) BY <1>10 DEF DispatchPush
  <1> QED BY <1>1, <1>2, <1>3, <1>4, <1>5, <1>6, <1>7, <1>8, <1>9, <1>10 DEF PushStep

-------------------------------------------------------------------------------
(* Mutual exclusion of the windows.                                         *)

LEMMA LockStep == ASSUME TypeOK, LockInv, [Next]_vars PROVE LockInv'
  <1>1. ASSUME NEW c \in ApiCalls, ApiStep(c) PROVE LockInv'
    BY <1>1, ApiFrame DEF LockInv
  <1>2. ASSUME NEW p \in Pushes, PushStep(p) PROVE LockInv'
    <2> USE CallAssumption DEF Goto, TypeOK, Calls, LockInv, Holding, InWindow
    <2>1. CASE HttpAdvertise(p) BY <2>1 DEF HttpAdvertise
    <2>2. CASE Arrive(p) BY <2>2 DEF Arrive
    <2>3. CASE LockRepo(p) BY <2>3 DEF LockRepo, LockFree
    <2>4. CASE ListBefore(p) BY <2>4 DEF ListBefore
    <2>5. CASE SshAdvertise(p) BY <2>5 DEF SshAdvertise
    <2>6. CASE \E r \in Refs, new \in Sha0 : PushUpdate(p, r, new) BY <2>6 DEF PushUpdate
    <2>7. CASE PackEnds(p) BY <2>7 DEF PackEnds
    <2>8. CASE PackFails(p) BY <2>8 DEF PackFails, Unlock
    <2>9. CASE ListAfter(p) BY <2>9 DEF ListAfter, Unlock
    <2>10. CASE DispatchPush(p) BY <2>10 DEF DispatchPush
    <2> QED BY <1>2, <2>1, <2>2, <2>3, <2>4, <2>5, <2>6, <2>7, <2>8, <2>9, <2>10 DEF PushStep
  <1>3. CASE UNCHANGED vars
    BY <1>3 DEF vars, LockInv
  <1> QED BY <1>1, <1>2, <1>3 DEF Next

\* A push whose label changes into the window was locked before.
LEMMA WindowEntry ==
  ASSUME TypeOK, NEW p \in Pushes, PushStep(p)
  PROVE  /\ pc'[p] \in InWindow /\ pc[p] \notin InWindow => pc[p] = "locked"
         /\ pc'[p] \in Early => pc[p] \in Early /\ RefsStay
  <1> USE DEF Goto, RefsStay, TypeOK, Calls, InWindow, Early
  <1>1. CASE HttpAdvertise(p) BY <1>1 DEF HttpAdvertise
  <1>2. CASE Arrive(p) BY <1>2 DEF Arrive
  <1>3. CASE LockRepo(p) BY <1>3 DEF LockRepo
  <1>4. CASE ListBefore(p) BY <1>4 DEF ListBefore
  <1>5. CASE SshAdvertise(p) BY <1>5 DEF SshAdvertise
  <1>6. CASE \E r \in Refs, new \in Sha0 : PushUpdate(p, r, new) BY <1>6 DEF PushUpdate
  <1>7. CASE PackEnds(p) BY <1>7 DEF PackEnds
  <1>8. CASE PackFails(p) BY <1>8 DEF PackFails
  <1>9. CASE ListAfter(p) BY <1>9 DEF ListAfter
  <1>10. CASE DispatchPush(p) BY <1>10 DEF DispatchPush
  <1> QED BY <1>1, <1>2, <1>3, <1>4, <1>5, <1>6, <1>7, <1>8, <1>9, <1>10 DEF PushStep

\* Only the holder of the mutex is in its window, so the change of a push falls
\* into no other push's window.
LEMMA WindowStep ==
  ASSUME TypeOK, LockInv, EarlyInv, WindowExcludesPushes, [Next]_vars
  PROVE  WindowExcludesPushes' /\ EarlyInv'
  <1>1. ASSUME NEW c \in ApiCalls, ApiStep(c) PROVE WindowExcludesPushes' /\ EarlyInv'
    <2>1. CASE RefsStay
      BY <1>1, <2>1, ApiFrame DEF RefsStay, WindowExcludesPushes, EarlyInv, OwnMoves
    <2>2. CASE MoveRef(chg[c]) /\ pc[c] = "built"
      <3> DEFINE done == [by |-> chg[c].by, ref |-> chg[c].ref,
                          old |-> refs[chg[c].ref], new |-> chg[c].new]
      <3>1. done.by = c /\ c \notin Pushes
        BY <2>2, CallAssumption DEF TypeOK, Intended
      <3>2. \A p \in Pushes : pc'[p] = pc[p]
        BY <1>1, ApiFrame
      <3>3. \A p \in Pushes : during'[p] = IF pc[p] \in InWindow
                                           THEN during[p] \cup {done} ELSE during[p]
        BY <2>2, PushNotes
      <3>4. moves' = moves \cup {done}
        BY <2>2 DEF MoveRef
      <3> HIDE DEF done
      <3>5. WindowExcludesPushes'
        BY <3>1, <3>2, <3>3 DEF WindowExcludesPushes
      <3>6. \A p \in Pushes : OwnMoves(p)' = OwnMoves(p)
        BY <3>1, <3>4 DEF OwnMoves
      <3>7. EarlyInv'
        BY <3>2, <3>3, <3>6 DEF EarlyInv, InWindow, Early
      <3> QED BY <3>5, <3>7
    <2> QED BY <1>1, <2>1, <2>2, ApiFrame
  <1>2. ASSUME NEW p \in Pushes, PushStep(p) PROVE WindowExcludesPushes' /\ EarlyInv'
    <2>0. \A q \in Pushes : q \in Calls /\ (q # p => pc'[q] = pc[q])
      BY <1>2, PushFrame DEF Calls
    <2>1. CASE RefsStay
      <3>1. WindowExcludesPushes'
        BY <1>2, <2>0, <2>1, WindowEntry DEF RefsStay, WindowExcludesPushes, EarlyInv, Early
      <3>2. EarlyInv'
        BY <1>2, <2>0, <2>1, WindowEntry DEF RefsStay, EarlyInv, OwnMoves
      <3> QED BY <3>1, <3>2
    <2>2. ASSUME NEW r \in Refs, NEW new \in Sha0, PushUpdate(p, r, new)
          PROVE  WindowExcludesPushes' /\ EarlyInv'
      <3> DEFINE m == [by |-> p, ref |-> r, old |-> advert[p][r], new |-> new]
                 done == [by |-> p, ref |-> r, old |-> refs[r], new |-> new]
      <3>1. /\ pc[p] = "receiving" /\ UNCHANGED pc
            /\ moves' = moves \cup {done}
            /\ \A q \in Pushes : during'[q] = IF pc[q] \in InWindow
                                             THEN during[q] \cup {done} ELSE during[q]
        <4>1. /\ pc[p] = "receiving" /\ UNCHANGED pc /\ MoveRef(m)
              /\ moves' = moves \cup {done}
          BY <2>2 DEF PushUpdate, MoveRef
        <4> QED BY <4>1, PushNotes
      <3>2. \A q \in Pushes : pc[q] \in InWindow => q = p
        BY <3>1 DEF LockInv, Holding, InWindow
      <3>0. done.by = p
        OBVIOUS
      <3> HIDE DEF done
      <3>3. WindowExcludesPushes'
        BY <3>0, <3>1, <3>2 DEF WindowExcludesPushes
      <3>4. EarlyInv'
        BY <3>0, <3>1, <3>2 DEF EarlyInv, OwnMoves, InWindow, Early
      <3> QED BY <3>3, <3>4
    <2> QED BY <1>2, <2>1, <2>2, PushFrame
  <1>3. CASE UNCHANGED vars
    BY <1>3 DEF vars, WindowExcludesPushes, EarlyInv, OwnMoves
  <1> QED BY <1>1, <1>2, <1>3 DEF Next

\* The mutex of ReceivePack keeps other pushes out of a push's window.
THEOREM WindowsExclude == Spec => []WindowExcludesPushes
  <1>1. Init => LockInv /\ EarlyInv /\ WindowExcludesPushes
    BY CallAssumption
    DEF Init, LockInv, EarlyInv, WindowExcludesPushes, OwnMoves, Holding, InWindow, Calls
  <1> QED BY <1>1, TypeCorrect, LockStep, WindowStep, PTL DEF Spec

-------------------------------------------------------------------------------
(* The report of a push.                                                    *)

\* ReceivePack has no listing before it takes one.
BeforeInv == \A p \in Pushes : pc[p] \in Early => before[p] = None

LEMMA BeforeStep == ASSUME TypeOK, BeforeInv, [Next]_vars PROVE BeforeInv'
  <1>1. ASSUME NEW c \in ApiCalls, ApiStep(c) PROVE BeforeInv'
    BY <1>1, ApiFrame DEF BeforeInv
  <1>2. ASSUME NEW p \in Pushes, PushStep(p) PROVE BeforeInv'
    <2>1. \A q \in Pushes : q \in Calls /\ (q # p => pc'[q] = pc[q] /\ before'[q] = before[q])
      BY <1>2, PushFrame DEF Calls
    <2>2. pc'[p] \in Early => pc[p] \in Early /\ before' = before
      <3> USE DEF Goto, TypeOK, Calls, Early
      <3>1. CASE HttpAdvertise(p) BY <3>1 DEF HttpAdvertise
      <3>2. CASE Arrive(p) BY <3>2 DEF Arrive
      <3>3. CASE LockRepo(p) BY <3>3 DEF LockRepo
      <3>4. CASE ListBefore(p) BY <3>4 DEF ListBefore
      <3>5. CASE SshAdvertise(p) BY <3>5 DEF SshAdvertise
      <3>6. CASE \E r \in Refs, new \in Sha0 : PushUpdate(p, r, new) BY <3>6 DEF PushUpdate
      <3>7. CASE PackEnds(p) BY <3>7 DEF PackEnds
      <3>8. CASE PackFails(p) BY <3>8 DEF PackFails
      <3>9. CASE ListAfter(p) BY <3>9 DEF ListAfter
      <3>10. CASE DispatchPush(p) BY <3>10 DEF DispatchPush
      <3> QED BY <1>2, <3>1, <3>2, <3>3, <3>4, <3>5, <3>6, <3>7, <3>8, <3>9, <3>10 DEF PushStep
    <2> QED BY <2>1, <2>2 DEF BeforeInv
  <1>3. CASE UNCHANGED vars
    BY <1>3 DEF vars, BeforeInv
  <1> QED BY <1>1, <1>2, <1>3 DEF Next

QuietAt(p) ==
  before[p] # None /\ Quiet(p) =>
    /\ pc[p] \in InWindow => Tracks(p)
    /\ pc[p] = "dispatching" => report[p] = OwnMoves(p) \/ (p \in Failing /\ report[p] = {})

\* A step that moves no ref leaves a push alone that it does not take further.
LEMMA QuietFrame ==
  ASSUME NEW p \in Pushes, QuietAt(p), RefsStay,
         before'[p] = before[p], report'[p] = report[p],
         pc'[p] \in InWindow => pc[p] \in InWindow,
         pc'[p] = "dispatching" => pc[p] = "dispatching"
  PROVE  QuietAt(p)'
  BY DEF QuietAt, Quiet, Tracks, OwnMoves, RefsStay

\* The move of one push that nobody else disturbs is recorded by Tracks.
LEMMA TrackedMove ==
  ASSUME TypeOK, NEW p \in Pushes, NEW r \in Refs, NEW new \in Sha0, QuietAt(p),
         PushUpdate(p, r, new)
  PROVE  QuietAt(p)'
  <1> DEFINE done == [by |-> p, ref |-> r, old |-> refs[r], new |-> new]
  <1>1. /\ pc[p] = "receiving" /\ UNCHANGED <<pc, before, report>>
        /\ moves' = moves \cup {done} /\ during'[p] = during[p] \cup {done}
        /\ refs' = [refs EXCEPT ![r] = new]
        /\ new # refs[r] /\ ~ \E m \in moves : m.by = p /\ m.ref = r
    <2> DEFINE m0 == [by |-> p, ref |-> r, old |-> advert[p][r], new |-> new]
    <2>1. /\ pc[p] = "receiving" /\ UNCHANGED <<pc, before, report>> /\ MoveRef(m0)
          /\ new # refs[r] /\ ~ \E m \in moves : m.by = p /\ m.ref = r
      BY DEF PushUpdate, HeadIs
    <2>2. moves' = moves \cup {done} /\ refs' = [refs EXCEPT ![r] = new]
      BY <2>1 DEF MoveRef
    <2>3. during'[p] = during[p] \cup {done}
      <3>1. pc[p] \in InWindow
        BY <2>1 DEF InWindow
      <3>2. done = [by |-> m0.by, ref |-> m0.ref, old |-> refs[m0.ref], new |-> m0.new]
        OBVIOUS
      <3> HIDE DEF done, m0
      <3> QED BY <2>1, <3>1, <3>2, PushNotes
    <2> QED BY <2>1, <2>2, <2>3
  <1>2. /\ done.by = p /\ done.ref = r /\ done.old = refs[r] /\ done.new = new
        /\ refs'[r] = new /\ \A t \in Refs : t # r => refs'[t] = refs[t]
    BY <1>1 DEF TypeOK
  <1> HIDE DEF done
  <1> SUFFICES ASSUME before[p] # None, Quiet(p)' PROVE Tracks(p)'
    BY <1>1 DEF QuietAt
  <1>3. Tracks(p)
    BY <1>1 DEF QuietAt, Quiet, InWindow
  <1>4. OwnMoves(p)' = OwnMoves(p) \cup {done}
    BY <1>1, <1>2 DEF OwnMoves
  <1>5. refs[r] = before[p][r] /\ \A m \in OwnMoves(p) : m.ref # r /\ m.ref \in Refs
    BY <1>1, <1>3 DEF Tracks, OwnMoves, TypeOK, Change
  <1>6. during'[p] = OwnMoves(p)'
    BY <1>1, <1>3, <1>4 DEF Tracks
  <1>7. ASSUME NEW t \in Refs, \A m \in OwnMoves(p)' : m.ref # t PROVE refs'[t] = before'[p][t]
    BY <1>1, <1>2, <1>3, <1>4, <1>7 DEF Tracks
  <1>8. ASSUME NEW m \in OwnMoves(p)'
        PROVE  m.old = before'[p][m.ref] /\ m.new = refs'[m.ref] /\ m.old # m.new
    <2>1. CASE m = done
      BY <1>1, <1>2, <1>5, <2>1
    <2>2. CASE m \in OwnMoves(p)
      BY <1>1, <1>2, <1>3, <1>5, <2>2 DEF Tracks
    <2> QED BY <1>4, <1>8, <2>1, <2>2
  <1> QED BY <1>6, <1>7, <1>8 DEF Tracks

\* The difference of two listings that only the push's own moves separate.
LEMMA DiffIsOwnMoves ==
  ASSUME TypeOK, NEW p \in Pushes, Tracks(p)
  PROVE  DiffRefs(p, before[p], refs) = OwnMoves(p)
  <1> DEFINE At(r) == [by |-> p, ref |-> r, old |-> before[p][r], new |-> refs[r]]
  <1>1. ASSUME NEW m \in OwnMoves(p) PROVE m = At(m.ref) /\ m.ref \in Refs /\ before[p][m.ref] # refs[m.ref]
    <2>1. m \in Change /\ m.by = p
      BY <1>1 DEF OwnMoves, TypeOK
    <2>2. m.old = before[p][m.ref] /\ m.new = refs[m.ref] /\ m.old # m.new
      BY <1>1 DEF Tracks
    <2> QED BY <2>1, <2>2 DEF Change
  <1>2. ASSUME NEW r \in Refs, before[p][r] # refs[r] PROVE At(r) \in OwnMoves(p)
    <2>1. PICK m \in OwnMoves(p) : m.ref = r
      BY <1>2 DEF Tracks
    <2> QED BY <1>1, <2>1
  <1> QED BY <1>1, <1>2 DEF DiffRefs

LEMMA QuietStep ==
  ASSUME TypeOK, LockInv, EarlyInv, BeforeInv, QuietInv, [Next]_vars
  PROVE  QuietInv'
  <1>0. \A p \in Pushes : QuietAt(p)
    BY DEF QuietInv, QuietAt
  <1>1. ASSUME NEW c \in ApiCalls, ApiStep(c), NEW p \in Pushes PROVE QuietAt(p)'
    <2>0. /\ c # p /\ pc'[p] = pc[p] /\ before'[p] = before[p] /\ report'[p] = report[p]
      BY <1>1, ApiFrame, CallAssumption
    <2>1. CASE RefsStay
      BY <1>0, <2>0, <2>1, QuietFrame
    <2>2. CASE MoveRef(chg[c]) /\ pc[c] = "built"
      <3> DEFINE done == [by |-> chg[c].by, ref |-> chg[c].ref, old |-> refs[chg[c].ref], new |-> chg[c].new]
      <3>1. done.by = c
        BY <2>2 DEF TypeOK, Intended
      <3>2. /\ moves' = moves \cup {done}
            /\ during'[p] = IF pc[p] \in InWindow THEN during[p] \cup {done} ELSE during[p]
        BY <2>2, PushNotes DEF MoveRef
      <3> HIDE DEF done
      <3>3. OwnMoves(p)' = OwnMoves(p)
        BY <2>0, <3>1, <3>2 DEF OwnMoves
      <3>4. pc[p] \in InWindow => ~Quiet(p)'
        BY <2>0, <3>1, <3>2 DEF Quiet
      <3> QED BY <1>0, <2>0, <3>2, <3>3, <3>4 DEF QuietAt, Quiet
    <2> QED BY <1>1, <2>1, <2>2, ApiFrame
  <1>2. ASSUME NEW p \in Pushes, PushStep(p), NEW q \in Pushes, q # p PROVE QuietAt(q)'
    <2>0. /\ q \in Calls /\ pc'[q] = pc[q] /\ before'[q] = before[q] /\ report'[q] = report[q]
      BY <1>2, PushFrame DEF Calls
    <2>1. CASE RefsStay
      BY <1>0, <2>0, <2>1, QuietFrame
    <2>2. ASSUME NEW r \in Refs, NEW new \in Sha0, PushUpdate(p, r, new) PROVE QuietAt(q)'
      <3>1. pc[p] \in Holding /\ pc[q] \notin InWindow
        BY <1>2, <2>2 DEF PushUpdate, LockInv, Holding, InWindow
      <3>2. during'[q] = during[q] /\ OwnMoves(q)' = OwnMoves(q)
        <4>1. MoveRef([by |-> p, ref |-> r, old |-> advert[p][r], new |-> new])
          BY <2>2 DEF PushUpdate
        <4>2. during'[q] = during[q]
          BY <3>1, <4>1, PushNotes
        <4>3. OwnMoves(q)' = OwnMoves(q)
          BY <1>2, <4>1 DEF MoveRef, OwnMoves
        <4> QED BY <4>2, <4>3
      <3> QED BY <1>0, <2>0, <3>1, <3>2 DEF QuietAt, Quiet
    <2> QED BY <1>2, <2>1, <2>2, PushFrame
  <1>3. ASSUME NEW p \in Pushes, PushStep(p) PROVE QuietAt(p)'
    <2> USE DEF Goto, TypeOK, Calls, InWindow
    <2>1. CASE HttpAdvertise(p) BY <2>1 DEF HttpAdvertise, QuietAt
    <2>2. CASE Arrive(p) BY <2>2 DEF Arrive, QuietAt
    <2>3. CASE LockRepo(p) BY <2>3 DEF LockRepo, QuietAt
    <2>4. CASE ListBefore(p)
      <3>1. during[p] = {} /\ OwnMoves(p) = {} /\ before[p] = None /\ UNCHANGED <<refs, moves, during>>
        BY <2>4 DEF ListBefore, EarlyInv, BeforeInv, Early
      <3>2. pc'[p] \in {"receiving", "listed"}
        BY <2>4 DEF ListBefore
      <3>3. before'[p] # None => before'[p] = refs
        BY <2>4, <3>1 DEF ListBefore
      <3> QED BY <3>1, <3>2, <3>3 DEF QuietAt, Tracks, OwnMoves
    <2>5. CASE SshAdvertise(p)
      BY <1>0, <2>5, QuietFrame DEF SshAdvertise, RefsStay
    <2>6. ASSUME NEW r \in Refs, NEW new \in Sha0, PushUpdate(p, r, new) PROVE QuietAt(p)'
      BY <1>0, <2>6, TrackedMove
    <2>7. CASE PackEnds(p)
      BY <1>0, <2>7, QuietFrame DEF PackEnds, RefsStay
    <2>8. CASE PackFails(p) BY <2>8 DEF PackFails, QuietAt
    <2>9. CASE ListAfter(p)
      <3> SUFFICES ASSUME before[p] # None, Quiet(p)
                   PROVE  report'[p] = OwnMoves(p) \/ (p \in Failing /\ report'[p] = {})
        BY <2>9 DEF ListAfter, QuietAt, Quiet, OwnMoves
      <3>1. Tracks(p)
        BY <1>0, <2>9 DEF ListAfter, QuietAt
      <3>2. report'[p] = DiffRefs(p, before[p], refs) \/ (p \in Failing /\ report'[p] = {})
        BY <2>9 DEF ListAfter
      <3> QED BY <3>1, <3>2, DiffIsOwnMoves
    <2>10. CASE DispatchPush(p)
      BY <1>0, <2>10, QuietFrame DEF DispatchPush, RefsStay
    <2> QED BY <1>3, <2>1, <2>2, <2>3, <2>4, <2>5, <2>6, <2>7, <2>8, <2>9, <2>10 DEF PushStep
  <1>4. CASE UNCHANGED vars
    BY <1>4 DEF vars, QuietInv, Quiet, Tracks, OwnMoves
  <1>5. (\A p \in Pushes : QuietAt(p)') => QuietInv'
    BY DEF QuietAt, QuietInv
  <1> QED BY <1>1, <1>2, <1>3, <1>4, <1>5 DEF Next

\* The report that ReceivePack computes from two listings is the list of the
\* push's own moves when no API call interferes: compare-and-swap commands, one
\* for each ref, under a mutex.
THEOREM QuietReportsAreRight == Spec => []QuietPushReportsItsMoves
  <1>1. Init => LockInv /\ EarlyInv /\ WindowExcludesPushes /\ BeforeInv /\ QuietInv
    BY CallAssumption
    DEF Init, LockInv, EarlyInv, WindowExcludesPushes, BeforeInv, QuietInv, OwnMoves, Holding,
        InWindow, Calls
  <1>2. QuietInv => QuietPushReportsItsMoves
    BY DEF QuietInv, QuietPushReportsItsMoves, Quiet, OwnMoves
  <1> QED BY <1>1, <1>2, TypeCorrect, LockStep, WindowStep, BeforeStep, QuietStep, PTL DEF Spec

-------------------------------------------------------------------------------
(* Commits and other API calls.                                             *)

\* What the checks of a call establish about the change it intends.
LEMMA ReadyStep ==
  ASSUME TypeOK, BuiltInv, DefaultInv, [Next]_vars
  PROVE  BuiltInv' /\ DefaultInv'
  <1>1. ASSUME NEW c \in ApiCalls, ApiStep(c) PROVE BuiltInv' /\ DefaultInv'
    <2> USE CallAssumption, ShaAssumption
        DEF Goto, TypeOK, Calls, BuiltInv, DefaultInv, ApiCalls, ApiDone
    <2>0. \A d \in ApiCalls : d # c => pc'[d] = pc[d] /\ chg'[d] = chg[d]
      BY <1>1, ApiFrame
    <2>1. CASE Receive(c) BY <2>0, <2>1 DEF Receive
    <2>2. CASE CommitRead(c) BY <2>0, <2>2 DEF CommitRead, Answer, Intend
    <2>3. CASE CommitBuild(c) BY <2>0, <2>3 DEF CommitBuild, Answer, Intend
    <2>4. CASE CreateRead(c) BY <2>0, <2>4 DEF CreateRead, Answer, Intend
    <2>5. CASE DeleteRead(c) BY <2>0, <2>5 DEF DeleteRead, Answer, Intend, IsDefault
    <2>6. CASE UpdateRef(c) BY <2>0, <2>6 DEF UpdateRef, Lost
    <2>7. CASE DispatchApi(c) BY <2>0, <2>7 DEF DispatchApi
    <2> QED BY <1>1, <2>1, <2>2, <2>3, <2>4, <2>5, <2>6, <2>7 DEF ApiStep
  <1>2. ASSUME NEW p \in Pushes, PushStep(p) PROVE BuiltInv' /\ DefaultInv'
    BY <1>2, PushFrame DEF BuiltInv, DefaultInv, ApiCalls
  <1>3. CASE UNCHANGED vars
    BY <1>3 DEF vars, BuiltInv, DefaultInv
  <1> QED BY <1>1, <1>2, <1>3 DEF Next

\* A change enters the history at the swap that makes it, and its request and
\* its record do not change afterwards.
LEMMA MovesStep ==
  ASSUME TypeOK, BuiltInv, MovesInv, [Next]_vars
  PROVE  MovesInv'
  <1>1. ASSUME NEW c \in ApiCalls, ApiStep(c) PROVE MovesInv'
    <2>0. /\ \A d \in ApiCalls : d # c => /\ pc'[d] = pc[d] /\ req'[d] = req[d]
                                         /\ chg'[d] = chg[d]
          /\ report' = report
          /\ c \in Calls /\ c \notin Pushes
      BY <1>1, ApiFrame, CallAssumption DEF Calls
    <2>1. ASSUME pc[c] \in ApiDone \cup {"moved"}
          PROVE  /\ pc'[c] \in ApiDone \cup {"moved"} /\ req'[c] = req[c] /\ chg'[c] = chg[c]
                 /\ pc[c] = "moved" /\ pc'[c] = "ok"
                 /\ RefsStay /\ reported' = reported \cup {chg[c]}
      BY <1>1, <2>0, <2>1
      DEF ApiStep, Receive, CommitRead, CommitBuild, CreateRead, DeleteRead, UpdateRef,
          DispatchApi, Goto, RefsStay, ApiDone, TypeOK
    <2>2. CASE pc[c] \in ApiDone \cup {"moved"}
      <3>1. chg[c] \in moves
        BY <2>1, <2>2 DEF MovesInv
      <3> QED BY <2>0, <2>1, <2>2, <3>1 DEF MovesInv, RefsStay
    <2>3. CASE pc[c] \notin ApiDone \cup {"moved"} /\ RefsStay /\ pc'[c] # "moved"
      <3>1. reported' = reported
        BY <1>1, <2>3, ApiFrame
      <3> QED BY <2>0, <2>3, <3>1 DEF MovesInv, RefsStay
    <2>4. CASE /\ pc[c] = "built" /\ pc'[c] \in {"moved"} \cup ApiDone
               /\ HeadIs(chg[c].ref, chg[c].old)
               /\ MoveRef(chg[c]) /\ UNCHANGED <<req, chg, reported>>
      <3>1. Intended(c)
        BY <2>4 DEF TypeOK
      <3>2. moves' = moves \cup {chg[c]}
        BY <2>4, <3>1 DEF MoveRef, Intended, HeadIs
      <3>3. /\ req[c].pin \in {Omitted, chg[c].old}
            /\ c \in Committers => Parent[chg[c].new] = chg[c].old
            /\ chg[c].by = c
        BY <2>4, <3>1 DEF Intended, BuiltInv
      <3> QED BY <2>0, <2>4, <3>2, <3>3 DEF MovesInv
    <2> QED BY <1>1, <2>2, <2>3, <2>4, ApiFrame
  <1>2. ASSUME NEW p \in Pushes, PushStep(p) PROVE MovesInv'
    <2>0. /\ UNCHANGED <<req, chg>>
          /\ \A c \in ApiCalls : pc'[c] = pc[c]
          /\ p \notin ApiCalls
      BY <1>2, PushFrame, CallAssumption
    <2>1. /\ moves \subseteq moves'
          /\ \A m \in moves' : m.by \in ApiCalls => m \in moves
      <3>1. CASE RefsStay
        BY <3>1 DEF RefsStay
      <3>2. ASSUME NEW r \in Refs, NEW new \in Sha0, PushUpdate(p, r, new)
            PROVE  moves \subseteq moves' /\ \A m \in moves' : m.by \in ApiCalls => m \in moves
        BY <2>0, <3>2 DEF PushUpdate, MoveRef
      <3> QED BY <1>2, <3>1, <3>2, PushFrame
    <2>2. \A q \in Pushes : \A m \in report'[q] : m.by = q
      BY <1>2, PushReports DEF MovesInv
    <2>3. \A m \in reported' : m.by \in ApiCalls => m \in reported
      BY <1>2, <2>0, PushReports DEF MovesInv
    <2> QED BY <2>0, <2>1, <2>2, <2>3 DEF MovesInv
  <1>3. CASE UNCHANGED vars
    BY <1>3 DEF vars, MovesInv
  <1> QED BY <1>1, <1>2, <1>3 DEF Next

LEMMA MovesAlways == Spec => [](BuiltInv /\ DefaultInv /\ MovesInv)
  <1>1. Init => BuiltInv /\ DefaultInv /\ MovesInv
    BY DEF Init, BuiltInv, DefaultInv, MovesInv, Calls, ApiCalls
  <1> QED BY <1>1, TypeCorrect, ReadyStep, MovesStep, PTL DEF Spec

\* A pinned request replaces the head it named and no other.
THEOREM PinsAreHonoured == Spec => []PinHonoured
  <1>1. MovesInv => PinHonoured
    BY DEF MovesInv, PinHonoured
  <1> QED BY <1>1, MovesAlways, PTL

\* No API commit drops a commit that reached the branch before it.
THEOREM CommitsExtendHeads == Spec => []CommitExtendsHead
  <1>1. MovesInv => CommitExtendsHead
    BY DEF MovesInv, CommitExtendsHead, ApiCalls
  <1> QED BY <1>1, MovesAlways, PTL

\* An event of the API tells of a change that the API made.
THEOREM ApiReportsAreTrue == Spec => []ApiReportsAreMoves
  <1>1. MovesInv => ApiReportsAreMoves
    BY DEF MovesInv, ApiReportsAreMoves
  <1> QED BY <1>1, MovesAlways, PTL

\* No call that was refused has moved a ref, unless the git subprocess that
\* moved it was killed before it could say so.
THEOREM RefusalsAreHarmless == Spec => []RefusedMovesNothing
  <1>1. ASSUME TypeOK, MovesInv, RefusedMovesNothing, [Next]_vars PROVE RefusedMovesNothing'
    <2>1. ASSUME NEW c \in ApiCalls, ApiStep(c) PROVE RefusedMovesNothing'
      <3>0. \A d \in ApiCalls : d # c => pc'[d] = pc[d]
        BY <1>1, <2>1, ApiFrame DEF Calls
      <3>1. CASE RefsStay
        <4>1. pc[c] \notin ApiDone \cup {"moved"} => \A m \in moves : m.by # c
          BY <1>1 DEF MovesInv
        <4>2. pc[c] \in ApiDone \cup {"moved"} => pc'[c] = "ok"
          BY <1>1, <2>1, CallAssumption
          DEF ApiStep, Receive, CommitRead, CommitBuild, CreateRead, DeleteRead, UpdateRef,
              DispatchApi, Goto, ApiDone, TypeOK, Calls
        <4>3. UNCHANGED moves
          BY <3>1 DEF RefsStay
        <4> QED BY <1>1, <3>0, <4>1, <4>2, <4>3 DEF RefusedMovesNothing, Lost
      <3>2. CASE MoveRef(chg[c]) /\ pc[c] = "built"
        <4>1. /\ chg[c].by = c
              /\ \A m \in moves' : m \in moves \/ m.by = c
          BY <1>1, <3>2 DEF MoveRef, TypeOK, Intended
        <4>2. pc'[c] = "moved" \/ pc'[c] = "GitFailed" \/ RefsStay
          BY <1>1, <2>1, <3>2, CallAssumption
          DEF ApiStep, Receive, CommitRead, CommitBuild, CreateRead, DeleteRead, UpdateRef,
              DispatchApi, Goto, TypeOK, Calls, LeaveRef
        <4> QED BY <1>1, <3>0, <3>1, <4>1, <4>2 DEF RefusedMovesNothing, Lost, ApiDone
      <3> QED BY <1>1, <2>1, <3>1, <3>2, ApiFrame
    <2>2. ASSUME NEW p \in Pushes, PushStep(p) PROVE RefusedMovesNothing'
      <3>1. \A m \in moves' : m \in moves \/ m.by = p
        <4>1. CASE RefsStay
          BY <4>1 DEF RefsStay
        <4>2. ASSUME NEW r \in Refs, NEW new \in Sha0, PushUpdate(p, r, new)
              PROVE  \A m \in moves' : m \in moves \/ m.by = p
          BY <4>2 DEF PushUpdate, MoveRef
        <4> QED BY <1>1, <2>2, <4>1, <4>2, PushFrame
      <3>2. /\ \A c \in ApiCalls : pc'[c] = pc[c]
            /\ p \notin ApiCalls
        BY <1>1, <2>2, PushFrame, CallAssumption
      <3> QED BY <1>1, <3>1, <3>2 DEF RefusedMovesNothing, Lost
    <2>3. CASE UNCHANGED vars
      BY <1>1, <2>3 DEF vars, RefusedMovesNothing, Lost
    <2> QED BY <1>1, <2>1, <2>2, <2>3 DEF Next
  <1>2. Init => RefusedMovesNothing
    BY DEF Init, RefusedMovesNothing
  <1> QED BY <1>1, <1>2, TypeCorrect, MovesAlways, PTL DEF Spec

\* No step deletes the default branch.
THEOREM DefaultBranchIsKept == Spec => DefaultBranchStays
  <1>1. TypeOK /\ DefaultInv /\ [Next]_vars => [refs[Head] # Zero => refs'[Head] # Zero]_refs
    <2> SUFFICES ASSUME TypeOK, DefaultInv, [Next]_vars, refs[Head] # Zero, refs' # refs
                 PROVE  refs'[Head] # Zero
      OBVIOUS
    <2> USE InitAssumption DEF TypeOK
    <2>1. ASSUME NEW c \in ApiCalls, ApiStep(c), refs' # refs PROVE refs'[Head] # Zero
      <3>1. /\ pc[c] = "built" /\ HeadIs(chg[c].ref, chg[c].old) /\ MoveRef(chg[c])
        BY <2>1, ApiFrame DEF RefsStay
      <3>2. chg[c].new = Zero => chg[c].ref # Head
        BY <3>1 DEF DefaultInv
      <3> QED BY <3>1, <3>2 DEF MoveRef
    <2>2. ASSUME NEW p \in Pushes, PushStep(p), refs' # refs PROVE refs'[Head] # Zero
      <3>1. PICK r \in Refs, new \in Sha0 : PushUpdate(p, r, new)
        BY <2>2, PushFrame DEF RefsStay
      <3> QED BY <3>1 DEF PushUpdate, PushMayDelete, MoveRef
    <2> QED BY <2>1, <2>2 DEF Next, vars
  <1> QED BY <1>1, TypeCorrect, MovesAlways, PTL DEF Spec, DefaultBranchStays

-------------------------------------------------------------------------------
(* RefUpdates implements AtomicRefs: every step of the calls is a step of   *)
(* the atomic specification, or changes nothing that it shows.              *)

\* What the checks of a call have established when it is about to swap, so that
\* the swap gives the ref a value its request asks for.
ReadyInv ==
  \A c \in ApiCalls :
    /\ c \in Committers /\ pc[c] \in {"read", "built"} /\ chg[c].old = Zero => req[c].pin = Zero
    /\ c \in Committers /\ pc[c] = "built" =>
         /\ chg[c].new \in Commits /\ Tree[chg[c].new] = req[c].want
         /\ chg[c].old # Zero => Tree[chg[c].old] # req[c].want
    /\ c \in Creators /\ pc[c] = "built" => chg[c].new = req[c].want
    /\ c \in Deleters /\ pc[c] = "built" =>
         chg[c].new = Zero /\ chg[c].old # Zero /\ req[c].ref # Head

LEMMA ReadyInvStep == ASSUME TypeOK, ReadyInv, [Next]_vars PROVE ReadyInv'
  <1>1. ASSUME NEW c \in ApiCalls, ApiStep(c) PROVE ReadyInv'
    <2> USE CallAssumption, ShaAssumption
        DEF Goto, TypeOK, Calls, ReadyInv, ApiCalls, ApiDone, ApiRest
    <2>0. \A d \in ApiCalls : d # c => pc'[d] = pc[d] /\ req'[d] = req[d] /\ chg'[d] = chg[d]
      BY <1>1, ApiFrame
    <2>1. CASE Receive(c) BY <2>0, <2>1 DEF Receive
    <2>2. CASE CommitRead(c) BY <2>0, <2>2 DEF CommitRead, Answer, Intend
    <2>3. CASE CommitBuild(c) BY <2>0, <2>3 DEF CommitBuild, Answer, Intend
    <2>4. CASE CreateRead(c) BY <2>0, <2>4 DEF CreateRead, Answer, Intend
    <2>5. CASE DeleteRead(c) BY <2>0, <2>5 DEF DeleteRead, Answer, Intend, IsDefault
    <2>6. CASE UpdateRef(c) BY <2>0, <2>6 DEF UpdateRef, Lost
    <2>7. CASE DispatchApi(c) BY <2>0, <2>7 DEF DispatchApi
    <2> QED BY <1>1, <2>1, <2>2, <2>3, <2>4, <2>5, <2>6, <2>7 DEF ApiStep
  <1>2. ASSUME NEW p \in Pushes, PushStep(p) PROVE ReadyInv'
    BY <1>2, PushFrame DEF ReadyInv
  <1>3. CASE UNCHANGED vars
    BY <1>3 DEF vars, ReadyInv
  <1> QED BY <1>1, <1>2, <1>3 DEF Next

\* While nobody moves the ref of a call that expects no head, the head that the
\* call has read is the ref's value.
UnmovedInv ==
  \A c \in ApiCalls :
    /\ pc[c] \in {"read", "built"} /\ req[c].pin = Omitted /\ during[c] = {}
    => refs[req[c].ref] = chg[c].old

LEMMA UnmovedStep == ASSUME TypeOK, UnmovedInv, [Next]_vars PROVE UnmovedInv'
  <1> USE CallAssumption DEF Calls
  <1>1. ASSUME NEW m, m.ref \in Refs, MoveRef(m), NEW d \in ApiCalls,
               pc'[d] = pc[d], req'[d] = req[d], chg'[d] = chg[d],
               pc'[d] \in {"read", "built"}, req'[d].pin = Omitted, during'[d] = {}
        PROVE  refs'[req'[d].ref] = chg'[d].old
    <2>1. ~Notes(d, m.ref) /\ during[d] = {}
      BY <1>1 DEF MoveRef
    <2>2. req[d].ref # m.ref
      BY <1>1, <2>1 DEF Notes, UnderWay
    <2>3. refs'[req[d].ref] = refs[req[d].ref]
      <3>1. req[d].ref \in Refs
        BY <1>1, RequestType DEF TypeOK, Request
      <3> QED BY <1>1, <2>2, <3>1 DEF MoveRef, TypeOK
    <2> QED BY <1>1, <2>1, <2>3 DEF UnmovedInv
  <1>2. ASSUME NEW c \in ApiCalls, ApiStep(c) PROVE UnmovedInv'
    <2>0. \A d \in ApiCalls : d # c => pc'[d] = pc[d] /\ req'[d] = req[d] /\ chg'[d] = chg[d]
      BY <1>2, ApiFrame
    <2>1. CASE RefsStay
      <3>1. ASSUME pc'[c] \in {"read", "built"}, req'[c].pin = Omitted, during'[c] = {}
            PROVE  refs'[req'[c].ref] = chg'[c].old
        <4>1. CASE Receive(c) BY <3>1, <4>1 DEF Receive, Goto, TypeOK
        <4>2. CASE CommitRead(c)
          <5>1. PICK old \in RevParse(c) : Intend(c, old, Zero) /\ (old = Zero => req[c].pin = Zero)
            BY <3>1, <4>2 DEF CommitRead, Answer, Goto, TypeOK
          <5>2. req'[c] = req[c]
            BY <4>2 DEF CommitRead, ApiRest
          <5>3. old = refs[req[c].ref]
            BY <3>1, <5>1, <5>2, ShaAssumption DEF RevParse, Sha0
          <5> QED BY <2>1, <5>1, <5>2, <5>3 DEF Intend, RefsStay, TypeOK
        <4>3. CASE CommitBuild(c)
          BY <2>1, <3>1, <4>3 DEF CommitBuild, Answer, Goto, Intend, ApiRest, RefsStay, TypeOK, UnmovedInv
        <4>4. CASE CreateRead(c)
          <5>1. req[c].pin = Zero /\ req'[c] = req[c]
            BY <4>4, RequestType DEF CreateRead, RequestSpace, TypeOK, ApiRest
          <5> QED BY <3>1, <5>1, ShaAssumption DEF Sha0
        <4>5. CASE DeleteRead(c)
          <5>1. PICK old \in RevParse(c) : Intend(c, old, Zero) /\ old # Zero
            BY <3>1, <4>5 DEF DeleteRead, Answer, Goto, TypeOK
          <5>2. req'[c] = req[c]
            BY <4>5 DEF DeleteRead, ApiRest
          <5>3. old = refs[req[c].ref]
            BY <5>1 DEF RevParse
          <5> QED BY <2>1, <5>1, <5>2, <5>3 DEF Intend, RefsStay, TypeOK
        <4>6. CASE UpdateRef(c)
          BY <3>1, <4>6 DEF UpdateRef, Goto, Lost, TypeOK
        <4>7. CASE DispatchApi(c)
          BY <3>1, <4>7 DEF DispatchApi, Goto, TypeOK
        <4> QED BY <1>2, <4>1, <4>2, <4>3, <4>4, <4>5, <4>6, <4>7 DEF ApiStep
      <3> QED BY <2>0, <2>1, <3>1 DEF UnmovedInv, RefsStay
    <2>2. CASE pc[c] = "built" /\ pc'[c] \in {"moved"} \cup ApiDone /\ MoveRef(chg[c])
      <3>1. chg[c].ref \in Refs
        BY <2>2, RequestType DEF TypeOK, Intended, Request
      <3>2. pc'[c] \notin {"read", "built"}
        BY <2>2 DEF ApiDone
      <3> QED BY <1>1, <2>0, <2>2, <3>1, <3>2 DEF UnmovedInv
    <2> QED BY <1>2, <2>1, <2>2, ApiFrame
  <1>3. ASSUME NEW p \in Pushes, PushStep(p) PROVE UnmovedInv'
    <2>0. \A d \in ApiCalls : pc'[d] = pc[d] /\ req'[d] = req[d] /\ chg'[d] = chg[d]
      BY <1>3, PushFrame
    <2>1. CASE RefsStay
      BY <2>0, <2>1 DEF UnmovedInv, RefsStay
    <2>2. ASSUME NEW r \in Refs, NEW new \in Sha0, PushUpdate(p, r, new) PROVE UnmovedInv'
      BY <1>1, <2>0, <2>2 DEF UnmovedInv, PushUpdate
    <2> QED BY <1>3, <2>1, <2>2, PushFrame
  <1>4. CASE UNCHANGED vars
    BY <1>4 DEF vars, UnmovedInv
  <1> QED BY <1>2, <1>3, <1>4 DEF Next

-------------------------------------------------------------------------------
(* The refinement mapping.                                                  *)

Outcomes == [c \in ApiCalls |-> OutcomeOf(c)]
Overtakings == {c \in ApiCalls : during[c] # {}}

\* A move of a ref overtakes the calls on it that are under way.
LEMMA MoveOvertakes ==
  ASSUME NEW m, NEW r, MoveRef(m), m.ref = r
  PROVE  Overtakings' = Overtakings \cup
           {c \in ApiCalls : Outcomes[c] = "open" /\ req[c].ref = r}
  <1>1. \A c \in ApiCalls : c \in Calls /\ c \notin Pushes
    BY CallAssumption DEF Calls
  <1>2. \A c \in ApiCalls : Notes(c, m.ref) <=> Outcomes[c] = "open" /\ req[c].ref = m.ref
    <2> TAKE c \in ApiCalls
    <2>1. Outcomes[c] = "open" <=> pc[c] \in UnderWay
      BY DEF Outcomes, OutcomeOf, UnderWay
    <2> QED BY <1>1, <2>1 DEF Notes
  <1>3. \A c \in ApiCalls :
          during'[c] # {} <=> during[c] # {} \/ Notes(c, m.ref)
    BY <1>1 DEF MoveRef
  <1> QED BY <1>2, <1>3 DEF Overtakings

LEMMA OutcomeFacts ==
  ASSUME NEW c \in ApiCalls
  PROVE  /\ pc[c] = "new" => OutcomeOf(c) = "idle"
         /\ pc[c] \in {"called", "read", "built"} => OutcomeOf(c) = "open"
         /\ pc[c] \in {"moved", "ok"} => OutcomeOf(c) = "ok"
         /\ pc[c] \in {"HeadMismatch", "BranchExists"} => OutcomeOf(c) = "mismatch"
         /\ pc[c] = "GitFailed" => OutcomeOf(c) = "broken"
         /\ pc[c] \in {"Refused", "RevNotFound", "DefaultBranch", "NothingToCommit"} =>
              OutcomeOf(c) = "refused"
  BY DEF OutcomeOf, UnderWay

LEMMA OutcomeFactsNext ==
  ASSUME NEW c \in ApiCalls
  PROVE  /\ pc'[c] = "new" => OutcomeOf(c)' = "idle"
         /\ pc'[c] \in {"called", "read", "built"} => OutcomeOf(c)' = "open"
         /\ pc'[c] \in {"moved", "ok"} => OutcomeOf(c)' = "ok"
         /\ pc'[c] \in {"HeadMismatch", "BranchExists"} => OutcomeOf(c)' = "mismatch"
         /\ pc'[c] = "GitFailed" => OutcomeOf(c)' = "broken"
         /\ pc'[c] \in {"Refused", "RevNotFound", "DefaultBranch", "NothingToCommit"} =>
              OutcomeOf(c)' = "refused"
  BY DEF OutcomeOf, UnderWay

\* Only the call that steps changes its outcome.
LEMMA OutcomeFrame ==
  ASSUME NEW c \in ApiCalls, \A d \in ApiCalls : d # c => pc'[d] = pc[d]
  PROVE  /\ Outcomes[c] = OutcomeOf(c)
         /\ Outcomes' = [Outcomes EXCEPT ![c] = OutcomeOf(c)']
         /\ OutcomeOf(c)' = OutcomeOf(c) => Outcomes' = Outcomes
  <1>1. \A d \in ApiCalls : d # c => OutcomeOf(d)' = OutcomeOf(d)
    BY DEF OutcomeOf
  <1> QED BY <1>1 DEF Outcomes

\* The moves of a push are pushes of the atomic specification.
LEMMA PushRefines ==
  ASSUME TypeOK, NEW p \in Pushes, PushStep(p)
  PROVE  [Atomic!Next]_(Atomic!vars)
  <1>1. UNCHANGED <<req, Outcomes>>
    BY PushFrame DEF Outcomes, OutcomeOf
  <1>2. CASE RefsStay
    BY <1>1, <1>2 DEF RefsStay, Atomic!vars, Outcomes
  <1>3. ASSUME NEW r \in Refs, NEW new \in Sha0, PushUpdate(p, r, new) PROVE Atomic!Next
    <2>1. /\ MoveRef([by |-> p, ref |-> r, old |-> advert[p][r], new |-> new])
          /\ refs' = [refs EXCEPT ![r] = new] /\ new # refs[r] /\ (new = Zero => r # Head)
      BY <1>3 DEF PushUpdate, HeadIs, PushMayDelete, MoveRef
    <2>2. Atomic!Overtakes(r)
      <3>1. [by |-> p, ref |-> r, old |-> advert[p][r], new |-> new].ref = r
        OBVIOUS
      <3>2. Overtakings' = Overtakings \cup
              {c \in ApiCalls : Outcomes[c] = "open" /\ req[c].ref = r}
        BY <2>1, <3>1, MoveOvertakes
      <3> QED BY <3>2 DEF Atomic!Overtakes, Overtakings, Outcomes, Atomic!ApiCalls, ApiCalls
    <2>3. Atomic!GitPush(r, new)
      BY <1>1, <2>1, <2>2 DEF Atomic!GitPush, Outcomes
    <2> QED BY <2>3 DEF Atomic!Next, Atomic!Sha0, Sha0
  <1> QED BY <1>2, <1>3, PushFrame

\* A step of a call before its swap opens it, refuses it, finds that the head is
\* not the expected one, or is not seen.
LEMMA ChecksRefine ==
  ASSUME TypeOK, NEW c \in ApiCalls,
         Receive(c) \/ CommitRead(c) \/ CommitBuild(c) \/ CreateRead(c) \/ DeleteRead(c)
  PROVE  [Atomic!Next]_(Atomic!vars)
  <1>0. ApiStep(c)
    BY DEF ApiStep
  <1>1. c \in Calls /\ \A d \in ApiCalls : d # c => pc'[d] = pc[d]
    BY <1>0, ApiFrame DEF Calls
  <1>2. /\ Outcomes[c] = OutcomeOf(c)
        /\ Outcomes' = [Outcomes EXCEPT ![c] = OutcomeOf(c)']
        /\ OutcomeOf(c)' = OutcomeOf(c) => Outcomes' = Outcomes
    BY <1>1, OutcomeFrame
  <1>3. CASE Receive(c)
    <2>1. pc[c] = "new" /\ pc'[c] = "called" /\ UNCHANGED <<refs, during>>
      BY <1>1, <1>3 DEF Receive, Goto, TypeOK
    <2>2. Atomic!Open(c)
      BY <1>2, <1>3, <2>1, OutcomeFacts, OutcomeFactsNext DEF Receive, Atomic!Open, Outcomes
    <2> QED BY <2>2 DEF Atomic!Next, Atomic!ApiCalls, ApiCalls
  <1>4. CASE CommitRead(c) \/ CommitBuild(c) \/ CreateRead(c) \/ DeleteRead(c)
    <2>1. /\ pc[c] \in {"called", "read"} /\ UNCHANGED <<refs, req, during>>
          /\ \/ pc'[c] \in {"read", "built"}
             \/ pc'[c] \in {"Refused", "RevNotFound", "DefaultBranch", "NothingToCommit"}
             \/ pc'[c] = "HeadMismatch" /\ req[c].pin \notin {Omitted, refs[req[c].ref]}
      BY <1>1, <1>4
      DEF CommitRead, CommitBuild, CreateRead, DeleteRead, Answer, Goto, RefsStay, ApiRest, TypeOK,
          RevParse, PinHolds
    <2>2. OutcomeOf(c) = "open"
      BY <2>1, OutcomeFacts
    <2>3. CASE pc'[c] \in {"read", "built"}
      BY <1>2, <2>1, <2>2, <2>3, OutcomeFactsNext DEF Atomic!vars, Outcomes
    <2>4. CASE pc'[c] \in {"Refused", "RevNotFound", "DefaultBranch", "NothingToCommit"}
      <3>1. Atomic!Refuse(c)
        BY <1>2, <2>1, <2>2, <2>4, OutcomeFactsNext DEF Atomic!Refuse, Atomic!Declines, Outcomes
      <3> QED BY <3>1 DEF Atomic!Next, Atomic!ApiCalls, ApiCalls
    <2>5. CASE pc'[c] = "HeadMismatch" /\ req[c].pin \notin {Omitted, refs[req[c].ref]}
      <3>1. Atomic!Mismatch(c)
        BY <1>2, <2>1, <2>2, <2>5, OutcomeFactsNext DEF Atomic!Mismatch, Atomic!Declines, Outcomes
      <3> QED BY <3>1 DEF Atomic!Next, Atomic!ApiCalls, ApiCalls
    <2> QED BY <2>1, <2>3, <2>4, <2>5
  <1> QED BY <1>3, <1>4

\* The swap is the moment at which a call takes effect, or learns that it lost.
LEMMA SwapRefines ==
  ASSUME TypeOK, ReadyInv, BuiltInv, UnmovedInv, NEW c \in ApiCalls, UpdateRef(c)
  PROVE  Atomic!Next
  <1>0. ApiStep(c)
    BY DEF ApiStep
  <1>1. c \in Calls /\ \A d \in ApiCalls : d # c => pc'[d] = pc[d]
    BY <1>0, ApiFrame DEF Calls
  <1>2. /\ Outcomes[c] = OutcomeOf(c)
        /\ Outcomes' = [Outcomes EXCEPT ![c] = OutcomeOf(c)']
    BY <1>1, OutcomeFrame
  <1>3. /\ pc[c] = "built" /\ UNCHANGED req /\ Intended(c) /\ chg[c].ref = req[c].ref
        /\ req[c].ref \in Refs /\ req[c].pin \in {Omitted, chg[c].old}
        /\ OutcomeOf(c) = "open" /\ refs[req[c].ref] \in Sha0
    BY RequestType, OutcomeFacts DEF UpdateRef, ApiRest, TypeOK, Intended, Request, Sha0
  <1>4. CASE HeadIs(chg[c].ref, chg[c].old) /\ MoveRef(chg[c])
    <2>1. /\ refs[req[c].ref] = chg[c].old
          /\ refs' = [refs EXCEPT ![req[c].ref] = chg[c].new]
      BY <1>3, <1>4 DEF HeadIs, MoveRef
    <2>2. chg[c].new \in Atomic!Results(c, chg[c].old)
      BY <1>3, CallAssumption DEF ReadyInv, BuiltInv, Atomic!Results, ApiCalls
    <2>3. OutcomeOf(c)' \in {"ok"} \cup (IF c \in Failing THEN {"broken"} ELSE {})
      <3>1. pc'[c] = "moved" \/ (c \in Failing /\ pc'[c] = "GitFailed")
        BY <1>1, <1>3, <1>4 DEF UpdateRef, HeadIs, Goto, TypeOK
      <3> QED BY <3>1, OutcomeFactsNext
    <2>4. Atomic!Overtakes(req[c].ref)
      <3>1. MoveRef(chg[c]) /\ chg[c].ref = req[c].ref
        BY <1>3, <1>4
      <3>2. Overtakings' = Overtakings \cup
              {d \in ApiCalls : Outcomes[d] = "open" /\ req[d].ref = req[c].ref}
        BY <3>1, MoveOvertakes
      <3> QED BY <3>2 DEF Atomic!Overtakes, Overtakings, Outcomes, Atomic!ApiCalls, ApiCalls
    <2>5. Atomic!Succeed(c)
      BY <1>2, <1>3, <2>1, <2>2, <2>3, <2>4 DEF Atomic!Succeed, Outcomes
    <2> QED BY <2>5 DEF Atomic!Next, Atomic!ApiCalls, ApiCalls
  <1>5. CASE RefsStay /\ pc'[c] = Lost(c) /\ ~HeadIs(chg[c].ref, chg[c].old)
    <2>1. OutcomeOf(c)' = "mismatch"
      BY <1>5, OutcomeFactsNext DEF Lost
    <2>2. Atomic!Declines(c, "mismatch")
      BY <1>2, <1>3, <1>5, <2>1 DEF RefsStay, Atomic!Declines, Outcomes
    <2>3. CASE req[c].pin = Omitted
      <3>1. during[c] # {}
        BY <1>3, <1>5, <2>3 DEF UnmovedInv, HeadIs
      <3>2. Atomic!Overtaken(c)
        BY <2>2, <2>3, <3>1 DEF Atomic!Overtaken
      <3> QED BY <3>2 DEF Atomic!Next, Atomic!ApiCalls, ApiCalls
    <2>4. CASE req[c].pin # Omitted
      <3>1. req[c].pin # refs[req[c].ref]
        BY <1>3, <1>5, <2>4 DEF HeadIs
      <3>2. Atomic!Mismatch(c)
        BY <2>2, <2>4, <3>1 DEF Atomic!Mismatch
      <3> QED BY <3>2 DEF Atomic!Next, Atomic!ApiCalls, ApiCalls
    <2> QED BY <2>3, <2>4
  <1>6. CASE RefsStay /\ pc'[c] = "GitFailed" /\ c \in Failing
    <2>1. OutcomeOf(c)' = "broken"
      BY <1>6, OutcomeFactsNext
    <2>2. Atomic!Break(c)
      BY <1>2, <1>3, <1>6, <2>1 DEF RefsStay, Atomic!Break, Atomic!Declines, Outcomes
    <2> QED BY <2>2 DEF Atomic!Next, Atomic!ApiCalls, ApiCalls
  <1> QED BY <1>1, <1>4, <1>5, <1>6 DEF UpdateRef, LeaveRef, Goto, TypeOK

\* The event and the answer come after the effect.
LEMMA DispatchRefines ==
  ASSUME TypeOK, NEW c \in ApiCalls, DispatchApi(c)
  PROVE  UNCHANGED Atomic!vars
  <1>1. c \in Calls /\ pc[c] = "moved" /\ pc'[c] = "ok" /\ UNCHANGED <<refs, req, during>>
    BY DEF DispatchApi, Goto, TypeOK, Calls
  <1>2. \A d \in ApiCalls : d # c => pc'[d] = pc[d]
    BY ApiFrame DEF ApiStep, Calls
  <1>3. OutcomeOf(c)' = OutcomeOf(c)
    BY <1>1, OutcomeFacts, OutcomeFactsNext
  <1>4. Outcomes' = Outcomes
    BY <1>2, <1>3, OutcomeFrame
  <1> QED BY <1>1, <1>4 DEF Atomic!vars, Outcomes

\* The content and branch API of HeadlessGit is an API of atomic compare-and-swap
\* operations on the refs, although each call is a sequence of git subprocesses
\* beside pushes and other calls.
THEOREM CallsAreAtomic == Spec => ImplementsAtomic
  <1>1. Init => Atomic!Init
    <2>1. Init => \A c \in ApiCalls : pc[c] = "new" /\ during[c] = {}
      BY DEF Init, Calls
    <2>2. Init => Outcomes = [c \in ApiCalls |-> "idle"] /\ Overtakings = {}
      BY <2>1, OutcomeFacts DEF Outcomes, Overtakings
    <2> QED BY <2>2 DEF Init, Atomic!Init, Outcomes, Overtakings, Atomic!ApiCalls, ApiCalls
  <1>2. TypeOK /\ ReadyInv /\ BuiltInv /\ UnmovedInv /\ [Next]_vars => [Atomic!Next]_(Atomic!vars)
    <2> SUFFICES ASSUME TypeOK, ReadyInv, BuiltInv, UnmovedInv, [Next]_vars
                 PROVE  [Atomic!Next]_(Atomic!vars)
      OBVIOUS
    <2>1. ASSUME NEW c \in ApiCalls, ApiStep(c) PROVE [Atomic!Next]_(Atomic!vars)
      BY <2>1, ChecksRefine, SwapRefines, DispatchRefines DEF ApiStep
    <2>2. ASSUME NEW p \in Pushes, PushStep(p) PROVE [Atomic!Next]_(Atomic!vars)
      BY <2>2, PushRefines
    <2>3. CASE UNCHANGED vars
      BY <2>3 DEF vars, Atomic!vars, OutcomeOf
    <2> QED BY <2>1, <2>2, <2>3 DEF Next
  <1>3. Init => ReadyInv /\ UnmovedInv
    BY DEF Init, ReadyInv, UnmovedInv, Calls
  <1>4. Spec => [](ReadyInv /\ UnmovedInv)
    BY <1>3, TypeCorrect, ReadyInvStep, UnmovedStep, PTL DEF Spec
  <1> QED BY <1>1, <1>2, <1>4, TypeCorrect, MovesAlways, PTL DEF Spec, ImplementsAtomic, Atomic!Spec
===============================================================================
