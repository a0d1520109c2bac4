-------------------------- MODULE PathPoliciesProofs --------------------------
(***************************************************************************)
(* Theorems about PathPolicies, for every set of paths, patterns, contents *)
(* and refs, every number of commits, and any history clients can build.   *)
(***************************************************************************)
EXTENDS PathPolicies, FiniteSetTheorems, WellFoundedInduction, TLAPS

Policy == {NormalizePathPattern(s) : s \in Patterns}
Request == UNION {[S -> Nat \cup {None}] : S \in SUBSET Refs}

CallState ==
  [at : {"waits", "apply"}, seen : SUBSET Policy]
    \cup [at : {"hook"}, seen : SUBSET Policy, updates : Request, left : SUBSET Refs]
    \cup [at : {"move"}, seen : SUBSET Policy, ref : Refs, old : Nat \cup {None}, new : Nat]

\* Parents are older than their children, refs are on stored commits.
TypeOK ==
  /\ commits \in Seq([parents : SUBSET Nat, tree : Trees])
  /\ \A i \in Made : commits[i].parents \subseteq 1..(i - 1)
  /\ stored \subseteq Made
  /\ refs \in [Refs -> stored \cup {None}]
  /\ policies \subseteq Policy
  /\ calls \in [Pushes \cup ApiCalls -> CallState \cup {None}]
  /\ \A c \in Pushes \cup ApiCalls :
       /\ Stands(c, "hook") => \A r \in DOMAIN calls[c].updates :
                                 calls[c].updates[r] \in Made \cup {None}
       /\ Stands(c, "move") => calls[c].new \in stored
  /\ mutex \in Pushes \cup {None}

\* What the hook has found out about a line it let pass, and what stays true while
\* the refs move on: whatever the push brings below the policies it has read, the
\* repository has already, and nothing in it is big.
Sized(i) == \A j \in Ancestors({i}) : \A p \in Paths : commits[j].tree[p] \notin Big
Known(x, p) == \E k \in stored : commits[k].tree[p] = x
Judged(seen, i) ==
  \A j \in Ancestors({i}) : \A p \in Paths :
    PathBlocked(seen, p) /\ commits[j].tree[p] # None => Known(commits[j].tree[p], p)

LinesInv ==
  \A c \in Pushes \cup ApiCalls : Stands(c, "hook") =>
    \A r \in DOMAIN calls[c].updates \ calls[c].left :
      calls[c].updates[r] # None =>
        Sized(calls[c].updates[r]) /\ Judged(calls[c].seen, calls[c].updates[r])

StoredInv == HasParents(stored)

IInv == TypeOK /\ StoredInv /\ LinesInv /\ NoBigBlobs

-------------------------------------------------------------------------------
(* Numbers, and the ancestors of commits.                                   *)

\* A set of numbers has a least one: what induction over the history rests on.
LEMMA LeastNat ==
  ASSUME NEW T \in SUBSET Nat, T # {} PROVE \E x \in T : \A y \in T : x <= y
  <1> DEFINE F == {0..x : x \in T}
             Fin == FiniteSubsetsOf(Nat)
             R == StrictSubsetOrdering(Nat)
  <1>1. F \subseteq Fin /\ F # {}
    <2>1. ASSUME NEW x \in T PROVE 0..x \in Fin
      <3>1. x \in Int /\ 0 \in Int /\ 0..x \subseteq Nat
        OBVIOUS
      <3>2. QED BY <3>1, FS_Interval DEF FiniteSubsetsOf
    <2>2. QED BY <2>1
  <1>2. IsWellFoundedOn(R, Fin)
    BY FS_StrictSubsetOrderingWellFounded
  <1>3. PICK f \in F : \A g \in F : <<g, f>> \notin R
    <2> HIDE DEF F, Fin, R
    <2> QED BY <1>1, <1>2, WFMin
  <1>4. PICK x \in T : f = 0..x
    OBVIOUS
  <1>5. ASSUME NEW y \in T, y < x PROVE FALSE
    <2>1. x \in 0..x /\ x \notin 0..y /\ 0..y \subseteq 0..x /\ 0..x \in SUBSET Nat
      BY <1>5
    <2>2. <<0..y, 0..x>> \in R
      BY <2>1 DEF StrictSubsetOrdering
    <2>3. QED BY <1>3, <1>4, <2>2
  <1> QED BY <1>5

\* The numbers of the commits, their parents and trees.
LEMMA MadeType ==
  ASSUME TypeOK
  PROVE  /\ Len(commits) \in Nat /\ Made \subseteq Nat
         /\ \A i \in Made : /\ commits[i].parents \subseteq Made
                            /\ commits[i].tree \in Trees
  <1>1. commits \in Seq([parents : SUBSET Nat, tree : Trees])
    BY DEF TypeOK
  <1>2. Len(commits) \in Nat /\ Made \subseteq Nat
    BY <1>1 DEF Made
  <1>3. \A i \in Made : commits[i] \in [parents : SUBSET Nat, tree : Trees]
    <2> DEFINE Commits == [parents : SUBSET Nat, tree : Trees]
    <2> HIDE DEF Commits
    <2>1. commits \in Seq(Commits)
      BY <1>1 DEF Commits
    <2>2. \A i \in Made : commits[i] \in Commits
      BY <2>1 DEF Made
    <2>3. QED BY <2>2 DEF Commits
  <1>4. \A i \in Made : 1..(i - 1) \subseteq Made
    BY <1>2 DEF Made
  <1>5. QED BY <1>2, <1>3, <1>4 DEF TypeOK

\* Ancestors(S) is the least set of commits that holds S and its parents.
LEMMA AncestorsLeast ==
  ASSUME TypeOK
  PROVE  \A S \in SUBSET Made :
           /\ S \subseteq Ancestors(S) /\ Ancestors(S) \subseteq Made
           /\ HasParents(Ancestors(S))
           /\ \A T \in SUBSET Made : S \subseteq T /\ HasParents(T) => Ancestors(S) \subseteq T
  <1> SUFFICES ASSUME NEW S \in SUBSET Made
               PROVE  /\ S \subseteq Ancestors(S) /\ Ancestors(S) \subseteq Made
                      /\ HasParents(Ancestors(S))
                      /\ \A T \in SUBSET Made : S \subseteq T /\ HasParents(T)
                                                  => Ancestors(S) \subseteq T
    OBVIOUS
  <1>1. \A i \in Made : commits[i].parents \subseteq Made
    BY MadeType
  <1>2. HasParents(Ancestors(S))
    <2> SUFFICES ASSUME NEW i \in Ancestors(S), NEW k \in commits[i].parents
                 PROVE  k \in Ancestors(S)
      BY DEF HasParents
    <2>1. i \in Made /\ k \in Made
      BY <1>1 DEF Ancestors
    <2>2. ASSUME NEW T \in SUBSET Made, S \subseteq T, HasParents(T) PROVE k \in T
      BY <2>2 DEF Ancestors, HasParents
    <2>3. QED BY <2>1, <2>2 DEF Ancestors
  <1>3. QED BY <1>2 DEF Ancestors

\* An ancestor of some commits is an ancestor of one of them.
LEMMA AncestorsOfOne ==
  ASSUME TypeOK
  PROVE  \A S \in SUBSET Made : \A j \in Ancestors(S) : \E i \in S : j \in Ancestors({i})
  <1> SUFFICES ASSUME NEW S \in SUBSET Made
               PROVE  \A j \in Ancestors(S) : \E i \in S : j \in Ancestors({i})
    OBVIOUS
  <1> DEFINE T == {j \in Made : \E i \in S : j \in Ancestors({i})}
  <1>1. \A i \in S : {i} \in SUBSET Made
    OBVIOUS
  <1>2. S \subseteq T
    BY <1>1, AncestorsLeast
  <1>3. HasParents(T)
    <2> SUFFICES ASSUME NEW j \in T, NEW k \in commits[j].parents PROVE k \in T
      BY DEF HasParents
    <2>1. PICK i \in S : j \in Ancestors({i})
      OBVIOUS
    <2>2. HasParents(Ancestors({i})) /\ Ancestors({i}) \subseteq Made
      BY <1>1, AncestorsLeast
    <2>3. QED BY <2>1, <2>2 DEF HasParents
  <1>4. T \in SUBSET Made
    OBVIOUS
  <1>5. Ancestors(S) \subseteq T
    BY <1>2, <1>3, <1>4, AncestorsLeast
  <1>6. QED BY <1>5

\* Whatever a ref is on is stored.
LEMMA OnRefsStored == ASSUME TypeOK, StoredInv PROVE OnRefs \subseteq stored
  <1>1. {refs[r] : r \in Refs} \ {None} \in SUBSET Made
    BY DEF TypeOK
  <1>2. {refs[r] : r \in Refs} \ {None} \subseteq stored
    BY DEF TypeOK
  <1>3. stored \in SUBSET Made
    BY DEF TypeOK
  <1>4. QED BY <1>1, <1>2, <1>3, AncestorsLeast DEF OnRefs, StoredInv

\* What a commit made leaves alone: every commit there was, and its ancestors.
Grows ==
  /\ Made \subseteq Made'
  /\ \A i \in Made : commits'[i] = commits[i]

LEMMA AncestorsStay ==
  ASSUME TypeOK, Grows
  PROVE  \A S \in SUBSET Made : Ancestors(S)' = Ancestors(S)
  <1> SUFFICES ASSUME NEW S \in SUBSET Made PROVE Ancestors(S)' = Ancestors(S)
    OBVIOUS
  <1>1. /\ S \subseteq Ancestors(S) /\ Ancestors(S) \subseteq Made /\ HasParents(Ancestors(S))
    BY AncestorsLeast
  <1>2. \A T \in SUBSET Made : HasParents(T)' <=> HasParents(T)
    BY DEF Grows, HasParents
  <1>3. ASSUME NEW j \in Ancestors(S)' PROVE j \in Ancestors(S)
    <2>1. PICK A \in SUBSET Made : A = Ancestors(S)
      BY <1>1
    <2>2. A \in SUBSET Made' /\ S \subseteq A /\ HasParents(A)'
      BY <1>1, <1>2, <2>1 DEF Grows
    <2>3. j \in A
      BY <1>3, <2>2 DEF Ancestors, HasParents
    <2>4. QED BY <2>1, <2>3
  <1>4. ASSUME NEW j \in Ancestors(S) PROVE j \in Ancestors(S)'
    <2> SUFFICES ASSUME NEW T \in SUBSET Made', S \subseteq T, HasParents(T)' PROVE j \in T
      BY <1>1, <1>4 DEF Ancestors, HasParents, Grows
    <2>1. \A i \in Made : commits[i].parents \subseteq Made
      BY MadeType
    <2>2. HasParents(T \cap Made)
      BY <2>1 DEF HasParents, Grows
    <2>3. QED BY <1>1, <1>4, <2>2, AncestorsLeast
  <1>5. QED BY <1>3, <1>4

-------------------------------------------------------------------------------
(* Type correctness.                                                        *)

LEMMA InitTypeOK == Init => TypeOK
  BY DEF Init, TypeOK, Made, Stands

\* A commit made is the newest, and leaves the others and what is stored.
LEMMA AppendGrows ==
  ASSUME TypeOK, NEW S \in SUBSET Made, NEW t \in Trees,
         commits' = Append(commits, [parents |-> S, tree |-> t])
  PROVE  /\ commits' \in Seq([parents : SUBSET Nat, tree : Trees])
         /\ Made' = Made \cup {Len(commits) + 1} /\ Len(commits') = Len(commits) + 1
         /\ commits'[Len(commits')] = [parents |-> S, tree |-> t]
         /\ \A i \in Made' : commits'[i].parents \subseteq 1..(i - 1)
         /\ Grows
  <1> DEFINE x == [parents |-> S, tree |-> t]
  <1>1. x \in [parents : SUBSET Nat, tree : Trees]
    BY DEF Made
  <1>2. Len(commits) \in Nat /\ Len(commits') = Len(commits) + 1
    BY <1>1 DEF TypeOK
  <1>3. commits' \in Seq([parents : SUBSET Nat, tree : Trees])
    BY <1>1 DEF TypeOK
  <1>4. /\ \A i \in Made : commits'[i] = commits[i]
        /\ commits'[Len(commits) + 1] = x
    BY <1>1, <1>2 DEF TypeOK, Made
  <1>5. Made' = Made \cup {Len(commits) + 1}
    BY <1>2 DEF Made
  <1>6. x.parents \subseteq 1..Len(commits)
    BY DEF Made
  <1>7. \A i \in Made' : commits'[i].parents \subseteq 1..(i - 1)
    <2>1. (Len(commits) + 1) - 1 = Len(commits)
      BY <1>2
    <2>2. QED BY <1>4, <1>5, <1>6, <2>1 DEF TypeOK
  <1>8. QED BY <1>2, <1>3, <1>4, <1>5, <1>7 DEF Grows

\* Stored commits stay, and so does the type of what is kept about them, when a
\* step touches one call at most.
LEMMA CallStepType ==
  ASSUME TypeOK, NEW c \in Pushes \cup ApiCalls, NEW call \in CallState \cup {None},
         Grows, stored \subseteq stored',
         calls' = [calls EXCEPT ![c] = call],
         call # None /\ call.at = "hook" => \A r \in DOMAIN call.updates :
                                              call.updates[r] \in Made \cup {None},
         call # None /\ call.at = "move" => call.new \in stored'
  PROVE  /\ calls' \in [Pushes \cup ApiCalls -> CallState \cup {None}]
         /\ \A d \in Pushes \cup ApiCalls :
              /\ Stands(d, "hook")' => \A r \in DOMAIN calls'[d].updates :
                                         calls'[d].updates[r] \in Made' \cup {None}
              /\ Stands(d, "move")' => calls'[d].new \in stored'
  <1>1. calls' \in [Pushes \cup ApiCalls -> CallState \cup {None}]
    BY DEF TypeOK
  <1>2. calls'[c] = call /\ \A d \in Pushes \cup ApiCalls : d # c => calls'[d] = calls[d]
    BY DEF TypeOK
  <1>3. ASSUME NEW d \in Pushes \cup ApiCalls
        PROVE  /\ Stands(d, "hook")' => \A r \in DOMAIN calls'[d].updates :
                                         calls'[d].updates[r] \in Made' \cup {None}
               /\ Stands(d, "move")' => calls'[d].new \in stored'
    <2>1. CASE d = c BY <1>2, <2>1 DEF Stands, Grows
    <2>2. CASE d # c BY <1>2, <2>2 DEF Stands, Grows, TypeOK
    <2>3. QED BY <2>1, <2>2
  <1>4. QED BY <1>1, <1>3

LEMMA GrowsStay == UNCHANGED commits => Grows
  BY DEF Grows, Made

\* What one call looks like, by where it stands.
LEMMA CallFields ==
  ASSUME TypeOK, NEW c \in Pushes \cup ApiCalls
  PROVE  /\ calls[c] # None => calls[c] \in CallState /\ calls[c].seen \in SUBSET Policy
         /\ Stands(c, "hook") =>
              calls[c] \in [at : {"hook"}, seen : SUBSET Policy, updates : Request, left : SUBSET Refs]
         /\ Stands(c, "move") =>
              calls[c] \in [at : {"move"}, seen : SUBSET Policy, ref : Refs,
                            old : Nat \cup {None}, new : Nat]
  BY DEF TypeOK, CallState, Stands

LEMMA PushTypeOK ==
  ASSUME TypeOK, NEW c \in Pushes,
         Push(c) \/ PushFails(c) \/ (\E u \in Updates : Lock(c, u))
           \/ (\E r \in Refs : PreReceive(c, r)) \/ (\E S \in SUBSET Refs : ReceivePack(c, S))
  PROVE  TypeOK'
  <1> USE CallFields, GrowsStay
  <1>1. CASE Push(c)
    <2> DEFINE call == [at |-> "waits", seen |-> policies]
    <2>1. call \in CallState /\ call.at = "waits"
      BY DEF CallState, TypeOK
    <2>2. QED BY <1>1, <2>1, CallStepType DEF Push, TypeOK, Made
  <1>2. CASE PushFails(c)
    BY <1>2, CallStepType DEF PushFails, Ends, TypeOK, Made
  <1>3. CASE \E u \in Updates : Lock(c, u)
    <2> PICK u \in Updates : Lock(c, u)
      BY <1>3
    <2> DEFINE call == [at |-> "hook", seen |-> calls[c].seen, updates |-> u, left |-> DOMAIN u]
    <2>1. /\ u \in Request /\ DOMAIN u \in SUBSET Refs
          /\ \A r \in DOMAIN u : u[r] \in Made \cup {None}
      BY DEF Updates, Request, Made
    <2>2. calls[c].seen \in SUBSET Policy
      BY DEF Lock, Stands
    <2>3. call \in CallState
      BY <2>1, <2>2 DEF CallState
    <2>4. QED BY <2>1, <2>3, CallStepType DEF Lock, TypeOK, Made
  <1>4. CASE \E r \in Refs : PreReceive(c, r)
    <2> PICK r \in Refs : PreReceive(c, r)
      BY <1>4
    <2> DEFINE call == [calls[c] EXCEPT !.left = @ \ {r}]
    <2>1. Stands(c, "hook")
      BY DEF PreReceive
    <2>2. call \in CallState /\ call.at = "hook" /\ call.updates = calls[c].updates
      BY <2>1 DEF CallState
    <2>3. calls' = [calls EXCEPT ![c] = call]
      BY DEF PreReceive
    <2>4. \A d \in DOMAIN call.updates : call.updates[d] \in Made \cup {None}
      BY <2>1, <2>2 DEF TypeOK
    <2> HIDE DEF call
    <2>5. QED BY <2>2, <2>3, <2>4, CallStepType DEF PreReceive, TypeOK, Made
  <1>5. CASE \E S \in SUBSET Refs : ReceivePack(c, S)
    <2> PICK S \in SUBSET Refs : ReceivePack(c, S)
      BY <1>5
    <2> DEFINE news == calls[c].updates
               asked == {news[r] : r \in DOMAIN news} \ {None}
    <2>1. Stands(c, "hook") /\ \A r \in DOMAIN news : news[r] \in Made \cup {None}
      BY DEF ReceivePack, TypeOK
    <2>2. asked \in SUBSET Made /\ stored' = stored \cup Ancestors(asked)
      BY <2>1 DEF ReceivePack
    <2>3. asked \subseteq Ancestors(asked) /\ Ancestors(asked) \subseteq Made
      BY <2>2, AncestorsLeast
    <2>4. stored \subseteq stored' /\ stored' \subseteq Made
      BY <2>2, <2>3 DEF TypeOK
    <2>5. refs' \in [Refs -> stored' \cup {None}]
      BY <2>1, <2>2, <2>3, <2>4 DEF ReceivePack, TypeOK
    <2>6. QED BY <2>4, <2>5, CallStepType DEF ReceivePack, Ends, TypeOK, Made
  <1>6. QED BY <1>1, <1>2, <1>3, <1>4, <1>5

LEMMA ApiTypeOK ==
  ASSUME TypeOK, NEW c \in ApiCalls,
         Commit(c) \/ UpdateRef(c) \/ CommitFails(c)
           \/ (\E r \in Refs, tree \in Trees : ApplyCommit(c, r, tree))
  PROVE  TypeOK'
  <1> USE CallFields, GrowsStay
  <1>1. CASE Commit(c)
    <2> DEFINE call == [at |-> "apply", seen |-> policies]
    <2>1. call \in CallState /\ call.at = "apply"
      BY DEF CallState, TypeOK
    <2>2. QED BY <1>1, <2>1, CallStepType DEF Commit, TypeOK, Made
  <1>2. CASE UpdateRef(c)
    <2>1. calls[c].ref \in Refs /\ calls[c].new \in stored
      BY <1>2 DEF UpdateRef, TypeOK
    <2>2. refs' \in [Refs -> stored' \cup {None}]
      BY <1>2, <2>1 DEF UpdateRef, TypeOK
    <2>3. QED BY <1>2, <2>2, CallStepType DEF UpdateRef, Ends, TypeOK, Made
  <1>3. CASE CommitFails(c)
    BY <1>3, CallStepType DEF CommitFails, Ends, TypeOK, Made
  <1>4. CASE \E r \in Refs, tree \in Trees : ApplyCommit(c, r, tree)
    <2> PICK r \in Refs, tree \in Trees : ApplyCommit(c, r, tree)
      BY <1>4
    <2> DEFINE new == Len(commits')
               call == [at |-> "move", seen |-> calls[c].seen, ref |-> r, old |-> refs[r],
                        new |-> new]
    <2>1. {refs[r]} \ {None} \in SUBSET Made
      BY DEF TypeOK
    <2>2. /\ commits' \in Seq([parents : SUBSET Nat, tree : Trees])
          /\ Made' = Made \cup {new} /\ Grows /\ new = Len(commits) + 1
          /\ \A i \in Made' : commits'[i].parents \subseteq 1..(i - 1)
      BY <2>1, AppendGrows DEF ApplyCommit
    <2>3. new \in Nat /\ stored' = stored \cup {new}
      BY <2>2 DEF ApplyCommit, TypeOK
    <2>4. call \in CallState
      <3>1. calls[c].seen \in SUBSET Policy
        BY DEF ApplyCommit, Stands
      <3>2. refs[r] \in Nat \cup {None}
        BY MadeType DEF TypeOK
      <3> HIDE DEF new
      <3>3. QED BY <2>3, <3>1, <3>2 DEF CallState
    <2>5. stored \subseteq stored' /\ stored' \subseteq Made' /\ new \in stored'
      BY <2>2, <2>3 DEF TypeOK
    <2>6. calls' = [calls EXCEPT ![c] = call] /\ call.at = "move" /\ call.new = new
      BY DEF ApplyCommit
    <2> HIDE DEF call, new
    <2>7. /\ calls' \in [Pushes \cup ApiCalls -> CallState \cup {None}]
          /\ \A d \in Pushes \cup ApiCalls :
              /\ Stands(d, "hook")' => \A u \in DOMAIN calls'[d].updates :
                                         calls'[d].updates[u] \in Made' \cup {None}
              /\ Stands(d, "move")' => calls'[d].new \in stored'
      BY <2>2, <2>4, <2>5, <2>6, CallStepType
    <2>8. QED BY <2>2, <2>5, <2>7 DEF ApplyCommit, TypeOK
  <1>5. QED BY <1>1, <1>2, <1>3, <1>4

LEMMA StepTypeOK == ASSUME TypeOK, [Next]_vars PROVE TypeOK'
  <1>1. ASSUME NEW s \in Patterns, AddPathPolicy(s) PROVE TypeOK'
    BY <1>1 DEF AddPathPolicy, Policy, TypeOK, Stands, Made
  <1>2. ASSUME NEW q \in policies, RemovePathPolicy(q) PROVE TypeOK'
    BY <1>2 DEF RemovePathPolicy, TypeOK, Stands, Made
  <1>3. ASSUME NEW S \in SUBSET Made, NEW t \in ClientTrees, ClientCommit(S, t) PROVE TypeOK'
    <2>1. t \in Trees
      BY BlobAssumption
    <2>2. /\ commits' \in Seq([parents : SUBSET Nat, tree : Trees])
          /\ Made' = Made \cup {Len(commits) + 1}
          /\ \A i \in Made' : commits'[i].parents \subseteq 1..(i - 1)
      BY <1>3, <2>1, AppendGrows DEF ClientCommit
    <2>3. /\ stored' \subseteq Made' /\ refs' \in [Refs -> stored' \cup {None}]
          /\ policies' \subseteq Policy /\ mutex' \in Pushes \cup {None}
      BY <1>3, <2>2 DEF ClientCommit, TypeOK
    <2>4. /\ calls' \in [Pushes \cup ApiCalls -> CallState \cup {None}]
          /\ \A c \in Pushes \cup ApiCalls :
               /\ Stands(c, "hook")' => \A r \in DOMAIN calls'[c].updates :
                                          calls'[c].updates[r] \in Made' \cup {None}
               /\ Stands(c, "move")' => calls'[c].new \in stored'
      BY <1>3, <2>2 DEF ClientCommit, TypeOK, Stands
    <2>5. QED BY <2>2, <2>3, <2>4 DEF TypeOK
  <1>4. ASSUME NEW r \in Refs, DeleteBranch(r) \/ \E i \in stored : CreateBranch(r, i)
        PROVE  TypeOK'
    BY <1>4 DEF DeleteBranch, CreateBranch, TypeOK, Stands, Made
  <1>5. CASE UNCHANGED vars
    BY <1>5 DEF vars, TypeOK, Stands, Made
  <1>6. QED BY <1>1, <1>2, <1>3, <1>4, <1>5, PushTypeOK, ApiTypeOK DEF Next

\* Every state is well-typed: parents are older than their children, so that the
\* walk of git rev-list ends, what the hook is asked about and what a ref is on are
\* commits that exist, and a ref is never on a commit whose objects the repository
\* does not have (local.go:127, local_commit.go:131).
THEOREM TypeCorrect == Spec => []TypeOK
  BY InitTypeOK, StepTypeOK, PTL DEF Spec

-------------------------------------------------------------------------------
(* What the hook has judged stays judged.                                   *)

\* The contents of what the repository has, sized one by one.
LEMMA StoredSized ==
  ASSUME NEW S, \A i \in S, p \in Paths : commits[i].tree[p] \notin Big
  PROVE  BlobsOf(S) \cap Big = {}
  BY DEF BlobsOf

\* A line that passes is judged: walking from the oldest commit, what a new one has
\* below a policy is what a parent has there, and that is in the repository.
LEMMA PassesJudges ==
  ASSUME TypeOK, StoredInv, NoBigBlobs, NEW i \in Made, NEW seen, Passes(seen, i)
  PROVE  Sized(i) /\ Judged(seen, i)
  <1> DEFINE A == Ancestors({i})
  <1>1. A \subseteq Made /\ HasParents(A)
    BY AncestorsLeast
  <1>2. OnRefs \subseteq stored
    BY OnRefsStored
  <1>3. Sized(i)
    <2> SUFFICES ASSUME NEW j \in A, NEW p \in Paths, commits[j].tree[p] \in Big PROVE FALSE
      BY DEF Sized
    <2> DEFINE b == commits[j].tree[p]
    <2>1. b # None
      BY BlobAssumption
    <2>2. b \notin BlobsOf(OnRefs)
      BY <1>2 DEF BlobsOf, NoBigBlobs
    <2>3. j \in NewCommits(i)
      BY <2>1, <2>2 DEF NewCommits, BlobsOf
    <2>4. b \in NewBlobs(i)
      BY <2>1, <2>2, <2>3 DEF NewBlobs, BlobsOf
    <2>5. QED BY <2>4 DEF Passes
  <1>4. Judged(seen, i)
    <2> SUFFICES ASSUME NEW p \in Paths, PathBlocked(seen, p)
                 PROVE  \A j \in A : commits[j].tree[p] # None => Known(commits[j].tree[p], p)
      BY DEF Judged
    <2> DEFINE unknown == {j \in A : commits[j].tree[p] # None /\ ~Known(commits[j].tree[p], p)}
    <2>1. SUFFICES ASSUME unknown # {} PROVE FALSE
      OBVIOUS
    <2>2. unknown \in SUBSET Nat
      BY <1>1, MadeType
    <2>3. PICK j \in unknown : \A k \in unknown : j <= k
      <3> HIDE DEF unknown
      <3> QED BY <2>1, <2>2, LeastNat
    <2>4. j \in A /\ commits[j].tree[p] # None /\ ~Known(commits[j].tree[p], p)
      OBVIOUS
    <2>5. j \in NewCommits(i)
      BY <1>2, <2>4 DEF NewCommits, Known
    <2>6. p \notin Changed(j)
      BY <2>5 DEF Passes
    <2>7. PICK k \in commits[j].parents : commits[k].tree[p] = commits[j].tree[p]
      BY <2>4, <2>6 DEF Changed
    <2>8. k \in unknown
      BY <1>1, <2>4, <2>7 DEF HasParents
    <2>9. k \in 1..(j - 1) /\ j \in Nat
      BY <1>1, <2>4, <2>7, MadeType DEF TypeOK
    <2> HIDE DEF unknown
    <2>10. QED BY <2>3, <2>8, <2>9
  <1>5. QED BY <1>3, <1>4

\* Commits are not rewritten and none leaves the repository, so a line that has
\* been judged stays so.
LEMMA JudgedStays ==
  ASSUME TypeOK, Grows, stored \subseteq stored', NEW i \in Made, NEW seen
  PROVE  (Sized(i) => Sized(i)') /\ (Judged(seen, i) => Judged(seen, i)')
  <1>1. Ancestors({i})' = Ancestors({i}) /\ Ancestors({i}) \subseteq Made
    BY AncestorsStay, AncestorsLeast
  <1>2. \A j \in Ancestors({i}) : commits'[j] = commits[j]
    BY <1>1 DEF Grows
  <1>3. \A k \in stored : k \in stored' /\ commits'[k] = commits[k]
    BY DEF Grows, TypeOK
  <1>4. Sized(i) => Sized(i)'
    BY <1>1, <1>2 DEF Sized
  <1>5. Judged(seen, i) => Judged(seen, i)'
    <2> SUFFICES ASSUME Judged(seen, i), NEW j \in Ancestors({i})', NEW p \in Paths,
                        PathBlocked(seen, p), commits'[j].tree[p] # None
                 PROVE  \E k \in stored' : commits'[k].tree[p] = commits'[j].tree[p]
      BY DEF Judged, Known
    <2>1. j \in Ancestors({i}) /\ commits'[j] = commits[j]
      BY <1>1, <1>2
    <2>2. \E k \in stored : commits[k].tree[p] = commits[j].tree[p]
      BY <2>1 DEF Judged, Known
    <2>3. QED BY <1>3, <2>1, <2>2
  <1>6. QED BY <1>4, <1>5

-------------------------------------------------------------------------------
(* What comes into the repository.                                          *)

\* A commit that a step brings in under the policies c has read: its parents are
\* there too, none of its files is big, and what it has below those policies was
\* there before, or has slipped in.
Welcome(i, c) ==
  /\ commits'[i].parents \subseteq stored'
  /\ \A p \in Paths :
       /\ commits'[i].tree[p] \notin Big
       /\ PathBlocked(calls[c].seen, p) /\ commits'[i].tree[p] # None
            => Known(commits'[i].tree[p], p) \/ SlipsIn(<<p, commits'[i].tree[p]>>)

LEMMA PackIsWelcome ==
  ASSUME IInv, NEW c \in Pushes, NEW S \in SUBSET Refs, ReceivePack(c, S)
  PROVE  /\ Grows /\ stored \subseteq stored' /\ calls[c] # None
         /\ \A i \in stored' \ stored : Welcome(i, c)
  <1> DEFINE news == calls[c].updates
             asked == {news[r] : r \in DOMAIN news} \ {None}
  <1> USE DEF IInv
  <1>1. /\ Stands(c, "hook") /\ calls[c].left = {} /\ stored' = stored \cup Ancestors(asked)
        /\ UNCHANGED commits
    BY DEF ReceivePack
  <1>2. asked \in SUBSET Made
    BY <1>1 DEF TypeOK
  <1>3. HasParents(Ancestors(asked))
    BY <1>2, AncestorsLeast
  <1>4. ASSUME NEW i \in stored' \ stored PROVE Welcome(i, c)
    <2>1. i \in Ancestors(asked)
      BY <1>1, <1>4
    <2>2. PICK k \in asked : i \in Ancestors({k})
      BY <1>2, <2>1, AncestorsOfOne
    <2>3. PICK r \in DOMAIN news : k = news[r] /\ k # None
      BY <2>2
    <2>4. Sized(k) /\ Judged(calls[c].seen, k)
      BY <1>1, <2>3 DEF LinesInv
    <2>5. commits[i].parents \subseteq stored'
      BY <1>1, <1>3, <2>1 DEF HasParents
    <2>6. QED BY <1>1, <2>2, <2>4, <2>5 DEF Welcome, Sized, Judged
  <1>5. QED BY <1>1, <1>4, GrowsStay DEF Stands

LEMMA ApiCommitIsWelcome ==
  ASSUME IInv, NEW c \in ApiCalls, NEW r \in Refs, NEW tree \in Trees, ApplyCommit(c, r, tree)
  PROVE  /\ Grows /\ stored \subseteq stored' /\ calls[c] # None
         /\ \A i \in stored' \ stored : Welcome(i, c)
  <1> DEFINE new == Len(commits')
             head == HeadTree(r)
             seen == calls[c].seen
  <1> USE DEF IInv
  <1>1. /\ Stands(c, "apply") /\ CanMake(head, tree, seen) /\ stored' = stored \cup {new}
        /\ commits' = Append(commits, [parents |-> {refs[r]} \ {None}, tree |-> tree])
    BY DEF ApplyCommit
  <1>2. {refs[r]} \ {None} \in SUBSET Made /\ {refs[r]} \ {None} \subseteq stored
    BY DEF TypeOK
  <1>4. Grows /\ commits'[new] = [parents |-> {refs[r]} \ {None}, tree |-> tree]
    BY <1>1, <1>2, AppendGrows
  <1>5. ASSUME NEW p \in Paths, head[p] # None
        PROVE  head[p] \notin Big /\ Known(head[p], p)
    <2>1. refs[r] \in stored /\ head = commits[refs[r]].tree
      BY <1>5 DEF HeadTree, TypeOK
    <2>2. QED BY <1>5, <2>1 DEF Known, NoBigBlobs, BlobsOf
  <1>7. ASSUME NEW p \in Paths, tree[p] # None
        PROVE  /\ tree[p] \notin Big
               /\ PathBlocked(seen, p) => Known(tree[p], p) \/ MaySlip(seen, p)
    <2>1. tree[p] \in {head[q] : q \in Paths} \cup (Blobs \ Big)
      BY <1>1, <1>7 DEF CanMake
    <2>2. PathBlocked(seen, p) => tree[p] = head[p] \/ MaySlip(seen, p)
      BY <1>1, <1>7 DEF CanMake
    <2>3. QED BY <1>5, <1>7, <2>1, <2>2
  <1>8. Welcome(new, c)
    BY <1>1, <1>2, <1>4, <1>7, BlobAssumption DEF Welcome, SlipsIn
  <1>9. QED BY <1>1, <1>4, <1>8 DEF Stands

\* Whatever a step brings in, it brings in under the policies of a call under way.
LEMMA WhatComesIn ==
  ASSUME IInv, [Next]_vars
  PROVE  /\ Grows /\ stored \subseteq stored'
         /\ \A i \in stored' \ stored :
              \E c \in Pushes \cup ApiCalls : calls[c] # None /\ Welcome(i, c)
  <1> DEFINE Goal == /\ Grows /\ stored \subseteq stored'
                     /\ \A i \in stored' \ stored :
                          \E c \in Pushes \cup ApiCalls : calls[c] # None /\ Welcome(i, c)
  <1>1. ASSUME NEW c \in Pushes, NEW S \in SUBSET Refs, ReceivePack(c, S) PROVE Goal
    BY <1>1, PackIsWelcome
  <1>2. ASSUME NEW c \in ApiCalls, NEW r \in Refs, NEW tree \in Trees, ApplyCommit(c, r, tree)
        PROVE  Goal
    BY <1>2, ApiCommitIsWelcome
  <1>3. ASSUME NEW S \in SUBSET Made, NEW t \in ClientTrees, ClientCommit(S, t) PROVE Goal
    BY <1>3, AppendGrows, BlobAssumption DEF ClientCommit, IInv
  <1>4. UNCHANGED <<commits, stored>> => Goal
    BY GrowsStay
  <1> HIDE DEF Goal
  <1>5. Goal
    BY <1>1, <1>2, <1>3, <1>4
    DEF Next, vars, AddPathPolicy, RemovePathPolicy, Push, PushFails, Lock, PreReceive, Commit,
        UpdateRef, CommitFails, DeleteBranch, CreateBranch
  <1>6. QED BY <1>5 DEF Goal

-------------------------------------------------------------------------------
(* The invariant, and what it gives.                                        *)

LEMMA StoredInvStep == ASSUME IInv, [Next]_vars PROVE StoredInv' /\ NoBigBlobs'
  <1>1. /\ Grows /\ stored \subseteq stored' /\ stored \subseteq Made
        /\ \A i \in stored' \ stored : \E c \in Pushes \cup ApiCalls : Welcome(i, c)
    BY WhatComesIn DEF IInv, TypeOK
  <1>2. \A i \in stored : commits'[i] = commits[i]
    BY <1>1 DEF Grows
  <1>3. ASSUME NEW i \in stored' PROVE commits'[i].parents \subseteq stored'
    BY <1>1, <1>2 DEF IInv, StoredInv, HasParents, Welcome
  <1>4. ASSUME NEW i \in stored', NEW p \in Paths PROVE commits'[i].tree[p] \notin Big
    <2>1. CASE i \in stored
      BY <1>2, <2>1, BlobAssumption DEF IInv, NoBigBlobs, BlobsOf
    <2>2. CASE i \notin stored
      BY <1>1, <2>2 DEF Welcome
    <2>3. QED BY <2>1, <2>2
  <1>5. QED BY <1>3, <1>4 DEF StoredInv, HasParents, NoBigBlobs, BlobsOf

LEMMA LinesInvStep == ASSUME IInv, [Next]_vars PROVE LinesInv'
  <1> USE DEF IInv
  <1>1. Grows /\ stored \subseteq stored'
    BY WhatComesIn
  <1> SUFFICES ASSUME NEW d \in Pushes \cup ApiCalls, Stands(d, "hook")', NEW r, NEW i, NEW seen,
                      r \in DOMAIN calls'[d].updates, r \notin calls'[d].left,
                      i = calls'[d].updates[r], i # None, seen = calls'[d].seen
               PROVE  Sized(i)' /\ Judged(seen, i)'
    BY DEF LinesInv
  <1> DEFINE Before == i \in Made /\ Sized(i) /\ Judged(seen, i)
  <1>2. CASE calls'[d] = calls[d]
    BY <1>1, <1>2, JudgedStays DEF LinesInv, TypeOK, Stands
  <1>3. ASSUME NEW q \in Refs, PreReceive(d, q) PROVE Before
    <2>1. /\ Stands(d, "hook") /\ calls'[d].updates = calls[d].updates
          /\ calls'[d].seen = calls[d].seen /\ calls'[d].left = calls[d].left \ {q}
      BY <1>3, CallFields DEF PreReceive, TypeOK
    <2>2. i \in Made
      BY <2>1 DEF TypeOK
    <2>3. CASE r = q
      BY <1>3, <2>1, <2>2, <2>3, PassesJudges DEF PreReceive
    <2>4. CASE r # q
      BY <2>1, <2>2, <2>4 DEF LinesInv
    <2>5. QED BY <2>3, <2>4
  <1>4. ASSUME NEW u \in Updates, Lock(d, u) PROVE FALSE
    BY <1>4 DEF Lock, TypeOK
  <1>5. CASE calls'[d] # calls[d]
    <2>1. \/ \E q \in Refs : PreReceive(d, q)
          \/ \E u \in Updates : Lock(d, u)
      <3>1. calls'[d] # None /\ calls'[d].at = "hook"
        BY DEF Stands
      <3>2. PICK c \in Pushes \cup ApiCalls :
              \/ c \in Pushes /\ \/ Push(c) \/ PushFails(c)
                                 \/ \E u \in Updates : Lock(c, u)
                                 \/ \E q \in Refs : PreReceive(c, q)
                                 \/ \E S \in SUBSET Refs : ReceivePack(c, S)
              \/ c \in ApiCalls /\ \/ Commit(c) \/ UpdateRef(c) \/ CommitFails(c)
                                   \/ \E q \in Refs, t \in Trees : ApplyCommit(c, q, t)
        BY <1>5 DEF Next, vars, AddPathPolicy, RemovePathPolicy, ClientCommit, DeleteBranch,
             CreateBranch
      <3>3. \E call : calls' = [calls EXCEPT ![c] = call]
        BY <3>2 DEF Push, PushFails, Lock, PreReceive, ReceivePack, Commit, ApplyCommit, UpdateRef,
             CommitFails, Ends
      <3>4. d = c
        BY <1>5, <3>3 DEF TypeOK
      <3>5. ~(\/ Push(c) \/ Commit(c) \/ \E q \in Refs, t \in Trees : ApplyCommit(c, q, t))
        <4>1. d \in DOMAIN calls
          BY DEF TypeOK
        <4>2. ~Push(c) /\ ~Commit(c)
          BY <3>1, <3>4, <4>1 DEF Push, Commit
        <4>3. ASSUME NEW q \in Refs, NEW t \in Trees, ApplyCommit(c, q, t) PROVE FALSE
          <5>1. calls'[c].at = "move"
            BY <3>4, <4>1, <4>3 DEF ApplyCommit
          <5>2. QED BY <3>1, <3>4, <5>1
        <4>4. QED BY <4>2, <4>3
      <3>6. CASE PushFails(c) \/ UpdateRef(c) \/ CommitFails(c)
                   \/ \E S \in SUBSET Refs : ReceivePack(c, S)
        BY <3>1, <3>4, <3>6 DEF PushFails, UpdateRef, CommitFails, ReceivePack, Ends, TypeOK
      <3>7. QED BY <3>2, <3>4, <3>5, <3>6
    <2>2. QED BY <1>1, <1>3, <1>4, <2>1, JudgedStays
  <1>6. QED BY <1>2, <1>5

LEMMA IInvAlways == Spec => []IInv
  <1>1. Init => IInv
    BY InitTypeOK DEF Init, IInv, StoredInv, HasParents, LinesInv, Stands, NoBigBlobs, BlobsOf
  <1>2. IInv /\ [Next]_vars => IInv'
    BY StepTypeOK, StoredInvStep, LinesInvStep DEF IInv
  <1>3. QED BY <1>1, <1>2, PTL DEF Spec

\* No commit of the repository holds a blob that reaches the LFS threshold, for any
\* history pushed, any interleaving of pushes, API commits and branch calls, with
\* and without policies (hook.go:89, local_commit.go:59).
THEOREM SizeLimitHolds == Spec => []NoBigBlobs
  <1>1. IInv => NoBigBlobs
    BY DEF IInv
  <1>2. QED BY <1>1, IInvAlways, PTL

\* Once every write under way has read a policy, nothing that comes in, by a push
\* or the API, is at and under its path that the repository did not hold there
\* before, however the history is shaped and whatever the operations of a commit
\* are, but for what a stale put of the API brings; and under a policy on a name at
\* the top of the tree that is nothing (README.md:16, hook.go:125).
THEOREM BlockedPathsStayOld == Spec => BlockedContentIsOld
  <1>1. ASSUME IInv, [Next]_vars, NEW q \in policies,
               \A c \in DOMAIN calls : calls[c] # None => q \in calls[c].seen,
               NEW x \in Content(q)' \ Content(q), x[2] # None
        PROVE  SlipsIn(x)
    <2>1. PICK i \in stored', p \in Paths : Under(p, q) /\ x = <<p, commits'[i].tree[p]>>
      BY <1>1 DEF Content
    <2>2. /\ Grows /\ stored \subseteq Made
          /\ \A k \in stored' \ stored :
               \E c \in Pushes \cup ApiCalls : calls[c] # None /\ Welcome(k, c)
      BY <1>1, WhatComesIn DEF IInv, TypeOK
    <2>3. i \notin stored
      BY <1>1, <2>1, <2>2 DEF Content, Grows
    <2>4. PICK c \in Pushes \cup ApiCalls : calls[c] # None /\ Welcome(i, c)
      BY <2>2, <2>3
    <2>5. q \in calls[c].seen
      BY <1>1, <2>4 DEF IInv, TypeOK
    <2>6. PathBlocked(calls[c].seen, p)
      BY <2>1, <2>5 DEF PathBlocked
    <2>7. ~Known(commits'[i].tree[p], p)
      BY <1>1, <2>1 DEF Known, Content
    <2>8. QED BY <1>1, <2>1, <2>4, <2>6, <2>7 DEF Welcome
  <1>2. IInv /\ [Next]_vars => [ \A q \in policies :
          (\A c \in DOMAIN calls : calls[c] # None => q \in calls[c].seen)
            => \A x \in Content(q)' \ Content(q) : x[2] # None => SlipsIn(x) ]_vars
    BY <1>1
  <1>3. QED BY <1>2, IInvAlways, PTL DEF Spec, BlockedContentIsOld
===============================================================================
