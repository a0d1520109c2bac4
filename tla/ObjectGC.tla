------------------------------ MODULE ObjectGC -------------------------------
(***************************************************************************)
(* Blobs that are uploaded first and committed later, and the loop that    *)
(* runs git gc on one repository after the other meanwhile.                *)
(*                                                                         *)
(* git gc takes no lock: it marks what it will prune, then prunes it.  A   *)
(* commit checks that its blob is there, writes its tree and commit, and   *)
(* moves its ref, in steps of its own.  Real time is abstracted to one     *)
(* fact: whether a blob has outlived the grace period (gc.pruneExpire, two *)
(* weeks) since it was written last.  Calls take minutes at most, and no   *)
(* blob outlives the grace period while one is using it.                   *)
(***************************************************************************)
EXTENDS Naturals, Sequences

CONSTANTS
  Repos,         \* repositories, in the order the table lists them
  Blobs,
  Calls,         \* uploads and commits
  None

Names == {Repos[k] : k \in DOMAIN Repos}
Call == [at : {"write", "check", "tree", "ref"}, repo : Names, blob : Blobs, stale : BOOLEAN]

ASSUME NameAssumption == Repos \in Seq(Names) /\ Repos # <<>> /\ None \notin Call

VARIABLES
  store,   \* the blobs of each repository: none, fresh, or old
  refs,    \* the blobs its refs reach; stale: old when the commit checked it (history)
  trees,   \* calls whose tree and commit, on no ref yet, are in it
  life,    \* a repository is whole, deleted, or has a row only: what a creation
           \* leaves that was interrupted, or whose rollback failed
  calls,   \* where each call stands
  todo,    \* repositories the sweep has not come to
  doomed   \* what the running git gc will prune; None: it marks yet

vars == <<store, refs, trees, life, calls, todo, doomed>>

Init ==
  /\ store = [r \in Names |-> [b \in Blobs |-> "none"]]
  /\ refs = [r \in Names |-> {}] /\ trees = [r \in Names |-> {}]
  /\ life \in [Names -> {"whole", "rowOnly"}] /\ calls = [c \in Calls |-> None]
  /\ todo = <<>> /\ doomed = None

Stands(c, at) == calls[c] # None /\ calls[c].at = at
Moves(c, at) == calls' = [calls EXCEPT ![c].at = at]
Ends(c) == calls' = [calls EXCEPT ![c] = None]
Uses(c, r, b) == calls[c] # None /\ calls[c].repo = r /\ calls[c].blob = b

Begins(c, at, r, b) ==
  /\ calls[c] = None /\ life[r] = "whole"
  /\ calls' = [calls EXCEPT ![c] = [at |-> at, repo |-> r, blob |-> b, stale |-> FALSE]]
  /\ UNCHANGED <<store, refs, trees, life, todo, doomed>>

-------------------------------------------------------------------------------
(* Calls.                                                                   *)

Upload(c, r, b) == Begins(c, "write", r, b)
Commit(c, r, b) == Begins(c, "check", r, b)

\* git hash-object -w; it makes a blob that is there fresh again.
WriteBlob(c) ==
  /\ Stands(c, "write") /\ life[calls[c].repo] = "whole" /\ Ends(c)
  /\ store' = [store EXCEPT ![calls[c].repo][calls[c].blob] = "fresh"]
  /\ UNCHANGED <<refs, trees, life, todo, doomed>>

Has(c) == store[calls[c].repo][calls[c].blob] # "none"

\* git cat-file --batch-check.
CheckBlob(c) ==
  /\ Stands(c, "check") /\ Has(c)
  /\ calls' = [calls EXCEPT ![c] =
       [@ EXCEPT !.at = "tree", !.stale = store[calls[c].repo][calls[c].blob] = "old"]]
  /\ UNCHANGED <<store, refs, trees, life, todo, doomed>>

\* git write-tree, which wants the blobs to be there, and git commit-tree.
WriteTree(c) ==
  /\ Stands(c, "tree") /\ Has(c) /\ Moves(c, "ref")
  /\ trees' = [trees EXCEPT ![calls[c].repo] = @ \cup {c}]
  /\ UNCHANGED <<store, refs, life, todo, doomed>>

\* git update-ref, which wants the commit to be there.
UpdateRef(c) ==
  LET r == calls[c].repo IN
  /\ Stands(c, "ref") /\ c \in trees[r] /\ Ends(c)
  /\ refs' = [refs EXCEPT ![r] = @ \cup {[blob |-> calls[c].blob, stale |-> calls[c].stale]}]
  /\ trees' = [trees EXCEPT ![r] = @ \ {c}]
  /\ UNCHANGED <<store, life, todo, doomed>>

\* A call fails, or is cancelled; the objects it has written stay.
Fails(c) ==
  /\ calls[c] # None /\ Ends(c)
  /\ trees' = [r \in Names |-> trees[r] \ {c}]
  /\ UNCHANGED <<store, refs, life, todo, doomed>>

\* Service.Delete takes no lock either.
Delete(r) ==
  /\ life[r] # "deleted" /\ life' = [life EXCEPT ![r] = "deleted"]
  /\ store' = [store EXCEPT ![r] = [b \in Blobs |-> "none"]]
  /\ refs' = [refs EXCEPT ![r] = {}] /\ trees' = [trees EXCEPT ![r] = {}]
  /\ UNCHANGED <<calls, todo, doomed>>

Age(r, b) ==
  /\ store[r][b] = "fresh" /\ \A c \in Calls : ~Uses(c, r, b)
  /\ (doomed # None /\ Head(todo) = r) => b \notin doomed
  /\ store' = [store EXCEPT ![r][b] = "old"]
  /\ UNCHANGED <<refs, trees, life, calls, todo, doomed>>

-------------------------------------------------------------------------------
(* StartGC.                                                                 *)

\* The ticker fires, and the sweep asks for the repositories.
Tick ==
  /\ todo = <<>> /\ doomed = None
  /\ todo' = SelectSeq(Repos, LAMBDA r : life[r] # "deleted")
  /\ UNCHANGED <<store, refs, trees, life, calls, doomed>>

\* Reached from refs, or from objects that are younger than the grace period.
Reached(r) == {x.blob : x \in refs[r]} \cup {calls[c].blob : c \in trees[r]}

\* Faulty: git gc --prune=now.
AnyAge(r, b) == store[r][b] # "none"

\* git gc is called without --prune.
PastGrace(r, b) == store[r][b] = "old"

\* Old, and on no ref.
Abandoned(r, b) == store[r][b] = "old" /\ b \notin Reached(r)

Sweeping(r) == todo # <<>> /\ Head(todo) = r

Mark(r) ==
  /\ Sweeping(r) /\ doomed = None /\ life[r] = "whole"
  /\ doomed' = {b \in Blobs : PastGrace(r, b) /\ b \notin Reached(r)}
  /\ UNCHANGED <<store, refs, trees, life, calls, todo>>

\* A blob that was written again since it was marked stays.
Prune(r) ==
  /\ Sweeping(r) /\ doomed # None /\ todo' = Tail(todo) /\ doomed' = None
  /\ store' = [store EXCEPT ![r] =
       [b \in Blobs |-> IF b \in doomed /\ PastGrace(r, b) THEN "none" ELSE @[b]]]
  /\ UNCHANGED <<refs, trees, life, calls>>

\* Faulty: an error ends the sweep.
Aborts == <<>>

\* An error is logged, and the sweep goes on.
GoesOn == Tail(todo)

\* git gc fails, is killed at gcTimeout, or finds no repository.
GCFails(r) ==
  /\ Sweeping(r) /\ todo' = GoesOn /\ doomed' = None
  /\ UNCHANGED <<store, refs, trees, life, calls>>

\* The process ends and starts again.
Restart ==
  /\ calls' = [c \in Calls |-> None] /\ trees' = [r \in Names |-> {}]
  /\ todo' = <<>> /\ doomed' = None
  /\ UNCHANGED <<store, refs, life>>

-------------------------------------------------------------------------------
Next ==
  \/ \E c \in Calls :
       \/ \E r \in Names, b \in Blobs : Upload(c, r, b) \/ Commit(c, r, b)
       \/ WriteBlob(c) \/ CheckBlob(c) \/ WriteTree(c) \/ UpdateRef(c) \/ Fails(c)
  \/ \E r \in Names : Mark(r) \/ Prune(r) \/ GCFails(r) \/ Delete(r) \/ \E b \in Blobs : Age(r, b)
  \/ Tick \/ Restart

\* The ticker fires; a git gc ends; and one that is tried on a repository again
\* and again gets through at times.  Restarts may cut sweeps short, but not all
\* of them at the same place.
Fairness ==
  /\ WF_vars(Tick)
  /\ \A r \in Names : SF_vars(Mark(r)) /\ SF_vars(Prune(r)) /\ SF_vars(Prune(r) \/ GCFails(r))

Spec == Init /\ [][Next]_vars /\ Fairness

-------------------------------------------------------------------------------
TypeOK ==
  /\ store \in [Names -> [Blobs -> {"none", "fresh", "old"}]]
  /\ refs \in [Names -> SUBSET [blob : Blobs, stale : BOOLEAN]]
  /\ trees \in [Names -> SUBSET Calls] /\ life \in [Names -> {"whole", "rowOnly", "deleted"}]
  /\ calls \in [Calls -> Call \cup {None}]
  /\ todo \in Seq(Names) /\ (doomed = None \/ doomed \subseteq Blobs)

\* The blobs that refs reach are there, although git gc takes no lock: its
\* grace period covers the time between the steps of a commit, also of blobs
\* that were uploaded again and of sweeps that were cut short.  Left out are
\* blobs that were past the grace period when the commit checked them
\* (local.go:530, README.md:356).
CommittedBlobsStay ==
  \A r \in Names : \A x \in refs[r] : store[r][x.blob] # "none" \/ x.stale

\* Blobs that never get committed are garbage-collected (README.md:356), even
\* if git gc fails on other repositories each time (service.go:113).
GarbageGoes ==
  \A r \in Names, b \in Blobs : Abandoned(r, b) ~> ~Abandoned(r, b)
===============================================================================
