----------------------------- MODULE PathPolicies -----------------------------
(***************************************************************************)
(* The path policies of one repository and the size limit on its blobs, as *)
(* the two ways of writing enforce them: pushes, in a pre-receive hook that *)
(* works on the policies read before the push waited for the mutex, and    *)
(* commits of the API, which read them first and take no mutex.            *)
(*                                                                         *)
(* A path is a sequence of names; a commit is its parents and what its     *)
(* tree holds at each path.  Clients build any history they like, and the  *)
(* API any tree that the operations of one request can make of the head's: *)
(* CommitOps has them one by one, and what it shows of them is used here.  *)
(***************************************************************************)
EXTENDS Naturals, Sequences, FiniteSets

CONSTANTS
  Paths,         \* the paths of files; no name begins with white space
  Patterns,      \* what operators ask to block, split at the slashes
  Blobs, Big,    \* contents, and those that reach LFS_THRESHOLD_BYTES
  ClientTrees,   \* bound: the trees clients commit
  MaxCommits,    \* bound: commits made, by clients and the API
  Refs, Pushes, ApiCalls, None

Under(p, q) == Len(q) <= Len(p) /\ SubSeq(p, 1, Len(q)) = q
\* No file is a directory too.
Trees == {t \in [Paths -> Blobs \cup {None}] :
            \A p, q \in Paths : t[p] # None /\ t[q] # None /\ Under(p, q) => p = q}

ASSUME PathAssumption == Paths \subseteq Seq(STRING) \ {<<>>}
ASSUME BlobAssumption == Big \subseteq Blobs /\ None \notin Blobs /\ ClientTrees \subseteq Trees

VARIABLES
  commits,   \* every commit there is, somewhere
  stored,    \* those the repository has, on a ref or not
  refs, policies,
  calls,     \* pushes and API commits under way
  mutex      \* the push that holds the repository's mutex

vars == <<commits, stored, refs, policies, calls, mutex>>

Init ==
  /\ commits = <<>> /\ stored = {} /\ refs = [r \in Refs |-> None] /\ policies = {}
  /\ calls = [c \in Pushes \cup ApiCalls |-> None] /\ mutex = None

Stands(c, at) == calls[c] # None /\ calls[c].at = at
Ends(c) == calls' = [calls EXCEPT ![c] = None]

Made == 1..Len(commits)
HasParents(T) == \A i \in T : commits[i].parents \subseteq T

\* What git rev-list walks: the least set of commits with S and all parents.
Ancestors(S) == {j \in Made : \A T \in SUBSET Made : S \subseteq T /\ HasParents(T) => j \in T}

OnRefs == Ancestors({refs[r] : r \in Refs} \ {None})

-------------------------------------------------------------------------------
(* Policies.                                                                *)

\* strings.Trim: no slash is left at either end.
Trim(s) ==
  LET named == {k \in DOMAIN s : s[k] # ""}
      first == CHOOSE k \in named : \A j \in named : k <= j
      last == CHOOSE k \in named : \A j \in named : j <= k
  IN IF named = {} THEN <<>> ELSE SubSeq(s, first, last)

\* None: there is no such pattern.
NormalizePathPattern(s) ==
  IF Trim(s) = <<>> \/ \E k \in DOMAIN Trim(s) : Trim(s)[k] \in {"", ".", ".."}
  THEN None ELSE Trim(s)

PathBlocked(patterns, p) == \E q \in patterns : Under(p, q)

AddPathPolicy(s) ==
  LET q == NormalizePathPattern(s) IN
  /\ q # None /\ q \notin policies /\ policies' = policies \cup {q}
  /\ UNCHANGED <<commits, stored, refs, calls, mutex>>

RemovePathPolicy(q) ==
  /\ q \in policies /\ policies' = policies \ {q}
  /\ UNCHANGED <<commits, stored, refs, calls, mutex>>

-------------------------------------------------------------------------------
(* Pushes.                                                                  *)

\* A client commits, on whatever it has fetched or made.
ClientCommit(parents, tree) ==
  /\ Len(commits) < MaxCommits
  /\ commits' = Append(commits, [parents |-> parents, tree |-> tree])
  /\ UNCHANGED <<stored, refs, policies, calls, mutex>>

\* hookEnv reads the policies; then the push waits for the mutex.
Push(c) ==
  /\ calls[c] = None /\ calls' = [calls EXCEPT ![c] = [at |-> "waits", seen |-> policies]]
  /\ UNCHANGED <<commits, stored, refs, policies, mutex>>

\* receive-pack runs, is sent the updates, and starts the hook.
Lock(c, updates) ==
  /\ Stands(c, "waits") /\ mutex = None /\ mutex' = c /\ DOMAIN updates # {}
  /\ calls' = [calls EXCEPT ![c] = [at |-> "hook", seen |-> calls[c].seen,
       updates |-> updates, left |-> DOMAIN updates]]
  /\ UNCHANGED <<commits, stored, refs, policies>>

\* Faulty: a merge shows no paths, as git diff-tree without -c has it.
ChangedByOne(i) ==
  LET t == commits[i].tree IN
  {p \in Paths : t[p] # None /\ Cardinality(commits[i].parents) < 2
                   /\ \A j \in commits[i].parents : t[p] # commits[j].tree[p]}

\* git diff-tree -r -c --root --diff-filter=d: what a commit has at a path, and
\* none of its parents has there.
Changed(i) ==
  LET t == commits[i].tree IN
  {p \in Paths : t[p] # None /\ \A j \in commits[i].parents : t[p] # commits[j].tree[p]}

\* git rev-list --not --all.
NewCommits(i) == Ancestors({i}) \ OnRefs

BlobsOf(S) == {commits[i].tree[p] : i \in S, p \in Paths} \ {None}

\* Faulty: only the files of the tip are sized.
NewBlobsOfTip(i) == BlobsOf({i})

\* git rev-list --objects --not --all.
NewBlobs(i) == BlobsOf(NewCommits(i)) \ BlobsOf(OnRefs)

Passes(seen, i) ==
  /\ NewBlobs(i) \cap Big = {}
  /\ \A j \in NewCommits(i) : \A p \in Changed(j) : ~PathBlocked(seen, p)

\* PreReceive goes through the updates line by line.
PreReceive(c, r) ==
  LET i == calls[c].updates[r] IN
  /\ Stands(c, "hook") /\ r \in calls[c].left /\ (i # None => Passes(calls[c].seen, i))
  /\ calls' = [calls EXCEPT ![c].left = @ \ {r}]
  /\ UNCHANGED <<commits, stored, refs, policies, mutex>>

\* The hook has passed everything, so receive-pack takes the objects in, and
\* moves the refs that can be moved.
ReceivePack(c, moved) ==
  LET news == calls[c].updates IN
  /\ Stands(c, "hook") /\ calls[c].left = {} /\ moved \subseteq DOMAIN news
  /\ stored' = stored \cup Ancestors({news[r] : r \in DOMAIN news} \ {None})
  /\ refs' = [r \in Refs |-> IF r \in moved THEN news[r] ELSE refs[r]]
  /\ Ends(c) /\ mutex' = None /\ UNCHANGED <<commits, policies>>

\* The hook rejects the push, times out, or is cut off: nothing is taken in.
PushFails(c) ==
  /\ calls[c] # None /\ Ends(c) /\ mutex' = IF mutex = c THEN None ELSE mutex
  /\ UNCHANGED <<commits, stored, refs, policies>>

-------------------------------------------------------------------------------
(* The API.                                                                 *)

\* pathPolicyChecker reads the policies.
Commit(c) ==
  /\ calls[c] = None /\ calls' = [calls EXCEPT ![c] = [at |-> "apply", seen |-> policies]]
  /\ UNCHANGED <<commits, stored, refs, policies, mutex>>

HeadTree(r) == IF refs[r] = None THEN [p \in Paths |-> None] ELSE commits[refs[r]].tree

\* Where the second writing of the puts may write under a policy: in a directory
\* that is open at the top (CommitOps, BlockedPathsKeepContent).
MaySlip(seen, p) == PathBlocked(seen, p) /\ ~PathBlocked(seen, SubSeq(p, 1, 1))

\* What up to a thousand operations make of the tree of the head: files that are
\* kept and moved, and puts, which are small.  Under a policy files are only kept,
\* but for the stale puts that slip in.
CanMake(head, tree, seen) ==
  \A p \in Paths :
    /\ tree[p] \in {None} \cup {head[q] : q \in Paths} \cup (Blobs \ Big)
    /\ PathBlocked(seen, p) =>
         tree[p] \in {None, head[p]} \/ (MaySlip(seen, p) /\ tree[p] \in Blobs \ Big)

\* ApplyCommit, up to the commit it makes on the head it read.
ApplyCommit(c, r, tree) ==
  LET head == HeadTree(r)
      seen == calls[c].seen
  IN
  /\ Stands(c, "apply") /\ Len(commits) < MaxCommits
  /\ CanMake(head, tree, seen) /\ (refs[r] # None => tree # head)
  /\ commits' = Append(commits, [parents |-> {refs[r]} \ {None}, tree |-> tree])
  /\ stored' = stored \cup {Len(commits')}
  /\ calls' = [calls EXCEPT ![c] = [at |-> "move", seen |-> seen, ref |-> r,
                                    old |-> refs[r], new |-> Len(commits')]]
  /\ UNCHANGED <<refs, policies, mutex>>

\* git update-ref moves the branch if nobody else has.
UpdateRef(c) ==
  /\ Stands(c, "move") /\ refs[calls[c].ref] = calls[c].old
  /\ refs' = [refs EXCEPT ![calls[c].ref] = calls[c].new] /\ Ends(c)
  /\ UNCHANGED <<commits, stored, policies, mutex>>

CommitFails(c) == calls[c] # None /\ Ends(c) /\ UNCHANGED <<commits, stored, refs, policies, mutex>>

\* From any commit the repository has, whether a ref is still on it or not.
CreateBranch(r, i) ==
  /\ refs[r] = None /\ i \in stored /\ refs' = [refs EXCEPT ![r] = i]
  /\ UNCHANGED <<commits, stored, policies, calls, mutex>>

DeleteBranch(r) ==
  /\ refs[r] # None /\ refs' = [refs EXCEPT ![r] = None]
  /\ UNCHANGED <<commits, stored, policies, calls, mutex>>

-------------------------------------------------------------------------------
Updates == UNION {[S -> Made \cup {None}] : S \in SUBSET Refs}

Next ==
  \/ \E s \in Patterns : AddPathPolicy(s)
  \/ \E q \in policies : RemovePathPolicy(q)
  \/ \E S \in SUBSET Made, t \in ClientTrees : ClientCommit(S, t)
  \/ \E c \in Pushes :
       \/ Push(c) \/ PushFails(c)
       \/ \E u \in Updates : Lock(c, u)
       \/ \E r \in Refs : PreReceive(c, r)
       \/ \E moved \in SUBSET Refs : ReceivePack(c, moved)
  \/ \E c \in ApiCalls :
       \/ Commit(c) \/ \E r \in Refs, tree \in Trees : ApplyCommit(c, r, tree)
       \/ UpdateRef(c) \/ CommitFails(c)
  \/ \E r \in Refs : DeleteBranch(r) \/ \E i \in stored : CreateBranch(r, i)

Spec == Init /\ [][Next]_vars

-------------------------------------------------------------------------------
\* What the repository's commits hold at and under q.
Content(q) == {<<p, commits[i].tree[p]>> : i \in stored, p \in {x \in Paths : Under(x, q)}}

\* A stale put of a commit of the API brings x, a path and what is there.
SlipsIn(x) ==
  \E c \in ApiCalls, r \in Refs, tree \in Trees :
    ApplyCommit(c, r, tree) /\ tree[x[1]] = x[2] /\ MaySlip(calls[c].seen, x[1])

\* Once every write under way has read a policy, nothing comes in at and under
\* its path that was not there before (README.md:16): not in a merge, not in a
\* commit in the middle of a push, not over a root commit or a branch made of
\* commits no ref is on, and not through the API but for what its stale puts bring
\* (local_commit.go:97, :457), which is nothing where the policy is on a name at
\* the top.  What is there may be kept, brought back and deleted (hook.go:125,
\* service.go:541).
BlockedContentIsOld ==
  [][ \A q \in policies :
        (\A c \in DOMAIN calls : calls[c] # None => q \in calls[c].seen)
          => \A x \in Content(q)' \ Content(q) : x[2] # None => SlipsIn(x) ]_vars

\* No commit holds a blob that reaches the LFS threshold, in its own tree or
\* in one on the way to it, whichever way it came in and whether there are
\* policies or not (hook.go:89, local_commit.go:59).
NoBigBlobs == BlobsOf(stored) \cap Big = {}
===============================================================================
