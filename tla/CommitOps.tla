------------------------------ MODULE CommitOps ------------------------------
(***************************************************************************)
(* The operations of one API commit: how Local.ApplyCommit stages them in  *)
(* a private index and turns the index into a tree.                        *)
(*                                                                         *)
(* Operations change the index in request order; the puts are remembered   *)
(* beside it, follow later moves and deletions, and are written a second   *)
(* time at the end, those that .gitattributes tracks with LFS as pointers. *)
(*                                                                         *)
(* A path is a sequence of names.  A blob stands for an object id together *)
(* with its file mode.                                                     *)
(***************************************************************************)
EXTENDS Naturals, Sequences

CONSTANTS
  Paths,        \* file paths and their directories
  Blobs, None,
  Pointers,     \* the blobs that are LFS pointers
  PointerTo,    \* the pointer to a blob
  AttrPath,     \* where .gitattributes is
  Tracks,       \* the paths a blob tracks when it is the .gitattributes
  HeadTrees,    \* trees the branch may have
  Blocked,      \* paths under a path policy
  LfsEnabled,
  MaxOps        \* bound on the operations of a request (1000 in the code)

Slot == Blobs \cup {None}
TreeMap == [Paths -> Slot]
Files(m) == {p \in Paths : m[p] # None}

\* q is p or lies in the directory p; q lies in the directory p.
Under(q, p) == Len(p) <= Len(q) /\ SubSeq(q, 1, Len(p)) = p
Inside(q, p) == Under(q, p) /\ q # p

\* No file is a directory too.
Flat(m) == \A p, q \in Files(m) : ~Inside(q, p)

ASSUME PathAssumption ==
  /\ Paths \subseteq Seq(STRING) \ {<<>>}
  /\ AttrPath \in Paths /\ Blocked \subseteq Paths
ASSUME BlobAssumption ==
  /\ None \notin Blobs
  /\ Pointers \subseteq Blobs /\ PointerTo \in [Blobs -> Pointers] /\ Tracks \in [Blobs -> SUBSET Paths]
ASSUME HeadAssumption ==
  /\ HeadTrees \subseteq {m \in TreeMap : Flat(m)}
  /\ LfsEnabled \in BOOLEAN /\ MaxOps \in Nat

VARIABLES
  head,     \* the tree of the branch
  unborn,   \* the branch has no commit yet
  index,    \* the private index
  pending,  \* puts that are to be written once more
  seen,     \* paths of the puts and deletions so far
  ops,      \* how many operations there were
  status,   \* staging, written or refused
  tree,     \* the tree of the new commit
  wanted,   \* reference: the files the operations ask for, and which were put
  clash     \* history: a put has made a directory of a file

vars == <<head, unborn, index, pending, seen, ops, status, tree, wanted, clash>>

Clashes(q, p) == Inside(q, p) \/ Inside(p, q)
\* Where q goes when from is renamed to dest.
Rebase(q, from, dest) == dest \o SubSeq(q, Len(from) + 1, Len(q))

Nothing == [p \in Paths |-> None]

Init ==
  /\ head \in HeadTrees /\ unborn \in BOOLEAN /\ (unborn => head = Nothing)
  /\ index = head /\ pending = Nothing
  /\ seen = {} /\ ops = 0 /\ status = "staging" /\ tree = Nothing
  /\ wanted = [p \in Paths |-> [blob |-> head[p], put |-> FALSE]]
  /\ clash = FALSE

-------------------------------------------------------------------------------
(* The index and the remembered puts.                                       *)

\* Faulty: files and directories of the same name side by side.
PutBeside(ix, gone, puts) ==
  [q \in Paths |-> IF puts[q] # None THEN puts[q] ELSE IF q \in gone THEN None ELSE ix[q]]

\* One git update-index --index-info: removals, then additions in path order.
\* An added file takes the place of a directory of its name and of a file that
\* is in the way.
UpdateIndex(ix, gone, puts) ==
  [q \in Paths |->
     IF puts[q] # None /\ ~ \E r \in Files(puts) : Inside(r, q) THEN puts[q]
     ELSE IF q \in gone \/ \E r \in Files(puts) : Clashes(q, r) THEN None
     ELSE ix[q]]

\* listIndexEntries.
Entries(p) == {q \in Files(index) : Under(q, p)}

\* The function m with everything at and under from renamed.
Renamed(m, from, dest, none) ==
  [q \in Paths |->
     IF Under(q, dest) /\ Rebase(q, dest, from) \in Paths THEN m[Rebase(q, dest, from)]
     ELSE IF Under(q, from) THEN none ELSE m[q]]

\* Faulty: a deletion forgets that its files may have been put before.
KeepPending(p) == pending

\* removePendingPuts.
RemovePending(p) == [q \in Paths |-> IF Under(q, p) THEN None ELSE pending[q]]

\* movePendingPuts: what is moved replaces what is there.
MovePending(from, dest) ==
  LET moved == {q \in Files(pending) : Under(q, from)} IN
  [q \in Paths |->
     IF \E s \in moved : Rebase(s, from, dest) = q
     THEN pending[CHOOSE s \in moved : Rebase(s, from, dest) = q]
     ELSE IF q \in moved THEN None ELSE pending[q]]

-------------------------------------------------------------------------------
(* The operations.                                                          *)

MayWrite(p) == ~ \E b \in Blocked : Under(p, b)

Refuse ==
  /\ status' = "refused"
  /\ UNCHANGED <<head, unborn, index, pending, seen, tree, wanted, clash>>

\* validateCommitOps: puts and deletions name distinct paths none of which lies
\* in another.
Distinct(p) == ~ \E s \in seen : Under(p, s) \/ Under(s, p)

Put(p, b) ==
  IF ~MayWrite(p) THEN Refuse
  ELSE /\ index' = UpdateIndex(index, {}, [Nothing EXCEPT ![p] = b])
       /\ pending' = [RemovePending(p) EXCEPT ![p] = b]
       /\ seen' = seen \cup {p}
       /\ wanted' = [q \in Paths |-> IF q = p THEN [blob |-> b, put |-> TRUE]
                                     ELSE IF Clashes(q, p) THEN [blob |-> None, put |-> FALSE]
                                     ELSE wanted[q]]
       /\ clash' = (clash \/ \E q \in Files(index) : Inside(p, q))
       /\ UNCHANGED <<head, unborn, status, tree>>

Delete(p) ==
  IF Entries(p) = {} THEN Refuse
  ELSE /\ index' = UpdateIndex(index, Entries(p), Nothing)
       /\ pending' = RemovePending(p)
       /\ seen' = seen \cup {p}
       /\ wanted' = [q \in Paths |-> IF Under(q, p) THEN [blob |-> None, put |-> FALSE]
                                     ELSE wanted[q]]
       /\ UNCHANGED <<head, unborn, status, tree, clash>>

\* Faulty: the directories above the destination are not looked at.
DestinationTaken(dest) == Entries(dest) # {}

\* indexParentOccupied.
ParentOccupied(dest) == \E q \in Files(index) : Inside(dest, q)

\* The destination exists, or one of its parents is a file.
Occupied(dest) == Entries(dest) # {} \/ ParentOccupied(dest)

\* Faulty: only the destination itself is checked against the policies.
DestinationAllowed(from, dest) == MayWrite(dest)

\* Every path that a move writes is checked.
TargetsAllowed(from, dest) == \A q \in Entries(from) : MayWrite(Rebase(q, from, dest))

\* moveIndexPath.
Move(from, dest) ==
  IF Entries(from) = {} \/ Occupied(dest) \/ ~TargetsAllowed(from, dest) THEN Refuse
  ELSE /\ index' = UpdateIndex(index, Entries(from),
                     [q \in Paths |-> IF \E s \in Entries(from) : Rebase(s, from, dest) = q
                                      THEN index[Rebase(q, dest, from)] ELSE None])
       /\ pending' = MovePending(from, dest)
       /\ wanted' = Renamed(wanted, from, dest, [blob |-> None, put |-> FALSE])
       /\ UNCHANGED <<head, unborn, seen, status, tree, clash>>

\* A move that the validation lets through; one that would leave Paths is beyond
\* the bound on paths.
MayMove(from, dest) ==
  /\ ~Under(dest, from)
  /\ \A q \in Files(index) \cup Files(pending) : Under(q, from) => Rebase(q, from, dest) \in Paths

\* Operations that the validation lets through.
Stage ==
  /\ status = "staging" /\ ops < MaxOps
  /\ ops' = ops + 1
  /\ \/ \E p \in Paths, b \in Blobs : Distinct(p) /\ Put(p, b)
     \/ \E p \in Paths : Distinct(p) /\ Delete(p)
     \/ \E from, dest \in Paths : MayMove(from, dest) /\ Move(from, dest)

-------------------------------------------------------------------------------
(* The tree.                                                                *)

\* The paths the .gitattributes of m tracks.
Tracked(m) == IF m[AttrPath] = None THEN {} ELSE Tracks[m[AttrPath]]

\* lfsCleanFunc: a pointer stays, any other blob is stored and pointed to.
LfsClean(b) == IF b \in Pointers THEN b ELSE PointerTo[b]

\* cleanLFSTracked: puts of tracked paths become pointers.
Cleaned ==
  [p \in Paths |-> IF pending[p] # None /\ p \in Tracked(index)
                   THEN LfsClean(pending[p]) ELSE pending[p]]

\* Clean, write the puts again, write-tree.
Write ==
  /\ status = "staging" /\ ops > 0
  /\ IF ~LfsEnabled /\ Files(pending) \cap Tracked(index) # {}
     THEN Refuse
     ELSE LET new == UpdateIndex(index, {}, Cleaned) IN
          IF ~unborn /\ new = head THEN Refuse   \* nothing to commit
          ELSE /\ index' = new /\ tree' = new /\ status' = "written"
               /\ UNCHANGED <<head, unborn, pending, seen, wanted, clash>>
  /\ UNCHANGED ops

Answered == status # "staging" /\ UNCHANGED vars

Next == Stage \/ Write \/ Answered

Spec == Init /\ [][Next]_vars

-------------------------------------------------------------------------------
(* Properties.                                                              *)

\* Type invariant.  An index and a tree never hold a file together with files
\* below it, so write-tree cannot fail.
TypeOK ==
  /\ index \in TreeMap /\ pending \in TreeMap /\ tree \in TreeMap
  /\ Flat(index) /\ clash \in BOOLEAN
  /\ seen \subseteq Paths /\ ops \in 0 .. MaxOps
  /\ status \in {"staging", "written", "refused"}
  /\ wanted \in [Paths -> [blob : Slot, put : BOOLEAN]]

\* The tree the operations ask for, in array order: what was put on a path that
\* the resulting .gitattributes tracks is a pointer, what was only moved is not.
InOrder ==
  [p \in Paths |->
     IF wanted[p].put /\ p \in Tracked([q \in Paths |-> wanted[q].blob])
     THEN LfsClean(wanted[p].blob) ELSE wanted[p].blob]

\* README.md:336, "Operations are applied in array order".
TreeIsInOrder == status = "written" => tree = InOrder

\* A remembered put whose file the later operations have removed, replaced or
\* moved away.
Stale(q) == pending[q] # None /\ ~wanted[q].put

\* What disturbs the order is a stale put that is written a second time, and that
\* one at its own path, above and below only; and none is stale unless a put has
\* made a directory of a file.  Everything else is as the operations ask for it.
ReplayIsHarmless ==
  status = "written" =>
    \A p \in Paths :
      \/ tree[p] = InOrder[p]
      \/ clash /\ \E q \in Paths : Stale(q) /\ (q = p \/ Clashes(p, q))

\* A move only renames: as many files after it as before, and no content lost
\* (local_commit.go:411, the destination is free and no parent of it is a file).
MovesLoseNothing ==
  [][\A from, dest \in Paths :
       MayMove(from, dest) /\ Move(from, dest) /\ index' # index =>
         \A q \in Files(index) :
           index'[IF Under(q, from) THEN Rebase(q, from, dest) ELSE q] = index[q]]_vars

\* No commit adds or changes a file under a path policy, by puts, moves of whole
\* directories, or any sequence of them (README.md:390, "added or modified"), but
\* for a stale put that a moved directory has taken there, and that only if the
\* directory at the top of the path is open and a policy is on something in it.
BlockedPathsKeepContent ==
  status = "written" =>
    \A p \in Paths : ~MayWrite(p) =>
      tree[p] \in {None, head[p]} \/ (clash /\ Stale(p) /\ MayWrite(<<p[1]>>))
===============================================================================
