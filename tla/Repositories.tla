----------------------------- MODULE Repositories -----------------------------
(***************************************************************************)
(* The life of repositories: a row of the database and a bare repository   *)
(* on disk, made and removed in separate steps, with the calls that write  *)
(* to them meanwhile.  Creations, deletions and uploads do not take the    *)
(* mutex of a repository, and what does (RefUpdates) excludes none of them,*)
(* so the mutex is left out.                                               *)
(*                                                                         *)
(* A name stands for owner and name of a repository, hence for its storage *)
(* path.  Ids are given by SQLite, which uses the id of the latest row     *)
(* again once that row is gone; "born" numbers the rows that ever were, so *)
(* that the properties can tell repositories of one id or name apart.      *)
(***************************************************************************)
EXTENDS Naturals, FiniteSets

CONSTANTS
  Names,            \* owner and name
  MaxId, MaxBorn,   \* bounds: on ids, on how many rows are made
  Calls,            \* calls of the control API, uploads, pushes
  Targets,          \* signed upload URLs
  None

Ids == 1 .. MaxId
Borns == 1 .. MaxBorn
\* sure: its creation was answered, and no deletion of an earlier repository
\* has come to its directory since (history).
Row == [name : Names, born : Borns, sure : BOOLEAN]
\* What is on disk, or refers to a row: for which repository it was written,
\* and whether that one was gone by then.
Mark == [born : Borns, late : BOOLEAN]
\* An upload URL: for a blob, or for an LFS object.
Target == [id : Ids, born : Borns, lfs : BOOLEAN]
\* A call: what it does next, and what it has looked up.
Call == [at : {"init", "rollback", "drop", "remove", "depend", "register", "write"},
         id : Ids, name : Names, born : Borns]

ASSUME BoundAssumption == MaxId \in Nat \ {0} /\ MaxBorn \in Nat \ {0}
ASSUME NoneAssumption == None \notin Row \cup Target \cup Call

VARIABLES
  rows,      \* table repositories
  deps,      \* permissions, path policies, webhooks, LFS objects of the row of an id
  dirs,      \* the directory of each name: none, partial, whole
  store,     \* what is in it
  targets,   \* the upload URLs that are valid
  calls,     \* where each call stands
  born,      \* counts the rows
  left       \* history: names whose directory a deletion has not removed, or not yet

vars == <<rows, deps, dirs, store, targets, calls, born, left>>

Init ==
  /\ rows = [i \in Ids |-> None] /\ deps = [i \in Ids |-> {}]
  /\ dirs = [n \in Names |-> "none"] /\ store = [n \in Names |-> {}]
  /\ targets = [t \in Targets |-> None] /\ calls = [c \in Calls |-> None]
  /\ born = 0 /\ left = {}

Live == {i \in Ids : rows[i] # None}
\* GetRepositoryByPath.
RowOf(n) == {i \in Live : rows[i].name = n}
Is(i, x) == i \in Live /\ rows[i].born = x
Alive(x) == \E i \in Ids : Is(i, x)
Written(x) == [born |-> x, late |-> ~Alive(x)]

Moves(c, at) == calls' = [calls EXCEPT ![c].at = at]
Ends(c) == calls' = [calls EXCEPT ![c] = None]
Stands(c, at) == calls[c] # None /\ calls[c].at = at

\* GetRepository, as the first statement of a call for the repository x.
Looks(c, i, at, x) ==
  /\ calls[c] = None /\ i \in Live
  /\ calls' = [calls EXCEPT ![c] = [at |-> at, id |-> i, name |-> rows[i].name, born |-> x]]
  /\ UNCHANGED <<rows, deps, dirs, store, targets, born, left>>

-------------------------------------------------------------------------------
(* The table of repositories.                                               *)

\* integer primary key, not autoincrement: one more than the largest.
NewId == 1 + (IF Live = {} THEN 0 ELSE CHOOSE i \in Live : \A j \in Live : j <= i)

\* Faulty: no constraint on names.
CreateAnyRow(n) ==
  /\ born < MaxBorn /\ NewId \in Ids
  /\ rows' = [rows EXCEPT ![NewId] = [name |-> n, born |-> born + 1, sure |-> FALSE]]
  /\ born' = born + 1

\* On conflict do nothing: the caller is told that the repository exists.
CreateRow(n) ==
  /\ RowOf(n) = {} /\ born < MaxBorn /\ NewId \in Ids
  /\ rows' = [rows EXCEPT ![NewId] = [name |-> n, born |-> born + 1, sure |-> FALSE]]
  /\ born' = born + 1

\* Faulty: foreign keys are not enforced.
KeepDependents(i) == rows' = [rows EXCEPT ![i] = None] /\ UNCHANGED deps

\* Whatever refers to the row goes with it.  A missing row is no error.
DeleteRow(i) == rows' = [rows EXCEPT ![i] = None] /\ deps' = [deps EXCEPT ![i] = {}]

\* The name of the row, which may be a later one than the caller looked up.
NamesOf(i) == {rows[j].name : j \in Live \cap {i}}

Sured(x) == [i \in Ids |-> IF Is(i, x) THEN [rows[i] EXCEPT !.sure = TRUE] ELSE rows[i]]
Unsured(n) == [i \in Ids |-> IF i \in RowOf(n) THEN [rows[i] EXCEPT !.sure = FALSE] ELSE rows[i]]

-------------------------------------------------------------------------------
(* Directories.                                                             *)

\* git init --bare makes a repository of what is there.
InitBare(n) == dirs' = [dirs EXCEPT ![n] = "whole"] /\ UNCHANGED store

\* It fails, or is killed, and leaves what was there or the beginnings.
InitBareFails(n) ==
  /\ \/ UNCHANGED dirs
     \/ dirs[n] = "none" /\ dirs' = [dirs EXCEPT ![n] = "partial"]
  /\ UNCHANGED store

\* Faulty: nothing is removed.
RemoveNothing(n) == UNCHANGED <<dirs, store>>

\* os.RemoveAll.
Remove(n) == dirs' = [dirs EXCEPT ![n] = "none"] /\ store' = [store EXCEPT ![n] = {}]

\* It fails at the start or on its way.
RemoveFails(n) ==
  /\ \/ UNCHANGED dirs
     \/ dirs[n] = "whole" /\ dirs' = [dirs EXCEPT ![n] = "partial"]
  /\ UNCHANGED store

-------------------------------------------------------------------------------
(* Service.Create and Service.Delete.                                       *)

Create(c, n) ==
  /\ calls[c] = None /\ CreateRow(n)
  /\ calls' = [calls EXCEPT ![c] = [at |-> "init", id |-> NewId, name |-> n, born |-> born + 1]]
  /\ UNCHANGED <<deps, dirs, store, targets, left>>

CreateInits(c) ==
  /\ Stands(c, "init") /\ InitBare(calls[c].name) /\ Ends(c)
  /\ rows' = Sured(calls[c].born)
  /\ UNCHANGED <<deps, targets, born, left>>

CreateFails(c) ==
  /\ Stands(c, "init") /\ InitBareFails(calls[c].name) /\ Moves(c, "rollback")
  /\ UNCHANGED <<rows, deps, targets, born, left>>

\* The row is deleted by its id; the context may be done, and then it stays.
Rollback(c) ==
  /\ Stands(c, "rollback") /\ Ends(c)
  /\ \/ UNCHANGED <<rows, deps, left>>
     \/ DeleteRow(calls[c].id) /\ left' = left \cup NamesOf(calls[c].id)
  /\ UNCHANGED <<dirs, store, targets, born>>

Delete(c, i) == i \in Live /\ Looks(c, i, "drop", rows[i].born)

\* Faulty: the directory goes first, and the row may then stay.
RemovesFirst(c) ==
  /\ Stands(c, "drop") /\ Remove(calls[c].name) /\ Ends(c)
  /\ UNCHANGED <<rows, deps, targets, born, left>>

DeleteDrops(c) ==
  /\ Stands(c, "drop") /\ DeleteRow(calls[c].id) /\ Moves(c, "remove")
  /\ left' = left \cup NamesOf(calls[c].id)
  /\ UNCHANGED <<dirs, store, targets, born>>

\* A repository of the same name that was made since loses its directory.
DeleteRemoves(c) ==
  /\ Stands(c, "remove") /\ Remove(calls[c].name) /\ Ends(c)
  /\ rows' = Unsured(calls[c].name) /\ left' = left \ {calls[c].name}
  /\ UNCHANGED <<deps, targets, born>>

\* The error is logged, the deletion answered.
DeleteLeaves(c) ==
  /\ Stands(c, "remove") /\ RemoveFails(calls[c].name) /\ Ends(c)
  /\ rows' = Unsured(calls[c].name)
  /\ UNCHANGED <<deps, targets, born, left>>

\* An error of the database or of git before anything is changed, or the
\* context of the call is done.
Fails(c) ==
  /\ calls[c] # None /\ calls[c].at \in {"drop", "depend", "register", "write"} /\ Ends(c)
  /\ UNCHANGED <<rows, deps, dirs, store, targets, born, left>>

-------------------------------------------------------------------------------
(* Calls that write for a repository.                                       *)

\* A permission, path policy, webhook or LFS object is to be inserted.
Depend(c, i) == i \in Live /\ Looks(c, i, "depend", rows[i].born)

\* The foreign key asks only for the id.
Insert(c) ==
  /\ Stands(c, "depend") /\ calls[c].id \in Live /\ Ends(c)
  /\ deps' = [deps EXCEPT ![calls[c].id] = @ \cup {Written(calls[c].born)}]
  /\ UNCHANGED <<rows, dirs, store, targets, born, left>>

\* A commit, a branch or a push is to write objects and refs.
Write(c, i) == i \in Live /\ Looks(c, i, "write", rows[i].born)

CreateUpload(t, i, lfs) ==
  /\ targets[t] = None /\ i \in Live
  /\ targets' = [targets EXCEPT ![t] = [id |-> i, born |-> rows[i].born, lfs |-> lfs]]
  /\ UNCHANGED <<rows, deps, dirs, store, calls, born, left>>

\* Fifteen minutes pass: the URL is refused from now on.
Expire(t) ==
  /\ targets[t] # None /\ targets' = [targets EXCEPT ![t] = None]
  /\ UNCHANGED <<rows, deps, dirs, store, calls, born, left>>

\* The URL names the repository by its id; it serves any number of uploads.
Upload(c, t) ==
  /\ targets[t] # None
  /\ Looks(c, targets[t].id, IF targets[t].lfs THEN "register" ELSE "write", targets[t].born)

\* An LFS object is registered under the id of its URL, unless it is already, and
\* then its pointer is written as a blob.
Register(c) ==
  /\ Stands(c, "register") /\ calls[c].id \in Live /\ Moves(c, "write")
  /\ \/ deps' = [deps EXCEPT ![calls[c].id] = @ \cup {Written(calls[c].born)}]
     \/ deps[calls[c].id] # {} /\ UNCHANGED deps
  /\ UNCHANGED <<rows, dirs, store, targets, born, left>>

\* git works in a directory that is a repository, whoever's it is.
Writes(c) ==
  /\ Stands(c, "write") /\ dirs[calls[c].name] = "whole" /\ Ends(c)
  /\ store' = [store EXCEPT ![calls[c].name] = @ \cup {Written(calls[c].born)}]
  /\ UNCHANGED <<rows, deps, dirs, targets, born, left>>

-------------------------------------------------------------------------------
\* The process ends and starts again; every call is gone.
Restart ==
  /\ calls' = [c \in Calls |-> None]
  /\ UNCHANGED <<rows, deps, dirs, store, targets, born, left>>

Next ==
  \/ \E c \in Calls :
       \/ \E n \in Names : Create(c, n)
       \/ \E i \in Ids : Delete(c, i) \/ Depend(c, i) \/ Write(c, i)
       \/ \E t \in Targets : Upload(c, t)
       \/ CreateInits(c) \/ CreateFails(c) \/ Rollback(c)
       \/ DeleteDrops(c) \/ DeleteRemoves(c) \/ DeleteLeaves(c)
       \/ Insert(c) \/ Register(c) \/ Writes(c) \/ Fails(c)
  \/ \E t \in Targets : Expire(t) \/ \E i \in Ids, lfs \in BOOLEAN : CreateUpload(t, i, lfs)
  \/ Restart

Spec == Init /\ [][Next]_vars

-------------------------------------------------------------------------------
\* Types; the name of a repository, and with it the path, is unique.
TypeOK ==
  /\ rows \in [Ids -> Row \cup {None}]
  /\ \A i, j \in Live : rows[i].name = rows[j].name => i = j
  /\ deps \in [Ids -> SUBSET Mark]
  /\ dirs \in [Names -> {"none", "partial", "whole"}]
  /\ store \in [Names -> SUBSET Mark]
  /\ targets \in [Targets -> Target \cup {None}] /\ calls \in [Calls -> Call \cup {None}]
  /\ born \in 0 .. MaxBorn /\ left \subseteq Names

\* A repository whose creation was answered has its bare repository for as
\* long as its row is there, whatever fails or stops in between; only a
\* deletion of an earlier repository of its name, still on its way to the
\* directory when the name was taken again, can remove it
\* (repositories/service.go:189).
SureHasDirectory == \A i \in Live : rows[i].sure => dirs[rows[i].name] = "whole"

\* A repository shows nothing of an earlier one of its name or its id, unless
\* the earlier one's directory is not removed (yet), or a call that began, or
\* whose upload URL was signed, before the deletion wrote after it
\* (repositories/service.go:159, :860).
NoForeignContent ==
  \A i \in Live : \A s \in store[rows[i].name] :
    s.born # rows[i].born => s.late \/ rows[i].name \in left

\* A repository inherits no permission, policy, webhook or LFS object of an
\* earlier one that had its id, unless the deletion of that one came between the
\* look-up and the insert of one call, or after an upload URL for an LFS object
\* was signed for it: the URL names the id only, and whoever has it by then gets
\* the row (repositories/service.go:183, :870).
InheritsNothing == \A i \in Live : \A d \in deps[i] : d.born = rows[i].born \/ d.late
===============================================================================
