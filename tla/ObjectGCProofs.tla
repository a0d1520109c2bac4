---------------------------- MODULE ObjectGCProofs ----------------------------
(***************************************************************************)
(* A theorem about ObjectGC, for any number of repositories, blobs and     *)
(* calls.                                                                  *)
(***************************************************************************)
EXTENDS ObjectGC, TLAPS

Refd == [blob : Blobs, stale : BOOLEAN]

\* The types the argument needs; the order of the sweep is not among them.
StoreType ==
  /\ store \in [Names -> [Blobs -> {"none", "fresh", "old"}]]
  /\ refs \in [Names -> SUBSET Refd] /\ trees \in [Names -> SUBSET Calls]
  /\ life \in [Names -> {"whole", "rowOnly", "deleted"}]
  /\ calls \in [Calls -> Call \cup {None}]

\* Is git gc about to prune the blob?
Doomed(r, b) == doomed # None /\ Head(todo) = r /\ b \in doomed

\* A blob that a commit found fresh stays fresh as long as the commit uses it,
\* or its repository is gone.
FoundInv ==
  \A c \in Calls :
    calls[c] # None /\ calls[c].at \in {"tree", "ref"} /\ ~calls[c].stale =>
      \/ store[calls[c].repo][calls[c].blob] = "fresh"
      \/ life[calls[c].repo] = "deleted"

\* What refs reach is there, and not doomed unless it was written anew since.
ReachedInv ==
  \A r \in Names : \A x \in refs[r] : ~x.stale =>
    /\ store[r][x.blob] # "none"
    /\ Doomed(r, x.blob) => store[r][x.blob] = "fresh"

\* Nothing is left of a repository that is gone.
GoneInv ==
  \A r \in Names : life[r] = "deleted" =>
    refs[r] = {} /\ trees[r] = {} /\ \A b \in Blobs : store[r][b] = "none"

Inv == StoreType /\ FoundInv /\ ReachedInv /\ GoneInv

LEMMA InitInv == Init => Inv
  BY DEF Init, Inv, StoreType, FoundInv, ReachedInv, GoneInv, Refd

\* Steps of calls that change no blob and no ref.
LEMMA CallStepInv ==
  ASSUME Inv, NEW c \in Calls,
         \/ \E r \in Names, b \in Blobs : Upload(c, r, b) \/ Commit(c, r, b)
         \/ CheckBlob(c) \/ WriteTree(c) \/ Fails(c)
  PROVE  Inv'
  <1> USE DEF Inv, StoreType
  <1>1. UNCHANGED <<store, refs, life, todo, doomed>>
    BY DEF Upload, Commit, Begins, CheckBlob, WriteTree, Fails
  <1>2. /\ calls' \in [Calls -> Call \cup {None}] /\ trees' \in [Names -> SUBSET Calls]
        /\ FoundInv' /\ GoneInv'
    <2>1. ASSUME NEW r \in Names, NEW b \in Blobs, NEW at \in {"write", "check"}, Begins(c, at, r, b)
          PROVE  <1>2
      <3>1. [at |-> at, repo |-> r, blob |-> b, stale |-> FALSE] \in Call
        BY DEF Call
      <3> QED BY <2>1, <3>1, NameAssumption DEF Begins, FoundInv, GoneInv
    <2>2. CASE CheckBlob(c)
      <3> DEFINE k == calls[c]  old == store[k.repo][k.blob] = "old"
                 new == [k EXCEPT !.at = "tree", !.stale = old]
      <3>1. k \in Call /\ k # None
        BY <2>2 DEF CheckBlob, Stands
      <3>2. /\ new \in Call /\ new.at = "tree" /\ new.repo = k.repo /\ new.blob = k.blob
            /\ new.stale = old
        BY <3>1 DEF Call
      <3>3. ~new.stale => store[k.repo][k.blob] = "fresh"
        <4>1. store[k.repo][k.blob] \in {"none", "fresh", "old"}
          BY <3>1 DEF Call
        <4>2. store[k.repo][k.blob] # "none"
          BY <2>2 DEF CheckBlob, Has
        <4> QED BY <3>2, <4>1, <4>2
      <3>4. calls' = [calls EXCEPT ![c] = new] /\ UNCHANGED trees
        BY <2>2 DEF CheckBlob
      <3> HIDE DEF k, old, new
      <3>5. calls'[c] = new /\ \A d \in Calls : d # c => calls'[d] = calls[d]
        BY <3>4
      <3>6. calls' \in [Calls -> Call \cup {None}]
        BY <3>2, <3>4
      <3> QED BY <1>1, <3>2, <3>3, <3>4, <3>5, <3>6 DEF FoundInv, GoneInv
    <2>3. CASE WriteTree(c)
      <3>1. calls[c] \in Call /\ calls[c].at = "tree" /\ calls[c] # None
        BY <2>3 DEF WriteTree, Stands
      <3>2. life[calls[c].repo] # "deleted"
        BY <2>3, <3>1 DEF WriteTree, Has, GoneInv, Call
      <3>3. /\ calls'[c] \in Call /\ calls'[c].at = "ref" /\ calls'[c].repo = calls[c].repo
            /\ calls'[c].blob = calls[c].blob /\ calls'[c].stale = calls[c].stale
            /\ \A d \in Calls : d # c => calls'[d] = calls[d]
        BY <2>3, <3>1 DEF WriteTree, Moves, Call
      <3>4. calls' \in [Calls -> Call \cup {None}]
        BY <2>3, <3>1 DEF WriteTree, Moves, Call
      <3>5. trees' = [trees EXCEPT ![calls[c].repo] = @ \cup {c}] /\ calls[c].repo \in Names
        BY <2>3, <3>1 DEF WriteTree, Call
      <3>6. trees' \in [Names -> SUBSET Calls]
        BY <3>5
      <3>7. FoundInv'
        BY <1>1, <3>1, <3>3 DEF FoundInv
      <3>8. GoneInv'
        BY <1>1, <3>2, <3>5 DEF GoneInv
      <3> QED BY <3>4, <3>6, <3>7, <3>8
    <2>4. CASE Fails(c)
      BY <2>4 DEF Fails, Ends, FoundInv, GoneInv
    <2> QED BY <2>1, <2>2, <2>3, <2>4 DEF Upload, Commit
  <1> QED BY <1>1, <1>2 DEF ReachedInv, Doomed

\* A blob is written, or written anew.
LEMMA WriteBlobInv == ASSUME Inv, NEW c \in Calls, WriteBlob(c) PROVE Inv'
  <1> USE DEF Inv, StoreType
  <1> DEFINE s == calls[c].repo  b == calls[c].blob
  <1>1. s \in Names /\ b \in Blobs /\ life[s] # "deleted"
    BY DEF WriteBlob, Stands, Call
  <1>2. /\ store' = [store EXCEPT ![s][b] = "fresh"]
        /\ UNCHANGED <<refs, trees, life, todo, doomed>>
        /\ calls' \in [Calls -> Call \cup {None}]
        /\ \A d \in Calls : calls'[d] # None => calls'[d] = calls[d]
    BY DEF WriteBlob, Ends
  <1>3. /\ store' \in [Names -> [Blobs -> {"none", "fresh", "old"}]] /\ store'[s][b] = "fresh"
        /\ \A r \in Names, d \in Blobs : r # s \/ d # b => store'[r][d] = store[r][d]
    BY <1>1, <1>2
  <1> HIDE DEF s, b
  <1>4. FoundInv'
    BY <1>2, <1>3 DEF FoundInv, Call
  <1>5. ReachedInv'
    BY <1>2, <1>3 DEF ReachedInv, Doomed, Refd
  <1>6. GoneInv'
    BY <1>1, <1>2, <1>3 DEF GoneInv
  <1> QED BY <1>2, <1>3, <1>4, <1>5, <1>6

\* A ref moves to a commit, whose blob is fresh if it was when it was checked.
LEMMA UpdateRefInv == ASSUME Inv, NEW c \in Calls, UpdateRef(c) PROVE Inv'
  <1> USE DEF Inv, StoreType
  <1> DEFINE s == calls[c].repo  new == [blob |-> calls[c].blob, stale |-> calls[c].stale]
  <1>1. /\ calls[c] \in Call /\ calls[c] # None /\ calls[c].at = "ref"
        /\ s \in Names /\ c \in trees[s] /\ life[s] # "deleted"
    BY DEF UpdateRef, Stands, Call, GoneInv
  <1>2. new \in Refd /\ new.blob = calls[c].blob /\ (new.stale <=> calls[c].stale)
    BY <1>1 DEF Refd, Call
  <1>3. ~new.stale => store[s][new.blob] = "fresh"
    BY <1>1, <1>2 DEF FoundInv
  <1>4. /\ refs' = [refs EXCEPT ![s] = @ \cup {new}] /\ trees' = [trees EXCEPT ![s] = @ \ {c}]
        /\ UNCHANGED <<store, life, todo, doomed>>
        /\ calls' \in [Calls -> Call \cup {None}]
        /\ \A d \in Calls : calls'[d] # None => calls'[d] = calls[d]
    BY DEF UpdateRef, Ends
  <1> HIDE DEF s, new
  <1>5. refs' \in [Names -> SUBSET Refd] /\ trees' \in [Names -> SUBSET Calls]
    BY <1>2, <1>4
  <1>6. FoundInv' /\ GoneInv'
    BY <1>1, <1>4 DEF FoundInv, GoneInv
  <1>7. ReachedInv'
    BY <1>1, <1>3, <1>4 DEF ReachedInv, Doomed
  <1> QED BY <1>4, <1>5, <1>6, <1>7

LEMMA DeleteInv == ASSUME Inv, NEW r \in Names, Delete(r) PROVE Inv'
  BY DEF Inv, StoreType, Delete, FoundInv, ReachedInv, GoneInv, Doomed, Refd, Call

\* A blob outlives the grace period; none does that a call uses, or that is
\* marked already.
LEMMA AgeInv == ASSUME Inv, NEW r \in Names, NEW b \in Blobs, Age(r, b) PROVE Inv'
  <1> USE DEF Inv, StoreType
  <1>1. /\ store'[r][b] = "old" /\ store[r][b] = "fresh"
        /\ \A s \in Names, d \in Blobs : s # r \/ d # b => store'[s][d] = store[s][d]
        /\ store' \in [Names -> [Blobs -> {"none", "fresh", "old"}]]
        /\ UNCHANGED <<refs, trees, life, calls, todo, doomed>> /\ ~Doomed(r, b)
        /\ \A c \in Calls : ~Uses(c, r, b)
    BY DEF Age, Doomed
  <1>2. FoundInv'
    BY <1>1 DEF FoundInv, Uses, Call
  <1>3. ReachedInv'
    BY <1>1 DEF ReachedInv, Doomed, Refd
  <1> QED BY <1>1, <1>2, <1>3 DEF GoneInv

\* The sweep.
LEMMA MarkInv == ASSUME Inv, NEW r \in Names, Mark(r) PROVE Inv'
  BY DEF Inv, StoreType, Mark, FoundInv, ReachedInv, GoneInv, Doomed, Sweeping, Reached

LEMMA PruneInv == ASSUME Inv, NEW r \in Names, Prune(r) PROVE Inv'
  <1> USE DEF Inv, StoreType
  <1>1. /\ \A b \in Blobs : store'[r][b] = IF b \in doomed /\ store[r][b] = "old" THEN "none" ELSE store[r][b]
        /\ \A s \in Names : s # r => store'[s] = store[s]
        /\ store' \in [Names -> [Blobs -> {"none", "fresh", "old"}]]
        /\ UNCHANGED <<refs, trees, life, calls>> /\ doomed' = None
        /\ \A b \in doomed : Doomed(r, b)
    BY DEF Prune, PastGrace, Sweeping, Doomed
  <1>2. \A s \in Names, b \in Blobs : store[s][b] = "fresh" => store'[s][b] = "fresh"
    BY <1>1
  <1>3. FoundInv'
    <2>1. \A c \in Calls : calls[c] # None => calls[c].repo \in Names /\ calls[c].blob \in Blobs
      BY DEF Call
    <2> QED BY <1>1, <1>2, <2>1 DEF FoundInv
  <1>4. ReachedInv'
    BY <1>1 DEF ReachedInv, Doomed, Refd
  <1>5. GoneInv'
    BY <1>1 DEF GoneInv
  <1> QED BY <1>1, <1>3, <1>4, <1>5

LEMMA NextInv == ASSUME Inv, [Next]_vars PROVE Inv'
  <1>1. ASSUME NEW c \in Calls,
               \/ \E r \in Names, b \in Blobs : Upload(c, r, b) \/ Commit(c, r, b)
               \/ WriteBlob(c) \/ CheckBlob(c) \/ WriteTree(c) \/ UpdateRef(c) \/ Fails(c)
        PROVE  Inv'
    BY <1>1, CallStepInv, WriteBlobInv, UpdateRefInv
  <1>2. ASSUME NEW r \in Names, Mark(r) \/ Prune(r) \/ Delete(r) \/ \E b \in Blobs : Age(r, b)
        PROVE  Inv'
    BY <1>2, MarkInv, PruneInv, DeleteInv, AgeInv
  <1>3. ASSUME (\E r \in Names : GCFails(r)) \/ Tick \/ Restart
        PROVE  Inv'
    BY <1>3 DEF GCFails, Tick, Restart, Inv, StoreType, FoundInv, ReachedInv, GoneInv, Doomed
  <1>4. CASE UNCHANGED vars
    BY <1>4 DEF vars, Inv, StoreType, FoundInv, ReachedInv, GoneInv, Doomed
  <1> QED BY <1>1, <1>2, <1>3, <1>4 DEF Next

\* Committed blobs outlive any sweep, however uploads, commits, failures,
\* deletions and restarts fall between its steps (local.go:530): the grace
\* period alone protects the blobs of a commit that is on its way.
THEOREM CommittedStay == Spec => []CommittedBlobsStay
  <1>1. Inv /\ [Next]_vars => Inv'
    BY NextInv
  <1>2. Inv => CommittedBlobsStay
    BY DEF Inv, ReachedInv, CommittedBlobsStay
  <1> QED BY InitInv, <1>1, <1>2, PTL DEF Spec
===============================================================================
