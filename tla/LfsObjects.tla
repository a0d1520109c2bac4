------------------------------ MODULE LfsObjects ------------------------------
(***************************************************************************)
(* Git LFS objects of one repository: rows of the table lfs_objects and    *)
(* bytes in the object storage, which no transaction joins.  Every call    *)
(* alternates between the two, and calls interleave.                       *)
(*                                                                         *)
(* A content is named by its SHA-256, so that an object id is the content  *)
(* that hashes to it.  A row points at a storage key: the one computed     *)
(* from the object id, or the random one of a direct upload, named here by *)
(* the call that drew it.  The storage is a local disk, or a bucket whose  *)
(* presigned links let clients write without the service.                  *)
(***************************************************************************)
EXTENDS Naturals, FiniteSets

CONSTANTS
  Oids, SizeOf,   \* contents and their sizes
  Sizes,          \* sizes that clients declare
  Calls,          \* calls of the service, each made once
  None

ASSUME SizeAssumption == SizeOf \in [Oids -> Sizes]

\* objectKey(repo, oid) is named by the oid, uploadedObjectKey by its call.
Keys == Oids \cup Calls
Row == [verified : BOOLEAN, size : Sizes, key : Keys]
Ops == {"batch", "put", "store", "verify", "upload", "get"}

\* A call: its request, its next step, the row it read and what it answered.
Call == [op : Ops, oid : Oids, sent : Oids, size : Sizes,
         at : {"look", "create", "write", "settle", "adopt", "stat", "mark", "open", "recheck", "done"},
         seen : Row \cup {None},
         answer : {None, "ok", "upload", "mismatch", "missing", "error", "cut"} \cup Oids]

ASSUME NameAssumption ==
  Oids \cap Calls = {} /\ None \notin Oids \cup Calls \cup Row \cup Call

VARIABLES
  bucket,     \* is the storage a bucket, which presigns links?
  rows,       \* the table
  store,      \* the bytes under each key
  links,      \* objects for which a presigned upload link was given out
  call,       \* where each call stands
  spoiled,    \* history: objects for which other bytes were sent
  misstated,  \* history: objects declared with a wrong size
  unheard     \* history: uploads that were registered and answered with an error

vars == <<bucket, rows, store, links, call, spoiled, misstated, unheard>>

Init ==
  /\ bucket \in BOOLEAN
  /\ rows = [o \in Oids |-> None]
  /\ store = [k \in Keys |-> None]
  /\ links = {} /\ spoiled = {} /\ misstated = {} /\ unheard = {}
  /\ call = [c \in Calls |-> None]

-------------------------------------------------------------------------------
(* The registry: one statement each.                                        *)

\* Faulty: the column storage_key is left out.
InsertNoKey(o, row) ==
  rows' = IF rows[o] = None THEN [rows EXCEPT ![o] = [row EXCEPT !.key = None]] ELSE rows

\* Faulty: on conflict do update.
Upsert(o, row) == rows' = [rows EXCEPT ![o] = row]

\* Insert on conflict do nothing.
Insert(o, row) == rows' = IF rows[o] = None THEN [rows EXCEPT ![o] = row] ELSE rows

\* Faulty: the update lacks "and verified=0".
AdoptAnyway(o) == rows[o] # None

\* The rows that VerifyLFSObjectAtKey updates.
Adoptable(o) == rows[o] # None /\ ~rows[o].verified

SetVerified(o) == rows' = [rows EXCEPT ![o] = [@ EXCEPT !.verified = TRUE]]

Confirmed(o) == rows[o] # None /\ rows[o].verified

Goto(c, step) == call' = [call EXCEPT ![c].at = step]
Answer(c, a) == call' = [call EXCEPT ![c] = [@ EXCEPT !.at = "done", !.answer = a]]
\* The call goes on with the row it has read.
GoWithRow(c, step) ==
  call' = [call EXCEPT ![c] = [@ EXCEPT !.at = step, !.seen = rows[call[c].oid]]]
At(c, step) == call[c] # None /\ call[c].at = step
OpOf(c) == call[c].op
OidOf(c) == call[c].oid

-------------------------------------------------------------------------------
(* Requests.                                                                *)

FirstStep(op) == IF op \in {"put", "upload"} THEN "write" ELSE "look"

\* sent is what the bytes of the request hash to, size the declared size.  A
\* stored object is hashed by the server, and an upload gets its id from its
\* bytes; one of another size than its link was signed for is refused before
\* anything is registered.  A put that announces no length counts as one of a
\* wrong size.
Request(op, o, sent, size) ==
  /\ op \in {"store", "upload"} => sent = o
  /\ op \in {"store", "upload"} => size = SizeOf[sent]
  /\ op \in {"batch", "verify", "get"} => sent = o
  /\ op = "get" => size = SizeOf[o]

Begin(c, op, o, sent, size) ==
  /\ call[c] = None
  /\ Request(op, o, sent, size)
  /\ call' = [call EXCEPT ![c] =
       [op |-> op, oid |-> o, sent |-> sent, size |-> size,
        at |-> FirstStep(op), seen |-> None, answer |-> None]]
  /\ misstated' = IF op = "batch" /\ size # SizeOf[o] THEN misstated \cup {o} ELSE misstated
  /\ spoiled' = IF op = "put" /\ (sent # o \/ size # SizeOf[sent]) THEN spoiled \cup {o} ELSE spoiled
  /\ UNCHANGED <<bucket, rows, store, links, unheard>>

\* Faulty: StoreObject takes any row for a stored object.
AnyRowIsStored(c) == rows[OidOf(c)] # None

\* What lets StoreObject and batchUpload skip the transfer.
Skips(c) == Confirmed(OidOf(c))

\* Faulty: GetObject does not ask whether the object is confirmed.
AnyRowIsReadable(o) == rows[o] # None

Readable(o) == Confirmed(o)

\* The SELECT with which batchUpload, StoreObject, Verify and GetObject begin.
Look(c) ==
  LET o == OidOf(c) IN
  /\ At(c, "look")
  /\ \/ /\ OpOf(c) \in {"batch", "store"} /\ Skips(c)
        /\ Answer(c, "ok")
     \/ /\ OpOf(c) = "batch" /\ ~Skips(c) /\ rows[o] # None
        /\ Answer(c, "upload")
     \/ /\ OpOf(c) = "batch" /\ ~Skips(c) /\ rows[o] = None
        /\ Goto(c, "create")
     \/ /\ OpOf(c) = "store" /\ ~Skips(c)
        /\ Goto(c, "create")
     \/ /\ OpOf(c) = "verify" /\ rows[o] = None
        /\ Answer(c, "missing")
     \/ /\ OpOf(c) = "verify" /\ rows[o] # None
        /\ GoWithRow(c, "stat")
     \/ /\ OpOf(c) = "get" /\ ~Readable(o)
        /\ Answer(c, "missing")
     \/ /\ OpOf(c) = "get" /\ Readable(o)
        /\ GoWithRow(c, "open")
  /\ links' = IF bucket /\ call'[c].answer = "upload" THEN links \cup {o} ELSE links
  /\ UNCHANGED <<bucket, rows, store, spoiled, misstated, unheard>>

\* CreateLFSObject: the pending row of batchUpload and of StoreObject.
CreatePending(c) ==
  LET o == OidOf(c) IN
  /\ At(c, "create") /\ OpOf(c) \in {"batch", "store"}
  /\ Insert(o, [verified |-> FALSE, size |-> call[c].size, key |-> o])
  /\ IF OpOf(c) = "batch" THEN Answer(c, "upload") ELSE Goto(c, "write")
  /\ links' = IF bucket /\ OpOf(c) = "batch" THEN links \cup {o} ELSE links
  /\ UNCHANGED <<bucket, store, spoiled, misstated, unheard>>

\* storage.Put: the bytes appear at once when complete.  A short body, or a
\* failure, leaves the key as it was.
\* Faulty: a direct upload goes to the key of its object.
ObjectKeyOf(c) == OidOf(c)

KeyOf(c) == IF OpOf(c) = "upload" THEN c ELSE OidOf(c)

Write(c) ==
  /\ At(c, "write")
  /\ \/ /\ store' = [store EXCEPT ![KeyOf(c)] = call[c].sent]
        /\ Goto(c, IF OpOf(c) = "upload" THEN "create" ELSE "settle")
     \/ /\ Answer(c, "error")
        /\ UNCHANGED store
  /\ UNCHANGED <<bucket, rows, links, spoiled, misstated, unheard>>

\* storage.Delete.  A bucket refuses it when the request is cancelled, which is
\* only logged.
Delete(k) ==
  \/ store' = [store EXCEPT ![k] = None]
  \/ bucket /\ UNCHANGED store

Matches(c) == SizeOf[call[c].sent] = call[c].size /\ call[c].sent = OidOf(c)

\* The end of PutObject: wrong bytes are deleted, right ones are confirmed.
Settle(c) ==
  LET o == OidOf(c) IN
  /\ At(c, "settle")
  /\ \/ /\ ~Matches(c)
        /\ Delete(o)
        /\ Answer(c, "mismatch")
        /\ UNCHANGED rows
     \/ /\ Matches(c) /\ rows[o] # None
        /\ SetVerified(o)
        /\ Answer(c, "ok")
        /\ UNCHANGED store
     \/ /\ Matches(c) /\ rows[o] = None
        /\ Answer(c, "error")
        /\ UNCHANGED <<bucket, rows, store>>
  /\ UNCHANGED <<bucket, links, spoiled, misstated, unheard>>

-------------------------------------------------------------------------------
(* Verify and GetObject go on with the row they read.                       *)

\* Faulty: only the size that the row states is compared.
StatesSize(c) == call[c].seen.size = call[c].size

\* Bytes of the size that the client states are at the key of the row it read.
Present(c) ==
  LET there == store[call[c].seen.key] IN there # None /\ SizeOf[there] = call[c].size

Stat(c) ==
  /\ At(c, "stat")
  /\ IF Present(c) THEN Goto(c, "mark") ELSE Answer(c, "missing")
  /\ UNCHANGED <<bucket, rows, store, links, spoiled, misstated, unheard>>

Mark(c) ==
  /\ At(c, "mark")
  /\ SetVerified(OidOf(c))
  /\ Answer(c, "ok")
  /\ UNCHANGED <<bucket, store, links, spoiled, misstated, unheard>>

\* A missing file is an error of the storage.
Open(c) ==
  /\ At(c, "open")
  /\ LET there == store[call[c].seen.key] IN
     Answer(c, IF there = None THEN "error" ELSE there)
  /\ UNCHANGED <<bucket, rows, store, links, spoiled, misstated, unheard>>

-------------------------------------------------------------------------------
(* registerUpload.                                                          *)

\* CreateVerifiedLFSObject.
Register(c) ==
  LET o == OidOf(c) IN
  /\ At(c, "create") /\ OpOf(c) = "upload"
  /\ Insert(o, [verified |-> TRUE, size |-> call[c].size, key |-> c])
  /\ IF rows[o] = None THEN Answer(c, "ok") ELSE Goto(c, "adopt")
  /\ UNCHANGED <<bucket, store, links, spoiled, misstated, unheard>>

\* VerifyLFSObjectAtKey: a pending row is turned to the uploaded bytes.
Adopt(c) ==
  LET o == OidOf(c) IN
  /\ At(c, "adopt")
  /\ IF Adoptable(o)
     THEN /\ rows' = [rows EXCEPT ![o] = [verified |-> TRUE, size |-> call[c].size, key |-> c]]
          /\ Answer(c, "ok")
     ELSE /\ Goto(c, "recheck")
          /\ UNCHANGED rows
  /\ UNCHANGED <<bucket, store, links, spoiled, misstated, unheard>>

\* The object is confirmed already.  The uploaded bytes go, as they do after a
\* refusal.
Recheck(c) ==
  LET o == OidOf(c) IN
  /\ At(c, "recheck")
  /\ Delete(c)
  /\ Answer(c, IF Confirmed(o) /\ rows[o].size = call[c].size THEN "ok" ELSE "mismatch")
  /\ UNCHANGED <<bucket, rows, links, spoiled, misstated, unheard>>

-------------------------------------------------------------------------------
(* Failures, and clients of a bucket.                                       *)

\* A statement fails before it has an effect: StoreObject goes on after its SELECT,
\* an upload removes its bytes, and every other call answers with an error.
StatementFails(c) ==
  /\ \E step \in {"look", "create", "settle", "mark", "adopt", "recheck"} : At(c, step)
  /\ At(c, "settle") => Matches(c)
  /\ IF OpOf(c) = "store" /\ At(c, "look") THEN Goto(c, "create") ELSE Answer(c, "error")
  /\ IF OpOf(c) = "upload" THEN Delete(c) ELSE UNCHANGED store
  /\ UNCHANGED <<bucket, rows, links, spoiled, misstated, unheard>>

\* What the statement of a call that writes rows does to them.
Takes(c) ==
  LET o == OidOf(c) IN
  \/ /\ At(c, "create") /\ rows[o] = None
     /\ Insert(o, [verified |-> OpOf(c) = "upload", size |-> call[c].size, key |-> KeyOf(c)])
  \/ At(c, "settle") /\ Matches(c) /\ rows[o] # None /\ SetVerified(o)
  \/ At(c, "mark") /\ SetVerified(o)
  \/ /\ At(c, "adopt") /\ Adoptable(o)
     /\ rows' = [rows EXCEPT ![o] = [verified |-> TRUE, size |-> call[c].size, key |-> c]]

\* A statement takes effect, but the request is cancelled before its answer is
\* read: an upload removes the bytes that its row points at.
StatementUnheard(c) ==
  /\ Takes(c) /\ Answer(c, "error")
  /\ IF OpOf(c) = "upload" THEN Delete(c) /\ unheard' = unheard \cup {c}
     ELSE UNCHANGED <<store, unheard>>
  /\ UNCHANGED <<bucket, links, spoiled, misstated>>

\* The process stops and starts: rows and bytes stay, calls are lost.
Restart ==
  /\ \E c \in Calls : call[c] # None /\ ~At(c, "done")
  /\ call' = [c \in Calls |->
       IF call[c] = None \/ At(c, "done") THEN call[c]
       ELSE [call[c] EXCEPT !.at = "done", !.answer = "cut"]]
  /\ UNCHANGED <<bucket, rows, store, links, spoiled, misstated, unheard>>

\* A client writes through its link, which fixes neither content nor size.
LinkPut(o, sent) ==
  /\ o \in links
  /\ store' = [store EXCEPT ![o] = sent]
  /\ spoiled' = IF sent # o THEN spoiled \cup {o} ELSE spoiled
  /\ UNCHANGED <<bucket, rows, links, call, misstated, unheard>>

CallStep(c) ==
  \/ \E op \in Ops, o, sent \in Oids, size \in Sizes : Begin(c, op, o, sent, size)
  \/ Look(c) \/ CreatePending(c) \/ Write(c) \/ Settle(c)
  \/ Stat(c) \/ Mark(c) \/ Open(c)
  \/ Register(c) \/ Adopt(c) \/ Recheck(c)
  \/ StatementFails(c) \/ StatementUnheard(c)

Next ==
  \/ \E c \in Calls : CallStep(c)
  \/ Restart
  \/ \E o, sent \in Oids : LinkPut(o, sent)

Spec == Init /\ [][Next]_vars

-------------------------------------------------------------------------------
(* Properties.                                                              *)

TypeOK ==
  /\ bucket \in BOOLEAN
  /\ rows \in [Oids -> Row \cup {None}]
  /\ store \in [Keys -> Oids \cup {None}]
  /\ links \subseteq Oids /\ spoiled \subseteq Oids /\ misstated \subseteq Oids
  /\ unheard \subseteq Calls
  /\ call \in [Calls -> Call \cup {None}]

\* An object that the API's direct upload registered is readable for good:
\* whatever is put, verified or uploaded beside it, its row is confirmed, states
\* its true size and points at the right bytes, unless the upload was registered
\* and answered with an error all the same, and removed them (service.go:93).
RegisteredUploadsAreWhole ==
  \A o \in Oids : rows[o] # None /\ rows[o].key \in Calls =>
    /\ rows[o].verified /\ rows[o].size = SizeOf[o]
    /\ rows[o].key \notin unheard => store[rows[o].key] = o

\* When an upload has answered, its bytes are there if a row points at them, and
\* on a disk only then: no row is left without its file, but by an upload that
\* never heard of its registration, and no orphan file.
UploadsLeaveNoOrphans ==
  \A c \in Calls : At(c, "done") /\ OpOf(c) = "upload" /\ call[c].answer # "cut" =>
    LET listed == \E o \in Oids : rows[o] # None /\ rows[o].key = c
    IN /\ listed /\ c \notin unheard => store[c] # None
       /\ store[c] # None => listed \/ bucket

\* An object to which no client sent other bytes, and no upload that never heard
\* of its registration took them away, is whole once it is confirmed, and its size
\* is true if no client declared another one.
HonestObjectsAreWhole ==
  \A o \in Oids : Confirmed(o) =>
    /\ o \notin spoiled /\ rows[o].key \notin unheard => store[rows[o].key] = o
    /\ o \notin misstated => rows[o].size = SizeOf[o]

\* A commit stores a pointer after StoreObject or an upload succeeded, and a
\* client skips or ends its transfer on "ok": from then on the object is
\* confirmed, so that the pointer resolves.
SuccessMeansConfirmed ==
  \A c \in Calls : At(c, "done") /\ call[c].answer = "ok" => Confirmed(OidOf(c))

\* A download of an object to which no other bytes were sent yields the object
\* or says that there is none, never other bytes, and an error only of the database
\* or where such an upload took them away, although uploads delete files and turn
\* rows to other keys meanwhile.
DownloadsAreHonest ==
  \A c \in Calls : At(c, "done") /\ OpOf(c) = "get" /\ OidOf(c) \notin spoiled =>
    \/ call[c].answer \in {OidOf(c), "missing", "cut"}
    \/ call[c].answer = "error" /\ (call[c].seen = None \/ call[c].seen.key \in unheard)

\* A confirmed row never changes: it is not turned to other bytes, resized or
\* taken back, by whatever call.
ConfirmedRowsAreKept ==
  [][\A o \in Oids : Confirmed(o) => rows'[o] = rows[o]]_vars

===============================================================================
