--------------------------- MODULE LfsObjectsProofs ---------------------------
(***************************************************************************)
(* The invariants of LfsObjects for any number of calls and objects: rows  *)
(* of confirmed objects are final, what an upload registered or an honest  *)
(* client sent is whole, uploads leave no orphans, answers are true.       *)
(***************************************************************************)
EXTENDS LfsObjects, TLAPS

\* Which steps a call of each kind comes to.
StepsOf == [batch |-> {"look", "create", "done"},
            put |-> {"write", "settle", "done"},
            store |-> {"look", "create", "write", "settle", "done"},
            verify |-> {"look", "stat", "mark", "done"},
            upload |-> {"write", "create", "adopt", "recheck", "done"},
            get |-> {"look", "open", "done"}]

\* A call is at a step of its kind, an upload's request is true to its bytes,
\* and a row that was read is still there when it is to be marked.
CallInv ==
  \A c \in Calls : call[c] # None =>
    /\ call[c].at \in StepsOf[OpOf(c)]
    /\ OpOf(c) = "upload" => call[c].sent = OidOf(c) /\ call[c].size = SizeOf[OidOf(c)]
    /\ call[c].at \in {"stat", "mark"} => rows[OidOf(c)] # None
    /\ call[c].at = "open" => call[c].seen # None

TypeInv == TypeOK /\ CallInv

LEMMA InitTypeInv == Init => TypeInv
  BY DEF Init, TypeInv, TypeOK, CallInv

\* The call c is at step s of the same request, and no other call has moved.
Updated(c, s) ==
  /\ call' \in [Calls -> Call \cup {None}]
  /\ \A d \in Calls \ {c} : call'[d] = call[d]
  /\ call'[c].op = call[c].op /\ call'[c].oid = call[c].oid
  /\ call'[c].sent = call[c].sent /\ call'[c].size = call[c].size
  /\ call'[c].at = s /\ call'[c] # None

LEMMA CallType ==
  ASSUME TypeInv, NEW c \in Calls, call[c] # None
  PROVE  /\ call[c] \in Call /\ call \in [Calls -> Call \cup {None}]
         /\ OidOf(c) \in Oids /\ OpOf(c) \in Ops /\ OidOf(c) = call[c].oid
         /\ call[c].at \in StepsOf[OpOf(c)]
  BY DEF TypeInv, TypeOK, CallInv, Call, OidOf, OpOf

LEMMA UpdateType ==
  ASSUME TypeInv, NEW c \in Calls, call[c] # None,
         NEW r \in Call, call' = [call EXCEPT ![c] = r],
         r.op = call[c].op, r.oid = call[c].oid, r.sent = call[c].sent, r.size = call[c].size
  PROVE  Updated(c, r.at)
  BY CallType, NameAssumption DEF Updated

LEMMA GotoType ==
  ASSUME TypeInv, NEW c \in Calls, call[c] # None,
         NEW s \in StepsOf[OpOf(c)], Goto(c, s)
  PROVE  Updated(c, s)
  <1> DEFINE r == [call[c] EXCEPT !.at = s]
  <1>1. r \in Call /\ r.at = s /\ r.op = call[c].op /\ r.oid = call[c].oid
        /\ r.sent = call[c].sent /\ r.size = call[c].size
    BY CallType DEF Call, StepsOf, Ops
  <1>2. call' = [call EXCEPT ![c] = r]
    BY CallType DEF Goto
  <1> HIDE DEF r
  <1> QED BY <1>1, <1>2, UpdateType

LEMMA AnswerType ==
  ASSUME TypeInv, NEW c \in Calls, call[c] # None,
         NEW a \in {None, "ok", "upload", "mismatch", "missing", "error", "cut"} \cup Oids,
         Answer(c, a)
  PROVE  Updated(c, "done")
  <1> DEFINE r == [call[c] EXCEPT !.at = "done", !.answer = a]
  <1>1. r \in Call /\ r.at = "done" /\ r.op = call[c].op /\ r.oid = call[c].oid
        /\ r.sent = call[c].sent /\ r.size = call[c].size
    BY CallType DEF Call
  <1>2. call' = [call EXCEPT ![c] = r]
    BY CallType DEF Answer
  <1> HIDE DEF r
  <1> QED BY <1>1, <1>2, UpdateType

LEMMA GoWithRowType ==
  ASSUME TypeInv, NEW c \in Calls, call[c] # None,
         NEW s \in {"stat", "open"}, GoWithRow(c, s)
  PROVE  Updated(c, s) /\ call'[c].seen = rows[OidOf(c)]
  <1> DEFINE r == [call[c] EXCEPT !.at = s, !.seen = rows[call[c].oid]]
  <1>0. rows[call[c].oid] \in Row \cup {None}
    BY CallType DEF TypeInv, TypeOK
  <1>1. r \in Call /\ r.at = s /\ r.op = call[c].op /\ r.oid = call[c].oid
        /\ r.sent = call[c].sent /\ r.size = call[c].size /\ r.seen = rows[OidOf(c)]
    BY CallType, <1>0 DEF Call
  <1>2. call' = [call EXCEPT ![c] = r]
    BY CallType DEF GoWithRow
  <1> HIDE DEF r
  <1> QED BY <1>1, <1>2, UpdateType, CallType

\* The rows after each statement that changes one: well typed, none gone, and
\* no confirmed one changed.
RowsGrow ==
  /\ rows' \in [Oids -> Row \cup {None}]
  /\ \A o \in Oids : rows[o] # None => rows'[o] # None
  /\ \A o \in Oids : Confirmed(o) => rows'[o] = rows[o]

LEMMA InsertGrows ==
  ASSUME TypeOK, NEW o \in Oids, NEW row \in Row, Insert(o, row)
  PROVE  RowsGrow
  BY NameAssumption DEF TypeOK, Insert, RowsGrow, Confirmed

LEMMA SameRowsGrow == TypeOK /\ UNCHANGED rows => RowsGrow
  BY DEF TypeOK, RowsGrow

LEMMA SetVerifiedGrows ==
  ASSUME TypeOK, NEW o \in Oids, rows[o] # None, SetVerified(o)
  PROVE  RowsGrow
  <1> DEFINE row == [rows[o] EXCEPT !.verified = TRUE]
  <1>1. rows[o] \in Row /\ rows' = [rows EXCEPT ![o] = row]
    BY DEF TypeOK, SetVerified
  <1>2. row \in Row /\ (rows[o].verified => row = rows[o])
    BY <1>1 DEF Row
  <1> HIDE DEF row
  <1> QED BY <1>1, <1>2, NameAssumption DEF TypeOK, RowsGrow, Confirmed

\* What the step of one call preserves of the calls.
LEMMA UpdatedInv ==
  ASSUME TypeInv, NEW c \in Calls, call[c] # None, RowsGrow,
         NEW s \in StepsOf[OpOf(c)], Updated(c, s),
         s \in {"stat", "mark"} => rows[OidOf(c)] # None,
         s = "open" => call'[c].seen # None
  PROVE  CallInv'
  <1>1. \A d \in Calls : call[d] # None => OidOf(d) \in Oids
    BY CallType
  <1> QED BY <1>1 DEF TypeInv, CallInv, RowsGrow, OpOf, OidOf, Updated

LEMMA BeginStep ==
  ASSUME TypeInv, NEW c \in Calls, NEW op \in Ops, NEW o \in Oids, NEW sent \in Oids,
         NEW size \in Sizes, Begin(c, op, o, sent, size)
  PROVE  TypeInv' /\ RowsGrow
  <1> DEFINE r == [op |-> op, oid |-> o, sent |-> sent, size |-> size,
                   at |-> FirstStep(op), seen |-> None, answer |-> None]
  <1>1. r \in Call /\ r.at \in StepsOf[r.op] \ {"stat", "mark", "open"}
        /\ (r.op = "upload" => r.sent = r.oid /\ r.size = SizeOf[r.oid])
    BY DEF Call, Begin, Request, FirstStep, Ops, StepsOf
  <1>2. call' = [call EXCEPT ![c] = r] /\ UNCHANGED <<bucket, rows, store, links, unheard>>
        /\ misstated' \subseteq Oids /\ spoiled' \subseteq Oids
    BY DEF Begin, TypeInv, TypeOK
  <1> HIDE DEF r
  <1>3. RowsGrow
    BY <1>2, SameRowsGrow DEF TypeInv
  <1>4. TypeOK'
    BY <1>1, <1>2 DEF TypeInv, TypeOK
  <1>5. CallInv'
    BY <1>1, <1>2 DEF TypeInv, TypeOK, CallInv, OpOf, OidOf
  <1> QED BY <1>3, <1>4, <1>5 DEF TypeInv

LEMMA LookStep ==
  ASSUME TypeInv, NEW c \in Calls, Look(c)
  PROVE  TypeInv' /\ RowsGrow /\ \E s \in StepsOf[OpOf(c)] : Updated(c, s)
  <1>0. call[c] # None /\ OpOf(c) \in Ops /\ OidOf(c) \in Oids /\ RowsGrow
    BY CallType, SameRowsGrow DEF Look, At, TypeInv
  <1>1. \E s \in StepsOf[OpOf(c)] :
          /\ Updated(c, s)
          /\ s \in {"stat", "mark"} => rows[OidOf(c)] # None
          /\ s = "open" => call'[c].seen # None
    <2>1. CASE Answer(c, "ok") \/ Answer(c, "upload") \/ Answer(c, "missing")
      BY <1>0, <2>1, AnswerType DEF StepsOf, Ops
    <2>2. CASE OpOf(c) \in {"batch", "store"} /\ Goto(c, "create")
      BY <1>0, <2>2, GotoType DEF StepsOf
    <2>3. CASE OpOf(c) = "verify" /\ rows[OidOf(c)] # None /\ GoWithRow(c, "stat")
      BY <1>0, <2>3, GoWithRowType DEF StepsOf
    <2>4. CASE OpOf(c) = "get" /\ Readable(OidOf(c)) /\ GoWithRow(c, "open")
      BY <1>0, <2>4, GoWithRowType DEF StepsOf, Readable, Confirmed
    <2> QED BY <2>1, <2>2, <2>3, <2>4 DEF Look
  <1>2. CallInv'
    BY <1>0, <1>1, UpdatedInv
  <1>3. TypeOK'
    BY <1>0, <1>1 DEF TypeInv, TypeOK, Look, Updated
  <1> QED BY <1>1, <1>0, <1>2, <1>3 DEF TypeInv

LEMMA CreatePendingStep ==
  ASSUME TypeInv, NEW c \in Calls, CreatePending(c)
  PROVE  TypeInv' /\ RowsGrow /\ \E s \in StepsOf[OpOf(c)] : Updated(c, s)
  <1>0. call[c] # None /\ OpOf(c) \in {"batch", "store"} /\ OidOf(c) \in Oids
    BY CallType DEF CreatePending, At
  <1>1. RowsGrow
    <2>1. [verified |-> FALSE, size |-> call[c].size, key |-> OidOf(c)] \in Row
      BY <1>0, CallType DEF Row, Keys, Call
    <2> QED BY <1>0, <2>1, InsertGrows DEF TypeInv, CreatePending
  <1>2. \E s \in StepsOf[OpOf(c)] \ {"stat", "mark", "open"} : Updated(c, s)
    BY <1>0, AnswerType, GotoType DEF CreatePending, StepsOf
  <1>3. CallInv'
    BY <1>0, <1>1, <1>2, UpdatedInv
  <1>4. TypeOK'
    BY <1>0, <1>1, <1>2 DEF TypeInv, TypeOK, CreatePending, Updated, RowsGrow
  <1> QED BY <1>2, <1>0, <1>1, <1>3, <1>4 DEF TypeInv

LEMMA WriteStep ==
  ASSUME TypeInv, NEW c \in Calls, Write(c)
  PROVE  TypeInv' /\ RowsGrow /\ \E s \in StepsOf[OpOf(c)] : Updated(c, s)
  <1>0. /\ call[c] # None /\ OidOf(c) \in Oids /\ OpOf(c) \in {"put", "store", "upload"}
        /\ call[c].sent \in Oids /\ RowsGrow
    BY CallType, SameRowsGrow DEF Write, At, TypeInv, StepsOf, Ops, Call
  <1>1. \E s \in StepsOf[OpOf(c)] \ {"stat", "mark", "open"} : Updated(c, s)
    BY <1>0, AnswerType, GotoType DEF Write, StepsOf
  <1>2. CallInv'
    BY <1>0, <1>1, UpdatedInv
  <1>3. TypeOK'
    BY <1>0, <1>1 DEF TypeInv, TypeOK, Write, Updated, KeyOf, Keys
  <1> QED BY <1>1, <1>0, <1>2, <1>3 DEF TypeInv

LEMMA SettleStep ==
  ASSUME TypeInv, NEW c \in Calls, Settle(c)
  PROVE  TypeInv' /\ RowsGrow /\ \E s \in StepsOf[OpOf(c)] : Updated(c, s)
  <1>0. call[c] # None /\ OidOf(c) \in Oids /\ OpOf(c) \in Ops
    BY CallType DEF Settle, At
  <1>1. RowsGrow
    BY <1>0, SameRowsGrow, SetVerifiedGrows DEF TypeInv, Settle
  <1>2. Updated(c, "done") /\ "done" \in StepsOf[OpOf(c)]
    BY <1>0, AnswerType DEF Settle, StepsOf, Ops
  <1>3. CallInv'
    BY <1>0, <1>1, <1>2, UpdatedInv
  <1>4. TypeOK'
    BY <1>0, <1>1, <1>2 DEF TypeInv, TypeOK, Settle, Delete, Updated, RowsGrow, Keys
  <1> QED BY <1>2, <1>0, <1>1, <1>3, <1>4 DEF TypeInv

LEMMA ReaderStep ==
  ASSUME TypeInv, NEW c \in Calls, Stat(c) \/ Open(c)
  PROVE  TypeInv' /\ RowsGrow /\ \E s \in StepsOf[OpOf(c)] : Updated(c, s)
  <1>0. /\ call[c] # None /\ OidOf(c) \in Oids /\ OpOf(c) \in Ops /\ RowsGrow
        /\ At(c, "stat") => OpOf(c) = "verify" /\ rows[OidOf(c)] # None
    BY CallType, SameRowsGrow DEF Stat, Open, At, TypeInv, CallInv, StepsOf, Ops
  <1>1. \E s \in StepsOf[OpOf(c)] \ {"stat", "open"} :
          Updated(c, s) /\ (s = "mark" => rows[OidOf(c)] # None)
    <2>1. CASE Stat(c)
      BY <1>0, <2>1, AnswerType, GotoType DEF Stat, StepsOf
    <2>2. CASE Open(c)
      <3>1. call[c].seen.key \in Keys
        BY <1>0, <2>2, CallType DEF Open, At, TypeInv, CallInv, Call, Row
      <3>2. store[call[c].seen.key] \in Oids \cup {None}
        BY <3>1 DEF TypeInv, TypeOK
      <3> QED BY <1>0, <2>2, <3>2, AnswerType DEF Open, StepsOf, Ops
    <2> QED BY <2>1, <2>2
  <1>2. CallInv'
    BY <1>0, <1>1, UpdatedInv
  <1>3. TypeOK'
    BY <1>0, <1>1 DEF TypeInv, TypeOK, Stat, Open, Updated
  <1> QED BY <1>1, <1>0, <1>2, <1>3 DEF TypeInv

LEMMA MarkStep ==
  ASSUME TypeInv, NEW c \in Calls, Mark(c)
  PROVE  TypeInv' /\ RowsGrow /\ \E s \in StepsOf[OpOf(c)] : Updated(c, s)
  <1>0. /\ call[c] # None /\ OidOf(c) \in Oids /\ OpOf(c) \in Ops
        /\ rows[OidOf(c)] # None
    BY CallType DEF Mark, At, TypeInv, CallInv
  <1>1. RowsGrow
    BY <1>0, SetVerifiedGrows DEF TypeInv, Mark
  <1>2. Updated(c, "done") /\ "done" \in StepsOf[OpOf(c)]
    BY <1>0, AnswerType DEF Mark, StepsOf, Ops
  <1>3. CallInv'
    BY <1>0, <1>1, <1>2, UpdatedInv
  <1>4. TypeOK'
    BY <1>0, <1>1, <1>2 DEF TypeInv, TypeOK, Mark, Updated, RowsGrow
  <1> QED BY <1>2, <1>0, <1>1, <1>3, <1>4 DEF TypeInv

\* The row that an upload writes.
LEMMA UploadedRow ==
  ASSUME TypeInv, NEW c \in Calls, call[c] # None
  PROVE  [verified |-> TRUE, size |-> call[c].size, key |-> c] \in Row
  BY CallType DEF Row, Keys, Call

LEMMA RegistrationStep ==
  ASSUME TypeInv, NEW c \in Calls, Register(c) \/ Adopt(c) \/ Recheck(c)
  PROVE  TypeInv' /\ RowsGrow /\ \E s \in StepsOf[OpOf(c)] : Updated(c, s)
  <1>0. call[c] # None /\ OidOf(c) \in Oids /\ OpOf(c) = "upload"
    BY CallType DEF Register, Adopt, Recheck, At, StepsOf, Ops
  <1>1. RowsGrow
    <2>1. CASE Register(c)
      BY <1>0, <2>1, UploadedRow, InsertGrows DEF TypeInv, Register
    <2>2. CASE Adopt(c)
      BY <1>0, <2>2, UploadedRow, NameAssumption DEF TypeInv, TypeOK, Adopt, Adoptable, RowsGrow, Confirmed
    <2>3. CASE Recheck(c)
      BY <2>3, SameRowsGrow DEF TypeInv, Recheck
    <2> QED BY <2>1, <2>2, <2>3
  <1>2. \E s \in StepsOf[OpOf(c)] \ {"stat", "mark", "open"} : Updated(c, s)
    BY <1>0, AnswerType, GotoType DEF Register, Adopt, Recheck, StepsOf
  <1>3. CallInv'
    BY <1>0, <1>1, <1>2, UpdatedInv
  <1>4. TypeOK'
    BY <1>0, <1>1, <1>2 DEF TypeInv, TypeOK, Register, Adopt, Recheck, Delete, Updated, RowsGrow, Keys
  <1> QED BY <1>2, <1>0, <1>1, <1>3, <1>4 DEF TypeInv

LEMMA FailureStep ==
  ASSUME TypeInv, NEW c \in Calls, StatementFails(c)
  PROVE  TypeInv' /\ RowsGrow /\ \E s \in StepsOf[OpOf(c)] : Updated(c, s)
  <1>0. call[c] # None /\ OidOf(c) \in Oids /\ OpOf(c) \in Ops /\ RowsGrow
    BY CallType, SameRowsGrow DEF StatementFails, At, TypeInv
  <1>1. \E s \in StepsOf[OpOf(c)] \ {"stat", "mark", "open"} : Updated(c, s)
    BY <1>0, AnswerType, GotoType DEF StatementFails, StepsOf, Ops
  <1>2. CallInv'
    BY <1>0, <1>1, UpdatedInv
  <1>3. TypeOK'
    BY <1>0, <1>1 DEF TypeInv, TypeOK, StatementFails, Delete, Updated, Keys
  <1> QED BY <1>1, <1>0, <1>2, <1>3 DEF TypeInv

\* What a statement that takes effect does to the row of its call.
LEMMA Taken ==
  ASSUME TypeInv, NEW c \in Calls, Takes(c)
  PROVE  /\ call[c] # None /\ call[c].at # "done" /\ OidOf(c) \in Oids /\ OpOf(c) \in Ops \ {"get"}
         /\ \/ /\ OpOf(c) = "upload" /\ call[c].at \in {"create", "adopt"} /\ ~Confirmed(OidOf(c))
               /\ rows' = [rows EXCEPT ![OidOf(c)] = [verified |-> TRUE, size |-> call[c].size, key |-> c]]
            \/ /\ OpOf(c) \in {"batch", "store"} /\ rows[OidOf(c)] = None
               /\ rows' = [rows EXCEPT ![OidOf(c)] =
                             [verified |-> FALSE, size |-> call[c].size, key |-> OidOf(c)]]
            \/ /\ OpOf(c) # "upload" /\ call[c].at \in {"settle", "mark"} /\ rows[OidOf(c)] # None
               /\ SetVerified(OidOf(c))
  <1>1. /\ call[c] # None /\ OidOf(c) \in Oids /\ OpOf(c) \in Ops
        /\ call[c].at \in {"create", "settle", "mark", "adopt"} /\ call[c].at \in StepsOf[OpOf(c)]
    BY CallType DEF Takes, At
  <1>2. call[c].at = "mark" => rows[OidOf(c)] # None
    BY <1>1 DEF TypeInv, CallInv
  <1>3. /\ call[c].at = "create" => OpOf(c) \in {"batch", "store", "upload"}
        /\ call[c].at = "adopt" => OpOf(c) = "upload"
        /\ call[c].at \in {"settle", "mark"} => OpOf(c) \in {"put", "store", "verify"}
        /\ OpOf(c) # "get"
    BY <1>1 DEF StepsOf, Ops
  <1>4. CASE At(c, "create")
    BY <1>1, <1>3, <1>4 DEF Takes, At, Insert, KeyOf, Confirmed
  <1>5. CASE ~At(c, "create")
    BY <1>1, <1>2, <1>3, <1>5 DEF Takes, At, Adoptable, Confirmed
  <1> QED BY <1>4, <1>5

LEMMA UnheardStep ==
  ASSUME TypeInv, NEW c \in Calls, StatementUnheard(c)
  PROVE  TypeInv' /\ RowsGrow /\ Updated(c, "done") /\ \E s \in StepsOf[OpOf(c)] : Updated(c, s)
  <1>0. call[c] # None /\ OidOf(c) \in Oids /\ OpOf(c) \in Ops
    BY Taken DEF StatementUnheard
  <1>1. RowsGrow
    <2>1. CASE /\ ~Confirmed(OidOf(c))
               /\ rows' = [rows EXCEPT ![OidOf(c)] = [verified |-> TRUE, size |-> call[c].size, key |-> c]]
      BY <1>0, <2>1, UploadedRow, NameAssumption DEF TypeInv, TypeOK, RowsGrow, Confirmed
    <2>2. CASE /\ rows[OidOf(c)] = None
               /\ rows' = [rows EXCEPT ![OidOf(c)] =
                             [verified |-> FALSE, size |-> call[c].size, key |-> OidOf(c)]]
      <3>1. [verified |-> FALSE, size |-> call[c].size, key |-> OidOf(c)] \in Row
        BY <1>0, CallType DEF Row, Keys, Call
      <3> QED BY <1>0, <2>2, <3>1, InsertGrows DEF TypeInv, Insert
    <2>3. CASE rows[OidOf(c)] # None /\ SetVerified(OidOf(c))
      BY <1>0, <2>3, SetVerifiedGrows DEF TypeInv
    <2> QED BY <2>1, <2>2, <2>3, Taken DEF StatementUnheard
  <1>2. Updated(c, "done") /\ "done" \in StepsOf[OpOf(c)]
    BY <1>0, AnswerType DEF StatementUnheard, StepsOf, Ops
  <1>3. CallInv'
    BY <1>0, <1>1, <1>2, UpdatedInv
  <1>4. TypeOK'
    BY <1>0, <1>1, <1>2 DEF TypeInv, TypeOK, StatementUnheard, Delete, Updated, RowsGrow, Keys
  <1> QED BY <1>1, <1>2, <1>3, <1>4 DEF TypeInv

LEMMA RestartStep == ASSUME TypeInv, Restart PROVE TypeInv' /\ RowsGrow
  <1>1. RowsGrow
    BY SameRowsGrow DEF TypeInv, Restart
  <1> DEFINE r(c) == [call[c] EXCEPT !.at = "done", !.answer = "cut"]
  <1>2. \A c \in Calls : call[c] # None => /\ r(c) \in Call /\ r(c).at = "done" /\ r(c).op = call[c].op
                                           /\ r(c).oid = call[c].oid /\ r(c).sent = call[c].sent
                                           /\ r(c).size = call[c].size
    BY CallType DEF Call
  <1>3. call' = [c \in Calls |-> IF call[c] = None \/ At(c, "done") THEN call[c] ELSE r(c)]
    BY DEF Restart
  <1> HIDE DEF r
  <1>4. TypeOK'
    BY <1>2, <1>3 DEF TypeInv, TypeOK, Restart
  <1>5. CallInv'
    <2>1. \A c \in Calls : call[c] # None => call[c].at \in StepsOf[OpOf(c)] /\ OpOf(c) \in Ops
      BY CallType
    <2>2. ASSUME NEW c \in Calls, call'[c] # None, call'[c] # call[c]
          PROVE  /\ call[c] # None /\ call'[c].at = "done" /\ call'[c].op = call[c].op
                 /\ call'[c].oid = call[c].oid /\ call'[c].sent = call[c].sent
                 /\ call'[c].size = call[c].size
      BY <1>2, <1>3, <2>2
    <2>3. \A op \in Ops : "done" \in StepsOf[op]
      BY DEF Ops, StepsOf
    <2>4. UNCHANGED rows
      BY DEF Restart
    <2> QED BY <2>1, <2>2, <2>3, <2>4 DEF TypeInv, CallInv, OpOf, OidOf
  <1> QED BY <1>1, <1>4, <1>5 DEF TypeInv

LEMMA LinkPutStep ==
  ASSUME TypeInv, NEW o \in Oids, NEW sent \in Oids, LinkPut(o, sent)
  PROVE  TypeInv' /\ RowsGrow
  <1>1. RowsGrow
    BY SameRowsGrow DEF TypeInv, LinkPut
  <1>2. TypeOK'
    BY DEF TypeInv, TypeOK, LinkPut, Keys
  <1>3. CallInv'
    BY DEF TypeInv, CallInv, LinkPut, OpOf, OidOf
  <1> QED BY <1>1, <1>2, <1>3 DEF TypeInv

LEMMA StepInv == ASSUME TypeInv, [Next]_vars PROVE TypeInv' /\ RowsGrow
  <1>1. ASSUME NEW c \in Calls, CallStep(c) PROVE TypeInv' /\ RowsGrow
    BY <1>1, BeginStep, LookStep, CreatePendingStep, WriteStep, SettleStep, ReaderStep,
       MarkStep, RegistrationStep, FailureStep, UnheardStep DEF CallStep
  <1>2. CASE UNCHANGED vars
    BY <1>2, SameRowsGrow DEF vars, TypeInv, TypeOK, CallInv, OpOf, OidOf
  <1> QED BY <1>1, <1>2, RestartStep, LinkPutStep DEF Next

\* Rows and calls stay well typed.
THEOREM TypeCorrect == Spec => []TypeOK
  <1>1. TypeInv => TypeOK
    BY DEF TypeInv
  <1> QED BY <1>1, InitTypeInv, StepInv, PTL DEF Spec

\* No statement of any call changes the row of a confirmed object.
THEOREM ConfirmedRowsStay == Spec => ConfirmedRowsAreKept
  <1>1. TypeInv /\ [Next]_vars => [\A o \in Oids : Confirmed(o) => rows'[o] = rows[o]]_vars
    BY StepInv DEF RowsGrow
  <1> QED BY <1>1, InitTypeInv, StepInv, PTL DEF Spec, ConfirmedRowsAreKept

-------------------------------------------------------------------------------
(* Direct uploads.                                                          *)

\* Between its Put and its answer an upload has its bytes in place.
WrittenInv ==
  \A c \in Calls :
    (/\ call[c] # None /\ OpOf(c) = "upload"
     /\ call[c].at \in {"create", "adopt", "recheck"}) => store[c] = OidOf(c)

\* A row that points at an upload's key is whole, or the upload took its bytes
\* away without having heard of the row; and the upload has ended: no call is left
\* that might write or delete that key.
ListedInv ==
  \A o \in Oids : rows[o] # None /\ rows[o].key \in Calls =>
    LET c == rows[o].key IN
    /\ rows[o].verified /\ rows[o].size = SizeOf[o]
    /\ store[c] = o \/ (c \in unheard /\ store[c] = None)
    /\ call[c] # None /\ call[c].at = "done"

UploadInv == WrittenInv /\ ListedInv

LEMMA InitUploadInv == Init => UploadInv
  BY DEF Init, UploadInv, WrittenInv, ListedInv

\* Rows are changed to none that points at an upload's key.
RowsQuiet == \A o \in Oids : rows'[o] = rows[o] \/ rows'[o].key \notin Calls

LEMMA SetVerifiedQuiet ==
  ASSUME TypeOK, UploadInv, NEW o \in Oids, rows[o] # None, SetVerified(o)
  PROVE  RowsQuiet
  <1>1. rows[o] \in Row /\ \A p \in Oids \ {o} : rows'[p] = rows[p]
    BY DEF TypeOK, SetVerified
  <1>2. rows'[o] = [rows[o] EXCEPT !.verified = TRUE]
    BY DEF TypeOK, SetVerified
  <1>3. rows'[o].key = rows[o].key /\ (rows[o].verified => rows'[o] = rows[o])
    BY <1>1, <1>2 DEF Row
  <1> QED BY <1>1, <1>3 DEF RowsQuiet, UploadInv, ListedInv

\* A step of a running call that leaves the other uploads' keys alone, and its
\* own in place if it goes on.
LEMMA QuietStep ==
  ASSUME UploadInv, RowsQuiet, unheard \subseteq unheard', NEW c \in Calls, call[c] # None, call[c].at # "done",
         NEW s, Updated(c, s),
         \A d \in Calls \ {c} : store'[d] = store[d],
         OpOf(c) = "upload" /\ s \in {"create", "adopt", "recheck"} => store'[c] = OidOf(c)
  PROVE  UploadInv'
  <1>1. WrittenInv'
    BY DEF UploadInv, WrittenInv, Updated, OpOf, OidOf
  <1>2. ListedInv'
    BY DEF UploadInv, ListedInv, RowsQuiet, Updated
  <1> QED BY <1>1, <1>2 DEF UploadInv

LEMMA BeginUpload ==
  ASSUME TypeInv, UploadInv, NEW c \in Calls, NEW op \in Ops, NEW o \in Oids, NEW sent \in Oids,
         NEW size \in Sizes, Begin(c, op, o, sent, size)
  PROVE  UploadInv'
  <1>1. call'[c].at \in {"look", "write"} /\ call[c] = None
    BY DEF TypeInv, TypeOK, Begin, FirstStep
  <1>2. \A d \in Calls \ {c} : call'[d] = call[d]
    BY DEF TypeInv, TypeOK, Begin
  <1>3. UNCHANGED <<rows, store, unheard>>
    BY DEF Begin
  <1> QED BY <1>1, <1>2, <1>3 DEF UploadInv, WrittenInv, ListedInv, OpOf, OidOf

\* The steps of other calls: what they write lies at keys of objects.
LEMMA OtherUpload ==
  ASSUME TypeInv, UploadInv, NEW c \in Calls,
         Look(c) \/ CreatePending(c) \/ Settle(c) \/ Stat(c) \/ Mark(c) \/ Open(c)
  PROVE  UploadInv'
  <1>1. /\ call[c] # None /\ call[c].at # "done" /\ OpOf(c) # "upload"
        /\ OidOf(c) \in Oids /\ OidOf(c) \notin Calls
    BY CallType, NameAssumption DEF Look, CreatePending, Settle, Stat, Mark, Open, At, StepsOf, Ops
  <1>2. \E s \in StepsOf[OpOf(c)] : Updated(c, s)
    BY LookStep, CreatePendingStep, SettleStep, ReaderStep, MarkStep
  <1>3. \A d \in Calls : store'[d] = store[d]
    BY <1>1 DEF Look, CreatePending, Settle, Stat, Mark, Open, Delete, TypeInv, TypeOK, Keys
  <1>4. RowsQuiet
    <2>1. CASE UNCHANGED rows
      BY <2>1 DEF RowsQuiet
    <2>2. CASE rows[OidOf(c)] # None /\ SetVerified(OidOf(c))
      BY <1>1, <2>2, SetVerifiedQuiet DEF TypeInv
    <2>3. CASE CreatePending(c)
      BY <1>1, <2>3 DEF CreatePending, Insert, RowsQuiet, TypeInv, TypeOK
    <2>4. rows[OidOf(c)] # None \/ ~Mark(c)
      BY DEF Mark, At, TypeInv, CallInv
    <2> QED BY <2>1, <2>2, <2>3, <2>4 DEF Look, Settle, Stat, Mark, Open
  <1>5. UNCHANGED unheard
    BY DEF Look, CreatePending, Settle, Stat, Mark, Open
  <1> QED BY <1>1, <1>2, <1>3, <1>4, <1>5, QuietStep

LEMMA WriteUpload ==
  ASSUME TypeInv, UploadInv, NEW c \in Calls, Write(c)
  PROVE  UploadInv'
  <1>1. call[c] # None /\ call[c].at = "write" /\ OidOf(c) \in Oids /\ OidOf(c) \notin Calls
    BY CallType, NameAssumption DEF Write, At
  <1>2. OpOf(c) = "upload" => call[c].sent = OidOf(c)
    BY <1>1 DEF TypeInv, CallInv
  <1>3. RowsQuiet /\ UNCHANGED unheard
    BY DEF Write, RowsQuiet
  <1>4. \A d \in Calls \ {c} : store'[d] = store[d]
    BY <1>1 DEF Write, KeyOf, TypeInv, TypeOK, Keys
  <1>5. \E s \in StepsOf[OpOf(c)] :
          /\ Updated(c, s)
          /\ OpOf(c) = "upload" /\ s \in {"create", "adopt", "recheck"} => store'[c] = OidOf(c)
    <2>1. CASE Answer(c, "error")
      BY <1>1, <2>1, AnswerType, CallType DEF StepsOf, Ops
    <2>2. CASE OpOf(c) = "upload" /\ store' = [store EXCEPT ![KeyOf(c)] = call[c].sent] /\ Goto(c, "create")
      BY <1>1, <1>2, <2>2, GotoType DEF StepsOf, KeyOf, TypeInv, TypeOK, Keys
    <2>3. CASE OpOf(c) # "upload"
      BY <2>3, WriteStep
    <2> QED BY <2>1, <2>2, <2>3 DEF Write
  <1> QED BY <1>1, <1>3, <1>4, <1>5, QuietStep

\* CreateVerifiedLFSObject and VerifyLFSObjectAtKey list bytes that are in place.
LEMMA RegisterUpload ==
  ASSUME TypeInv, UploadInv, NEW c \in Calls, Register(c) \/ Adopt(c)
  PROVE  UploadInv'
  <1>1. /\ call[c] # None /\ call[c].at \in {"create", "adopt"} /\ OpOf(c) = "upload"
        /\ OidOf(c) \in Oids
    BY CallType DEF Register, Adopt, At, StepsOf, Ops
  <1>2. call[c].size = SizeOf[OidOf(c)] /\ store[c] = OidOf(c) /\ UNCHANGED <<store, unheard>>
    BY <1>1 DEF TypeInv, CallInv, UploadInv, WrittenInv, Register, Adopt
  <1> DEFINE r == [verified |-> TRUE, size |-> call[c].size, key |-> c]
  <1>3. CASE rows' = rows
    <2>1. \E s \in StepsOf[OpOf(c)] : Updated(c, s)
      BY RegistrationStep
    <2> QED BY <1>1, <1>2, <1>3, <2>1, QuietStep DEF RowsQuiet
  <1>4. CASE rows' # rows
    <2>1. rows' = [rows EXCEPT ![OidOf(c)] = r] /\ Updated(c, "done")
      BY <1>1, <1>4, AnswerType DEF Register, Adopt, Insert
    <2>2. WrittenInv'
      BY <1>2, <2>1 DEF UploadInv, WrittenInv, Updated, OpOf, OidOf
    <2>3. ListedInv'
      BY <1>1, <1>2, <2>1 DEF UploadInv, ListedInv, Updated, TypeInv, TypeOK
    <2> QED BY <2>2, <2>3 DEF UploadInv
  <1> QED BY <1>3, <1>4

\* An upload that answers without having registered its bytes deletes them.
LEMMA DropUpload ==
  ASSUME TypeInv, UploadInv, NEW c \in Calls, Recheck(c) \/ StatementFails(c)
  PROVE  UploadInv'
  <1>1. /\ call[c] # None /\ call[c].at # "done" /\ RowsQuiet /\ OpOf(c) \in Ops
        /\ UNCHANGED unheard
    BY CallType DEF Recheck, StatementFails, At, RowsQuiet
  <1>2. \A d \in Calls \ {c} : store'[d] = store[d]
    BY DEF Recheck, StatementFails, Delete, TypeInv, TypeOK, Keys
  <1>3. \E s \in StepsOf[OpOf(c)] : Updated(c, s) /\ (OpOf(c) = "upload" => s = "done")
    <2>1. CASE OpOf(c) = "upload"
      BY <1>1, <2>1, AnswerType DEF Recheck, StatementFails, StepsOf
    <2>2. CASE OpOf(c) # "upload"
      BY <2>2, RegistrationStep, FailureStep
    <2> QED BY <2>1, <2>2
  <1> QED BY <1>1, <1>2, <1>3, QuietStep

\* One that has registered its bytes unheard deletes them all the same.
LEMMA UnheardUpload ==
  ASSUME TypeInv, UploadInv, NEW c \in Calls, StatementUnheard(c)
  PROVE  UploadInv'
  <1>1. /\ call[c] # None /\ call[c].at # "done" /\ OidOf(c) \in Oids /\ OidOf(c) \notin Calls
        /\ Updated(c, "done") /\ unheard \subseteq unheard'
    BY Taken, UnheardStep, NameAssumption DEF StatementUnheard
  <1>2. \A d \in Calls \ {c} : store'[d] = store[d]
    BY DEF StatementUnheard, Delete, TypeInv, TypeOK, Keys
  <1>3. CASE OpOf(c) # "upload"
    <2>1. CASE rows[OidOf(c)] # None /\ SetVerified(OidOf(c))
      <3>1. RowsQuiet
        BY <1>1, <2>1, SetVerifiedQuiet DEF TypeInv
      <3> QED BY <1>1, <1>2, <1>3, <3>1, QuietStep
    <2>2. CASE rows' = [rows EXCEPT ![OidOf(c)] =
                          [verified |-> FALSE, size |-> call[c].size, key |-> OidOf(c)]]
      <3>1. RowsQuiet
        BY <1>1, <2>2 DEF RowsQuiet, TypeInv, TypeOK
      <3> QED BY <1>1, <1>2, <1>3, <3>1, QuietStep
    <2> QED BY <1>3, <2>1, <2>2, Taken DEF StatementUnheard
  <1>4. CASE OpOf(c) = "upload"
    <2>1. /\ call[c].at \in {"create", "adopt"} /\ call[c].size = SizeOf[OidOf(c)]
          /\ rows' = [rows EXCEPT ![OidOf(c)] = [verified |-> TRUE, size |-> call[c].size, key |-> c]]
      BY <1>1, <1>4, Taken DEF StatementUnheard, TypeInv, CallInv
    <2>2. store[c] = OidOf(c) /\ store'[c] \in {store[c], None} /\ c \in unheard'
      BY <1>1, <1>4, <2>1 DEF StatementUnheard, Delete, TypeInv, TypeOK, Keys, UploadInv, WrittenInv
    <2>3. WrittenInv'
      BY <1>1, <1>2 DEF UploadInv, WrittenInv, Updated, OpOf, OidOf
    <2>4. ListedInv'
      <3>1. \A o \in Oids \ {OidOf(c)} : rows'[o] = rows[o]
        BY <2>1 DEF TypeInv, TypeOK
      <3>2. rows'[OidOf(c)] = [verified |-> TRUE, size |-> call[c].size, key |-> c]
        BY <1>1, <2>1 DEF TypeInv, TypeOK
      <3> QED BY <1>1, <1>2, <2>1, <2>2, <3>1, <3>2 DEF UploadInv, ListedInv, Updated
    <2> QED BY <2>3, <2>4 DEF UploadInv
  <1> QED BY <1>3, <1>4

LEMMA RestartUpload == ASSUME TypeInv, UploadInv, Restart PROVE UploadInv'
  <1>1. UNCHANGED <<rows, store, unheard>>
    BY DEF Restart
  <1>2. \A c \in Calls : call'[c] = call[c] \/ call'[c].at = "done"
    BY CallType DEF Restart, Call
  <1>3. \A c \in Calls : call[c] # None /\ call[c].at = "done" => call'[c] = call[c]
    BY DEF Restart, At
  <1> QED BY <1>1, <1>2, <1>3 DEF UploadInv, WrittenInv, ListedInv, OpOf, OidOf

LEMMA LinkPutUpload ==
  ASSUME TypeInv, UploadInv, NEW o \in Oids, NEW sent \in Oids, LinkPut(o, sent)
  PROVE  UploadInv'
  <1>1. UNCHANGED <<rows, call, unheard>> /\ \A c \in Calls : store'[c] = store[c]
    BY NameAssumption DEF LinkPut, TypeInv, TypeOK, Keys
  <1> QED BY <1>1 DEF UploadInv, WrittenInv, ListedInv, OpOf, OidOf

LEMMA StepUploadInv == ASSUME TypeInv, UploadInv, [Next]_vars PROVE UploadInv'
  <1>1. ASSUME NEW c \in Calls, CallStep(c) PROVE UploadInv'
    BY <1>1, BeginUpload, OtherUpload, WriteUpload, RegisterUpload, DropUpload,
       UnheardUpload DEF CallStep
  <1>2. CASE UNCHANGED vars
    BY <1>2 DEF vars, UploadInv, WrittenInv, ListedInv, OpOf, OidOf
  <1> QED BY <1>1, <1>2, RestartUpload, LinkPutUpload DEF Next

\* What a direct upload registered stays readable, whatever other calls do, but
\* for an upload that never heard of its registration.
THEOREM RegisteredUploadsStayWhole == Spec => []RegisteredUploadsAreWhole
  <1>1. UploadInv => RegisteredUploadsAreWhole
    BY DEF UploadInv, ListedInv, RegisteredUploadsAreWhole
  <1> QED BY <1>1, InitTypeInv, StepInv, InitUploadInv, StepUploadInv, PTL DEF Spec

\* A key of a call that has not written it is free.
FreeInv ==
  \A c \in Calls : call[c] = None \/ (OpOf(c) = "upload" /\ call[c].at = "write") => store[c] = None

\* No row points at the key of the call c.
Unlisted(c) == \A o \in Oids : rows[o] # None => rows[o].key # c

\* Bytes that an upload has left at its end on a disk are listed.
LeftInv ==
  \A c \in Calls : call[c] # None /\ OpOf(c) = "upload" /\ call[c].at = "done" /\ call[c].answer # "cut" =>
    store[c] = None \/ bucket \/ ~Unlisted(c)

LeftoverInv == FreeInv /\ LeftInv

LEMMA InitLeftoverInv == Init => LeftoverInv
  BY DEF Init, LeftoverInv, FreeInv, LeftInv, Keys

\* A key that is listed remains so, since its row is confirmed.
LEMMA ListedStays ==
  ASSUME UploadInv, RowsGrow, NEW c \in Calls, ~Unlisted(c)
  PROVE  ~Unlisted(c)'
  BY DEF UploadInv, ListedInv, RowsGrow, Unlisted, Confirmed

\* The step of one call leaves the others' keys as they are.
LEMMA LeftoverStep ==
  ASSUME UploadInv, LeftoverInv, RowsGrow, UNCHANGED bucket, NEW c \in Calls, call[c] # None,
         call[c].at # "done", NEW s, Updated(c, s),
         \A d \in Calls \ {c} : store'[d] = store[d],
         OpOf(c) = "upload" => /\ s # "write"
                               /\ s = "done" => store'[c] = None \/ bucket \/ ~Unlisted(c)'
  PROVE  LeftoverInv'
  <1>1. FreeInv'
    BY DEF LeftoverInv, FreeInv, Updated, OpOf
  <1>2. LeftInv'
    BY ListedStays DEF LeftoverInv, LeftInv, Updated, OpOf
  <1> QED BY <1>1, <1>2 DEF LeftoverInv

LEMMA BeginLeftover ==
  ASSUME TypeInv, LeftoverInv, NEW c \in Calls, NEW op \in Ops, NEW o \in Oids, NEW sent \in Oids,
         NEW size \in Sizes, Begin(c, op, o, sent, size)
  PROVE  LeftoverInv'
  <1>1. call'[c] # None /\ call'[c].at \in {"look", "write"} /\ call[c] = None
    <2> DEFINE r == [op |-> op, oid |-> o, sent |-> sent, size |-> size,
                     at |-> FirstStep(op), seen |-> None, answer |-> None]
    <2>1. r \in Call /\ r.at \in {"look", "write"}
      BY DEF Call, FirstStep
    <2>2. call'[c] = r /\ call[c] = None
      BY DEF TypeInv, TypeOK, Begin
    <2> QED BY <2>1, <2>2, NameAssumption
  <1>2. \A d \in Calls \ {c} : call'[d] = call[d]
    BY DEF TypeInv, TypeOK, Begin
  <1>3. UNCHANGED <<rows, store, bucket>>
    BY DEF Begin
  <1> QED BY <1>1, <1>2, <1>3 DEF LeftoverInv, FreeInv, LeftInv, Unlisted, OpOf

LEMMA OtherLeftover ==
  ASSUME TypeInv, UploadInv, LeftoverInv, NEW c \in Calls,
         Look(c) \/ CreatePending(c) \/ Settle(c) \/ Stat(c) \/ Mark(c) \/ Open(c)
  PROVE  LeftoverInv'
  <1>1. /\ call[c] # None /\ call[c].at # "done" /\ OpOf(c) # "upload"
        /\ OidOf(c) \in Oids /\ OidOf(c) \notin Calls
    BY CallType, NameAssumption DEF Look, CreatePending, Settle, Stat, Mark, Open, At, StepsOf, Ops
  <1>2. RowsGrow /\ \E s \in StepsOf[OpOf(c)] : Updated(c, s)
    BY LookStep, CreatePendingStep, SettleStep, ReaderStep, MarkStep
  <1>3. UNCHANGED bucket /\ \A d \in Calls : store'[d] = store[d]
    BY <1>1 DEF Look, CreatePending, Settle, Stat, Mark, Open, Delete, TypeInv, TypeOK, Keys
  <1> QED BY <1>1, <1>2, <1>3, LeftoverStep

LEMMA WriteLeftover ==
  ASSUME TypeInv, UploadInv, LeftoverInv, NEW c \in Calls, Write(c)
  PROVE  LeftoverInv'
  <1>1. call[c] # None /\ call[c].at = "write" /\ OidOf(c) \in Oids /\ OidOf(c) \notin Calls
    BY CallType, NameAssumption DEF Write, At
  <1>2. RowsGrow /\ UNCHANGED bucket
    BY WriteStep DEF Write
  <1>3. \A d \in Calls \ {c} : store'[d] = store[d]
    BY <1>1 DEF Write, KeyOf, TypeInv, TypeOK, Keys
  <1>4. CASE OpOf(c) # "upload"
    BY <1>1, <1>2, <1>3, <1>4, WriteStep, LeftoverStep
  <1>5. CASE OpOf(c) = "upload" /\ Answer(c, "error") /\ UNCHANGED store
    <2>1. Updated(c, "done") /\ store'[c] = None
      BY <1>1, <1>5, AnswerType DEF LeftoverInv, FreeInv
    <2> QED BY <1>1, <1>2, <1>3, <2>1, LeftoverStep
  <1>6. CASE OpOf(c) = "upload" /\ Goto(c, "create")
    <2>1. Updated(c, "create")
      BY <1>1, <1>6, GotoType DEF StepsOf
    <2> QED BY <1>1, <1>2, <1>3, <2>1, LeftoverStep
  <1> QED BY <1>4, <1>5, <1>6 DEF Write

\* An upload ends when its bytes are listed, or after it has deleted them.
LEMMA UploadLeftover ==
  ASSUME TypeInv, UploadInv, LeftoverInv, NEW c \in Calls,
         Register(c) \/ Adopt(c) \/ Recheck(c) \/ StatementFails(c)
  PROVE  LeftoverInv'
  <1>1. call[c] # None /\ call[c].at # "done" /\ OidOf(c) \in Oids /\ OpOf(c) \in Ops
    BY CallType DEF Register, Adopt, Recheck, StatementFails, At
  <1>2. RowsGrow /\ UNCHANGED bucket /\ \E s \in StepsOf[OpOf(c)] : Updated(c, s)
    BY RegistrationStep, FailureStep DEF Register, Adopt, Recheck, StatementFails
  <1>3. \A d \in Calls \ {c} : store'[d] = store[d]
    BY DEF Register, Adopt, Recheck, StatementFails, Delete, TypeInv, TypeOK, Keys
  <1>4. CASE OpOf(c) # "upload"
    BY <1>1, <1>2, <1>3, <1>4, LeftoverStep
  <1>5. CASE Goto(c, "adopt") /\ OpOf(c) = "upload"
    <2>1. Updated(c, "adopt")
      BY <1>1, <1>5, GotoType DEF StepsOf
    <2> QED BY <1>1, <1>2, <1>3, <2>1, LeftoverStep
  <1>6. CASE Goto(c, "recheck") /\ OpOf(c) = "upload"
    <2>1. Updated(c, "recheck")
      BY <1>1, <1>6, GotoType DEF StepsOf
    <2> QED BY <1>1, <1>2, <1>3, <2>1, LeftoverStep
  <1>7. CASE OpOf(c) = "upload" /\ Delete(c)
    <2>1. store'[c] = None \/ bucket
      BY <1>7 DEF Delete, TypeInv, TypeOK, Keys
    <2>2. \E s \in {"create", "adopt", "recheck", "done"} : Updated(c, s)
      BY <1>1, <1>7, AnswerType, GotoType DEF Register, Adopt, Recheck, StatementFails, StepsOf
    <2> QED BY <1>1, <1>2, <1>3, <2>1, <2>2, LeftoverStep
  <1>8. CASE /\ OpOf(c) = "upload" /\ Answer(c, "ok")
             /\ rows' = [rows EXCEPT ![OidOf(c)] = [verified |-> TRUE, size |-> call[c].size, key |-> c]]
    <2>1. Updated(c, "done")
      BY <1>1, <1>8, AnswerType
    <2>2. ~Unlisted(c)'
      BY <1>1, <1>8, UploadedRow, NameAssumption DEF Unlisted, TypeInv, TypeOK
    <2> QED BY <1>1, <1>2, <1>3, <2>1, <2>2, LeftoverStep
  <1> QED BY <1>4, <1>5, <1>6, <1>7, <1>8 DEF Register, Adopt, Recheck, StatementFails, Insert, At

LEMMA UnheardLeftover ==
  ASSUME TypeInv, UploadInv, LeftoverInv, NEW c \in Calls, StatementUnheard(c)
  PROVE  LeftoverInv'
  <1>1. /\ call[c] # None /\ call[c].at # "done" /\ RowsGrow /\ UNCHANGED bucket
        /\ Updated(c, "done")
    BY Taken, UnheardStep DEF StatementUnheard
  <1>2. \A d \in Calls \ {c} : store'[d] = store[d]
    BY Taken, NameAssumption DEF StatementUnheard, Delete, TypeInv, TypeOK, Keys
  <1>3. OpOf(c) = "upload" => store'[c] = None \/ bucket
    BY DEF StatementUnheard, Delete, TypeInv, TypeOK, Keys
  <1> QED BY <1>1, <1>2, <1>3, LeftoverStep

LEMMA RestartLeftover == ASSUME TypeInv, LeftoverInv, Restart PROVE LeftoverInv'
  <1>1. UNCHANGED <<rows, store, bucket>>
    BY DEF Restart
  <1>2. \A c \in Calls : \/ call'[c] = call[c]
                         \/ call[c] # None /\ call'[c].at = "done" /\ call'[c].answer = "cut"
    BY CallType DEF Restart, Call
  <1>3. \A c \in Calls : call'[c] = None => call[c] = None
    BY CallType, NameAssumption DEF Restart, Call
  <1> QED BY <1>1, <1>2, <1>3 DEF LeftoverInv, FreeInv, LeftInv, Unlisted, OpOf

LEMMA LinkPutLeftover ==
  ASSUME TypeInv, LeftoverInv, NEW o \in Oids, NEW sent \in Oids, LinkPut(o, sent)
  PROVE  LeftoverInv'
  <1>1. UNCHANGED <<rows, call, bucket>> /\ \A c \in Calls : store'[c] = store[c]
    BY NameAssumption DEF LinkPut, TypeInv, TypeOK, Keys
  <1> QED BY <1>1 DEF LeftoverInv, FreeInv, LeftInv, Unlisted, OpOf

LEMMA StepLeftoverInv == ASSUME TypeInv, UploadInv, LeftoverInv, [Next]_vars PROVE LeftoverInv'
  <1>1. ASSUME NEW c \in Calls, CallStep(c) PROVE LeftoverInv'
    BY <1>1, BeginLeftover, OtherLeftover, WriteLeftover, UploadLeftover, UnheardLeftover DEF CallStep
  <1>2. CASE UNCHANGED vars
    BY <1>2 DEF vars, LeftoverInv, FreeInv, LeftInv, Unlisted, OpOf
  <1> QED BY <1>1, <1>2, RestartLeftover, LinkPutLeftover DEF Next

\* An upload that has answered has left its bytes exactly where a row needs them,
\* except that a bucket may keep some that it refused to delete, and that an upload
\* which never heard of its registration takes them from its row.
THEOREM NoOrphansAreLeft == Spec => []UploadsLeaveNoOrphans
  <1>1. TypeInv /\ UploadInv /\ LeftoverInv => UploadsLeaveNoOrphans
    <2> SUFFICES ASSUME TypeInv, UploadInv, LeftoverInv, NEW c \in Calls, At(c, "done"),
                        OpOf(c) = "upload", call[c].answer # "cut"
                 PROVE  /\ ~Unlisted(c) /\ c \notin unheard => store[c] # None
                        /\ store[c] # None => ~Unlisted(c) \/ bucket
      BY DEF UploadsLeaveNoOrphans, Unlisted
    <2>1. ~Unlisted(c) /\ c \notin unheard => store[c] # None
      BY NameAssumption DEF UploadInv, ListedInv, Unlisted
    <2>2. store[c] # None => ~Unlisted(c) \/ bucket
      BY DEF At, LeftoverInv, LeftInv
    <2> QED BY <2>1, <2>2
  <1> QED BY <1>1, InitTypeInv, StepInv, InitUploadInv, StepUploadInv, InitLeftoverInv,
             StepLeftoverInv, PTL DEF Spec

-------------------------------------------------------------------------------
(* Answers.                                                                 *)

\* What a step of one call answers is all that matters: confirmed rows stay.
LEMMA AnswerSaid ==
  ASSUME TypeInv, NEW c \in Calls, call[c] # None, NEW a, Answer(c, a)
  PROVE  call'[c].answer = a
  BY CallType DEF Answer, Call

\* A download that is about to open its file has met a confirmed row.
OpenInv == \A c \in Calls : At(c, "open") => Confirmed(OidOf(c))

AnswerInv == OpenInv /\ SuccessMeansConfirmed

\* A step of the call c after which it answers "ok", or opens a file.
LEMMA SaysConfirmed ==
  ASSUME TypeInv, OpenInv, NEW c \in Calls, CallStep(c), call[c] # None,
         NEW o \in Oids, OidOf(c) = o,
         (call'[c].at = "done" /\ call'[c].answer = "ok") \/ call'[c].at = "open"
  PROVE  Confirmed(o)'
  <1>0. OpOf(c) \in Ops /\ RowsGrow
    BY CallType, StepInv DEF Next
  <1>1. ASSUME rows[o] # None, SetVerified(o) PROVE Confirmed(o)'
    <2>1. [rows[o] EXCEPT !.verified = TRUE] \in Row
      BY <1>1 DEF Row, TypeInv, TypeOK
    <2>2. rows'[o] = [rows[o] EXCEPT !.verified = TRUE]
      BY <1>1 DEF SetVerified, TypeInv, TypeOK
    <2> QED BY <1>1, <2>1, <2>2, NameAssumption DEF Confirmed, Row, TypeInv, TypeOK
  <1>2. ASSUME rows' = [rows EXCEPT ![o] = [verified |-> TRUE, size |-> call[c].size, key |-> c]]
        PROVE  Confirmed(o)'
    BY <1>2, UploadedRow, NameAssumption DEF Confirmed, TypeInv, TypeOK
  <1>3. Confirmed(o) => Confirmed(o)'
    BY <1>0 DEF RowsGrow, Confirmed
  <1>4. CASE Look(c)
    <2>1. CASE Confirmed(o)
      BY <1>3, <2>1
    <2>2. CASE ~Confirmed(o)
      <3>1. CASE Goto(c, "create") /\ OpOf(c) \in {"batch", "store"}
        BY <3>1, GotoType DEF StepsOf, Updated
      <3>2. CASE GoWithRow(c, "stat")
        BY <3>2, GoWithRowType DEF Updated
      <3>3. CASE Answer(c, "upload")
        BY <3>3, AnswerType, AnswerSaid DEF Updated
      <3>4. CASE Answer(c, "missing")
        BY <3>4, AnswerType, AnswerSaid DEF Updated
      <3> QED BY <1>4, <2>2, <3>1, <3>2, <3>3, <3>4 DEF Look, Skips, Readable
    <2> QED BY <2>1, <2>2
  <1>5. CASE CreatePending(c)
    <2>1. CASE Goto(c, "write") /\ OpOf(c) = "store"
      BY <2>1, GotoType DEF StepsOf, Updated
    <2>2. CASE Answer(c, "upload")
      BY <2>2, AnswerType, AnswerSaid DEF Updated
    <2> QED BY <1>5, <2>1, <2>2 DEF CreatePending
  <1>6. CASE Write(c)
    <2>1. CASE Goto(c, "create") /\ OpOf(c) = "upload"
      BY <2>1, GotoType DEF StepsOf, Updated
    <2>2. CASE Goto(c, "settle") /\ OpOf(c) # "upload"
      BY <1>6, <2>2, GotoType, CallType DEF StepsOf, Updated, Write, At, Ops
    <2>3. CASE Answer(c, "error")
      BY <2>3, AnswerType, AnswerSaid DEF Updated
    <2> QED BY <1>6, <2>1, <2>2, <2>3 DEF Write
  <1>7. CASE Settle(c)
    <2>1. CASE Answer(c, "mismatch") \/ Answer(c, "error")
      BY <2>1, AnswerType, AnswerSaid DEF Updated
    <2> QED BY <1>1, <1>7, <2>1 DEF Settle
  <1>8. CASE Stat(c)
    <2>1. CASE Goto(c, "mark")
      BY <1>8, <2>1, GotoType, CallType DEF StepsOf, Updated, Stat, At, Ops
    <2>2. CASE Answer(c, "missing")
      BY <2>2, AnswerType, AnswerSaid DEF Updated
    <2> QED BY <1>8, <2>1, <2>2 DEF Stat
  <1>9. CASE Mark(c)
    BY <1>1, <1>9 DEF Mark, At, TypeInv, CallInv
  <1>10. CASE Open(c)
    BY <1>3, <1>10 DEF Open, OpenInv
  <1>11. CASE Register(c) \/ Adopt(c)
    <2>1. CASE Goto(c, "adopt") /\ OpOf(c) = "upload"
      BY <2>1, GotoType DEF StepsOf, Updated
    <2>2. CASE Goto(c, "recheck") /\ OpOf(c) = "upload"
      BY <2>2, GotoType DEF StepsOf, Updated
    <2>3. OpOf(c) = "upload"
      BY <1>11, CallType DEF Register, Adopt, At, StepsOf, Ops
    <2> QED BY <1>2, <1>11, <2>1, <2>2, <2>3 DEF Register, Adopt, Insert
  <1>12. CASE Recheck(c)
    <2>1. CASE Answer(c, "mismatch")
      BY <2>1, AnswerType, AnswerSaid DEF Updated
    <2> QED BY <1>3, <1>12, <2>1 DEF Recheck
  <1>13. CASE StatementFails(c)
    <2>1. CASE Goto(c, "create") /\ OpOf(c) = "store"
      BY <2>1, GotoType DEF StepsOf, Updated
    <2>2. CASE Answer(c, "error")
      BY <2>2, AnswerType, AnswerSaid DEF Updated
    <2> QED BY <1>13, <2>1, <2>2 DEF StatementFails
  <1>14. CASE StatementUnheard(c)
    BY <1>14, AnswerType, AnswerSaid DEF StatementUnheard, Updated
  <1> QED BY <1>4, <1>5, <1>6, <1>7, <1>8, <1>9, <1>10, <1>11, <1>12, <1>13, <1>14
          DEF CallStep, Begin

LEMMA StepAnswerInv == ASSUME TypeInv, AnswerInv, [Next]_vars PROVE AnswerInv'
  <1>0. RowsGrow /\ \A o \in Oids : Confirmed(o) => Confirmed(o)'
    BY StepInv DEF RowsGrow, Confirmed
  <1>1. ASSUME NEW c \in Calls, CallStep(c) PROVE AnswerInv'
    <2>1. CASE call[c] = None
      <3>1. \E op \in Ops, o, sent \in Oids, size \in Sizes : Begin(c, op, o, sent, size)
        BY <1>1, <2>1
        DEF CallStep, Look, CreatePending, Write, Settle, Stat, Mark, Open, Register, Adopt,
            Recheck, StatementFails, StatementUnheard, Takes, At
      <3>2. call'[c].at \notin {"open", "done"} /\ \A d \in Calls \ {c} : call'[d] = call[d]
        BY <3>1 DEF TypeInv, TypeOK, Begin, FirstStep
      <3> QED BY <1>0, <3>2, CallType DEF AnswerInv, OpenInv, SuccessMeansConfirmed, At, OidOf
    <2>2. CASE call[c] # None
      <3>1. OidOf(c) \in Oids /\ \E s \in StepsOf[OpOf(c)] : Updated(c, s)
        BY <1>1, <2>2, CallType, LookStep, CreatePendingStep, WriteStep, SettleStep, ReaderStep,
           MarkStep, RegistrationStep, FailureStep, UnheardStep DEF CallStep, Begin
      <3>2. \A o \in Oids :
              /\ OidOf(c) = o
              /\ (call'[c].at = "done" /\ call'[c].answer = "ok") \/ call'[c].at = "open"
              => Confirmed(o)'
        BY <1>1, <2>2, SaysConfirmed DEF AnswerInv
      <3> QED BY <1>0, <3>1, <3>2, CallType
              DEF AnswerInv, OpenInv, SuccessMeansConfirmed, At, OidOf, Updated
    <2> QED BY <2>1, <2>2
  <1>2. CASE Restart
    <2>1. \A c \in Calls : call'[c] = call[c] \/ (call'[c].at = "done" /\ call'[c].answer = "cut")
      BY <1>2, CallType DEF Restart, Call
    <2> QED BY <1>0, <2>1, CallType DEF AnswerInv, OpenInv, SuccessMeansConfirmed, At, OidOf
  <1>3. CASE UNCHANGED call
    BY <1>0, <1>3, CallType DEF AnswerInv, OpenInv, SuccessMeansConfirmed, At, OidOf
  <1> QED BY <1>1, <1>2, <1>3 DEF Next, LinkPut, vars

\* What a caller was told is stored has a confirmed row, now and for good.
THEOREM SuccessIsConfirmed == Spec => []SuccessMeansConfirmed
  <1>1. Init => AnswerInv
    BY DEF Init, AnswerInv, OpenInv, SuccessMeansConfirmed, At
  <1>2. AnswerInv => SuccessMeansConfirmed
    BY DEF AnswerInv
  <1> QED BY <1>1, <1>2, InitTypeInv, StepInv, StepAnswerInv, PTL DEF Spec

-------------------------------------------------------------------------------
(* Honest objects.                                                          *)

\* The requests of a client that declares a wrong size or sends other bytes are
\* on record.
RequestInv ==
  \A c \in Calls : call[c] # None =>
    /\ OpOf(c) \in {"batch", "store"} => call[c].size = SizeOf[OidOf(c)] \/ OidOf(c) \in misstated
    /\ OpOf(c) \in {"put", "store"} => Matches(c) \/ OidOf(c) \in spoiled

\* A row is about the bytes at its object's key or at the key of an upload.
RowInv ==
  \A o \in Oids : rows[o] # None =>
    /\ rows[o].size = SizeOf[o] \/ o \in misstated
    /\ rows[o].key = o \/ rows[o].key \in Calls

\* Nobody deletes or replaces the bytes of an object to which no other were sent.
BytesInv ==
  \A o \in Oids \ spoiled :
    /\ store[o] \in {None, o}
    /\ Confirmed(o) /\ rows[o].key = o => store[o] = o

\* What a call has seen still holds when it acts on it.
SeenAt(c) ==
  /\ call[c].at = "settle" => store[OidOf(c)] = OidOf(c) \/ OidOf(c) \in spoiled
  /\ call[c].at = "stat" => call[c].seen.key = OidOf(c) \/ Confirmed(OidOf(c))
  /\ call[c].at = "mark" =>
       store[OidOf(c)] = OidOf(c) \/ OidOf(c) \in spoiled \/ Confirmed(OidOf(c))
  /\ call[c].at = "open" => Confirmed(OidOf(c)) /\ call[c].seen = rows[OidOf(c)]

SeenInv == \A c \in Calls : call[c] # None => SeenAt(c)

HonestInv == RequestInv /\ RowInv /\ BytesInv /\ SeenInv

LEMMA InitHonestInv == Init => HonestInv
  BY DEF Init, HonestInv, RequestInv, RowInv, BytesInv, SeenInv, Confirmed, Keys

\* The step of the call c, from what it does to rows, bytes and its own place.
LEMMA HonestStep ==
  ASSUME TypeInv, HonestInv, RowsGrow, UNCHANGED <<spoiled, misstated>>,
         NEW c \in Calls, call[c] # None, NEW s, Updated(c, s),
         RowInv', BytesInv', SeenAt(c)',
         \A o \in Oids \ spoiled : store[o] = o => store'[o] = o
  PROVE  HonestInv'
  <1>1. \A d \in Calls : call[d] # None => OidOf(d) \in Oids
    BY CallType
  <1>2. RequestInv'
    BY DEF HonestInv, RequestInv, Updated, OpOf, OidOf, Matches
  <1>3. SeenInv'
    BY <1>1 DEF HonestInv, SeenInv, SeenAt, Updated, RowsGrow, Confirmed, OidOf
  <1> QED BY <1>2, <1>3 DEF HonestInv

LEMMA BeginHonest ==
  ASSUME TypeInv, HonestInv, NEW c \in Calls, NEW op \in Ops, NEW o \in Oids, NEW sent \in Oids,
         NEW size \in Sizes, Begin(c, op, o, sent, size)
  PROVE  HonestInv'
  <1> DEFINE r == [op |-> op, oid |-> o, sent |-> sent, size |-> size,
                   at |-> FirstStep(op), seen |-> None, answer |-> None]
  <1>1. /\ call' = [call EXCEPT ![c] = r] /\ UNCHANGED <<rows, store>>
        /\ spoiled \subseteq spoiled' /\ misstated \subseteq misstated'
    BY DEF Begin
  <1>2. /\ r.op = op /\ r.oid = o /\ r.sent = sent /\ r.size = size
        /\ r.at \notin {"settle", "stat", "mark", "open"}
    BY DEF FirstStep
  <1>3. /\ op \in {"batch", "store"} => size = SizeOf[o] \/ o \in misstated'
        /\ op \in {"put", "store"} => (SizeOf[sent] = size /\ sent = o) \/ o \in spoiled'
    BY DEF Begin, Request
  <1> HIDE DEF r
  <1>4. RequestInv'
    BY <1>1, <1>2, <1>3 DEF HonestInv, RequestInv, OpOf, OidOf, Matches, TypeInv, TypeOK
  <1>5. RowInv' /\ BytesInv'
    BY <1>1 DEF HonestInv, RowInv, BytesInv, Confirmed
  <1>6. SeenInv'
    BY <1>1, <1>2 DEF HonestInv, SeenInv, SeenAt, OidOf, Confirmed, TypeInv, TypeOK
  <1> QED BY <1>4, <1>5, <1>6 DEF HonestInv

LEMMA LookHonest ==
  ASSUME TypeInv, UploadInv, HonestInv, NEW c \in Calls, Look(c)
  PROVE  HonestInv'
  <1>1. call[c] # None /\ OidOf(c) \in Oids /\ RowsGrow /\ \E s \in StepsOf[OpOf(c)] : Updated(c, s)
    BY CallType, LookStep DEF Look, At
  <1>2. UNCHANGED <<rows, store, spoiled, misstated>>
    BY DEF Look
  <1>3. RowInv' /\ BytesInv'
    BY <1>2 DEF HonestInv, RowInv, BytesInv, Confirmed
  <1>4. \/ call'[c].at \in {"create", "done"}
        \/ call'[c].at = "stat" /\ call'[c].seen = rows[OidOf(c)] /\ rows[OidOf(c)] # None
        \/ call'[c].at = "open" /\ call'[c].seen = rows[OidOf(c)] /\ Confirmed(OidOf(c))
    <2>1. CASE Goto(c, "create") /\ OpOf(c) \in {"batch", "store"}
      BY <1>1, <2>1, GotoType DEF StepsOf, Updated
    <2>2. CASE GoWithRow(c, "stat") /\ rows[OidOf(c)] # None
      BY <1>1, <2>2, GoWithRowType DEF Updated
    <2>3. CASE GoWithRow(c, "open") /\ Confirmed(OidOf(c))
      BY <1>1, <2>3, GoWithRowType DEF Updated
    <2>4. CASE Answer(c, "ok") \/ Answer(c, "upload") \/ Answer(c, "missing")
      BY <1>1, <2>4, AnswerType DEF Updated
    <2> QED BY <2>1, <2>2, <2>3, <2>4 DEF Look, Readable
  <1>5. rows[OidOf(c)] # None => rows[OidOf(c)].key = OidOf(c) \/ Confirmed(OidOf(c))
    BY <1>1 DEF HonestInv, RowInv, UploadInv, ListedInv, Confirmed
  <1>6. SeenAt(c)'
    BY <1>1, <1>2, <1>4, <1>5 DEF SeenAt, Updated, OidOf, Confirmed
  <1> QED BY <1>1, <1>2, <1>3, <1>6, HonestStep

LEMMA CreatePendingHonest ==
  ASSUME TypeInv, HonestInv, NEW c \in Calls, CreatePending(c)
  PROVE  HonestInv'
  <1> DEFINE o == OidOf(c)
             row == [verified |-> FALSE, size |-> call[c].size, key |-> o]
  <1>1. /\ call[c] # None /\ o \in Oids /\ OpOf(c) \in {"batch", "store"}
        /\ RowsGrow /\ row \in Row
    BY CallType, CreatePendingStep DEF CreatePending, At, Row, Keys, Call
  <1>2. /\ UNCHANGED <<store, spoiled, misstated>>
        /\ rows' = IF rows[o] = None THEN [rows EXCEPT ![o] = row] ELSE rows
    BY DEF CreatePending, Insert
  <1>3. \E s \in {"write", "done"} : Updated(c, s)
    BY <1>1, AnswerType, GotoType DEF CreatePending, StepsOf
  <1>4. row.size = SizeOf[o] \/ o \in misstated
    BY <1>1 DEF HonestInv, RequestInv
  <1>5. row.key = o /\ ~row.verified
    OBVIOUS
  <1> HIDE DEF row
  <1>6. RowInv'
    BY <1>1, <1>2, <1>4, <1>5 DEF HonestInv, RowInv, TypeInv, TypeOK
  <1>7. BytesInv'
    BY <1>1, <1>2, <1>5 DEF HonestInv, BytesInv, Confirmed, TypeInv, TypeOK
  <1>8. SeenAt(c)'
    BY <1>3 DEF SeenAt, Updated
  <1> QED BY <1>1, <1>2, <1>3, <1>6, <1>7, <1>8, HonestStep

LEMMA WriteHonest ==
  ASSUME TypeInv, HonestInv, NEW c \in Calls, Write(c)
  PROVE  HonestInv'
  <1>1. /\ call[c] # None /\ OidOf(c) \in Oids /\ OpOf(c) \in {"put", "store", "upload"}
        /\ RowsGrow /\ UNCHANGED <<rows, spoiled, misstated>>
    BY CallType, WriteStep DEF Write, At, StepsOf, Ops
  <1>2. OpOf(c) # "upload" => call[c].sent = OidOf(c) \/ OidOf(c) \in spoiled
    BY <1>1 DEF HonestInv, RequestInv, Matches
  <1>3. \A o \in Oids \ spoiled : store'[o] \in {store[o], o}
    BY <1>1, <1>2, NameAssumption DEF Write, KeyOf, TypeInv, TypeOK, Keys
  <1>4. \E s \in StepsOf[OpOf(c)] :
          /\ Updated(c, s) /\ s \notin {"stat", "mark", "open"}
          /\ s = "settle" => store'[OidOf(c)] = OidOf(c) \/ OidOf(c) \in spoiled
    <2>1. CASE Answer(c, "error")
      BY <1>1, <2>1, AnswerType DEF StepsOf
    <2>2. CASE OpOf(c) = "upload" /\ Goto(c, "create")
      BY <1>1, <2>2, GotoType DEF StepsOf
    <2>3. CASE /\ OpOf(c) # "upload" /\ Goto(c, "settle")
               /\ store' = [store EXCEPT ![OidOf(c)] = call[c].sent]
      <3>1. Updated(c, "settle") /\ "settle" \in StepsOf[OpOf(c)]
        BY <1>1, <2>3, GotoType DEF StepsOf
      <3> QED BY <1>1, <1>2, <2>3, <3>1 DEF TypeInv, TypeOK, Keys
    <2> QED BY <2>1, <2>2, <2>3 DEF Write, KeyOf
  <1>5. RowInv' /\ BytesInv'
    BY <1>1, <1>3 DEF HonestInv, RowInv, BytesInv, Confirmed
  <1>6. SeenAt(c)'
    BY <1>1, <1>4 DEF SeenAt, Updated, OidOf
  <1> QED BY <1>1, <1>3, <1>4, <1>5, <1>6, HonestStep

\* Confirming a row of which the bytes are known to be there.
LEMMA SetVerifiedHonest ==
  ASSUME TypeInv, HonestInv, NEW o \in Oids, rows[o] # None, SetVerified(o),
         UNCHANGED <<store, spoiled, misstated>>,
         store[o] = o \/ o \in spoiled \/ Confirmed(o)
  PROVE  RowInv' /\ BytesInv'
  <1>1. rows'[o].key = rows[o].key /\ rows'[o].size = rows[o].size /\ rows'[o] # None
    <2>1. rows[o] \in Row /\ rows'[o] = [rows[o] EXCEPT !.verified = TRUE]
      BY DEF TypeInv, TypeOK, SetVerified
    <2>2. [rows[o] EXCEPT !.verified = TRUE] \in Row
      BY <2>1 DEF Row
    <2> QED BY <2>1, <2>2, NameAssumption DEF Row
  <1>2. \A p \in Oids \ {o} : rows'[p] = rows[p]
    BY DEF TypeInv, TypeOK, SetVerified
  <1>3. RowInv'
    BY <1>1, <1>2 DEF HonestInv, RowInv
  <1>4. BytesInv'
    BY <1>1, <1>2 DEF HonestInv, BytesInv, Confirmed
  <1> QED BY <1>3, <1>4

LEMMA SettleHonest ==
  ASSUME TypeInv, HonestInv, NEW c \in Calls, Settle(c)
  PROVE  HonestInv'
  <1>1. /\ call[c] # None /\ call[c].at = "settle" /\ OidOf(c) \in Oids /\ OpOf(c) \in {"put", "store"}
        /\ RowsGrow /\ UNCHANGED <<spoiled, misstated>>
    BY CallType, SettleStep DEF Settle, At, StepsOf, Ops
  <1>2. Updated(c, "done")
    BY <1>1, AnswerType DEF Settle
  <1>3. ~Matches(c) => OidOf(c) \in spoiled
    BY <1>1 DEF HonestInv, RequestInv
  <1>4. \A o \in Oids \ spoiled : store'[o] = store[o]
    BY <1>1, <1>3 DEF Settle, Delete, TypeInv, TypeOK, Keys
  <1>5. store[OidOf(c)] = OidOf(c) \/ OidOf(c) \in spoiled
    BY <1>1 DEF HonestInv, SeenInv, SeenAt
  <1>6. CASE UNCHANGED rows
    <2>1. RowInv' /\ BytesInv'
      BY <1>1, <1>4, <1>6 DEF HonestInv, RowInv, BytesInv, Confirmed
    <2> QED BY <1>1, <1>2, <1>4, <2>1, HonestStep DEF SeenAt, Updated
  <1>7. CASE rows[OidOf(c)] # None /\ SetVerified(OidOf(c)) /\ UNCHANGED store
    <2>1. RowInv' /\ BytesInv'
      BY <1>1, <1>5, <1>7, SetVerifiedHonest
    <2> QED BY <1>1, <1>2, <1>4, <2>1, HonestStep DEF SeenAt, Updated
  <1> QED BY <1>6, <1>7 DEF Settle

LEMMA ReaderHonest ==
  ASSUME TypeInv, HonestInv, NEW c \in Calls, Stat(c) \/ Open(c)
  PROVE  HonestInv'
  <1>1. /\ call[c] # None /\ OidOf(c) \in Oids /\ RowsGrow
        /\ UNCHANGED <<rows, store, spoiled, misstated>>
    BY CallType, ReaderStep DEF Stat, Open, At
  <1>2. RowInv' /\ BytesInv'
    BY <1>1 DEF HonestInv, RowInv, BytesInv, Confirmed
  <1>3. CASE Stat(c) /\ Present(c) /\ Goto(c, "mark")
    <2>1. Updated(c, "mark")
      BY <1>1, <1>3, CallType, GotoType DEF Stat, At, StepsOf, Ops
    <2>2. store[OidOf(c)] = OidOf(c) \/ OidOf(c) \in spoiled \/ Confirmed(OidOf(c))
      BY <1>1, <1>3 DEF Stat, At, Present, HonestInv, SeenInv, SeenAt, BytesInv
    <2>3. SeenAt(c)'
      BY <1>1, <2>1, <2>2 DEF SeenAt, Updated, OidOf, Confirmed
    <2> QED BY <1>1, <1>2, <2>1, <2>3, HonestStep
  <1>4. CASE Updated(c, "done")
    BY <1>1, <1>2, <1>4, HonestStep DEF SeenAt, Updated
  <1>5. CASE Stat(c) /\ Answer(c, "missing")
    BY <1>1, <1>4, <1>5, AnswerType
  <1>6. CASE Open(c)
    <2>1. call[c].seen.key \in Keys
      BY <1>1, <1>6, CallType DEF Open, At, TypeInv, CallInv, Call, Row
    <2>2. store[call[c].seen.key] \in Oids \cup {None}
      BY <2>1 DEF TypeInv, TypeOK
    <2> QED BY <1>1, <1>4, <1>6, <2>2, AnswerType DEF Open
  <1> QED BY <1>3, <1>5, <1>6 DEF Stat

LEMMA MarkHonest == ASSUME TypeInv, HonestInv, NEW c \in Calls, Mark(c) PROVE HonestInv'
  <1>1. /\ call[c] # None /\ OidOf(c) \in Oids /\ RowsGrow /\ rows[OidOf(c)] # None
        /\ UNCHANGED <<store, spoiled, misstated>>
    BY CallType, MarkStep DEF Mark, At, TypeInv, CallInv
  <1>2. Updated(c, "done")
    BY <1>1, AnswerType DEF Mark
  <1>3. RowInv' /\ BytesInv'
    BY <1>1, SetVerifiedHonest DEF Mark, At, HonestInv, SeenInv, SeenAt
  <1> QED BY <1>1, <1>2, <1>3, HonestStep DEF SeenAt, Updated

LEMMA RegistrationHonest ==
  ASSUME TypeInv, HonestInv, NEW c \in Calls, Register(c) \/ Adopt(c) \/ Recheck(c)
  PROVE  HonestInv'
  <1> DEFINE o == OidOf(c)
             row == [verified |-> TRUE, size |-> call[c].size, key |-> c]
  <1>1. /\ call[c] # None /\ o \in Oids /\ OpOf(c) = "upload" /\ RowsGrow /\ row \in Row
        /\ UNCHANGED <<spoiled, misstated>>
    BY CallType, RegistrationStep, UploadedRow DEF Register, Adopt, Recheck, At, StepsOf, Ops
  <1>2. \A p \in Oids : store'[p] = store[p]
    BY NameAssumption DEF Register, Adopt, Recheck, Delete, TypeInv, TypeOK, Keys
  <1>3. rows' = rows \/ rows' = [rows EXCEPT ![o] = row]
    BY DEF Register, Adopt, Recheck, Insert
  <1>4. row.size = SizeOf[o] /\ row.key = c
    BY <1>1 DEF TypeInv, CallInv
  <1>5. \E s \in {"adopt", "recheck", "done"} : Updated(c, s)
    BY <1>1, AnswerType, GotoType DEF Register, Adopt, Recheck, StepsOf
  <1> HIDE DEF row
  <1>6. RowInv'
    BY <1>1, <1>3, <1>4 DEF HonestInv, RowInv, TypeInv, TypeOK
  <1>7. BytesInv'
    BY <1>1, <1>2, <1>3, <1>4, NameAssumption DEF HonestInv, BytesInv, Confirmed, TypeInv, TypeOK
  <1> QED BY <1>1, <1>2, <1>5, <1>6, <1>7, HonestStep DEF SeenAt, Updated

LEMMA FailureHonest ==
  ASSUME TypeInv, HonestInv, NEW c \in Calls, StatementFails(c)
  PROVE  HonestInv'
  <1>1. /\ call[c] # None /\ RowsGrow /\ UNCHANGED <<rows, spoiled, misstated>>
    BY FailureStep DEF StatementFails, At
  <1>2. \A o \in Oids : store'[o] = store[o]
    BY NameAssumption DEF StatementFails, Delete, TypeInv, TypeOK, Keys
  <1>3. \E s \in {"create", "done"} : Updated(c, s)
    BY <1>1, AnswerType, GotoType DEF StatementFails, StepsOf
  <1>4. RowInv' /\ BytesInv'
    BY <1>1, <1>2 DEF HonestInv, RowInv, BytesInv, Confirmed
  <1> QED BY <1>1, <1>2, <1>3, <1>4, HonestStep DEF SeenAt, Updated

LEMMA UnheardHonest ==
  ASSUME TypeInv, HonestInv, NEW c \in Calls, StatementUnheard(c)
  PROVE  HonestInv'
  <1> DEFINE o == OidOf(c)
             made == [verified |-> TRUE, size |-> call[c].size, key |-> c]
             pending == [verified |-> FALSE, size |-> call[c].size, key |-> o]
  <1>1. /\ call[c] # None /\ o \in Oids /\ RowsGrow /\ Updated(c, "done")
        /\ UNCHANGED <<spoiled, misstated>>
    BY Taken, UnheardStep DEF StatementUnheard
  <1>2. \A p \in Oids : store'[p] = store[p]
    BY NameAssumption DEF StatementUnheard, Delete, TypeInv, TypeOK, Keys
  <1>3. RowInv' /\ BytesInv'
    <2>1. CASE OpOf(c) = "upload" /\ rows' = [rows EXCEPT ![o] = made]
      <3>1. made.size = SizeOf[o] /\ made.key = c /\ made # None
        BY <1>1, <2>1, UploadedRow, NameAssumption DEF TypeInv, CallInv
      <3> HIDE DEF made
      <3>2. \A p \in Oids : rows'[p] = IF p = o THEN made ELSE rows[p]
        BY <1>1, <2>1 DEF TypeInv, TypeOK
      <3>3. RowInv'
        BY <1>1, <3>1, <3>2 DEF HonestInv, RowInv
      <3>4. BytesInv'
        BY <1>1, <1>2, <3>1, <3>2, NameAssumption DEF HonestInv, BytesInv, Confirmed
      <3> QED BY <3>3, <3>4
    <2>2. CASE OpOf(c) \in {"batch", "store"} /\ rows' = [rows EXCEPT ![o] = pending]
      <3>1. pending.size = SizeOf[o] \/ o \in misstated
        BY <1>1, <2>2 DEF HonestInv, RequestInv
      <3>2. pending.key = o /\ ~pending.verified
        OBVIOUS
      <3> HIDE DEF pending
      <3>3. \A p \in Oids : rows'[p] = IF p = o THEN pending ELSE rows[p]
        BY <1>1, <2>2 DEF TypeInv, TypeOK
      <3>4. RowInv'
        BY <1>1, <3>1, <3>2, <3>3 DEF HonestInv, RowInv
      <3>5. BytesInv'
        BY <1>1, <1>2, <3>2, <3>3 DEF HonestInv, BytesInv, Confirmed
      <3> QED BY <3>4, <3>5
    <2>3. CASE /\ OpOf(c) # "upload" /\ call[c].at \in {"settle", "mark"}
               /\ rows[o] # None /\ SetVerified(o)
      <3>1. UNCHANGED store
        BY <2>3 DEF StatementUnheard
      <3>2. store[o] = o \/ o \in spoiled \/ Confirmed(o)
        BY <1>1, <2>3 DEF HonestInv, SeenInv, SeenAt
      <3> QED BY <1>1, <2>3, <3>1, <3>2, SetVerifiedHonest
    <2> QED BY <2>1, <2>2, <2>3, Taken DEF StatementUnheard
  <1> QED BY <1>1, <1>2, <1>3, HonestStep DEF SeenAt, Updated

LEMMA RestartHonest == ASSUME TypeInv, HonestInv, Restart PROVE HonestInv'
  <1>1. UNCHANGED <<rows, store, spoiled, misstated>>
    BY DEF Restart
  <1>2. \A c \in Calls :
          \/ call'[c] = call[c]
          \/ /\ call[c] # None /\ call'[c].at = "done" /\ call'[c].op = call[c].op
             /\ call'[c].oid = call[c].oid /\ call'[c].sent = call[c].sent
             /\ call'[c].size = call[c].size
    BY CallType DEF Restart, Call
  <1>3. RequestInv'
    BY <1>1, <1>2 DEF HonestInv, RequestInv, OpOf, OidOf, Matches
  <1>4. RowInv' /\ BytesInv' /\ SeenInv'
    BY <1>1, <1>2 DEF HonestInv, RowInv, BytesInv, SeenInv, SeenAt, OidOf, Confirmed
  <1> QED BY <1>3, <1>4 DEF HonestInv

LEMMA LinkPutHonest ==
  ASSUME TypeInv, HonestInv, NEW o \in Oids, NEW sent \in Oids, LinkPut(o, sent)
  PROVE  HonestInv'
  <1>1. /\ UNCHANGED <<rows, call, misstated>> /\ spoiled \subseteq spoiled'
        /\ \A p \in Oids : p \notin spoiled' => store'[p] \in {store[p], p}
    BY DEF LinkPut, TypeInv, TypeOK, Keys
  <1>2. \A c \in Calls : call[c] # None => OidOf(c) \in Oids
    BY CallType
  <1>3. RequestInv'
    BY <1>1 DEF HonestInv, RequestInv, OpOf, OidOf, Matches
  <1>4. RowInv' /\ BytesInv'
    BY <1>1 DEF HonestInv, RowInv, BytesInv, Confirmed
  <1>5. SeenInv'
    BY <1>1, <1>2 DEF HonestInv, SeenInv, SeenAt, OidOf, Confirmed
  <1> QED BY <1>3, <1>4, <1>5 DEF HonestInv

LEMMA StepHonestInv == ASSUME TypeInv, UploadInv, HonestInv, [Next]_vars PROVE HonestInv'
  <1>1. ASSUME NEW c \in Calls, CallStep(c) PROVE HonestInv'
    BY <1>1, BeginHonest, LookHonest, CreatePendingHonest, WriteHonest, SettleHonest, ReaderHonest,
       MarkHonest, RegistrationHonest, FailureHonest, UnheardHonest DEF CallStep
  <1>2. CASE UNCHANGED vars
    BY <1>2 DEF vars, HonestInv, RequestInv, RowInv, BytesInv, SeenInv, SeenAt, OpOf, OidOf,
                Matches, Confirmed
  <1> QED BY <1>1, <1>2, RestartHonest, LinkPutHonest DEF Next

\* An object to which nobody sent other bytes is whole once it is confirmed, by
\* whichever of a put, a pointer's store, a verification or an upload, but for an
\* upload that never heard of its registration.
THEOREM HonestStayWhole == Spec => []HonestObjectsAreWhole
  <1>1. TypeInv /\ UploadInv /\ HonestInv => HonestObjectsAreWhole
    BY DEF UploadInv, ListedInv, HonestInv, RowInv, BytesInv, HonestObjectsAreWhole, Confirmed
  <1> QED BY <1>1, InitTypeInv, StepInv, InitUploadInv, StepUploadInv, InitHonestInv,
             StepHonestInv, PTL DEF Spec

\* A call has read no row before its SELECT.
FreshInv == \A c \in Calls : At(c, "look") => call[c].seen = None

DownloadInv == FreshInv /\ DownloadsAreHonest

\* A step of one call, from where it leaves that call.
LEMMA DownloadFrame ==
  ASSUME TypeInv, DownloadInv, spoiled \subseteq spoiled', unheard \subseteq unheard',
         NEW c \in Calls, \A d \in Calls \ {c} : call'[d] = call[d],
         call'[c].at = "look" => call'[c].seen = None,
         call'[c].at = "done" /\ call'[c].op = "get" /\ call'[c].oid \notin spoiled =>
           \/ call'[c].answer \in {call'[c].oid, "missing"}
           \/ call'[c].answer = "error" /\ (call'[c].seen = None \/ call'[c].seen.key \in unheard)
  PROVE  DownloadInv'
  <1>1. FreshInv'
    BY DEF DownloadInv, FreshInv, At
  <1>2. DownloadsAreHonest'
    BY DEF DownloadInv, DownloadsAreHonest, At, OpOf, OidOf
  <1> QED BY <1>1, <1>2 DEF DownloadInv

\* The answers of a get.
LEMMA GetStep ==
  ASSUME TypeInv, UploadInv, HonestInv, DownloadInv, NEW c \in Calls, call[c] # None,
         OpOf(c) = "get", Look(c) \/ Open(c) \/ StatementFails(c)
  PROVE  \/ call'[c].at = "open"
         \/ call'[c].at = "done" /\ call'[c].answer \in {OidOf(c), "missing"}
         \/ /\ call'[c].at = "done" /\ call'[c].answer = "error"
            /\ call'[c].seen = None \/ call'[c].seen.key \in unheard
         \/ OidOf(c) \in spoiled
  <1>1. CASE Look(c)
    <2>1. CASE Answer(c, "missing")
      BY <2>1, AnswerType, AnswerSaid DEF Updated
    <2>2. CASE GoWithRow(c, "open")
      BY <2>2, GoWithRowType DEF Updated
    <2> QED BY <1>1, <2>1, <2>2 DEF Look
  <1>2. CASE Open(c)
    <2>1. /\ OidOf(c) \in Oids /\ Confirmed(OidOf(c)) /\ call[c].seen = rows[OidOf(c)]
      BY <1>2, CallType DEF Open, At, HonestInv, SeenInv, SeenAt
    <2>2. \/ store[call[c].seen.key] = OidOf(c) \/ OidOf(c) \in spoiled
          \/ store[call[c].seen.key] = None /\ call[c].seen.key \in unheard
      BY <2>1 DEF HonestInv, RowInv, BytesInv, UploadInv, ListedInv, Confirmed
    <2>3. CASE store[call[c].seen.key] = OidOf(c)
      <3>1. OidOf(c) # None
        BY <2>1, NameAssumption
      <3>2. Answer(c, OidOf(c))
        BY <1>2, <2>3, <3>1 DEF Open
      <3> QED BY <2>1, <3>2, AnswerType, AnswerSaid DEF Updated
    <2>4. CASE store[call[c].seen.key] = None /\ call[c].seen.key \in unheard
      <3>1. Answer(c, "error")
        BY <1>2, <2>4 DEF Open
      <3>2. call'[c].seen = call[c].seen
        BY <3>1, CallType DEF Answer, Call
      <3> QED BY <2>4, <3>1, <3>2, AnswerType, AnswerSaid DEF Updated
    <2> QED BY <2>2, <2>3, <2>4
  <1>3. CASE StatementFails(c)
    <2>1. At(c, "look")
      BY <1>3, CallType DEF StatementFails, At, StepsOf
    <2>2. call[c].seen = None /\ Answer(c, "error")
      BY <1>3, <2>1 DEF DownloadInv, FreshInv, StatementFails
    <2>3. call'[c].seen = call[c].seen
      BY <2>2, CallType DEF Answer, Call
    <2> QED BY <2>2, <2>3, AnswerType, AnswerSaid DEF Updated
  <1> QED BY <1>1, <1>2, <1>3

LEMMA StepDownloadInv ==
  ASSUME TypeInv, UploadInv, HonestInv, DownloadInv, [Next]_vars
  PROVE  DownloadInv'
  <1>1. ASSUME NEW c \in Calls, CallStep(c) PROVE DownloadInv'
    <2>1. CASE call[c] = None
      <3>1. \E op \in Ops, o, sent \in Oids, size \in Sizes : Begin(c, op, o, sent, size)
        BY <1>1, <2>1
        DEF CallStep, Look, CreatePending, Write, Settle, Stat, Mark, Open, Register, Adopt,
            Recheck, StatementFails, StatementUnheard, Takes, At
      <3>2. call'[c].at # "done" /\ call'[c].seen = None /\ \A d \in Calls \ {c} : call'[d] = call[d]
        BY <3>1 DEF TypeInv, TypeOK, Begin, FirstStep
      <3>3. spoiled \subseteq spoiled' /\ UNCHANGED unheard
        BY <3>1 DEF Begin
      <3> QED BY <3>2, <3>3, DownloadFrame
    <2>2. CASE call[c] # None
      <3>1. \E s \in StepsOf[OpOf(c)] : Updated(c, s)
        BY <1>1, <2>2, LookStep, CreatePendingStep, WriteStep, SettleStep, ReaderStep,
           MarkStep, RegistrationStep, FailureStep, UnheardStep DEF CallStep, Begin
      <3>2. UNCHANGED spoiled /\ unheard \subseteq unheard'
        BY <1>1, <2>2
        DEF CallStep, Begin, Look, CreatePending, Write, Settle, Stat, Mark, Open, Register, Adopt,
            Recheck, StatementFails, StatementUnheard
      <3>3. call'[c].at # "look"
        <4>1. \/ \E s \in {"create", "write", "settle", "mark", "adopt", "recheck"} : Goto(c, s)
              \/ \E s \in {"stat", "open"} : GoWithRow(c, s)
              \/ \E a : Answer(c, a)
          BY <1>1, <2>2
          DEF CallStep, Begin, Look, CreatePending, Write, Settle, Stat, Mark, Open, Register,
              Adopt, Recheck, StatementFails, StatementUnheard
        <4> QED BY <2>2, <4>1, CallType DEF Goto, GoWithRow, Answer, Call
      <3>4. OpOf(c) = "get" => Look(c) \/ Open(c) \/ StatementFails(c)
        BY <1>1, <2>2, CallType
        DEF CallStep, Begin, CreatePending, Write, Settle, Stat, Mark, Register, Adopt, Recheck,
            StatementUnheard, Takes, At, StepsOf
      <3> QED BY <2>2, <3>1, <3>2, <3>3, <3>4, GetStep, DownloadFrame DEF Updated, OpOf, OidOf
    <2> QED BY <2>1, <2>2
  <1>2. CASE Restart
    <2>1. /\ UNCHANGED <<spoiled, unheard>>
          /\ \A c \in Calls : \/ call'[c] = call[c]
                              \/ /\ call[c] # None /\ call'[c].at = "done" /\ call'[c].answer = "cut"
                                 /\ call'[c].op = call[c].op /\ call'[c].oid = call[c].oid
      BY <1>2, CallType DEF Restart, Call
    <2> QED BY <2>1 DEF DownloadInv, FreshInv, DownloadsAreHonest, At, OpOf, OidOf
  <1>3. CASE UNCHANGED <<call, unheard>> /\ spoiled \subseteq spoiled'
    BY <1>3 DEF DownloadInv, FreshInv, DownloadsAreHonest, At, OpOf, OidOf
  <1> QED BY <1>1, <1>2, <1>3 DEF Next, LinkPut, vars

\* A download yields the object or says that there is none, although uploads
\* delete files and turn rows to other keys between its SELECT and its open; only
\* an upload that never heard of its registration makes it fail.
THEOREM DownloadsStayHonest == Spec => []DownloadsAreHonest
  <1>1. Init => DownloadInv
    BY DEF Init, DownloadInv, FreshInv, DownloadsAreHonest, At
  <1>2. DownloadInv => DownloadsAreHonest
    BY DEF DownloadInv
  <1> QED BY <1>1, <1>2, InitTypeInv, StepInv, InitUploadInv, StepUploadInv, InitHonestInv,
             StepHonestInv, StepDownloadInv, PTL DEF Spec
===============================================================================
