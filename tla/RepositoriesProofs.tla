-------------------------- MODULE RepositoriesProofs --------------------------
(***************************************************************************)
(* Theorems about Repositories, for any number of names, ids, calls and    *)
(* upload URLs, and for histories of any length.                           *)
(***************************************************************************)
EXTENDS Repositories, WellFoundedInduction, TLAPS

(* The inductive invariant.  "born" tells repositories apart, and whoever   *)
(* still holds the number of a living one holds its id and its name too.    *)

\* Rows are of different repositories, none of which is yet to come.
RowInv ==
  /\ \A i \in Live : rows[i].born <= born
  /\ \A i, j \in Live : rows[i].born = rows[j].born => i = j

\* What a call or a URL has looked up holds for as long as the repository lives.
CallInv ==
  \A c \in Calls : calls[c] # None =>
    /\ calls[c].born <= born
    /\ \A i \in Ids : Is(i, calls[c].born) => i = calls[c].id /\ rows[i].name = calls[c].name
TargetInv ==
  \A t \in Targets : targets[t] # None =>
    /\ targets[t].born <= born
    /\ \A i \in Ids : Is(i, targets[t].born) => i = targets[t].id

\* What is written is of a repository there was.
MarkInv ==
  /\ \A i \in Ids : \A d \in deps[i] : d.born <= born
  /\ \A n \in Names : \A s \in store[n] : s.born <= born

\* A free id has no dependents; what is in the directory of a free name was
\* written late, or a deletion has not removed it.
FreeInv ==
  /\ \A i \in Ids : i \notin Live => deps[i] = {}
  /\ \A n \in Names : RowOf(n) = {} /\ n \notin left => \A s \in store[n] : s.late

Inv ==
  /\ TypeOK /\ RowInv /\ CallInv /\ TargetInv /\ MarkInv /\ FreeInv
  /\ SureHasDirectory /\ NoForeignContent /\ InheritsNothing

USE DEF Live, Ids, Borns

-------------------------------------------------------------------------------
\* A bounded set of numbers that is not empty has a largest element.
LEMMA LargestExists ==
  ASSUME NEW S \in SUBSET Nat, NEW b \in Nat, \A n \in S : n <= b, S # {}
  PROVE  \E m \in S : \A n \in S : n <= m
  <1> DEFINE T == {u \in Nat : \A n \in S : n <= u}
  <1>1. T \subseteq Nat /\ b \in T
    OBVIOUS
  <1>2. PICK m \in T : \A u \in T : ~ (<<u, m>> \in OpToRel(<, Nat))
    <2> HIDE DEF T
    <2> QED BY <1>1, WFMin, NatLessThanWellFounded
  <1>3. \A u \in T : ~ (u < m)
    BY <1>1, <1>2 DEF OpToRel
  <1>4. m \in S
    <2> SUFFICES ASSUME m \notin S PROVE FALSE
      OBVIOUS
    <2>1. PICK k \in S : TRUE
      OBVIOUS
    <2>2. m > 0 /\ m - 1 \in Nat
      BY <2>1
    <2>3. m - 1 \in T
      BY <2>2
    <2> QED BY <2>2, <2>3, <1>3
  <1> QED BY <1>4

\* The id SQLite gives is free.
LEMMA NewIdIsFree == ASSUME TypeOK PROVE NewId \in Nat /\ NewId \notin Live
  <1>1. CASE Live = {}
    BY <1>1 DEF NewId
  <1>2. CASE Live # {}
    <2>0. Live \in SUBSET Nat /\ MaxId \in Nat /\ \A n \in Live : n <= MaxId
      BY BoundAssumption
    <2>1. \E m \in Live : \A n \in Live : n <= m
      <3> HIDE DEF Live
      <3> QED BY <1>2, <2>0, LargestExists
    <2> DEFINE m == CHOOSE i \in Live : \A j \in Live : j <= i
    <2>2. m \in Live /\ \A n \in Live : n <= m
      BY <2>1
    <2>3. NewId = 1 + m
      BY <1>2 DEF NewId
    <2> HIDE DEF m
    <2> QED BY <2>2, <2>3, BoundAssumption
  <1> QED BY <1>1, <1>2

LEMMA InitInv == Init => Inv
  BY BoundAssumption, NoneAssumption
  DEF Init, Inv, TypeOK, RowInv, CallInv, TargetInv, MarkInv, FreeInv, SureHasDirectory,
      NoForeignContent, InheritsNothing, RowOf, Is

\* A call that begins, for a repository that was looked up now or before.
LEMMA LooksInv ==
  ASSUME Inv, NEW c \in Calls, NEW i \in Ids, NEW at \in {"drop", "depend", "register", "write"},
         NEW x \in Borns, x <= born, \A j \in Ids : Is(j, x) => j = i,
         Looks(c, i, at, x)
  PROVE  Inv'
  <1> USE DEF Inv, Looks
  <1>1. calls'[c] \in Call /\ \A d \in Calls : d # c => calls'[d] = calls[d]
    BY DEF TypeOK, Call, Row
  <1>2. TypeOK'
    BY <1>1 DEF TypeOK
  <1>3. CallInv'
    BY <1>1 DEF CallInv, Is, TypeOK
  <1> QED BY <1>2, <1>3
      DEF RowInv, TargetInv, MarkInv, FreeInv, SureHasDirectory, NoForeignContent,
          InheritsNothing, RowOf, Is

\* Steps that leave a call as it was, move it on, or end it.
LEMMA CallTypes ==
  ASSUME TypeOK, NEW c \in Calls, calls[c] # None,
         \/ Ends(c)
         \/ \E at \in {"rollback", "remove", "write"} : Moves(c, at)
  PROVE  /\ calls' \in [Calls -> Call \cup {None}]
         /\ \A d \in Calls : calls'[d] # None =>
              /\ calls[d] # None /\ calls'[d].born = calls[d].born
              /\ calls'[d].id = calls[d].id /\ calls'[d].name = calls[d].name
  BY DEF TypeOK, Ends, Moves, Call

LEMMA CreateInv == ASSUME Inv, NEW c \in Calls, NEW n \in Names, Create(c, n) PROVE Inv'
  <1> DEFINE row == [name |-> n, born |-> born + 1, sure |-> FALSE]
  <1>1. /\ NewId \in Ids /\ NewId \notin Live /\ RowOf(n) = {}
        /\ born' = born + 1 /\ born + 1 \in Borns /\ row \in Row
        /\ UNCHANGED <<deps, dirs, store, targets, left>>
    BY NewIdIsFree, BoundAssumption DEF Inv, Create, CreateRow, TypeOK, Row
  <1>2. /\ rows' = [rows EXCEPT ![NewId] = row] /\ row # None
        /\ rows'[NewId] = row /\ \A i \in Ids : i # NewId => rows'[i] = rows[i]
    BY <1>1, NoneAssumption DEF Inv, Create, CreateRow, TypeOK
  <1>3. /\ calls' \in [Calls -> Call \cup {None}]
        /\ calls'[c] # None /\ calls'[c].id = NewId /\ calls'[c].name = n /\ calls'[c].born = born + 1
        /\ \A d \in Calls : d # c => calls'[d] = calls[d]
    BY <1>1, NoneAssumption DEF Inv, Create, TypeOK, Call
  <1> HIDE DEF row
  <1>4. row.name = n /\ row.born = born + 1 /\ row.sure = FALSE
    BY DEF row
  <1>5. Live' = Live \cup {NewId}
    BY <1>1, <1>2
  <1> USE DEF Inv
  <1>6. TypeOK'
    BY <1>1, <1>2, <1>3, <1>4, <1>5 DEF TypeOK, RowOf
  <1>7. RowInv'
    BY <1>1, <1>2, <1>4, <1>5 DEF RowInv, TypeOK, Row
  <1>8. CallInv'
    BY <1>1, <1>2, <1>3, <1>4, <1>5 DEF CallInv, RowInv, Is, TypeOK, Row, Call
  <1>9. TargetInv' /\ MarkInv'
    BY <1>1, <1>2, <1>4, <1>5 DEF TargetInv, MarkInv, Is, TypeOK, Row, Target, Mark
  <1>10. FreeInv'
    BY <1>1, <1>2, <1>4, <1>5 DEF FreeInv, RowOf, TypeOK
  <1>11. SureHasDirectory'
    BY <1>1, <1>2, <1>4, <1>5 DEF SureHasDirectory
  <1>12. NoForeignContent'
    BY <1>1, <1>2, <1>4, <1>5 DEF NoForeignContent, FreeInv, MarkInv, RowOf, TypeOK, Row, Mark
  <1>13. InheritsNothing'
    BY <1>1, <1>2, <1>4, <1>5 DEF InheritsNothing, FreeInv, TypeOK
  <1> QED BY <1>6, <1>7, <1>8, <1>9, <1>10, <1>11, <1>12, <1>13

\* A row is deleted, with whatever refers to it.
LEMMA DropInv ==
  ASSUME Inv, NEW c \in Calls, calls[c] # None, DeleteRow(calls[c].id),
         Ends(c) \/ Moves(c, "remove"), left' = left \cup NamesOf(calls[c].id),
         UNCHANGED <<dirs, store, targets, born>>
  PROVE  Inv'
  <1> DEFINE i == calls[c].id
  <1>1. i \in Ids
    BY DEF Inv, TypeOK, Call
  <1>2. /\ rows'[i] = None /\ deps'[i] = {} /\ Live' = Live \ {i}
        /\ \A j \in Ids : j # i => rows'[j] = rows[j] /\ deps'[j] = deps[j]
        /\ rows' \in [Ids -> Row \cup {None}] /\ deps' \in [Ids -> SUBSET Mark]
    BY <1>1 DEF DeleteRow, Inv, TypeOK
  <1>3. \A j \in Live \cap {i} : rows[j].name \in left'
    BY DEF NamesOf
  <1>4. left' \subseteq Names /\ left \subseteq left'
    BY DEF NamesOf, Inv, TypeOK, Row
  <1>5. /\ calls' \in [Calls -> Call \cup {None}]
        /\ \A d \in Calls : calls'[d] # None =>
             /\ calls[d] # None /\ calls'[d].born = calls[d].born
             /\ calls'[d].id = calls[d].id /\ calls'[d].name = calls[d].name
    BY CallTypes DEF Inv
  <1> HIDE DEF i
  <1> USE DEF Inv
  <1>6. TypeOK'
    BY <1>2, <1>4, <1>5 DEF TypeOK
  <1>7. RowInv' /\ TargetInv'
    BY <1>2 DEF RowInv, TargetInv, Is
  <1>8. CallInv'
    BY <1>2, <1>5 DEF CallInv, Is
  <1>9. MarkInv'
    BY <1>1, <1>2 DEF MarkInv
  <1>10. FreeInv'
    BY <1>1, <1>2, <1>3, <1>4 DEF FreeInv, RowOf
  <1>11. SureHasDirectory' /\ NoForeignContent' /\ InheritsNothing'
    BY <1>2, <1>4 DEF SureHasDirectory, NoForeignContent, InheritsNothing
  <1> QED BY <1>6, <1>7, <1>8, <1>9, <1>10, <1>11

\* Steps that change neither which rows there are nor what they are called.
RowsKept ==
  /\ rows' \in [Ids -> Row \cup {None}]
  /\ \A i \in Ids :
       /\ rows'[i] = None <=> rows[i] = None
       /\ rows[i] # None => rows'[i].name = rows[i].name /\ rows'[i].born = rows[i].born

\* No call holds anything it did not hold.
CallsKept ==
  /\ calls' \in [Calls -> Call \cup {None}]
  /\ \A d \in Calls : calls'[d] # None =>
       /\ calls[d] # None /\ calls'[d].born = calls[d].born
       /\ calls'[d].id = calls[d].id /\ calls'[d].name = calls[d].name

LEMMA KeptInv ==
  ASSUME Inv, RowsKept, CallsKept, UNCHANGED <<targets, born>>
  PROVE  /\ Live' = Live /\ \A n \in Names : RowOf(n)' = RowOf(n)
         /\ \A i, j \in Live' : rows'[i].name = rows'[j].name => i = j
         /\ RowInv' /\ CallInv' /\ TargetInv'
  BY DEF Inv, RowsKept, CallsKept, TypeOK, RowOf, RowInv, CallInv, TargetInv, Is

\* The directory of a name is made, broken, or removed.
LEMMA DirsInv ==
  ASSUME Inv, RowsKept, CallsKept, UNCHANGED <<deps, targets, born>>, NEW n \in Names,
         dirs' \in [Names -> {"none", "partial", "whole"}],
         \A k \in Names : k # n => dirs'[k] = dirs[k],
         store' = store \/ store' = [store EXCEPT ![n] = {}],
         left' \subseteq Names,
         \A k \in Names : k # n \/ store'[k] # {} => (k \in left' <=> k \in left),
         SureHasDirectory'
  PROVE  Inv'
  <1>1. /\ Live' = Live /\ \A k \in Names : RowOf(k)' = RowOf(k)
        /\ \A i, j \in Live' : rows'[i].name = rows'[j].name => i = j
        /\ RowInv' /\ CallInv' /\ TargetInv'
    BY KeptInv
  <1>2. /\ store' \in [Names -> SUBSET Mark]
        /\ \A k \in Names : store'[k] \subseteq store[k]
        /\ \A k \in Names : store'[k] = {} \/ (k \in left' <=> k \in left)
    BY DEF Inv, TypeOK
  <1> USE DEF Inv
  <1>3. TypeOK'
    BY <1>1, <1>2 DEF TypeOK, RowsKept, CallsKept
  <1>4. MarkInv' /\ FreeInv'
    BY <1>1, <1>2 DEF MarkInv, FreeInv
  <1>5. NoForeignContent'
    BY <1>1, <1>2 DEF NoForeignContent, RowsKept, TypeOK, Row
  <1>6. InheritsNothing'
    BY <1>1 DEF InheritsNothing, RowsKept
  <1> QED BY <1>1, <1>3, <1>4, <1>5, <1>6

\* A row that is marked, and one whose mark is taken.
LEMMA Resured ==
  ASSUME NEW r \in Row
  PROVE  /\ [r EXCEPT !.sure = TRUE] \in Row /\ [r EXCEPT !.sure = TRUE].sure = TRUE
         /\ [r EXCEPT !.sure = TRUE].name = r.name /\ [r EXCEPT !.sure = TRUE].born = r.born
         /\ [r EXCEPT !.sure = FALSE] \in Row /\ [r EXCEPT !.sure = FALSE].sure = FALSE
         /\ [r EXCEPT !.sure = FALSE].name = r.name /\ [r EXCEPT !.sure = FALSE].born = r.born
  BY DEF Row

LEMMA MarksKept ==
  ASSUME TypeOK,
         \/ \E x \in Borns : rows' = Sured(x)
         \/ \E n \in Names : rows' = Unsured(n)
         \/ UNCHANGED rows
  PROVE  RowsKept
  <1>1. \A i \in Ids : rows[i] # None => rows[i] \in Row
    BY DEF TypeOK
  <1>2. \A i \in Ids : rows'[i] = rows[i] \/
          /\ rows[i] # None
          /\ rows'[i] \in {[rows[i] EXCEPT !.sure = TRUE], [rows[i] EXCEPT !.sure = FALSE]}
    BY DEF Sured, Unsured, Is, RowOf
  <1>3. ASSUME NEW i \in Ids, rows'[i] # rows[i]
        PROVE  /\ rows[i] # None /\ rows'[i] \in Row
               /\ rows'[i].name = rows[i].name /\ rows'[i].born = rows[i].born
    BY <1>1, <1>2, <1>3, Resured
  <1>4. None \notin Row
    BY NoneAssumption
  <1>5. rows' = [i \in Ids |-> rows'[i]]
    BY DEF TypeOK, Sured, Unsured
  <1>6. rows' \in [Ids -> Row \cup {None}]
    BY <1>1, <1>3, <1>5
  <1> QED BY <1>3, <1>4, <1>6 DEF RowsKept

LEMMA CreateInitsInv == ASSUME Inv, NEW c \in Calls, CreateInits(c) PROVE Inv'
  <1> DEFINE n == calls[c].name  x == calls[c].born
  <1>1. n \in Names /\ x \in Borns /\ calls[c] # None
    BY DEF CreateInits, Stands, Inv, TypeOK, Call
  <1>2. RowsKept /\ CallsKept
    BY <1>1, MarksKept, CallTypes DEF CreateInits, Inv, CallsKept
  <1>3. SureHasDirectory'
    <2>1. \A i \in Ids : rows'[i] = IF Is(i, x) THEN [rows[i] EXCEPT !.sure = TRUE] ELSE rows[i]
      BY DEF CreateInits, Sured
    <2>2. dirs'[n] = "whole" /\ \A k \in Names : k # n => dirs'[k] = dirs[k]
      BY <1>1 DEF CreateInits, InitBare, Inv, TypeOK
    <2>3. \A i \in Ids : Is(i, x) => rows[i].name = n
      BY <1>1 DEF Inv, CallInv
    <2>4. \A i \in Live : rows[i].name \in Names
      BY DEF Inv, TypeOK, Row
    <2> HIDE DEF n, x
    <2> QED BY <1>2, <2>1, <2>2, <2>3, <2>4 DEF SureHasDirectory, Inv, RowsKept
  <1> QED BY <1>1, <1>2, <1>3, DirsInv DEF CreateInits, InitBare, Inv, TypeOK

LEMMA CreateFailsInv == ASSUME Inv, NEW c \in Calls, CreateFails(c) PROVE Inv'
  <1> DEFINE n == calls[c].name
  <1>1. n \in Names /\ calls[c] # None
    BY DEF CreateFails, Stands, Inv, TypeOK, Call
  <1>2. RowsKept /\ CallsKept
    BY <1>1, MarksKept, CallTypes DEF CreateFails, Inv, CallsKept
  <1>3. SureHasDirectory'
    BY <1>1 DEF CreateFails, InitBareFails, SureHasDirectory, Inv, TypeOK, Row
  <1> QED BY <1>1, <1>2, <1>3, DirsInv DEF CreateFails, InitBareFails, Inv, TypeOK

LEMMA RemoveInv ==
  ASSUME Inv, NEW c \in Calls, DeleteRemoves(c) \/ DeleteLeaves(c)
  PROVE  Inv'
  <1> DEFINE n == calls[c].name
  <1>1. n \in Names /\ calls[c] # None
    BY DEF DeleteRemoves, DeleteLeaves, Stands, Inv, TypeOK, Call
  <1>2. RowsKept /\ CallsKept
    BY <1>1, MarksKept, CallTypes DEF DeleteRemoves, DeleteLeaves, Inv, CallsKept
  <1>3. /\ dirs' \in [Names -> {"none", "partial", "whole"}]
        /\ \A k \in Names : k # n => dirs'[k] = dirs[k]
    BY <1>1 DEF DeleteRemoves, DeleteLeaves, Remove, RemoveFails, Inv, TypeOK
  <1>4. SureHasDirectory'
    <2>1. \A i \in Ids : rows'[i] = IF i \in RowOf(n) THEN [rows[i] EXCEPT !.sure = FALSE] ELSE rows[i]
      BY DEF DeleteRemoves, DeleteLeaves, Unsured
    <2>2. \A i \in RowOf(n) : rows[i] \in Row
      BY DEF RowOf, Inv, TypeOK
    <2>3. \A i \in RowOf(n) : rows'[i].sure = FALSE
      <3> SUFFICES ASSUME NEW i \in RowOf(n) PROVE rows'[i].sure = FALSE
        OBVIOUS
      <3>1. rows'[i] = [rows[i] EXCEPT !.sure = FALSE]
        BY <2>1 DEF RowOf
      <3> QED BY <2>2, <3>1, Resured
    <2>4. \A i \in Live : rows[i].name \in Names
      BY DEF Inv, TypeOK, Row
    <2> HIDE DEF n
    <2> QED BY <1>2, <1>3, <2>1, <2>3, <2>4 DEF SureHasDirectory, Inv, RowsKept, RowOf
  <1>5. /\ UNCHANGED <<deps, targets, born>>
        /\ \/ store' = [store EXCEPT ![n] = {}] /\ left' = left \ {n}
           \/ store' = store /\ left' = left
    BY DEF DeleteRemoves, DeleteLeaves, Remove, RemoveFails
  <1>6. /\ left' \subseteq Names
        /\ \A k \in Names : k # n \/ store'[k] # {} => (k \in left' <=> k \in left)
    <2>1. CASE store' = store /\ left' = left
      BY <2>1 DEF Inv, TypeOK
    <2>2. CASE store' = [store EXCEPT ![n] = {}] /\ left' = left \ {n}
      BY <1>5, <2>2 DEF Inv, TypeOK
    <2> QED BY <1>5, <2>1, <2>2
  <1> QED BY <1>1, <1>2, <1>3, <1>4, <1>5, <1>6, DirsInv

\* A dependent is inserted under the id that was looked up, or was there.
LEMMA InsertInv == ASSUME Inv, NEW c \in Calls, Insert(c) \/ Register(c) PROVE Inv'
  <1> DEFINE i == calls[c].id  x == calls[c].born  w == Written(calls[c].born)
  <1>1. i \in Live /\ x \in Borns /\ x <= born /\ calls[c] # None
    BY DEF Insert, Register, Stands, Inv, TypeOK, Call, CallInv
  <1>2. w \in Mark /\ w.born = x /\ (w.late \/ Alive(x))
    BY <1>1 DEF Written, Mark
  <1>3. Alive(x) => rows[i].born = x
    BY <1>1 DEF Alive, Is, Inv, CallInv
  <1>4. RowsKept /\ CallsKept
    BY <1>1, MarksKept, CallTypes DEF Insert, Register, Inv, CallsKept
  <1>5. /\ deps' \in [Ids -> SUBSET Mark]
        /\ deps'[i] \in {deps[i], deps[i] \cup {w}} /\ \A j \in Ids : j # i => deps'[j] = deps[j]
        /\ UNCHANGED <<rows, dirs, store, targets, born, left>>
    <2>1. /\ deps' = deps \/ deps' = [deps EXCEPT ![i] = deps[i] \cup {w}]
          /\ UNCHANGED <<rows, dirs, store, targets, born, left>>
      BY DEF Insert, Register
    <2>2. deps \in [Ids -> SUBSET Mark] /\ i \in Ids
      BY <1>1 DEF Inv, TypeOK
    <2> HIDE DEF i, x, w
    <2> QED BY <1>2, <2>1, <2>2
  <1>6. RowInv' /\ CallInv' /\ TargetInv' /\ Live' = Live /\ \A n \in Names : RowOf(n)' = RowOf(n)
    BY <1>4, <1>5, KeptInv
  <1> HIDE DEF i, x, w
  <1> USE DEF Inv
  <1>7. TypeOK'
    BY <1>4, <1>5, <1>6 DEF TypeOK, CallsKept
  <1>8. MarkInv' /\ FreeInv'
    BY <1>1, <1>2, <1>5, <1>6 DEF MarkInv, FreeInv
  <1>9. SureHasDirectory' /\ NoForeignContent'
    BY <1>5, <1>6 DEF SureHasDirectory, NoForeignContent
  <1>10. InheritsNothing'
    BY <1>1, <1>2, <1>3, <1>5, <1>6 DEF InheritsNothing
  <1> QED BY <1>6, <1>7, <1>8, <1>9, <1>10

\* Objects and refs are written in the directory that was looked up.
LEMMA WritesInv == ASSUME Inv, NEW c \in Calls, Writes(c) PROVE Inv'
  <1> DEFINE n == calls[c].name  x == calls[c].born  w == Written(calls[c].born)
  <1>1. n \in Names /\ x \in Borns /\ x <= born /\ calls[c] # None
    BY DEF Writes, Stands, Inv, TypeOK, Call, CallInv
  <1>2. w \in Mark /\ w.born = x /\ (w.late \/ Alive(x))
    BY <1>1 DEF Written, Mark
  <1>3. Alive(x) => \E i \in Live : rows[i].name = n /\ rows[i].born = x
    BY <1>1 DEF Alive, Is, Inv, CallInv
  <1>4. RowsKept /\ CallsKept
    BY <1>1, MarksKept, CallTypes DEF Writes, Inv, CallsKept
  <1>5. /\ store' \in [Names -> SUBSET Mark]
        /\ store'[n] = store[n] \cup {w} /\ \A k \in Names : k # n => store'[k] = store[k]
        /\ UNCHANGED <<rows, deps, dirs, targets, born, left>>
    BY <1>1, <1>2 DEF Writes, Inv, TypeOK
  <1>6. RowInv' /\ CallInv' /\ TargetInv' /\ Live' = Live /\ \A k \in Names : RowOf(k)' = RowOf(k)
    BY <1>4, <1>5, KeptInv
  <1>7. \A i \in Live : rows[i].name \in Names /\ (rows[i].name = n => w.late \/ rows[i].born = x)
    BY <1>2, <1>3 DEF Inv, TypeOK, Row
  <1>8. w.late \/ RowOf(n) # {}
    BY <1>2, <1>3 DEF RowOf
  <1> HIDE DEF n, x, w
  <1> USE DEF Inv
  <1>9. TypeOK'
    BY <1>4, <1>5, <1>6 DEF TypeOK, CallsKept
  <1>10. MarkInv'
    BY <1>1, <1>2, <1>5, <1>6 DEF MarkInv
  <1>11. FreeInv'
    BY <1>1, <1>5, <1>6, <1>8 DEF FreeInv
  <1>12. SureHasDirectory' /\ InheritsNothing'
    BY <1>5, <1>6 DEF SureHasDirectory, InheritsNothing
  <1>13. NoForeignContent'
    BY <1>2, <1>5, <1>6, <1>7 DEF NoForeignContent
  <1> QED BY <1>6, <1>9, <1>10, <1>11, <1>12, <1>13

\* Calls end without effect, one or all.
LEMMA EndsInv ==
  ASSUME Inv, CallsKept, UNCHANGED <<rows, deps, dirs, store, targets, born, left>>
  PROVE  Inv'
  <1>1. RowsKept
    BY MarksKept DEF Inv
  <1>2. RowInv' /\ CallInv' /\ TargetInv' /\ Live' = Live /\ \A k \in Names : RowOf(k)' = RowOf(k)
    BY <1>1, KeptInv
  <1> QED BY <1>2 DEF Inv, TypeOK, CallsKept, MarkInv, FreeInv, SureHasDirectory,
                      NoForeignContent, InheritsNothing

\* An upload URL is signed, or has expired.
LEMMA TargetStepInv ==
  ASSUME Inv, NEW t \in Targets, Expire(t) \/ \E i \in Ids, lfs \in BOOLEAN : CreateUpload(t, i, lfs)
  PROVE  Inv'
  <1> USE DEF Inv
  <1>1. UNCHANGED <<rows, deps, dirs, store, calls, born, left>>
    BY DEF Expire, CreateUpload
  <1>2. /\ targets' \in [Targets -> Target \cup {None}] /\ TargetInv'
    <2>1. CASE Expire(t)
      BY <2>1 DEF Expire, TypeOK, TargetInv, Is
    <2>2. ASSUME NEW i \in Ids, NEW lfs \in BOOLEAN, CreateUpload(t, i, lfs)
          PROVE  targets' \in [Targets -> Target \cup {None}] /\ TargetInv'
      <3>1. [id |-> i, born |-> rows[i].born, lfs |-> lfs] \in Target
        BY <2>2 DEF CreateUpload, TypeOK, Row, Target
      <3>2. \A j \in Ids : Is(j, rows[i].born) => j = i
        BY <2>2 DEF CreateUpload, RowInv, Is
      <3> QED BY <2>2, <3>1, <3>2 DEF CreateUpload, TypeOK, TargetInv, RowInv, Is
    <2> QED BY <2>1, <2>2
  <1> QED BY <1>1, <1>2 DEF TypeOK, RowInv, CallInv, MarkInv, FreeInv, SureHasDirectory,
                            NoForeignContent, InheritsNothing, RowOf, Is

LEMMA NextInv == ASSUME Inv, [Next]_vars PROVE Inv'
  <1>1. \A i \in Live : rows[i].born \in Borns /\ rows[i].born <= born
                        /\ \A j \in Ids : Is(j, rows[i].born) => j = i
    BY DEF Inv, TypeOK, RowInv, Is, Row
  <1>2. ASSUME NEW c \in Calls, NEW n \in Names, Create(c, n) PROVE Inv'
    BY <1>2, CreateInv
  <1>3. ASSUME NEW c \in Calls, NEW i \in Ids, Delete(c, i) \/ Depend(c, i) \/ Write(c, i) PROVE Inv'
    BY <1>1, <1>3, LooksInv DEF Delete, Depend, Write
  <1>4. ASSUME NEW c \in Calls, NEW t \in Targets, Upload(c, t) PROVE Inv'
    BY <1>4, LooksInv DEF Upload, Inv, TypeOK, TargetInv, Target
  <1>5. ASSUME NEW c \in Calls, CreateInits(c) PROVE Inv'
    BY <1>5, CreateInitsInv
  <1>6. ASSUME NEW c \in Calls, CreateFails(c) PROVE Inv'
    BY <1>6, CreateFailsInv
  <1>7. ASSUME NEW c \in Calls, Rollback(c) PROVE Inv'
    <2>1. calls[c] # None
      BY <1>7 DEF Rollback, Stands
    <2>2. CASE DeleteRow(calls[c].id) /\ left' = left \cup NamesOf(calls[c].id)
      BY <1>7, <2>1, <2>2, DropInv DEF Rollback
    <2>3. CASE UNCHANGED <<rows, deps, left>>
      BY <1>7, <2>1, <2>3, EndsInv, CallTypes DEF Rollback, CallsKept, Inv
    <2> QED BY <1>7, <2>2, <2>3 DEF Rollback
  <1>8. ASSUME NEW c \in Calls, DeleteDrops(c) PROVE Inv'
    BY <1>8, DropInv DEF DeleteDrops, Stands
  <1>9. ASSUME NEW c \in Calls, DeleteRemoves(c) \/ DeleteLeaves(c) PROVE Inv'
    BY <1>9, RemoveInv
  <1>10. ASSUME NEW c \in Calls, Insert(c) \/ Register(c) \/ Writes(c) PROVE Inv'
    BY <1>10, InsertInv, WritesInv
  <1>11. ASSUME NEW c \in Calls, Fails(c) PROVE Inv'
    BY <1>11, EndsInv, CallTypes DEF Fails, CallsKept, Inv
  <1>12. ASSUME NEW t \in Targets, Expire(t) \/ \E i \in Ids, lfs \in BOOLEAN : CreateUpload(t, i, lfs) PROVE Inv'
    BY <1>12, TargetStepInv
  <1>13. CASE Restart
    BY <1>13, EndsInv DEF Restart, CallsKept
  <1>14. CASE UNCHANGED vars
    BY <1>14, EndsInv DEF vars, CallsKept, Inv, TypeOK
  <1> QED BY <1>2, <1>3, <1>4, <1>5, <1>6, <1>7, <1>8, <1>9, <1>10, <1>11, <1>12, <1>13, <1>14
      DEF Next

LEMMA InvHolds == Spec => []Inv
  <1>1. Inv /\ [Next]_vars => Inv'
    BY NextInv
  <1> QED BY InitInv, <1>1, PTL DEF Spec

-------------------------------------------------------------------------------
\* The variables keep their types, and no two repositories share a name,
\* however creations, deletions and their failures interleave.
THEOREM TypeCorrect == Spec => []TypeOK
  BY InvHolds, PTL DEF Inv

\* A creation that was answered keeps its directory until its deletion, or one
\* of an earlier repository of its name, comes to it (service.go:138-200).
THEOREM AnsweredHasDirectory == Spec => []SureHasDirectory
  BY InvHolds, PTL DEF Inv

\* What a repository shows of an earlier one of its name was written late, or
\* lies in a directory whose removal failed or is yet to come (service.go:189).
THEOREM ContentIsItsOwn == Spec => []NoForeignContent
  BY InvHolds, PTL DEF Inv

\* With an id that is used again come no permissions, policies, webhooks or LFS
\* objects but those of an insert that straddled the deletion (service.go:183)
\* and the LFS objects of an upload URL signed before it (service.go:870).
THEOREM NothingIsInherited == Spec => []InheritsNothing
  BY InvHolds, PTL DEF Inv
===============================================================================
