--------------------------- MODULE CommitOpsProofs ---------------------------
(***************************************************************************)
(* Staging keeps the index a tree and the remembered puts part of it, for  *)
(* requests of any length over any paths.                                  *)
(***************************************************************************)
EXTENDS CommitOps, SequenceTheorems, TLAPS

Name == Seq(STRING)

LEMMA PathsAreNames == Paths \subseteq Name
  BY PathAssumption DEF Name

-------------------------------------------------------------------------------
(* Paths.                                                                   *)

LEMMA UnderElems ==
  ASSUME NEW p \in Name, NEW q \in Name
  PROVE  Under(q, p) <=> Len(p) <= Len(q) /\ \A i \in 1 .. Len(p) : q[i] = p[i]
  <1>1. CASE Len(p) <= Len(q)
    <2>1. /\ SubSeq(q, 1, Len(p)) \in Name /\ Len(SubSeq(q, 1, Len(p))) = Len(p)
          /\ \A i \in 1 .. Len(p) : SubSeq(q, 1, Len(p))[i] = q[i]
      BY <1>1 DEF Name
    <2>2. SubSeq(q, 1, Len(p)) = p <=> \A i \in 1 .. Len(p) : SubSeq(q, 1, Len(p))[i] = p[i]
      BY <2>1, SeqEqual DEF Name
    <2> QED BY <1>1, <2>1, <2>2 DEF Under
  <1> QED BY <1>1 DEF Under

LEMMA UnderOrder ==
  ASSUME NEW p \in Name, NEW q \in Name, NEW r \in Name
  PROVE  /\ Under(p, p)
         /\ Under(q, p) /\ Under(p, q) => q = p
         /\ Under(q, p) /\ Under(p, r) => Under(q, r)
         /\ Under(q, p) /\ Under(q, r) => Under(p, r) \/ Under(r, p)
  <1>1. Under(p, p)
    BY UnderElems DEF Name
  <1>2. Under(q, p) /\ Under(p, q) => q = p
    BY UnderElems, SeqEqual DEF Name
  <1>3. Under(q, p) /\ Under(p, r) => Under(q, r)
    BY UnderElems DEF Name
  <1>4. Under(q, p) /\ Under(q, r) => Under(p, r) \/ Under(r, p)
    BY UnderElems DEF Name
  <1> QED BY <1>1, <1>2, <1>3, <1>4

LEMMA RebaseElems ==
  ASSUME NEW q \in Name, NEW from \in Name, NEW dest \in Name, Under(q, from)
  PROVE  /\ Rebase(q, from, dest) \in Name
         /\ Len(Rebase(q, from, dest)) = Len(dest) + Len(q) - Len(from)
         /\ \A i \in 1 .. Len(dest) : Rebase(q, from, dest)[i] = dest[i]
         /\ \A i \in 1 .. Len(q) - Len(from) :
              Rebase(q, from, dest)[Len(dest) + i] = q[Len(from) + i]
  <1> DEFINE t == SubSeq(q, Len(from) + 1, Len(q))
  <1>1. Len(from) <= Len(q) /\ Len(from) \in Nat /\ Len(q) \in Nat
    BY DEF Under, Name
  <1>2. /\ t \in Name /\ Len(t) = Len(q) - Len(from)
        /\ \A i \in 1 .. Len(q) - Len(from) : t[i] = q[Len(from) + i]
    BY <1>1 DEF Name
  <1> HIDE DEF t
  <1>3. Rebase(q, from, dest) = dest \o t
    BY DEF Rebase, t
  <1>4. /\ dest \o t \in Name /\ Len(dest \o t) = Len(dest) + Len(t)
        /\ \A i \in 1 .. Len(dest) + Len(t) :
             (dest \o t)[i] = IF i <= Len(dest) THEN dest[i] ELSE t[i - Len(dest)]
    BY <1>2, ConcatProperties DEF Name
  <1>5. \A i \in 1 .. Len(q) - Len(from) : (dest \o t)[Len(dest) + i] = t[i]
    <2> SUFFICES ASSUME NEW i \in 1 .. Len(q) - Len(from)
                 PROVE  (dest \o t)[Len(dest) + i] = t[i]
      OBVIOUS
    <2>1. /\ Len(dest) \in Nat /\ Len(dest) + i \in 1 .. Len(dest) + Len(t)
          /\ ~(Len(dest) + i <= Len(dest)) /\ Len(dest) + i - Len(dest) = i
      BY <1>1, <1>2 DEF Name
    <2> QED BY <1>4, <2>1
  <1>6. \A i \in 1 .. Len(dest) : (dest \o t)[i] = dest[i]
    BY <1>1, <1>2, <1>4 DEF Name
  <1>7. Len(dest) + Len(t) = Len(dest) + Len(q) - Len(from)
    BY <1>1, <1>2 DEF Name
  <1> QED BY <1>2, <1>3, <1>4, <1>5, <1>6, <1>7

\* Rebasing goes under the destination, can be undone, and keeps the order.
LEMMA RebaseBack ==
  ASSUME NEW q \in Name, NEW from \in Name, NEW dest \in Name, Under(q, from)
  PROVE  /\ Under(Rebase(q, from, dest), dest)
         /\ Rebase(Rebase(q, from, dest), dest, from) = q
  <1> DEFINE r == Rebase(q, from, dest)
  <1>1. /\ r \in Name /\ Len(r) = Len(dest) + Len(q) - Len(from)
        /\ \A i \in 1 .. Len(dest) : r[i] = dest[i]
        /\ \A i \in 1 .. Len(q) - Len(from) : r[Len(dest) + i] = q[Len(from) + i]
    BY RebaseElems
  <1>2. Len(from) <= Len(q) /\ Len(from) \in Nat /\ Len(q) \in Nat /\ Len(dest) \in Nat
    BY DEF Under, Name
  <1> HIDE DEF r
  <1>3. Under(r, dest)
    BY <1>1, <1>2, UnderElems
  <1> DEFINE b == Rebase(r, dest, from)
  <1>4. /\ b \in Name /\ Len(b) = Len(from) + Len(r) - Len(dest)
        /\ \A i \in 1 .. Len(from) : b[i] = from[i]
        /\ \A i \in 1 .. Len(r) - Len(dest) : b[Len(from) + i] = r[Len(dest) + i]
    BY <1>1, <1>3, RebaseElems
  <1> HIDE DEF b
  <1>5. Len(b) = Len(q)
    BY <1>1, <1>2, <1>4
  <1>6. ASSUME NEW i \in 1 .. Len(q) PROVE b[i] = q[i]
    <2>1. CASE i <= Len(from)
      BY <1>2, <1>4, <2>1, UnderElems
    <2>2. CASE i > Len(from)
      <3> DEFINE k == i - Len(from)
      <3>1. /\ k \in 1 .. Len(q) - Len(from) /\ k \in 1 .. Len(r) - Len(dest)
            /\ i = Len(from) + k
        BY <1>1, <1>2, <2>2
      <3> HIDE DEF k
      <3> QED BY <1>1, <1>4, <3>1
    <2> QED BY <1>2, <2>1, <2>2
  <1>7. b = q
    BY <1>4, <1>5, <1>6, SeqEqual DEF Name
  <1> QED BY <1>3, <1>7 DEF r, b

LEMMA RebaseOrder ==
  ASSUME NEW q \in Name, NEW r \in Name, NEW from \in Name, NEW dest \in Name,
         Under(q, from), Under(r, q)
  PROVE  Under(Rebase(r, from, dest), Rebase(q, from, dest))
  <1> DEFINE a == Rebase(r, from, dest)
             b == Rebase(q, from, dest)
  <1>0. Under(r, from)
    BY UnderOrder
  <1>1. /\ a \in Name /\ Len(a) = Len(dest) + Len(r) - Len(from)
        /\ \A i \in 1 .. Len(dest) : a[i] = dest[i]
        /\ \A i \in 1 .. Len(r) - Len(from) : a[Len(dest) + i] = r[Len(from) + i]
    BY <1>0, RebaseElems
  <1>2. /\ b \in Name /\ Len(b) = Len(dest) + Len(q) - Len(from)
        /\ \A i \in 1 .. Len(dest) : b[i] = dest[i]
        /\ \A i \in 1 .. Len(q) - Len(from) : b[Len(dest) + i] = q[Len(from) + i]
    BY RebaseElems
  <1>3. /\ Len(from) <= Len(q) /\ Len(q) <= Len(r)
        /\ Len(from) \in Nat /\ Len(q) \in Nat /\ Len(r) \in Nat /\ Len(dest) \in Nat
    BY DEF Under, Name
  <1>4. \A i \in 1 .. Len(q) : r[i] = q[i]
    BY UnderElems
  <1> HIDE DEF a, b
  <1>5. ASSUME NEW i \in 1 .. Len(b) PROVE a[i] = b[i]
    <2>1. CASE i <= Len(dest)
      BY <1>1, <1>2, <1>3, <2>1
    <2>2. CASE i > Len(dest)
      <3>1. i - Len(dest) \in 1 .. Len(q) - Len(from) /\ i = Len(dest) + (i - Len(dest))
        BY <1>2, <1>3, <2>2
      <3>2. i - Len(dest) \in 1 .. Len(r) - Len(from) /\ Len(from) + (i - Len(dest)) \in 1 .. Len(q)
        BY <1>3, <3>1
      <3> QED BY <1>1, <1>2, <1>4, <3>1, <3>2
    <2> QED BY <1>2, <1>3, <2>1, <2>2
  <1>6. Under(a, b)
    BY <1>1, <1>2, <1>3, <1>5, UnderElems
  <1> QED BY <1>6 DEF a, b

-------------------------------------------------------------------------------
(* One update of the index.                                                 *)

LEMMA NothingType == Nothing \in TreeMap /\ Files(Nothing) = {} /\ \A p \in Paths : Nothing[p] = None
  BY DEF Nothing, TreeMap, Slot, Files

LEMMA UpdateType ==
  ASSUME NEW ix \in TreeMap, NEW puts \in TreeMap, NEW gone, Flat(ix)
  PROVE  UpdateIndex(ix, gone, puts) \in TreeMap /\ Flat(UpdateIndex(ix, gone, puts))
  <1> DEFINE new == UpdateIndex(ix, gone, puts)
  <1>1. new \in TreeMap
    BY DEF UpdateIndex, TreeMap, Slot
  <1>2. \A q \in Files(new) :
          \/ q \in Files(puts) /\ ~ \E r \in Files(puts) : Inside(r, q)
          \/ q \in Files(ix) /\ ~ \E r \in Files(puts) : Clashes(q, r)
    BY DEF UpdateIndex, Files
  <1> HIDE DEF new
  <1>3. ASSUME NEW p \in Files(new), NEW q \in Files(new), Inside(q, p) PROVE FALSE
    BY <1>2, <1>3 DEF Clashes, Flat
  <1>4. Flat(new)
    BY <1>3 DEF Flat
  <1> QED BY <1>1, <1>4 DEF new

\* Clashes are with paths above and below.
LEMMA NoClash ==
  ASSUME NEW q \in Name, NEW r \in Name, ~Under(q, r), ~Under(r, q)
  PROVE  ~Clashes(q, r)
  BY DEF Clashes, Inside

-------------------------------------------------------------------------------
(* The invariant.                                                           *)

TypeInv == TypeOK /\ head \in TreeMap

\* The index is what the operations ask for, those of its files that were put are
\* remembered, and nothing else is, unless a put made a directory of a file.
SameInv ==
  status = "staging" =>
    \A q \in Paths :
      /\ wanted[q].blob = index[q]
      /\ wanted[q].put => pending[q] # None /\ pending[q] = index[q]
      /\ ~clash /\ pending[q] # None => wanted[q].put

\* Nothing was put under a policy, and the index holds nothing new there.
PolicyInv ==
  status = "staging" =>
    \A q \in Paths : ~MayWrite(q) => index[q] \in {None, head[q]} /\ ~wanted[q].put

\* What is remembered lies in no directory of one name that is under a policy: a
\* move takes it along only into a directory that files may be written in.
TopInv == \A q \in Paths : pending[q] # None => MayWrite(<<q[1]>>)

IInv == TypeInv /\ SameInv /\ PolicyInv /\ TopInv

\* Where a path may be written, so may the name it begins with.
LEMMA TopIsOpen ==
  ASSUME NEW p \in Name, p # <<>>, MayWrite(p) PROVE MayWrite(<<p[1]>>)
  <1> SUFFICES ASSUME NEW b \in Blocked, Under(<<p[1]>>, b) PROVE Under(p, b)
    BY DEF MayWrite
  <1>1. b \in Name /\ b # <<>>
    BY PathAssumption DEF Name
  <1>2. <<p[1]>> \in Name /\ Len(<<p[1]>>) = 1 /\ Len(p) \in Nat /\ Len(p) >= 1
    BY DEF Name
  <1>3. Len(b) <= 1 /\ \A i \in 1 .. Len(b) : <<p[1]>>[i] = b[i]
    BY <1>1, <1>2, UnderElems
  <1>4. Len(b) = 1
    BY <1>1, <1>3 DEF Name
  <1>5. \A i \in 1 .. Len(b) : p[i] = b[i]
    BY <1>3, <1>4
  <1> QED BY <1>1, <1>2, <1>4, <1>5, UnderElems

LEMMA InitIInv == Init => IInv
  <1> SUFFICES ASSUME Init PROVE IInv
    OBVIOUS
  <1>1. head \in TreeMap /\ Flat(head) /\ index = head
    BY HeadAssumption DEF Init
  <1>2. wanted \in [Paths -> [blob : Slot, put : BOOLEAN]]
    BY <1>1 DEF Init, TreeMap
  <1>3. 0 \in 0 .. MaxOps
    BY HeadAssumption
  <1>4. TypeInv
    BY <1>1, <1>2, <1>3, NothingType DEF Init, TypeInv, TypeOK
  <1>5. SameInv /\ PolicyInv /\ TopInv
    BY <1>1, NothingType DEF Init, SameInv, PolicyInv, TopInv
  <1> QED BY <1>4, <1>5 DEF IInv

LEMMA PutStep ==
  ASSUME IInv, status = "staging", NEW p \in Paths, NEW b \in Blobs, Put(p, b), MayWrite(p),
         ops' \in 0 .. MaxOps
  PROVE  IInv'
  <1> DEFINE one == [Nothing EXCEPT ![p] = b]
  <1>0. /\ index \in TreeMap /\ pending \in TreeMap /\ Flat(index) /\ clash \in BOOLEAN
        /\ wanted \in [Paths -> [blob : Slot, put : BOOLEAN]] /\ b # None /\ b \in Slot
    BY BlobAssumption DEF IInv, TypeInv, TypeOK, Slot
  <1>1. one \in TreeMap /\ one[p] = b /\ (\A q \in Paths \ {p} : one[q] = None) /\ Files(one) = {p}
    BY <1>0, NothingType DEF TreeMap, Files
  <1> HIDE DEF one
  <1>2. /\ index' = UpdateIndex(index, {}, one)
        /\ pending' = [RemovePending(p) EXCEPT ![p] = b]
        /\ wanted' = [q \in Paths |-> IF q = p THEN [blob |-> b, put |-> TRUE]
                                      ELSE IF Clashes(q, p) THEN [blob |-> None, put |-> FALSE]
                                      ELSE wanted[q]]
        /\ clash' = (clash \/ \E q \in Files(index) : Inside(p, q))
        /\ seen' = seen \cup {p} /\ UNCHANGED <<head, unborn, status, tree>>
    BY DEF Put, one
  <1>3. index' \in TreeMap /\ Flat(index')
    BY <1>0, <1>1, <1>2, UpdateType
  <1>4. pending' \in TreeMap
    BY <1>0, <1>2 DEF TreeMap, RemovePending, Slot
  <1>5. wanted' \in [Paths -> [blob : Slot, put : BOOLEAN]]
    BY <1>0, <1>2 DEF Slot
  <1>6. TypeInv'
    BY <1>2, <1>3, <1>4, <1>5 DEF IInv, TypeInv, TypeOK
  <1>7. ASSUME NEW q \in Paths
        PROVE  /\ index'[q] = IF q = p THEN b ELSE IF Clashes(q, p) THEN None ELSE index[q]
               /\ pending'[q] = IF q = p THEN b ELSE IF Inside(q, p) THEN None ELSE pending[q]
               /\ wanted'[q] = IF q = p THEN [blob |-> b, put |-> TRUE]
                               ELSE IF Clashes(q, p) THEN [blob |-> None, put |-> FALSE] ELSE wanted[q]
    <2>1. index'[q] = IF q = p THEN b ELSE IF Clashes(q, p) THEN None ELSE index[q]
      BY <1>0, <1>1, <1>2 DEF UpdateIndex, Inside
    <2>2. pending'[q] = IF q = p THEN b ELSE IF Under(q, p) THEN None ELSE pending[q]
      BY <1>0, <1>2 DEF RemovePending, TreeMap
    <2> QED BY <1>2, <2>1, <2>2 DEF Inside
  <1>8. ASSUME ~clash', NEW q \in Paths, pending'[q] # None
        PROVE  wanted'[q].put
    <2>1. ~clash /\ (Inside(p, q) => index[q] = None)
      BY <1>0, <1>2, <1>8 DEF Files
    <2>2. CASE q = p
      BY <1>7, <2>2
    <2>3. CASE q # p
      <3>1. ~Inside(q, p) /\ pending[q] # None
        BY <1>7, <1>8, <2>3
      <3>2. wanted[q].put /\ index[q] # None
        BY <2>1, <3>1 DEF IInv, SameInv
      <3>3. ~Clashes(q, p)
        BY <2>1, <3>1, <3>2 DEF Clashes
      <3> QED BY <1>7, <2>3, <3>2, <3>3
    <2> QED BY <2>2, <2>3
  <1>9. SameInv'
    <2> SUFFICES ASSUME NEW q \in Paths
                 PROVE  /\ wanted'[q].blob = index'[q]
                        /\ wanted'[q].put => pending'[q] # None /\ pending'[q] = index'[q]
      BY <1>8 DEF SameInv
    <2> QED BY <1>0, <1>7 DEF IInv, SameInv, Clashes
  <1>10. PolicyInv'
    <2> SUFFICES ASSUME NEW q \in Paths, ~MayWrite(q)
                 PROVE  index'[q] \in {None, head[q]} /\ ~wanted'[q].put
      BY <1>2 DEF PolicyInv, MayWrite
    <2>1. q # p
      OBVIOUS
    <2> QED BY <1>7, <2>1 DEF IInv, PolicyInv
  <1>11. TopInv'
    <2>1. MayWrite(<<p[1]>>)
      BY PathsAreNames, PathAssumption, TopIsOpen
    <2>2. \A q \in Paths : pending'[q] # None => q = p \/ pending[q] # None
      BY <1>7
    <2> QED BY <2>1, <2>2 DEF IInv, TopInv, MayWrite
  <1> QED BY <1>6, <1>9, <1>10, <1>11 DEF IInv

LEMMA DeleteStep ==
  ASSUME IInv, status = "staging", NEW p \in Paths, Delete(p), Entries(p) # {},
         ops' \in 0 .. MaxOps
  PROVE  IInv'
  <1>0. /\ index \in TreeMap /\ pending \in TreeMap /\ Flat(index)
        /\ wanted \in [Paths -> [blob : Slot, put : BOOLEAN]]
    BY DEF IInv, TypeInv, TypeOK
  <1>1. /\ index' = UpdateIndex(index, Entries(p), Nothing)
        /\ pending' = RemovePending(p)
        /\ wanted' = [q \in Paths |-> IF Under(q, p) THEN [blob |-> None, put |-> FALSE]
                                      ELSE wanted[q]]
        /\ seen' = seen \cup {p} /\ UNCHANGED <<head, unborn, status, tree, clash>>
    BY DEF Delete
  <1>2. index' \in TreeMap /\ Flat(index')
    BY <1>0, <1>1, NothingType, UpdateType
  <1>3. pending' \in TreeMap /\ wanted' \in [Paths -> [blob : Slot, put : BOOLEAN]]
    BY <1>0, <1>1 DEF TreeMap, RemovePending, Slot
  <1>4. TypeInv'
    BY <1>1, <1>2, <1>3 DEF IInv, TypeInv, TypeOK
  <1>5. ASSUME NEW q \in Paths
        PROVE  /\ index'[q] = IF Under(q, p) THEN None ELSE index[q]
               /\ pending'[q] = IF Under(q, p) THEN None ELSE pending[q]
    BY <1>1, NothingType DEF UpdateIndex, Entries, Files, RemovePending
  <1>6. ASSUME NEW q \in Paths
        PROVE  wanted'[q] = IF Under(q, p) THEN [blob |-> None, put |-> FALSE] ELSE wanted[q]
    BY <1>1
  <1>7. SameInv'
    <2> SUFFICES ASSUME NEW q \in Paths
                 PROVE  /\ wanted'[q].blob = index'[q]
                        /\ wanted'[q].put => pending'[q] # None /\ pending'[q] = index'[q]
                        /\ ~clash /\ pending'[q] # None => wanted'[q].put
      BY <1>1 DEF SameInv
    <2> QED BY <1>5, <1>6 DEF IInv, SameInv
  <1>8. PolicyInv'
    BY <1>1, <1>5, <1>6 DEF IInv, PolicyInv, MayWrite
  <1>9. TopInv'
    BY <1>5 DEF IInv, TopInv, MayWrite
  <1> QED BY <1>4, <1>7, <1>8, <1>9 DEF IInv

\* The files of a move go where nothing is in their way.
LEMMA MovedIndex ==
  ASSUME TypeInv, NEW from \in Paths, NEW dest \in Paths, Move(from, dest),
         Entries(from) # {}, ~Occupied(dest), TargetsAllowed(from, dest), ~Under(dest, from)
  PROVE  /\ \A s \in Paths : Under(s, from) =>
              /\ Under(Rebase(s, from, dest), dest)
              /\ Rebase(Rebase(s, from, dest), dest, from) = s
              /\ Rebase(s, from, dest) \in Name
         /\ \A q \in Paths : Under(q, dest) =>
              /\ Under(Rebase(q, dest, from), from)
              /\ Rebase(Rebase(q, dest, from), from, dest) = q
              /\ index[q] = None /\ ~Under(q, from)
         /\ \A q \in Paths :
              index'[q] = IF Under(q, dest) /\ Rebase(q, dest, from) \in Paths
                          THEN index[Rebase(q, dest, from)]
                          ELSE IF Under(q, from) THEN None ELSE index[q]
         /\ index' \in TreeMap /\ Flat(index')
  <1> DEFINE puts == [q \in Paths |-> IF \E s \in Entries(from) : Rebase(s, from, dest) = q
                                      THEN index[Rebase(q, dest, from)] ELSE None]
             Source(q) == Rebase(q, dest, from)
             Hit(q) == Under(q, dest) /\ Source(q) \in Paths
  <1>0. index \in TreeMap /\ Flat(index) /\ Paths \subseteq Name
    BY PathsAreNames DEF TypeInv, TypeOK
  <1>1. index' = UpdateIndex(index, Entries(from), puts)
    BY DEF Move
  \* Paths under the source, and under the destination.
  <1>2. ASSUME NEW s \in Paths, Under(s, from)
        PROVE  /\ Under(Rebase(s, from, dest), dest) /\ Source(Rebase(s, from, dest)) = s
               /\ Rebase(s, from, dest) \in Name
    BY <1>0, <1>2, RebaseBack, RebaseElems
  <1>3. ASSUME NEW q \in Paths, Under(q, dest)
        PROVE  /\ Under(Source(q), from) /\ Rebase(Source(q), from, dest) = q
               /\ index[q] = None /\ ~Under(q, from)
    <2>1. Under(Source(q), from) /\ Rebase(Source(q), from, dest) = q
      BY <1>0, <1>3, RebaseBack
    <2>2. index[q] = None
      BY <1>3 DEF Occupied, Entries, Files
    <2>3. ~Under(from, dest)
      <3>1. PICK s \in Files(index) : Under(s, from)
        BY DEF Entries
      <3>2. Under(from, dest) => Under(s, dest)
        BY <1>0, <3>1, UnderOrder DEF Files
      <3> QED BY <3>1, <3>2 DEF Occupied, Entries
    <2>4. Under(q, from) => Under(from, dest) \/ Under(dest, from)
      BY <1>0, <1>3, UnderOrder
    <2> QED BY <2>1, <2>2, <2>3, <2>4
  <1>4. ASSUME NEW q \in Paths
        PROVE  puts[q] = IF Hit(q) THEN index[Source(q)] ELSE None
    <2>1. CASE Hit(q)
      <3>1. Source(q) \in Entries(from) <=> index[Source(q)] # None
        BY <1>3, <2>1 DEF Entries, Files
      <3>2. \A s \in Entries(from) : Rebase(s, from, dest) = q => s = Source(q)
        BY <1>2 DEF Entries, Files
      <3> QED BY <1>3, <2>1, <3>1, <3>2
    <2>2. CASE ~Hit(q)
      <3>1. ~ \E s \in Entries(from) : Rebase(s, from, dest) = q
        BY <1>2, <2>2 DEF Entries, Files
      <3> QED BY <2>2, <3>1
    <2> QED BY <2>1, <2>2
  <1>5. puts \in TreeMap
    BY <1>0, <1>4 DEF TreeMap, Slot
  <1> HIDE DEF puts
  <1>6. ASSUME NEW q \in Paths, NEW r \in Files(puts)
        PROVE  /\ q \in Files(index) => ~Clashes(q, r)
               /\ q \in Files(puts) => ~Inside(r, q)
    <2>1. r \in Paths /\ Under(r, dest) /\ Source(r) \in Files(index) /\ Rebase(Source(r), from, dest) = r
      BY <1>3, <1>4 DEF Files
    <2>2. q \in Files(index) => ~Under(q, dest) /\ ~Under(dest, q)
      BY <1>0, UnderOrder DEF Occupied, ParentOccupied, Entries, Inside, Files
    <2>3. q \in Files(index) => ~Clashes(q, r)
      <3>1. Under(q, r) => Under(q, dest)
        BY <1>0, <2>1, UnderOrder
      <3>2. Under(r, q) => Under(q, dest) \/ Under(dest, q)
        BY <1>0, <2>1, UnderOrder
      <3> QED BY <1>0, <2>1, <2>2, <3>1, <3>2, NoClash
    <2>4. q \in Files(puts) => ~Inside(r, q)
      <3> SUFFICES ASSUME q \in Files(puts), Under(r, q) PROVE r = q
        BY DEF Inside
      <3>1. Under(q, dest) /\ Source(q) \in Files(index) /\ Rebase(Source(q), from, dest) = q
        BY <1>3, <1>4 DEF Files
      <3>2. Under(Source(r), Source(q))
        BY <1>0, <2>1, <3>1, RebaseOrder
      <3>3. Source(r) = Source(q)
        BY <1>0, <2>1, <3>1, <3>2 DEF Flat, Inside
      <3> QED BY <2>1, <3>1, <3>3
    <2> QED BY <2>3, <2>4
  <1>7. ASSUME NEW q \in Paths
        PROVE  index'[q] = IF Hit(q) THEN index[Source(q)]
                           ELSE IF Under(q, from) THEN None ELSE index[q]
    <2>0. index'[q] = IF puts[q] # None /\ ~ \E r \in Files(puts) : Inside(r, q) THEN puts[q]
                      ELSE IF q \in Entries(from) \/ \E r \in Files(puts) : Clashes(q, r) THEN None
                      ELSE index[q]
      BY <1>1 DEF UpdateIndex
    <2>1. CASE puts[q] # None
      BY <1>4, <1>6, <2>0, <2>1 DEF Files
    <2>2. CASE puts[q] = None
      <3>1. index'[q] = IF q \in Entries(from) THEN None ELSE index[q]
        BY <1>6, <2>0, <2>2 DEF Files
      <3> QED BY <1>3, <1>4, <2>2, <3>1 DEF Entries, Files
    <2> QED BY <2>1, <2>2
  <1>8. index' \in TreeMap /\ Flat(index')
    BY <1>0, <1>1, <1>5, UpdateType
  <1> HIDE DEF Hit, Source
  <1>9. QED BY <1>2, <1>3, <1>7, <1>8 DEF Hit, Source

\* The remembered puts go with the files that are moved.
LEMMA MoveStep ==
  ASSUME IInv, status = "staging", NEW from \in Paths, NEW dest \in Paths, Move(from, dest),
         Entries(from) # {}, ~Occupied(dest), TargetsAllowed(from, dest), ~Under(dest, from),
         ops' \in 0 .. MaxOps
  PROVE  IInv'
  <1> DEFINE Source(q) == Rebase(q, dest, from)
             Hit(q) == Under(q, dest) /\ Source(q) \in Paths
             none == [blob |-> None, put |-> FALSE]
  <1>0. /\ index \in TreeMap /\ pending \in TreeMap /\ Flat(index)
        /\ wanted \in [Paths -> [blob : Slot, put : BOOLEAN]] /\ Paths \subseteq Name
    BY PathsAreNames DEF IInv, TypeInv, TypeOK
  <1>1. /\ pending' = MovePending(from, dest)
        /\ wanted' = Renamed(wanted, from, dest, none)
        /\ UNCHANGED <<head, unborn, seen, status, tree, clash>>
    BY DEF Move
  <1> HIDE DEF none
  <1>2. ASSUME NEW s \in Paths, Under(s, from)
        PROVE  /\ Under(Rebase(s, from, dest), dest) /\ Source(Rebase(s, from, dest)) = s
               /\ Rebase(s, from, dest) \in Name
    BY <1>2, MovedIndex DEF IInv
  <1>3. ASSUME NEW q \in Paths, Under(q, dest)
        PROVE  /\ Under(Source(q), from) /\ Rebase(Source(q), from, dest) = q
               /\ index[q] = None /\ ~Under(q, from)
    BY <1>3, MovedIndex DEF IInv
  <1>7. ASSUME NEW q \in Paths
        PROVE  index'[q] = IF Hit(q) THEN index[Source(q)]
                           ELSE IF Under(q, from) THEN None ELSE index[q]
    BY MovedIndex DEF IInv
  <1>8. index' \in TreeMap /\ Flat(index')
    BY MovedIndex DEF IInv
  <1>9. ASSUME NEW q \in Paths
        PROVE  \/ Hit(q) /\ pending[Source(q)] # None /\ pending'[q] = pending[Source(q)]
               \/ /\ ~(Hit(q) /\ pending[Source(q)] # None)
                  /\ pending'[q] = IF Under(q, from) THEN None ELSE pending[q]
    <2> DEFINE moved == {s \in Files(pending) : Under(s, from)}
    <2>0. pending'[q] = IF \E s \in moved : Rebase(s, from, dest) = q
                        THEN pending[CHOOSE s \in moved : Rebase(s, from, dest) = q]
                        ELSE IF q \in moved THEN None ELSE pending[q]
      BY <1>1 DEF MovePending
    <2>1. \A s \in moved : s \in Paths /\ Under(s, from) /\ pending[s] # None
      BY DEF Files
    <2>2. \A s \in moved : Rebase(s, from, dest) = q => s = Source(q) /\ Under(q, dest)
      BY <1>2, <2>1
    <2>3. CASE \E s \in moved : Rebase(s, from, dest) = q
      <3>1. (CHOOSE s \in moved : Rebase(s, from, dest) = q) = Source(q)
        BY <2>2, <2>3
      <3> QED BY <2>0, <2>1, <2>2, <2>3, <3>1
    <2>4. CASE ~ \E s \in moved : Rebase(s, from, dest) = q
      <3>1. ~(Hit(q) /\ pending[Source(q)] # None)
        BY <1>3, <2>4 DEF Files
      <3>2. pending'[q] = IF Under(q, from) THEN None ELSE pending[q]
        BY <2>0, <2>4 DEF Files
      <3> QED BY <3>1, <3>2
    <2> QED BY <2>3, <2>4
  <1>10. pending' \in TreeMap
    <2>1. \A q \in Paths : pending'[q] \in Slot
      BY <1>0, <1>9 DEF TreeMap, Slot
    <2> QED BY <1>1, <2>1 DEF MovePending, TreeMap
  <1>11. ASSUME NEW q \in Paths
         PROVE  wanted'[q] = IF Hit(q) THEN wanted[Source(q)]
                             ELSE IF Under(q, from) THEN none ELSE wanted[q]
    BY <1>1 DEF Renamed
  <1>12. wanted' \in [Paths -> [blob : Slot, put : BOOLEAN]]
    <2>1. none \in [blob : Slot, put : BOOLEAN]
      BY DEF none, Slot
    <2>2. \A q \in Paths : wanted'[q] \in [blob : Slot, put : BOOLEAN]
      BY <1>0, <1>11, <2>1
    <2> QED BY <1>1, <2>2 DEF Renamed
  <1>13. TypeInv'
    BY <1>1, <1>8, <1>10, <1>12 DEF IInv, TypeInv, TypeOK
  <1> HIDE DEF Source
  <1>14. none.blob = None /\ none.put = FALSE
    BY DEF none
  <1>15. SameInv'
    <2> SUFFICES ASSUME NEW q \in Paths
                 PROVE  /\ wanted'[q].blob = index'[q]
                        /\ wanted'[q].put => pending'[q] # None /\ pending'[q] = index'[q]
                        /\ ~clash /\ pending'[q] # None => wanted'[q].put
      BY <1>1 DEF SameInv
    <2>1. CASE Hit(q)
      <3>1. wanted'[q] = wanted[Source(q)] /\ index'[q] = index[Source(q)] /\ Source(q) \in Paths
        BY <1>7, <1>11, <2>1
      <3>2. pending[Source(q)] # None => pending'[q] = pending[Source(q)]
        BY <1>9, <2>1
      \* The puts are files of the index, so none is at the destination.
      <3>3. ~clash /\ pending[Source(q)] = None => pending'[q] = None
        BY <1>3, <1>9, <2>1 DEF IInv, SameInv
      <3> QED BY <3>1, <3>2, <3>3 DEF IInv, SameInv
    <2>2. CASE ~Hit(q)
      BY <1>7, <1>9, <1>11, <1>14, <2>2 DEF IInv, SameInv
    <2> QED BY <2>1, <2>2
  <1>16. PolicyInv'
    <2> SUFFICES ASSUME NEW q \in Paths, ~MayWrite(q)
                 PROVE  index'[q] \in {None, head[q]} /\ ~wanted'[q].put
      BY <1>1 DEF PolicyInv, MayWrite
    <2>1. CASE Hit(q)
      <3>1. index[Source(q)] = None
        BY <1>3, <2>1 DEF TargetsAllowed, Entries, Files
      <3>2. ~wanted[Source(q)].put
        BY <2>1, <3>1 DEF IInv, SameInv
      <3> QED BY <1>7, <1>11, <2>1, <3>1, <3>2
    <2>2. CASE ~Hit(q)
      BY <1>7, <1>11, <1>14, <2>2 DEF IInv, PolicyInv
    <2> QED BY <2>1, <2>2
  <1>17. TopInv'
    <2> SUFFICES ASSUME NEW q \in Paths, pending'[q] # None PROVE MayWrite(<<q[1]>>)
      BY DEF TopInv, MayWrite
    <2>1. CASE Hit(q)
      <3>1. PICK s \in Entries(from) : s \in Paths /\ Under(s, from)
        BY DEF Entries, Files
      <3>2. MayWrite(Rebase(s, from, dest))
        BY <3>1 DEF TargetsAllowed
      <3>3. dest \in Name /\ dest # <<>> /\ Len(dest) \in Nat /\ Len(dest) >= 1
        BY <1>0, PathAssumption DEF Name
      <3>4. q[1] = dest[1]
        BY <1>0, <2>1, <3>3, UnderElems
      <3>5. Rebase(s, from, dest) \in Name /\ Rebase(s, from, dest)[1] = dest[1]
        BY <1>0, <3>1, <3>3, RebaseElems
      <3>6. Rebase(s, from, dest) # <<>>
        <4>1. Under(Rebase(s, from, dest), dest)
          BY <1>2, <3>1
        <4> QED BY <3>3, <4>1 DEF Under
      <3> QED BY <3>2, <3>4, <3>5, <3>6, TopIsOpen
    <2>2. CASE ~Hit(q)
      BY <1>9, <2>2 DEF IInv, TopInv
    <2> QED BY <2>1, <2>2
  <1> QED BY <1>13, <1>15, <1>16, <1>17 DEF IInv

LEMMA StageStep == ASSUME IInv, Stage PROVE IInv'
  <1>1. status = "staging" /\ ops' \in 0 .. MaxOps
    BY HeadAssumption DEF Stage, IInv, TypeInv, TypeOK
  <1>2. CASE Refuse
    BY <1>1, <1>2 DEF Refuse, IInv, TypeInv, TypeOK, SameInv, PolicyInv, TopInv, MayWrite
  <1>3. ASSUME NEW p \in Paths, NEW b \in Blobs, Put(p, b) PROVE IInv'
    BY <1>1, <1>2, <1>3, PutStep DEF Put
  <1>4. ASSUME NEW p \in Paths, Delete(p) PROVE IInv'
    BY <1>1, <1>2, <1>4, DeleteStep DEF Delete
  <1>5. ASSUME NEW from \in Paths, NEW dest \in Paths, MayMove(from, dest), Move(from, dest)
        PROVE  IInv'
    BY <1>1, <1>2, <1>5, MoveStep DEF Move, MayMove
  <1> QED BY <1>3, <1>4, <1>5 DEF Stage

-------------------------------------------------------------------------------
(* The tree.                                                                *)

LEMMA CleanedType ==
  ASSUME TypeInv
  PROVE  /\ Cleaned \in TreeMap /\ Files(Cleaned) = Files(pending)
         /\ \A q \in Paths : Cleaned[q] = IF pending[q] # None /\ q \in Tracked(index)
                                          THEN LfsClean(pending[q]) ELSE pending[q]
  <1>1. \A b \in Blobs : LfsClean(b) \in Blobs
    BY BlobAssumption DEF LfsClean
  <1>2. \A q \in Paths : Cleaned[q] = IF pending[q] # None /\ q \in Tracked(index)
                                      THEN LfsClean(pending[q]) ELSE pending[q]
    BY DEF Cleaned
  <1>3. pending \in TreeMap
    BY DEF TypeInv, TypeOK
  <1>4. \A q \in Paths : Cleaned[q] \in Slot /\ (Cleaned[q] = None <=> pending[q] = None)
    BY <1>1, <1>2, <1>3, BlobAssumption DEF TreeMap, Slot
  <1>5. Cleaned \in TreeMap
    BY <1>4 DEF Cleaned, TreeMap
  <1>6. Files(Cleaned) = Files(pending)
    BY <1>4 DEF Files
  <1> QED BY <1>2, <1>5, <1>6

\* Where no stale put is, above or below, the puts are files of a flat index, so
\* that writing them again only replaces the tracked ones by their pointers.
LEMMA WrittenTree ==
  ASSUME TypeInv, SameInv, status = "staging", NEW p \in Paths,
         \A q \in Paths : q = p \/ Clashes(p, q) => ~Stale(q)
  PROVE  UpdateIndex(index, {}, Cleaned)[p] =
           IF wanted[p].put /\ p \in Tracked(index) THEN LfsClean(index[p]) ELSE index[p]
  <1>1. \A r \in Files(pending) : r = p \/ Clashes(p, r) => r \in Files(index) /\ pending[r] = index[r]
    BY DEF SameInv, Stale, Files
  <1>2. Flat(index)
    BY DEF TypeInv, TypeOK
  <1>3. pending[p] # None => ~ \E r \in Files(pending) : Inside(r, p)
    BY <1>1, <1>2 DEF Flat, Files, Clashes
  <1>4. index[p] # None => ~ \E r \in Files(pending) : Clashes(p, r)
    BY <1>1, <1>2 DEF Flat, Files, Clashes
  <1>5. pending[p] # None => wanted[p].put /\ pending[p] = index[p]
    BY <1>1 DEF Stale, Files
  <1>6. wanted[p].put => pending[p] # None
    BY DEF SameInv
  <1> QED BY <1>3, <1>4, <1>5, <1>6, CleanedType DEF UpdateIndex, Files

\* What the properties say of a tree, once it is written.
DoneInv == ReplayIsHarmless /\ BlockedPathsKeepContent

LEMMA WriteStep == ASSUME IInv, Write PROVE IInv' /\ DoneInv'
  <1>1. status = "staging" /\ UNCHANGED ops
    BY DEF Write
  <1>2. CASE Refuse
    BY <1>1, <1>2 DEF Refuse, IInv, TypeInv, TypeOK, SameInv, PolicyInv, TopInv, MayWrite, DoneInv,
                      ReplayIsHarmless, BlockedPathsKeepContent
  <1>3. CASE ~Refuse
    <2> DEFINE new == UpdateIndex(index, {}, Cleaned)
    <2>1. /\ index' = new /\ tree' = new /\ status' = "written"
          /\ UNCHANGED <<head, unborn, pending, seen, wanted, clash>>
      BY <1>3 DEF Write
    <2>2. new \in TreeMap /\ Flat(new)
      BY CleanedType, UpdateType DEF IInv, TypeInv, TypeOK
    <2> HIDE DEF new
    <2>3. IInv'
      BY <1>1, <2>1, <2>2 DEF IInv, TypeInv, TypeOK, SameInv, PolicyInv, TopInv, MayWrite
    <2>4. ASSUME NEW q \in Paths, Stale(q) PROVE clash /\ Stale(q)'
      BY <1>1, <2>1, <2>4 DEF IInv, TypeInv, TypeOK, SameInv, Stale
    <2>5. ReplayIsHarmless'
      <3> DEFINE asked == [p \in Paths |-> wanted[p].blob]
      <3>1. asked = index
        BY <1>1 DEF IInv, SameInv, TypeInv, TypeOK, TreeMap
      <3>2. InOrder' = [p \in Paths |-> IF wanted[p].put /\ p \in Tracked(asked)
                                        THEN LfsClean(wanted[p].blob) ELSE wanted[p].blob]
        BY <2>1 DEF InOrder, Tracked, LfsClean
      <3> HIDE DEF asked
      <3> SUFFICES ASSUME NEW p \in Paths, \A q \in Paths : q = p \/ Clashes(p, q) => ~Stale(q)
                   PROVE  new[p] = InOrder'[p]
        BY <2>1, <2>4 DEF ReplayIsHarmless
      <3>3. new[p] = IF wanted[p].put /\ p \in Tracked(index) THEN LfsClean(index[p]) ELSE index[p]
        BY <1>1, WrittenTree DEF IInv, new
      <3>4. wanted[p].blob = index[p]
        BY <1>1 DEF IInv, SameInv
      <3> QED BY <3>1, <3>2, <3>3, <3>4
    <2>6. BlockedPathsKeepContent'
      <3>0. ASSUME NEW p \in Paths, Stale(p) PROVE MayWrite(<<p[1]>>)
        BY <3>0 DEF IInv, TopInv, Stale
      <3> SUFFICES ASSUME NEW p \in Paths, ~MayWrite(p), ~Stale(p) PROVE new[p] \in {None, head[p]}
        BY <2>1, <2>4, <3>0 DEF BlockedPathsKeepContent, MayWrite
      <3>1. pending[p] = None /\ index[p] \in {None, head[p]}
        BY <1>1 DEF IInv, PolicyInv, Stale
      <3>2. new[p] \in {None, index[p]}
        BY <3>1, CleanedType DEF IInv, UpdateIndex, new
      <3> QED BY <3>1, <3>2
    <2> QED BY <2>3, <2>5, <2>6 DEF DoneInv
  <1> QED BY <1>2, <1>3

LEMMA StepInv == ASSUME IInv, DoneInv, [Next]_vars PROVE IInv' /\ DoneInv'
  <1>1. CASE Stage
    <2>1. status' # "written"
      BY <1>1 DEF Stage, Put, Delete, Move, Refuse
    <2> QED BY <1>1, <2>1, StageStep
            DEF DoneInv, ReplayIsHarmless, BlockedPathsKeepContent
  <1>2. CASE UNCHANGED vars
    BY <1>2 DEF vars, IInv, TypeInv, TypeOK, SameInv, PolicyInv, TopInv, MayWrite, DoneInv, ReplayIsHarmless,
                InOrder, Tracked, LfsClean, Stale, BlockedPathsKeepContent, MayWrite
  <1> QED BY <1>1, <1>2, WriteStep DEF Next, Answered

LEMMA Always == Spec => [](IInv /\ DoneInv)
  <1>1. Init => DoneInv
    BY DEF Init, DoneInv, ReplayIsHarmless, BlockedPathsKeepContent
  <1> QED BY <1>1, InitIInv, StepInv, PTL DEF Spec

\* No index and no tree holds a file together with files below it.
THEOREM TypeCorrect == Spec => []TypeOK
  <1>1. IInv => TypeOK
    BY DEF IInv, TypeInv
  <1> QED BY <1>1, Always, PTL

\* The tree of a commit is the one its operations ask for in array order, but at, above
\* and below the stale puts of a request that made a directory of a file.
THEOREM ReplayStaysHarmless == Spec => []ReplayIsHarmless
  <1>1. DoneInv => ReplayIsHarmless
    BY DEF DoneInv
  <1> QED BY <1>1, Always, PTL

\* No commit adds or changes a file under a policy, but for a stale put of such a
\* request, and never in a directory at the top of the tree that is blocked as a
\* whole.
THEOREM PoliciesAreKept == Spec => []BlockedPathsKeepContent
  <1>1. DoneInv => BlockedPathsKeepContent
    BY DEF DoneInv
  <1> QED BY <1>1, Always, PTL

\* A move of a file or a directory only renames: what it moves has its content at
\* the new path, every other file keeps its own, so that nothing is overwritten
\* (local_commit.go:342, local_commit.go:411).
THEOREM MovesKeepFiles == Spec => MovesLoseNothing
  <1>1. ASSUME IInv, NEW from \in Paths, NEW dest \in Paths, MayMove(from, dest),
               Move(from, dest), index' # index, NEW q \in Files(index)
        PROVE  index'[IF Under(q, from) THEN Rebase(q, from, dest) ELSE q] = index[q]
    <2>1. /\ Entries(from) # {} /\ ~Occupied(dest) /\ TargetsAllowed(from, dest)
          /\ ~Under(dest, from) /\ q \in Paths
      BY <1>1 DEF Move, Refuse, MayMove, Files
    <2>2. CASE Under(q, from)
      <3>1. Rebase(q, from, dest) \in Paths
        BY <1>1, <2>2 DEF MayMove
      <3>2. QED BY <1>1, <2>1, <2>2, <3>1, MovedIndex DEF IInv
    <2>3. CASE ~Under(q, from)
      <3>1. ~Under(q, dest)
        BY <2>1 DEF Occupied, Entries
      <3>2. QED BY <1>1, <2>1, <2>3, <3>1, MovedIndex DEF IInv
    <2>4. QED BY <2>2, <2>3
  <1>2. IInv => [ \A from, dest \in Paths :
                    MayMove(from, dest) /\ Move(from, dest) /\ index' # index =>
                      \A q \in Files(index) :
                        index'[IF Under(q, from) THEN Rebase(q, from, dest) ELSE q] = index[q] ]_vars
    BY <1>1
  <1>3. QED BY <1>2, Always, PTL DEF MovesLoseNothing
===============================================================================
