------------------------------ MODULE Deliveries ------------------------------
(***************************************************************************)
(* What the webhook service promises, as a ledger with one line for each   *)
(* event and registration: no channel, no workers, no process.  An event   *)
(* is open from its announcement until it is done or lost.  Only an open   *)
(* event is posted, to nobody who had left before, a bounded number of     *)
(* times, and never again once accepted; it is done only when everyone who *)
(* was there from the announcement on has accepted it or had every attempt.*)
(***************************************************************************)
EXTENDS Naturals

CONSTANTS Events, Ids, Attempts

VARIABLES
  registered, retired,   \* ids of registrations: those there are, those deleted
  fate,                  \* of an event: new, open, done or lost
  owed,                  \* who was registered for it when it was announced
  barred,                \* who had left before
  posts, accepted

vars == <<registered, retired, fate, owed, barred, posts, accepted>>

Init ==
  /\ registered = {} /\ retired = {} /\ accepted = {}
  /\ fate = [e \in Events |-> "new"]
  /\ owed = [e \in Events |-> {}] /\ barred = [e \in Events |-> {}]
  /\ posts = [e \in Events |-> [i \in Ids |-> 0]]

\* Ids are never given again.
Register(i) ==
  /\ i \notin registered \cup retired
  /\ registered' = registered \cup {i}
  /\ UNCHANGED <<retired, fate, owed, barred, posts, accepted>>

Retire(S) ==
  /\ S \subseteq registered
  /\ registered' = registered \ S /\ retired' = retired \cup S
  /\ UNCHANGED <<fate, owed, barred, posts, accepted>>

\* An event that cannot be taken on is lost at once.
Announce(e) ==
  /\ fate[e] = "new"
  /\ \E f \in {"open", "lost"} : fate' = [fate EXCEPT ![e] = f]
  /\ \E S \in SUBSET registered : owed' = [owed EXCEPT ![e] = S]
  /\ barred' = [barred EXCEPT ![e] = retired]
  /\ UNCHANGED <<registered, retired, posts, accepted>>

Post(e, i) ==
  /\ fate[e] = "open" /\ i \notin barred[e]
  /\ <<e, i>> \notin accepted /\ posts[e][i] < Attempts
  /\ posts' = [posts EXCEPT ![e][i] = @ + 1]
  /\ accepted' \in {accepted, accepted \cup {<<e, i>>}}
  /\ UNCHANGED <<registered, retired, fate, owed, barred>>

Complete(e) ==
  /\ fate[e] = "open"
  /\ \A i \in owed[e] \cap registered : <<e, i>> \in accepted \/ posts[e][i] = Attempts
  /\ fate' = [fate EXCEPT ![e] = "done"]
  /\ UNCHANGED <<registered, retired, owed, barred, posts, accepted>>

\* A worker gives up on one event; a process that ends, on all it had.
Lose(S) ==
  /\ \A e \in S : fate[e] = "open"
  /\ fate' = [e \in Events |-> IF e \in S THEN "lost" ELSE fate[e]]
  /\ UNCHANGED <<registered, retired, owed, barred, posts, accepted>>

Next ==
  \/ \E i \in Ids : Register(i)
  \/ \E S \in SUBSET Ids : Retire(S)
  \/ \E e \in Events : Announce(e) \/ Complete(e) \/ \E i \in Ids : Post(e, i)
  \/ \E S \in SUBSET Events : Lose(S)

Spec == Init /\ [][Next]_vars
===============================================================================
