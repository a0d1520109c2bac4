---------------------------- MODULE MCRefUpdates -----------------------------
(***************************************************************************)
(* Small instances of RefUpdates.  The commits are a root k1 and two       *)
(* children k2, k3 of it with the same tree, so that heads can move on,    *)
(* fork, and come back to an earlier value or an earlier tree.             *)
(***************************************************************************)
EXTENDS RefUpdates, TLC

CONSTANTS k1, k2, k3, t1, t2, main, dev, ssh, http, commit, branch, deletion

MCParent == (k1 :> Zero) @@ (k2 :> k1) @@ (k3 :> k1)
MCTree == (k1 :> t1) @@ (k2 :> t2) @@ (k3 :> t2)

\* A young repository: the default branch at the root, no other branch.
MCInitRefs == (main :> k1) @@ (dev :> Zero)
MCInitObjects == {k1}

\* Requests that can succeed, lose a race, or be refused at each check.
MCRequests == [c \in ApiCalls |->
  IF c \in Committers
  THEN [ref : {main}, pin : {k1, Omitted}, want : {t1, t2}] \cup
       [ref : {dev}, pin : {Zero, Omitted}, want : {t1}]
  ELSE IF c \in Creators
  THEN [ref : {dev}, pin : {Zero}, want : {k1, k2}]
  ELSE [ref : {dev}, pin : {k1, Omitted}, want : {Zero}] \cup
       [ref : {main}, pin : {Omitted}, want : {Zero}]]

\* Bound: the calls that run beside each other.
Together == {{ssh, http, branch}, {ssh, commit, deletion}}
BoundTogether == \E S \in Together : \A c \in Calls : pc[c] # "new" => c \in S
===============================================================================
