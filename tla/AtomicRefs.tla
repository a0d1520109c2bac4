------------------------------ MODULE AtomicRefs ------------------------------
(***************************************************************************)
(* What the content and branch API promise about the refs: each call takes *)
(* effect in one step, on the head the ref has in that step, or not at     *)
(* all.  git push moves refs beside them, one at a time.                   *)
(*                                                                         *)
(* One thing here is not what the documents promise: src/README.md:352     *)
(* says of a request without an expected head "Last write wins", and yet   *)
(* it may lose (Overtaken).                                                *)
(***************************************************************************)

CONSTANTS Refs, Head, Commits, Trees, Parent, Tree, Zero, Omitted, None,
          Committers, Creators, Deleters, Requests, InitRefs, Failing

ApiCalls == Committers \cup Creators \cup Deleters
Sha0 == Commits \cup {Zero}

VARIABLES
  refs,      \* the refs
  req,       \* the request of each call
  outcome,   \* how far it is: idle, open, or one of four answers
  overtaken  \* the calls whose ref was moved while they were open

vars == <<refs, req, outcome, overtaken>>

\* A move of r overtakes the open calls on it, the one that makes it included.
Overtakes(r) ==
  overtaken' = overtaken \cup {c \in ApiCalls : outcome[c] = "open" /\ req[c].ref = r}

\* The values the request of c may give to a ref whose head is old.
Results(c, old) ==
  IF c \in Committers
  THEN {k \in Commits : /\ Parent[k] = old /\ Tree[k] = req[c].want
                        /\ old = Zero => req[c].pin = Zero
                        /\ old # Zero => Tree[old] # req[c].want}
  ELSE IF c \in Creators THEN {req[c].want}
  ELSE IF old # Zero /\ req[c].ref # Head THEN {Zero} ELSE {}

Init ==
  /\ refs = InitRefs
  /\ outcome = [c \in ApiCalls |-> "idle"]
  /\ req = [c \in ApiCalls |-> None]
  /\ overtaken = {}

Open(c) ==
  /\ outcome[c] = "idle"
  /\ \E rq \in Requests[c] : req' = [req EXCEPT ![c] = rq]
  /\ outcome' = [outcome EXCEPT ![c] = "open"]
  /\ UNCHANGED <<refs, overtaken>>

\* The call takes effect.  Its answer may be lost with the git subprocess.
Succeed(c) ==
  /\ outcome[c] = "open"
  /\ LET old == refs[req[c].ref] IN
     /\ req[c].pin \in {Omitted, old}
     /\ \E new \in Results(c, old) : refs' = [refs EXCEPT ![req[c].ref] = new]
  /\ Overtakes(req[c].ref)
  /\ \E answer \in {"ok"} \cup (IF c \in Failing THEN {"broken"} ELSE {}) :
       outcome' = [outcome EXCEPT ![c] = answer]
  /\ UNCHANGED req

\* An answer of a call that changes nothing.
Declines(c, answer) ==
  /\ outcome[c] = "open"
  /\ outcome' = [outcome EXCEPT ![c] = answer]
  /\ UNCHANGED <<refs, req, overtaken>>

\* The head is not the expected one.
Mismatch(c) == Declines(c, "mismatch") /\ req[c].pin \notin {Omitted, refs[req[c].ref]}

\* The request expects no head, but the branch has been moved meanwhile.
Overtaken(c) == Declines(c, "mismatch") /\ req[c].pin = Omitted /\ c \in overtaken

\* git fails.
Break(c) == c \in Failing /\ Declines(c, "broken")

Refuse(c) == Declines(c, "refused")

GitPush(r, new) ==
  /\ new # refs[r]
  /\ new = Zero => r # Head
  /\ refs' = [refs EXCEPT ![r] = new]
  /\ Overtakes(r)
  /\ UNCHANGED <<req, outcome>>

Next ==
  \/ \E c \in ApiCalls : Open(c) \/ Succeed(c)
       \/ Mismatch(c) \/ Overtaken(c) \/ Break(c) \/ Refuse(c)
  \/ \E r \in Refs, new \in Sha0 : GitPush(r, new)

Spec == Init /\ [][Next]_vars
===============================================================================
