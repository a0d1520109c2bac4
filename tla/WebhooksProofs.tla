---------------------------- MODULE WebhooksProofs ----------------------------
(***************************************************************************)
(* Theorems about Webhooks, for any number of events, webhooks, workers,   *)
(* attempts and restarts, and for any capacity of the channel.             *)
(***************************************************************************)
EXTENDS Webhooks, FiniteSetTheorems, TLAPS

USE DEF Busy

-------------------------------------------------------------------------------
(* The inductive invariant.                                                 *)

JobType ==
  /\ job \in [Workers -> Job \cup {Idle}]
  /\ \A w \in Workers : job[w] # Idle => job[w] \in Job

Types ==
  /\ hooks \subseteq Hook /\ lastId \in 0 .. MaxId
  /\ stage \in [Events -> Stages]
  /\ queue \in Seq(Events) /\ Len(queue) <= Capacity
  /\ JobType
  /\ stopping \in BOOLEAN /\ restarts \in 0 .. MaxRestarts
  /\ live \in [Events -> SUBSET Hook] /\ gone \in [Events -> SUBSET Ids]
  /\ posts \in [Events -> [Ids -> 0 .. Attempts]]
  /\ accepted \subseteq Events \X Ids

\* Each event is in one place.
PlaceInv ==
  /\ \A i \in 1 .. Len(queue) : stage[queue[i]] = "queued"
  /\ \A i, j \in 1 .. Len(queue) : queue[i] = queue[j] => i = j
  /\ \A e \in Events : stage[e] = "queued" => \E i \in 1 .. Len(queue) : queue[i] = e
  /\ \A w \in Workers : Busy(w) => stage[job[w].event] = "taken"
  /\ \A v, w \in Workers : Busy(v) /\ Busy(w) /\ job[v].event = job[w].event => v = w
  /\ \A e \in Events : stage[e] = "taken" => \E w \in Workers : Busy(w) /\ job[w].event = e

\* Ids are given once; what an event remembers is of its time.
IdInv ==
  /\ \A h \in hooks : h.id <= lastId
  /\ \A h, k \in hooks : h.id = k.id => h = k
  /\ \A e \in Events : stage[e] # "new" =>
       /\ \A h \in live[e] : h.id <= lastId /\ h.repo = RepoOf[e]
       /\ \A i \in gone[e] : i <= lastId /\ \A h \in hooks : h.id # i

Unposted(e) == \A i \in Ids : posts[e][i] = 0 /\ <<e, i>> \notin accepted

\* What a worker still has to serve has not been posted, and what it is serving
\* was posted as often as it failed.
Serves(w) ==
  LET e == job[w].event IN
  /\ ~job[w].listed => job[w].todo = {} /\ job[w].at = None /\ Unposted(e)
  /\ \A h \in job[w].todo :
       /\ posts[e][h.id] = 0 /\ <<e, h.id>> \notin accepted
       /\ h.repo = RepoOf[e] /\ h.id \notin gone[e]
       /\ job[w].at # None => h.id # job[w].at.id
  /\ \A h, k \in job[w].todo : h.id = k.id => h = k
  /\ job[w].at # None =>
       /\ posts[e][job[w].at.id] = job[w].failed /\ job[w].failed < Attempts
       /\ <<e, job[w].at.id>> \notin accepted
       /\ job[w].at.repo = RepoOf[e] /\ job[w].at.id \notin gone[e]

ServeInv ==
  /\ \A e \in Events : stage[e] \in {"new", "queued"} => Unposted(e)
  /\ \A w \in Workers : Busy(w) => Serves(w)

\* Unless the process is stopping, a webhook that was there from the dispatch
\* on is served, given up, or still on a worker's list.
Reaches(w) ==
  job[w].listed /\ ~stopping =>
    \A h \in live[job[w].event] \cap hooks :
      \/ h \in job[w].todo \/ h = job[w].at
      \/ <<job[w].event, h.id>> \in accepted \/ posts[job[w].event][h.id] = Attempts

ReachInv ==
  /\ \A w \in Workers : Busy(w) => Reaches(w)
  /\ HandledReachesAll

Inv == Types /\ PlaceInv /\ IdInv /\ ServeInv /\ ReachInv

LEMMA InitInv == Init => Inv
  <1> USE BoundAssumption
  <1>1. ASSUME Init PROVE Types
    <2>1. posts \in [Events -> [Ids -> 0 .. Attempts]]
      BY <1>1 DEF Init
    <2>2. queue \in Seq(Events) /\ Len(queue) <= Capacity
      BY <1>1 DEF Init
    <2>3. JobType
      BY <1>1 DEF Init, JobType
    <2>4. lastId \in 0 .. MaxId /\ restarts \in 0 .. MaxRestarts /\ accepted \subseteq Events \X Ids
      BY <1>1 DEF Init
    <2>5. stage \in [Events -> Stages] /\ live \in [Events -> SUBSET Hook] /\ gone \in [Events -> SUBSET Ids]
      BY <1>1 DEF Init, Stages
    <2> QED BY <1>1, <2>1, <2>2, <2>3, <2>4, <2>5 DEF Init, Types
  <1>2. ASSUME Init PROVE PlaceInv /\ IdInv /\ ServeInv /\ ReachInv
    BY <1>2 DEF Init, PlaceInv, IdInv, ServeInv, Unposted, Serves, ReachInv, Reaches, HandledReachesAll
  <1> QED BY <1>1, <1>2 DEF Inv

-------------------------------------------------------------------------------
(* Registrations.                                                           *)

LEMMA RegisterInv ==
  ASSUME Inv, NEW r \in Repos, NEW u \in Urls, RegisterWebhook(r, u)
  PROVE  Inv'
  <1> DEFINE new == [id |-> lastId + 1, repo |-> r, url |-> u]
  <1>1. /\ lastId' = lastId + 1 /\ lastId + 1 \in Ids /\ lastId \in Nat
        /\ hooks' = hooks \cup {new}
        /\ UNCHANGED <<stage, queue, job, stopping, restarts, live, gone, posts, accepted>>
    BY BoundAssumption DEF RegisterWebhook, Inv, Types, Ids
  <1>2. new \in Hook /\ new.id = lastId + 1
    BY <1>1 DEF Hook
  <1> HIDE DEF new
  <1>3. Types'
    BY <1>1, <1>2, BoundAssumption DEF Inv, Types, JobType, Ids
  <1>4. \A h \in hooks : h.id \in Nat
    BY DEF Inv, Types, Hook, Ids
  <1>5. IdInv'
    <2>1. \A e \in Events : \A i \in gone[e] : i \in Nat
      BY DEF Inv, Types, Ids
    <2>2. \A e \in Events : \A k \in live[e] : k.id \in Nat
      BY DEF Inv, Types, Hook, Ids
    <2> QED BY <1>1, <1>2, <1>4, <2>1, <2>2 DEF Inv, IdInv
  <1>6. PlaceInv' /\ ServeInv'
    BY <1>1 DEF Inv, PlaceInv, ServeInv, Unposted, Serves
  <1>7. \A e \in Events : stage[e] # "new" => new \notin live[e]
    BY <1>1, <1>2 DEF Inv, IdInv, Types, Hook, Ids
  <1>8. ReachInv'
    BY <1>1, <1>7 DEF Inv, ReachInv, Reaches, HandledReachesAll, PlaceInv, Types, JobType, Job
  <1> QED BY <1>3, <1>5, <1>6, <1>8 DEF Inv

LEMMA DeleteInv ==
  ASSUME Inv, NEW doomed, DeleteWebhooks(doomed)
  PROVE  Inv'
  BY DEF Inv, DeleteWebhooks, Types, JobType, PlaceInv, IdInv, ServeInv, Unposted, Serves, ReachInv, Reaches, HandledReachesAll

-------------------------------------------------------------------------------
(* The channel.                                                             *)

LEMMA DispatchInv == ASSUME Inv, NEW e \in Events, DispatchEvent(e) PROVE Inv'
  <1>1. /\ stage[e] = "new" /\ stage'[e] \in {"queued", "dropped"}
        /\ \A d \in Events : d # e => stage'[d] = stage[d] /\ live'[d] = live[d] /\ gone'[d] = gone[d]
        /\ stage' \in [Events -> Stages]
        /\ live'[e] = HooksOf(RepoOf[e]) /\ gone'[e] = (1 .. lastId) \ {h.id : h \in hooks}
        /\ UNCHANGED <<hooks, lastId, job, stopping, restarts, posts, accepted>>
    BY DEF DispatchEvent, Inv, Types, Stages
  <1>2. live' \in [Events -> SUBSET Hook] /\ gone' \in [Events -> SUBSET Ids]
    <2>1. HooksOf(RepoOf[e]) \subseteq Hook
      BY DEF HooksOf, Inv, Types
    <2>2. (1 .. lastId) \ {h.id : h \in hooks} \subseteq Ids
      BY BoundAssumption DEF Ids, Inv, Types
    <2> QED BY <2>1, <2>2 DEF DispatchEvent, Inv, Types
  <1>3. /\ queue' \in Seq(Events) /\ Len(queue') <= Capacity
        /\ \A i \in 1 .. Len(queue') : stage'[queue'[i]] = "queued"
        /\ \A i, j \in 1 .. Len(queue') : queue'[i] = queue'[j] => i = j
        /\ \A d \in Events : stage'[d] = "queued" => \E i \in 1 .. Len(queue') : queue'[i] = d
    <2>1. CASE Len(queue) < Capacity
      <3>1. /\ queue' = Append(queue, e) /\ stage'[e] = "queued" /\ queue \in Seq(Events)
            /\ Capacity \in Nat
        BY <2>1, BoundAssumption DEF DispatchEvent, Inv, Types
      <3>2. /\ queue' \in Seq(Events) /\ Len(queue') = Len(queue) + 1 /\ Len(queue) \in Nat
            /\ queue'[Len(queue) + 1] = e
            /\ \A i \in 1 .. Len(queue) : queue'[i] = queue[i] /\ queue[i] \in Events
        BY <3>1
      <3>3. \A i \in 1 .. Len(queue) : queue[i] # e /\ stage'[queue[i]] = "queued"
        BY <1>1, <3>2 DEF Inv, PlaceInv
      <3>4. \A i \in 1 .. Len(queue') : i \in 1 .. Len(queue) \/ i = Len(queue) + 1
        BY <3>2
      <3>5. \A i \in 1 .. Len(queue') : stage'[queue'[i]] = "queued"
        BY <3>1, <3>2, <3>3, <3>4
      <3>6. \A i, j \in 1 .. Len(queue') : queue'[i] = queue'[j] => i = j
        BY <3>2, <3>3, <3>4 DEF Inv, PlaceInv
      <3>7. \A d \in Events : stage'[d] = "queued" => \E i \in 1 .. Len(queue') : queue'[i] = d
        <4> SUFFICES ASSUME NEW d \in Events, stage'[d] = "queued"
                     PROVE  \E i \in 1 .. Len(queue') : queue'[i] = d
          OBVIOUS
        <4>1. CASE d = e
          BY <4>1, <3>2
        <4>2. CASE d # e
          <5>1. PICK i \in 1 .. Len(queue) : queue[i] = d
            BY <1>1, <4>2 DEF Inv, PlaceInv
          <5> QED BY <5>1, <3>2
        <4> QED BY <4>1, <4>2
      <3>8. Len(queue') <= Capacity
        BY <2>1, <3>1, <3>2
      <3> QED BY <3>2, <3>5, <3>6, <3>7, <3>8
    <2>2. CASE ~(Len(queue) < Capacity)
      <3>1. UNCHANGED queue /\ stage'[e] = "dropped"
        BY <2>2 DEF DispatchEvent, Inv, Types
      <3>2. queue \in Seq(Events)
        BY DEF Inv, Types
      <3>3. \A i \in 1 .. Len(queue) : queue[i] \in Events
        BY <3>2
      <3>4. \A i \in 1 .. Len(queue) : queue[i] # e /\ stage'[queue[i]] = "queued"
        BY <1>1, <3>3 DEF Inv, PlaceInv
      <3>5. \A i, j \in 1 .. Len(queue) : queue[i] = queue[j] => i = j
        BY DEF Inv, PlaceInv
      <3>6. \A d \in Events : stage'[d] = "queued" => \E i \in 1 .. Len(queue) : queue[i] = d
        BY <1>1, <3>1 DEF Inv, PlaceInv
      <3>7. Len(queue) <= Capacity
        BY DEF Inv, Types
      <3>8. queue' = queue
        BY <3>1
      <3> QED BY <3>2, <3>4, <3>5, <3>6, <3>7, <3>8
    <2> QED BY <2>1, <2>2
  <1>4. Types'
    BY <1>1, <1>2, <1>3 DEF Inv, Types, JobType
  <1>5. \A w \in Workers : Busy(w) => job[w].event \in Events /\ job[w].event # e
    BY <1>1 DEF Inv, Types, JobType, Job, PlaceInv
  <1>6. PlaceInv'
    BY <1>1, <1>3, <1>5 DEF Inv, PlaceInv
  <1>7. IdInv'
    BY <1>1 DEF Inv, IdInv, HooksOf
  <1>8. ServeInv'
    BY <1>1, <1>5 DEF Inv, ServeInv, Unposted, Serves
  <1>9. ReachInv'
    BY <1>1, <1>5 DEF Inv, ReachInv, Reaches, HandledReachesAll
  <1> QED BY <1>4, <1>6, <1>7, <1>8, <1>9 DEF Inv

LEMMA ReceiveInv == ASSUME Inv, NEW w \in Workers, Receive(w) PROVE Inv'
  <1> DEFINE e == Head(queue)
             new == [event |-> Head(queue), listed |-> FALSE, todo |-> {}, at |-> None, failed |-> 0]
  <1>1. /\ queue \in Seq(Events) /\ queue # <<>> /\ e \in Events /\ e = queue[1]
        /\ Len(queue) \in Nat /\ Len(queue) > 0 /\ 1 \in 1 .. Len(queue)
    BY DEF Receive, Inv, Types
  <1>2. stage[e] = "queued"
    BY <1>1 DEF Inv, PlaceInv
  <1>3. /\ new \in Job /\ new.event = e /\ new.todo = {} /\ new.at = None /\ ~new.listed
    BY <1>1, BoundAssumption DEF Job
  <1>4. /\ job[w] = Idle /\ job' = [job EXCEPT ![w] = new]
        /\ stage' = [stage EXCEPT ![e] = "taken"] /\ queue' = Tail(queue)
        /\ UNCHANGED <<hooks, lastId, stopping, restarts, live, gone, posts, accepted>>
    BY DEF Receive, Waits, Received
  <1>5. /\ queue' \in Seq(Events) /\ Len(queue') = Len(queue) - 1
        /\ \A i \in 1 .. Len(queue') : i + 1 \in 1 .. Len(queue) /\ queue'[i] = queue[i + 1] /\ queue[i + 1] \in Events
        /\ \A i \in 1 .. Len(queue) : i # 1 => i - 1 \in 1 .. Len(queue')
    BY <1>1, <1>4
  <1> HIDE DEF e, new
  <1>6. \A v \in Workers : Busy(v) => job[v].event \in Events /\ job[v].event # e
    BY <1>2 DEF Inv, Types, JobType, Job, PlaceInv
  <1>7. /\ job'[w] = new /\ \A v \in Workers : v # w => job'[v] = job[v]
        /\ stage'[e] = "taken" /\ \A d \in Events : d # e => stage'[d] = stage[d]
    BY <1>1, <1>4 DEF Inv, Types, JobType
  <1>8. new # Idle
    BY <1>3, IdleAssumption
  <1>9. Types'
    <2>1. JobType'
      BY <1>3, <1>4, <1>7 DEF Inv, Types, JobType
    <2>2. stage' \in [Events -> Stages]
      BY <1>4 DEF Inv, Types, Stages
    <2>3. Len(queue') <= Capacity
      BY <1>1, <1>5, BoundAssumption DEF Inv, Types
    <2> QED BY <1>4, <1>5, <2>1, <2>2, <2>3 DEF Inv, Types
  <1>10. PlaceInv'
    <2>1. \A i \in 1 .. Len(queue') : queue'[i] # e /\ stage'[queue'[i]] = "queued"
      <3> SUFFICES ASSUME NEW i \in 1 .. Len(queue')
                   PROVE  queue'[i] # e /\ stage'[queue'[i]] = "queued"
        OBVIOUS
      <3>1. i + 1 \in 1 .. Len(queue) /\ i + 1 # 1 /\ queue'[i] = queue[i + 1] /\ queue[i + 1] \in Events
        BY <1>5
      <3>2. queue[i + 1] # queue[1] /\ stage[queue[i + 1]] = "queued"
        BY <1>1, <3>1 DEF Inv, PlaceInv
      <3> QED BY <1>1, <1>7, <3>1, <3>2
    <2>2. \A i, j \in 1 .. Len(queue') : queue'[i] = queue'[j] => i = j
      <3> SUFFICES ASSUME NEW i \in 1 .. Len(queue'), NEW j \in 1 .. Len(queue'), queue'[i] = queue'[j]
                   PROVE  i = j
        OBVIOUS
      <3>1. i + 1 = j + 1
        BY <1>5 DEF Inv, PlaceInv
      <3> QED BY <3>1, <1>1, <1>5
    <2>3. \A d \in Events : stage'[d] = "queued" => \E i \in 1 .. Len(queue') : queue'[i] = d
      <3> SUFFICES ASSUME NEW d \in Events, stage'[d] = "queued"
                   PROVE  \E i \in 1 .. Len(queue') : queue'[i] = d
        OBVIOUS
      <3>1. d # e /\ stage[d] = "queued"
        BY <1>7
      <3>2. PICK i \in 1 .. Len(queue) : queue[i] = d
        BY <3>1 DEF Inv, PlaceInv
      <3>3. i # 1
        BY <1>1, <3>1, <3>2
      <3>4. i - 1 \in 1 .. Len(queue') /\ (i - 1) + 1 = i
        BY <1>1, <1>5, <3>3
      <3> QED BY <1>5, <3>2, <3>4
    <2>4. /\ \A v \in Workers : Busy(v)' => stage'[job'[v].event] = "taken"
          /\ \A v, u \in Workers : Busy(v)' /\ Busy(u)' /\ job'[v].event = job'[u].event => v = u
      BY <1>3, <1>6, <1>7 DEF Inv, PlaceInv
    <2>5. \A d \in Events : stage'[d] = "taken" => \E v \in Workers : Busy(v)' /\ job'[v].event = d
      BY <1>3, <1>4, <1>7, <1>8 DEF Inv, PlaceInv
    <2> QED BY <2>1, <2>2, <2>3, <2>4, <2>5 DEF PlaceInv
  <1>11. IdInv'
    BY <1>1, <1>2, <1>4, <1>7 DEF Inv, IdInv
  <1>12. ServeInv'
    <2>1. \A i \in Ids : posts[e][i] = 0 /\ <<e, i>> \notin accepted
      BY <1>1, <1>2 DEF Inv, ServeInv, Unposted, Serves
    <2> QED BY <1>3, <1>4, <1>6, <1>7, <2>1 DEF Inv, ServeInv, Unposted, Serves
  <1>13. ReachInv'
    BY <1>3, <1>4, <1>7 DEF Inv, ReachInv, Reaches, HandledReachesAll
  <1> QED BY <1>9, <1>10, <1>11, <1>12, <1>13 DEF Inv

-------------------------------------------------------------------------------
(* Deliveries.                                                              *)

\* The step of a worker that goes on with its event, and posts it perhaps.
GoesOnWith(w, new) ==
  /\ new \in Job /\ new # Idle /\ new.event = job[w].event
  /\ job' = [job EXCEPT ![w] = new]
  /\ \A d \in Events : d # job[w].event =>
       \A i \in Ids : posts'[d][i] = posts[d][i] /\ (<<d, i>> \in accepted' <=> <<d, i>> \in accepted)
  /\ UNCHANGED <<hooks, lastId, stage, queue, stopping, restarts, live, gone>>

\* A worker that goes on leaves events, ids and the other workers as they are.
LEMMA GoesOnKeeps ==
  ASSUME Inv, NEW w \in Workers, job[w] # Idle, NEW new, GoesOnWith(w, new)
  PROVE  /\ PlaceInv' /\ IdInv' /\ JobType'
         /\ job'[w] = new
         /\ Serves(w)' => ServeInv'
         /\ Reaches(w)' => ReachInv'
  <1>1. job'[w] = new /\ \A v \in Workers : v # w => job'[v] = job[v]
    BY DEF GoesOnWith, Inv, Types, JobType
  <1>2. JobType'
    BY <1>1 DEF GoesOnWith, Inv, Types, JobType
  <1>3. PlaceInv'
    BY <1>1 DEF GoesOnWith, Inv, PlaceInv
  <1>4. IdInv'
    BY DEF GoesOnWith, Inv, IdInv
  <1>5. job[w] \in Job /\ job[w].event \in Events /\ stage[job[w].event] = "taken"
    BY DEF Inv, Types, JobType, Job, PlaceInv
  <1>6. \A v \in Workers : v # w /\ job[v] # Idle =>
          /\ job[v] \in Job /\ job[v].event \in Events /\ job[v].event # job[w].event
          /\ job[v].todo \subseteq Hook /\ (job[v].at # None => job[v].at \in Hook)
    BY DEF Inv, Types, JobType, Job, PlaceInv
  <1>7. ASSUME NEW d \in Events, d # job[w].event
        PROVE  /\ \A i \in Ids : posts'[d][i] = posts[d][i] /\ (<<d, i>> \in accepted' <=> <<d, i>> \in accepted)
               /\ stage'[d] = stage[d] /\ live'[d] = live[d] /\ gone'[d] = gone[d]
               /\ Unposted(d) => Unposted(d)'
    BY <1>7 DEF GoesOnWith, Unposted
  <1>8. ASSUME NEW v \in Workers, v # w, job[v] # Idle
        PROVE  Serves(v)' /\ Reaches(v)'
    <2> DEFINE d == job[v].event
    <2>1. /\ d \in Events /\ d # job[w].event /\ job'[v] = job[v]
          /\ job[v].todo \subseteq Hook /\ (job[v].at # None => job[v].at \in Hook)
      BY <1>1, <1>6, <1>8
    <2>2. /\ \A h \in Hook : /\ posts'[d][h.id] = posts[d][h.id]
                             /\ <<d, h.id>> \in accepted' <=> <<d, h.id>> \in accepted
          /\ gone'[d] = gone[d] /\ live'[d] = live[d]
          /\ Unposted(d) => Unposted(d)'
      BY <1>7, <2>1 DEF Hook
    <2>3. Serves(v)'
      <3>1. Serves(v)
        BY <1>8 DEF Inv, ServeInv
      <3> QED BY <2>1, <2>2, <3>1 DEF Serves
    <2>4. UNCHANGED <<hooks, stopping>> /\ hooks \subseteq Hook
      BY DEF GoesOnWith, Inv, Types
    <2>5. Reaches(v)'
      <3>1. Reaches(v)
        BY <1>8 DEF Inv, ReachInv
      <3> QED BY <2>1, <2>2, <2>4, <3>1 DEF Reaches
    <2> QED BY <2>3, <2>5
  <1>9. \A d \in Events : stage'[d] \in {"new", "queued"} => Unposted(d)'
    <2> SUFFICES ASSUME NEW d \in Events, stage'[d] \in {"new", "queued"} PROVE Unposted(d)'
      OBVIOUS
    <2>1. stage' = stage
      BY DEF GoesOnWith
    <2>2. d # job[w].event
      BY <1>5, <2>1
    <2> QED BY <1>7, <2>1, <2>2 DEF Inv, ServeInv
  <1>10. HandledReachesAll'
    <2> SUFFICES ASSUME NEW d \in Events, stage'[d] = "handled", NEW h \in live'[d] \cap hooks'
                 PROVE  <<d, h.id>> \in accepted' \/ posts'[d][h.id] = Attempts
      BY DEF HandledReachesAll
    <2>1. UNCHANGED <<stage, hooks, live>> /\ h \in Hook /\ h.id \in Ids
      BY DEF GoesOnWith, Inv, Types, Hook
    <2>2. d # job[w].event
      BY <1>5, <2>1
    <2> QED BY <1>7, <2>1, <2>2 DEF Inv, ReachInv, HandledReachesAll
  <1>11. /\ Serves(w)' => ServeInv'
         /\ Reaches(w)' => ReachInv'
    BY <1>1, <1>8, <1>9, <1>10 DEF ServeInv, ReachInv
  <1> QED BY <1>1, <1>2, <1>3, <1>4, <1>11

LEMMA ListedInv ==
  ASSUME Inv, NEW w \in Workers, Busy(w), ~job[w].listed,
         job' = [job EXCEPT ![w].listed = TRUE, ![w].todo = Listing(RepoOf[job[w].event])],
         UNCHANGED <<hooks, lastId, stage, queue, stopping, restarts, live, gone, posts, accepted>>
  PROVE  Inv'
  <1> DEFINE e == job[w].event  new == [job[w] EXCEPT !.listed = TRUE, !.todo = Listing(RepoOf[e])]
  <1>1. job[w] \in Job /\ e \in Events /\ Listing(RepoOf[e]) \subseteq Hook
    BY DEF Inv, Types, JobType, Job, Listing, HooksOf
  <1>2. /\ new \in Job /\ new.event = e /\ new.listed /\ new.todo = Listing(RepoOf[e])
        /\ new.at = job[w].at /\ new.failed = job[w].failed
    BY <1>1 DEF Job
  <1>3. GoesOnWith(w, new)
    <2>1. job' = [job EXCEPT ![w] = new]
      BY DEF Inv, Types, JobType
    <2>2. new # Idle
      BY <1>2, IdleAssumption
    <2> HIDE DEF new
    <2> QED BY <1>2, <2>1, <2>2 DEF GoesOnWith
  <1> HIDE DEF new
  <1>4. /\ PlaceInv' /\ IdInv' /\ JobType' /\ job'[w] = new
        /\ Serves(w)' => ServeInv'
        /\ Reaches(w)' => ReachInv'
    BY <1>3, GoesOnKeeps
  <1>5. job[w].at = None /\ Unposted(e) /\ stage[e] = "taken"
    BY DEF Inv, ServeInv, Serves, PlaceInv
  <1>6. \A h \in new.todo : h \in hooks /\ h.id \in Ids /\ h.repo = RepoOf[e] /\ h.id \notin gone[e]
    BY <1>1, <1>2, <1>5 DEF Listing, HooksOf, Inv, Types, IdInv, Hook
  <1>7. \A h, k \in new.todo : h.id = k.id => h = k
    BY <1>6 DEF Inv, IdInv
  <1>8. Serves(w)'
    <2>1. posts' = posts /\ accepted' = accepted /\ gone' = gone
      OBVIOUS
    <2>2. \A h \in new.todo : posts[e][h.id] = 0 /\ <<e, h.id>> \notin accepted
      BY <1>5, <1>6 DEF Unposted
    <2> HIDE DEF e
    <2> QED BY <1>2, <1>4, <1>5, <1>6, <1>7, <2>1, <2>2 DEF Serves
  <1>9. \A h \in live[e] \cap hooks : h \in new.todo
    BY <1>1, <1>2, <1>5 DEF Listing, HooksOf, Inv, IdInv
  <1>10. Reaches(w)'
    BY <1>2, <1>4, <1>9 DEF Reaches
  <1> QED BY <1>4, <1>8, <1>10 DEF Inv, Types

\* The job of a worker in more detail.
LEMMA JobFacts ==
  ASSUME Inv, NEW w \in Workers, Busy(w)
  PROVE  /\ job[w] \in Job /\ job[w].event \in Events /\ stage[job[w].event] = "taken"
         /\ job[w].todo \subseteq Hook
         /\ job[w].at # None => job[w].at \in Hook
         /\ \A h \in Hook : h.id \in Ids /\ h.repo \in Repos
         /\ Serves(w) /\ Reaches(w)
  BY DEF Inv, Types, JobType, Job, PlaceInv, ServeInv, ReachInv, Hook

LEMMA NextHookInv == ASSUME Inv, NEW w \in Workers, NextHook(w) PROVE Inv'
  <1> DEFINE e == job[w].event
  <1>1. /\ Busy(w) /\ job[w].listed /\ job[w].at = None
        /\ UNCHANGED <<hooks, lastId, stage, queue, stopping, restarts, live, gone, posts, accepted>>
    BY DEF NextHook
  <1>2. PICK h \in job[w].todo :
          job' = [job EXCEPT ![w].todo = @ \ {h}, ![w].at = h, ![w].failed = 0]
    BY DEF NextHook
  <1> DEFINE new == [job[w] EXCEPT !.todo = @ \ {h}, !.at = h, !.failed = 0]
  <1>3. /\ job[w] \in Job /\ e \in Events /\ job[w].todo \subseteq Hook /\ h \in Hook
        /\ Serves(w) /\ Reaches(w)
    BY <1>1, JobFacts
  <1>4. /\ new \in Job /\ new.event = e /\ new.listed /\ new.todo = job[w].todo \ {h}
        /\ new.at = h /\ new.failed = 0
    <2>1. 0 \in 0 .. Attempts /\ job[w].todo \ {h} \in SUBSET Hook
      BY <1>3, BoundAssumption
    <2>2. new \in Job
      BY <1>3, <2>1 DEF Job
    <2> QED BY <1>1, <1>3, <2>2 DEF Job
  <1>5. GoesOnWith(w, new)
    <2>1. job' = [job EXCEPT ![w] = new]
      BY <1>2, <1>3 DEF Inv, Types, JobType
    <2>2. new # Idle
      BY <1>4, IdleAssumption
    <2> HIDE DEF new
    <2> QED BY <1>1, <1>4, <2>1, <2>2 DEF GoesOnWith
  <1> HIDE DEF new
  <1>6. /\ PlaceInv' /\ IdInv' /\ JobType' /\ job'[w] = new
        /\ Serves(w)' => ServeInv'
        /\ Reaches(w)' => ReachInv'
    BY <1>1, <1>5, GoesOnKeeps
  <1>7. Serves(w)'
    <2>1. /\ \A k \in job[w].todo : /\ posts[e][k.id] = 0 /\ <<e, k.id>> \notin accepted
                                    /\ k.repo = RepoOf[e] /\ k.id \notin gone[e]
          /\ \A j, k \in job[w].todo : j.id = k.id => j = k
      BY <1>3 DEF Serves
    <2>2. h \notin new.todo /\ new.todo \subseteq job[w].todo /\ 0 < Attempts
      BY <1>4, BoundAssumption
    <2>3. \A k \in new.todo : k.id # h.id
      BY <1>2, <2>1, <2>2
    <2>4. h \in job[w].todo
      BY <1>2
    <2> HIDE DEF e
    <2> QED BY <1>1, <1>4, <1>6, <2>1, <2>2, <2>3, <2>4 DEF Serves
  <1>8. Reaches(w)'
    <2>1. \A k \in hooks : k # None
      BY IdleAssumption DEF Inv, Types
    <2> QED BY <1>1, <1>3, <1>4, <1>6, <2>1 DEF Reaches
  <1> QED BY <1>1, <1>6, <1>7, <1>8 DEF Inv, Types

\* A post to the webhook being served changes the histories at it only.
LEMMA PostSucceedsInv == ASSUME Inv, NEW w \in Workers, PostSucceeds(w) PROVE Inv'
  <1> DEFINE e == job[w].event  h == job[w].at  new == [job[w] EXCEPT !.at = None]
  <1>1. /\ Busy(w) /\ h # None
        /\ job' = [job EXCEPT ![w].at = None]
        /\ posts' = [posts EXCEPT ![e][h.id] = @ + 1]
        /\ accepted' = accepted \cup {<<e, h.id>>}
        /\ UNCHANGED <<hooks, lastId, stage, queue, stopping, restarts, live, gone>>
    BY DEF PostSucceeds
  <1>2. /\ job[w] \in Job /\ e \in Events /\ job[w].todo \subseteq Hook /\ h \in Hook
        /\ h.id \in Ids /\ Serves(w) /\ Reaches(w) /\ \A k \in Hook : k.id \in Ids
    BY <1>1, JobFacts
  <1>3. /\ new \in Job /\ new.event = e /\ (new.listed <=> job[w].listed) /\ new.todo = job[w].todo
        /\ new.at = None /\ new.failed = job[w].failed
    BY <1>2 DEF Job
  <1>4. /\ posts[e][h.id] = job[w].failed /\ job[w].failed < Attempts /\ job[w].listed
        /\ posts[e][h.id] \in 0 .. Attempts /\ posts \in [Events -> [Ids -> 0 .. Attempts]]
        /\ \A k \in job[w].todo : k.id # h.id
    BY <1>1, <1>2 DEF Serves, Inv, Types
  <1>5. posts' \in [Events -> [Ids -> 0 .. Attempts]] /\ accepted' \subseteq Events \X Ids
    <2>1. posts[e][h.id] + 1 \in 0 .. Attempts
      BY <1>2, <1>4, BoundAssumption DEF Job
    <2>2. posts' \in [Events -> [Ids -> 0 .. Attempts]]
      BY <1>1, <1>2, <1>4, <2>1
    <2>3. accepted' \subseteq Events \X Ids
      BY <1>1, <1>2 DEF Inv, Types
    <2> QED BY <2>2, <2>3
  <1>6. /\ \A d \in Events : d # e =>
             \A i \in Ids : posts'[d][i] = posts[d][i] /\ (<<d, i>> \in accepted' <=> <<d, i>> \in accepted)
        /\ \A i \in Ids : i # h.id =>
             posts'[e][i] = posts[e][i] /\ (<<e, i>> \in accepted' <=> <<e, i>> \in accepted)
        /\ <<e, h.id>> \in accepted'
    BY <1>1, <1>2, <1>4
  <1>7. GoesOnWith(w, new)
    <2>1. job' = [job EXCEPT ![w] = new]
      BY <1>1, <1>2 DEF Inv, Types, JobType
    <2>2. new # Idle
      BY <1>3, IdleAssumption
    <2> HIDE DEF new
    <2> QED BY <1>1, <1>3, <1>6, <2>1, <2>2 DEF GoesOnWith
  <1> HIDE DEF new
  <1>8. /\ PlaceInv' /\ IdInv' /\ JobType' /\ job'[w] = new
        /\ Serves(w)' => ServeInv'
        /\ Reaches(w)' => ReachInv'
    BY <1>1, <1>7, GoesOnKeeps
  <1>9. Serves(w)'
    <2>1. \A k \in new.todo : /\ posts'[e][k.id] = 0 /\ <<e, k.id>> \notin accepted'
                              /\ k.repo = RepoOf[e] /\ k.id \notin gone'[e]
      BY <1>1, <1>2, <1>3, <1>4, <1>6 DEF Serves
    <2>2. \A j, k \in new.todo : j.id = k.id => j = k
      BY <1>2, <1>3 DEF Serves
    <2>3. new.listed
      BY <1>3, <1>4
    <2> HIDE DEF e
    <2> QED BY <1>3, <1>8, <2>1, <2>2, <2>3 DEF Serves
  <1>10. Reaches(w)'
    <2> SUFFICES ASSUME new.listed, ~stopping, NEW k \in live[e] \cap hooks
                 PROVE  k \in new.todo \/ <<e, k.id>> \in accepted' \/ posts'[e][k.id] = Attempts
      BY <1>1, <1>3, <1>8 DEF Reaches
    <2>1. k.id \in Ids /\ (k \in job[w].todo \/ k = h \/ <<e, k.id>> \in accepted \/ posts[e][k.id] = Attempts)
      BY <1>2, <1>3 DEF Reaches, Inv, Types
    <2> QED BY <1>3, <1>6, <2>1
  <1> QED BY <1>1, <1>5, <1>8, <1>9, <1>10 DEF Inv, Types

LEMMA PostFailsInv == ASSUME Inv, NEW w \in Workers, PostFails(w) PROVE Inv'
  <1> DEFINE e == job[w].event  h == job[w].at  failed == job[w].failed + 1
             new == [job[w] EXCEPT !.failed = failed, !.at = IF failed < Attempts THEN h ELSE None]
  <1>1. /\ Busy(w) /\ h # None
        /\ job' = [job EXCEPT ![w].failed = failed,
                              ![w].at = IF failed < Attempts THEN @ ELSE None,
                              ![w].todo = IF failed < Attempts THEN @ ELSE job[w].todo]
        /\ posts' = [posts EXCEPT ![e][h.id] = @ + 1]
        /\ UNCHANGED <<hooks, lastId, stage, queue, stopping, restarts, live, gone, accepted>>
    BY DEF PostFails, OneMore, RestKept
  <1>2. /\ job[w] \in Job /\ e \in Events /\ job[w].todo \subseteq Hook /\ h \in Hook
        /\ h.id \in Ids /\ Serves(w) /\ Reaches(w) /\ \A k \in Hook : k.id \in Ids
    BY <1>1, JobFacts
  <1>3. /\ posts[e][h.id] = job[w].failed /\ job[w].failed < Attempts /\ job[w].listed
        /\ posts \in [Events -> [Ids -> 0 .. Attempts]] /\ job[w].failed \in 0 .. Attempts
        /\ failed \in 0 .. Attempts
        /\ \A k \in job[w].todo : k.id # h.id
    BY <1>1, <1>2, BoundAssumption DEF Serves, Inv, Types, Job
  <1>4. /\ new \in Job /\ new.event = e /\ (new.listed <=> job[w].listed) /\ new.todo = job[w].todo
        /\ new.failed = failed /\ new.at = (IF failed < Attempts THEN h ELSE None)
    BY <1>2, <1>3 DEF Job
  <1>5. posts' \in [Events -> [Ids -> 0 .. Attempts]]
    BY <1>1, <1>2, <1>3, BoundAssumption
  <1>6. /\ \A d \in Events : d # e => \A i \in Ids : posts'[d][i] = posts[d][i]
        /\ \A i \in Ids : i # h.id => posts'[e][i] = posts[e][i]
        /\ posts'[e][h.id] = failed
    BY <1>1, <1>2, <1>3
  <1>7. GoesOnWith(w, new)
    <2>1. job' = [job EXCEPT ![w] = new]
      BY <1>1, <1>2 DEF Inv, Types, JobType
    <2>2. new # Idle
      BY <1>4, IdleAssumption
    <2> HIDE DEF new
    <2> QED BY <1>1, <1>4, <1>6, <2>1, <2>2 DEF GoesOnWith
  <1> HIDE DEF new
  <1>8. /\ PlaceInv' /\ IdInv' /\ JobType' /\ job'[w] = new
        /\ Serves(w)' => ServeInv'
        /\ Reaches(w)' => ReachInv'
    BY <1>1, <1>7, GoesOnKeeps
  <1>9. Serves(w)'
    <2>1. \A k \in new.todo : /\ posts'[e][k.id] = 0 /\ <<e, k.id>> \notin accepted'
                              /\ k.repo = RepoOf[e] /\ k.id \notin gone'[e] /\ k.id # h.id
      BY <1>1, <1>2, <1>3, <1>4, <1>6 DEF Serves
    <2>2. \A j, k \in new.todo : j.id = k.id => j = k
      BY <1>2, <1>4 DEF Serves
    <2>3. new.listed
      BY <1>3, <1>4
    <2>4. new.at # None =>
            /\ new.at = h /\ failed < Attempts
            /\ <<e, h.id>> \notin accepted' /\ h.repo = RepoOf[e] /\ h.id \notin gone'[e]
      BY <1>1, <1>2, <1>4 DEF Serves
    <2> HIDE DEF e, h, failed
    <2> QED BY <1>4, <1>6, <1>8, <2>1, <2>2, <2>3, <2>4 DEF Serves
  <1>10. Reaches(w)'
    <2> SUFFICES ASSUME new.listed, ~stopping, NEW k \in live[e] \cap hooks
                 PROVE  k \in new.todo \/ k = new.at \/ <<e, k.id>> \in accepted' \/ posts'[e][k.id] = Attempts
      BY <1>1, <1>4, <1>8 DEF Reaches
    <2>1. k.id \in Ids /\ (k \in job[w].todo \/ k = h \/ <<e, k.id>> \in accepted \/ posts[e][k.id] = Attempts)
      BY <1>2, <1>4 DEF Reaches, Inv, Types
    <2>2. CASE k = h
      BY <1>3, <1>4, <1>6, <2>2, BoundAssumption
    <2>3. CASE k.id # h.id
      BY <1>1, <1>4, <1>6, <2>1, <2>3
    <2>4. CASE k # h /\ k.id = h.id
      BY <1>1, <1>2, <1>3, <2>1, <2>4, BoundAssumption DEF Serves
    <2> QED BY <2>2, <2>3, <2>4
  <1> QED BY <1>1, <1>5, <1>8, <1>9, <1>10 DEF Inv, Types

LEMMA PostCancelledInv == ASSUME Inv, NEW w \in Workers, PostCancelled(w) PROVE Inv'
  <1> DEFINE e == job[w].event  new == [job[w] EXCEPT !.at = None]
  <1>1. /\ Busy(w) /\ job[w].at # None /\ stopping /\ job' = [job EXCEPT ![w].at = None]
        /\ UNCHANGED <<hooks, lastId, stage, queue, stopping, restarts, live, gone, posts, accepted>>
    BY DEF PostCancelled
  <1>2. /\ job[w] \in Job /\ Serves(w)
    BY <1>1, JobFacts
  <1>3. /\ new \in Job /\ new.event = e /\ (new.listed <=> job[w].listed) /\ new.todo = job[w].todo
        /\ new.at = None /\ new.failed = job[w].failed
    BY <1>2 DEF Job
  <1>4. GoesOnWith(w, new)
    <2>1. job' = [job EXCEPT ![w] = new]
      BY <1>1, <1>2 DEF Inv, Types, JobType
    <2>2. new # Idle
      BY <1>3, IdleAssumption
    <2> HIDE DEF new
    <2> QED BY <1>1, <1>3, <2>1, <2>2 DEF GoesOnWith
  <1> HIDE DEF new
  <1>5. /\ PlaceInv' /\ IdInv' /\ JobType' /\ job'[w] = new
        /\ Serves(w)' => ServeInv'
        /\ Reaches(w)' => ReachInv'
    BY <1>1, <1>4, GoesOnKeeps
  <1>6. job[w].listed
    BY <1>1, <1>2 DEF Serves
  <1>7. Serves(w)'
    <2>1. new.listed
      BY <1>3, <1>6
    <2> QED BY <1>1, <1>2, <1>3, <1>5, <2>1 DEF Serves
  <1>8. Reaches(w)'
    BY <1>1 DEF Reaches
  <1> QED BY <1>1, <1>5, <1>7, <1>8 DEF Inv, Types

\* A worker that is through with its event.
LEMMA LeaveKeeps ==
  ASSUME Inv, NEW w \in Workers, Busy(w), NEW end \in Stages \ {"new", "queued", "taken"},
         job' = [job EXCEPT ![w] = Idle],
         stage' = [stage EXCEPT ![job[w].event] = end],
         end = "handled" => \A h \in live[job[w].event] \cap hooks :
           <<job[w].event, h.id>> \in accepted \/ posts[job[w].event][h.id] = Attempts,
         UNCHANGED <<hooks, lastId, queue, stopping, restarts, live, gone, posts, accepted>>
  PROVE  Inv'
  <1> DEFINE e == job[w].event
  <1>1. /\ e \in Events /\ stage[e] = "taken" /\ stage'[e] = end /\ stage' \in [Events -> Stages]
        /\ \A d \in Events : d # e => stage'[d] = stage[d]
        /\ job'[w] = Idle /\ \A v \in Workers : v # w => job'[v] = job[v]
        /\ \A v \in Workers : v # w /\ Busy(v) => job[v].event \in Events /\ job[v].event # e
    <2>1. e \in Events /\ stage[e] = "taken"
      BY JobFacts
    <2>2. stage \in [Events -> Stages] /\ job \in [Workers -> Job \cup {Idle}]
      BY DEF Inv, Types, JobType
    <2>3. \A v \in Workers : v # w /\ Busy(v) => job[v].event \in Events /\ job[v].event # e
      BY JobFacts DEF Inv, PlaceInv
    <2> QED BY <2>1, <2>2, <2>3
  <1> HIDE DEF e
  <1>2. Types'
    <2>1. JobType'
      BY <1>1 DEF Inv, Types, JobType
    <2> QED BY <1>1, <2>1 DEF Inv, Types
  <1>3. PlaceInv'
    <2>1. \A i \in 1 .. Len(queue) : queue[i] \in Events
      BY DEF Inv, Types
    <2>2. /\ \A i \in 1 .. Len(queue') : stage'[queue'[i]] = "queued"
          /\ \A i, j \in 1 .. Len(queue') : queue'[i] = queue'[j] => i = j
      BY <1>1, <2>1 DEF Inv, PlaceInv
    <2>3. \A d \in Events : stage'[d] = "queued" => \E i \in 1 .. Len(queue') : queue'[i] = d
      BY <1>1 DEF Inv, PlaceInv
    <2>4. /\ \A v \in Workers : Busy(v)' => stage'[job'[v].event] = "taken"
          /\ \A v, u \in Workers : Busy(v)' /\ Busy(u)' /\ job'[v].event = job'[u].event => v = u
      BY <1>1 DEF Inv, PlaceInv
    <2>5. \A d \in Events : stage'[d] = "taken" => \E v \in Workers : Busy(v)' /\ job'[v].event = d
      <3> SUFFICES ASSUME NEW d \in Events, stage'[d] = "taken"
                   PROVE  \E v \in Workers : Busy(v)' /\ job'[v].event = d
        OBVIOUS
      <3>1. d # e /\ stage[d] = "taken"
        BY <1>1
      <3>2. PICK v \in Workers : Busy(v) /\ job[v].event = d
        BY <3>1 DEF Inv, PlaceInv
      <3> QED BY <1>1, <3>1, <3>2 DEF e
    <2> QED BY <2>2, <2>3, <2>4, <2>5 DEF PlaceInv
  <1>4. IdInv'
    BY <1>1 DEF Inv, IdInv
  <1>5. ServeInv'
    BY <1>1 DEF Inv, ServeInv, Serves, Unposted
  <1>6. ReachInv'
    <2>1. \A v \in Workers : Busy(v)' => Reaches(v)'
      BY <1>1 DEF Inv, ReachInv, Reaches
    <2>2. HandledReachesAll'
      <3> SUFFICES ASSUME NEW d \in Events, stage'[d] = "handled", NEW h \in live[d] \cap hooks
                   PROVE  <<d, h.id>> \in accepted \/ posts[d][h.id] = Attempts
        BY DEF HandledReachesAll
      <3>1. CASE d = e
        BY <1>1, <3>1 DEF e
      <3>2. CASE d # e
        BY <1>1, <3>2 DEF Inv, ReachInv, HandledReachesAll
      <3> QED BY <3>1, <3>2
    <2> QED BY <2>1, <2>2 DEF ReachInv
  <1> QED BY <1>2, <1>3, <1>4, <1>5, <1>6 DEF Inv

LEMMA ListInv == ASSUME Inv, NEW w \in Workers, List(w) PROVE Inv'
  <1>1. CASE /\ job' = [job EXCEPT ![w].listed = TRUE, ![w].todo = Listing(RepoOf[job[w].event])]
             /\ UNCHANGED stage
    BY <1>1, ListedInv DEF List
  <1>2. CASE /\ job' = [job EXCEPT ![w] = Idle]
             /\ stage' = [stage EXCEPT ![job[w].event] = "unlisted"]
    BY <1>2, LeaveKeeps DEF List, Stages
  <1> QED BY <1>1, <1>2 DEF List

LEMMA FinishInv == ASSUME Inv, NEW w \in Workers, Finish(w) PROVE Inv'
  <1> DEFINE end == IF stopping THEN "cancelled" ELSE "handled"
  <1>1. end \in Stages \ {"new", "queued", "taken"} /\ (end = "handled" => ~stopping)
    BY DEF Stages
  <1>2. /\ Busy(w) /\ job[w].listed /\ job[w].at = None /\ job[w].todo = {}
        /\ job' = [job EXCEPT ![w] = Idle]
        /\ stage' = [stage EXCEPT ![job[w].event] = end]
        /\ UNCHANGED <<hooks, lastId, queue, stopping, restarts, live, gone, posts, accepted>>
    BY DEF Finish
  <1> HIDE DEF end
  <1>3. end = "handled" => \A h \in live[job[w].event] \cap hooks :
          <<job[w].event, h.id>> \in accepted \/ posts[job[w].event][h.id] = Attempts
    <2>1. \A h \in hooks : h # None
      BY IdleAssumption DEF Inv, Types
    <2>2. Reaches(w)
      BY <1>2, JobFacts
    <2> QED BY <1>1, <1>2, <2>1, <2>2 DEF Reaches
  <1> QED BY <1>1, <1>2, <1>3, LeaveKeeps

-------------------------------------------------------------------------------
(* The process.                                                             *)

\* What shows in the invariant is untouched.
LEMMA SameInv ==
  ASSUME Inv,
         UNCHANGED <<hooks, lastId, stage, queue, job, stopping, restarts, live, gone, posts, accepted>>
  PROVE  Inv'
  BY DEF Inv, Types, JobType, PlaceInv, IdInv, ServeInv, Serves, Unposted, ReachInv, Reaches,
         HandledReachesAll

LEMMA StopInv == ASSUME Inv, Stop PROVE Inv'
  BY DEF Inv, Stop, Types, JobType, PlaceInv, IdInv, ServeInv, Serves, Unposted, ReachInv, Reaches,
         HandledReachesAll

LEMMA RestartInv == ASSUME Inv, Restart PROVE Inv'
  <1>1. /\ restarts < MaxRestarts /\ restarts' = restarts + 1 /\ stopping' = FALSE
        /\ queue' = <<>> /\ job' = [w \in Workers |-> Idle]
        /\ stage' = [e \in Events |-> IF stage[e] \in {"queued", "taken"} THEN "lost" ELSE stage[e]]
        /\ UNCHANGED <<hooks, lastId, live, gone, posts, accepted>>
    BY DEF Restart
  <1>2. /\ \A w \in Workers : job'[w] = Idle
        /\ Len(queue') = 0 /\ queue' \in Seq(Events)
        /\ stage' \in [Events -> Stages]
        /\ \A e \in Events : stage'[e] \notin {"queued", "taken"}
        /\ \A e \in Events : stage'[e] # "lost" => stage'[e] = stage[e]
        /\ \A e \in Events : stage'[e] # "new" => stage[e] # "new"
    BY <1>1 DEF Inv, Types, Stages
  <1>3. Types'
    <2>1. JobType'
      BY <1>1 DEF JobType
    <2>2. restarts' \in 0 .. MaxRestarts /\ Len(queue') <= Capacity
      BY <1>1, <1>2, BoundAssumption DEF Inv, Types
    <2> QED BY <1>1, <1>2, <2>1, <2>2 DEF Inv, Types
  <1>4. PlaceInv'
    BY <1>2 DEF PlaceInv
  <1>5. IdInv'
    BY <1>1, <1>2 DEF Inv, IdInv
  <1>6. ServeInv'
    BY <1>1, <1>2 DEF Inv, ServeInv, Unposted
  <1>7. ReachInv'
    BY <1>1, <1>2 DEF Inv, ReachInv, HandledReachesAll
  <1> QED BY <1>3, <1>4, <1>5, <1>6, <1>7 DEF Inv

LEMMA NextInv == ASSUME Inv, [Next]_vars PROVE Inv'
  <1>1. ASSUME NEW r \in Repos, NEW u \in Urls, RegisterWebhook(r, u) PROVE Inv'
    BY <1>1, RegisterInv
  <1>2. ASSUME NEW doomed, DeleteWebhooks(doomed) PROVE Inv'
    BY <1>2, DeleteInv
  <1>3. ASSUME NEW e \in Events, DispatchEvent(e) PROVE Inv'
    BY <1>3, DispatchInv
  <1>4. ASSUME NEW w \in Workers, Work(w) PROVE Inv'
    <2>1. CASE Leave(w)
      BY <2>1, SameInv DEF Leave
    <2> QED BY <1>4, <2>1, ReceiveInv, ListInv, NextHookInv, PostSucceedsInv, PostFailsInv,
               PostCancelledInv, FinishInv DEF Work
  <1>5. CASE Stop
    BY <1>5, StopInv
  <1>6. CASE Restart
    BY <1>6, RestartInv
  <1>7. CASE UNCHANGED vars
    BY <1>7, SameInv DEF vars
  <1> QED BY <1>1, <1>2, <1>3, <1>4, <1>5, <1>6, <1>7 DEF Next, Rest

\* The invariant holds throughout.
THEOREM Invariance == Spec => []Inv
  <1>1. Init => Inv
    BY InitInv
  <1>2. Inv /\ [Next]_vars => Inv'
    BY NextInv
  <1> QED BY <1>1, <1>2, PTL DEF Spec

-------------------------------------------------------------------------------
(* Theorems.                                                                *)

\* Only workers leave.
LeftInv == left \subseteq Workers

\* The channel stays within its capacity, every worker's job is one that
\* handleEvent can be at, and no webhook is posted one event more often than
\* withExponentialBackoff allows.
THEOREM TypeCorrect == Spec => []TypeOK
  <1>1. Inv /\ LeftInv => TypeOK
    BY DEF Inv, Types, JobType, LeftInv, TypeOK
  <1>2. Init => LeftInv
    BY DEF Init, LeftInv
  <1>3. LeftInv /\ [Next]_vars => LeftInv'
    <2> SUFFICES ASSUME LeftInv, [Next]_vars PROVE LeftInv'
      OBVIOUS
    <2>1. ASSUME NEW w \in Workers, Work(w) PROVE LeftInv'
      <3>1. left' = left \/ left' = left \cup {w}
        BY <2>1 DEF Work, Receive, Leave, List, NextHook, PostSucceeds, PostFails, PostCancelled, Finish
      <3> QED BY <3>1 DEF LeftInv
    <2>2. CASE Restart
      BY <2>2 DEF Restart, LeftInv
    <2>3. ASSUME NEW r \in Repos, NEW u \in Urls, RegisterWebhook(r, u) PROVE LeftInv'
      BY <2>3 DEF RegisterWebhook, LeftInv
    <2>4. ASSUME NEW doomed, DeleteWebhooks(doomed) PROVE LeftInv'
      BY <2>4 DEF DeleteWebhooks, LeftInv
    <2>5. ASSUME NEW e \in Events, DispatchEvent(e) PROVE LeftInv'
      BY <2>5 DEF DispatchEvent, LeftInv
    <2>6. CASE Stop \/ UNCHANGED vars
      BY <2>6 DEF Stop, vars, LeftInv
    <2> QED BY <2>1, <2>2, <2>3, <2>4, <2>5, <2>6 DEF Next, Rest
  <1> QED BY <1>1, <1>2, <1>3, Invariance, PTL DEF Spec

\* An event that DispatchEvent put on the channel is there once or with one
\* worker, whatever the workers, the process and its capacity: none is delivered
\* by two workers and none disappears while the process runs.
THEOREM Conservation == Spec => []EventsConserved
  <1>1. Inv => EventsConserved
    <2> SUFFICES ASSUME Inv, NEW e \in Events
                 PROVE  /\ Cardinality({i \in 1 .. Len(queue) : queue[i] = e})
                             = IF stage[e] = "queued" THEN 1 ELSE 0
                        /\ Cardinality({w \in Workers : Busy(w) /\ job[w].event = e})
                             = IF stage[e] = "taken" THEN 1 ELSE 0
      BY DEF EventsConserved
    <2> DEFINE queued == {i \in 1 .. Len(queue) : queue[i] = e}
               held == {w \in Workers : Busy(w) /\ job[w].event = e}
    <2>1. ASSUME stage[e] = "queued" PROVE Cardinality(queued) = 1
      <3>1. PICK i \in 1 .. Len(queue) : queue[i] = e
        BY <2>1 DEF Inv, PlaceInv
      <3>2. queued = {i}
        BY <3>1 DEF Inv, PlaceInv
      <3> HIDE DEF queued
      <3> QED BY <2>1, <3>2, FS_Singleton
    <2>2. ASSUME stage[e] # "queued" PROVE Cardinality(queued) = 0
      <3>1. queued = {}
        BY <2>2 DEF Inv, PlaceInv
      <3> HIDE DEF queued
      <3> QED BY <2>2, <3>1, FS_EmptySet
    <2>3. ASSUME stage[e] = "taken" PROVE Cardinality(held) = 1
      <3>1. PICK w \in Workers : Busy(w) /\ job[w].event = e
        BY <2>3 DEF Inv, PlaceInv
      <3>2. held = {w}
        BY <3>1 DEF Inv, PlaceInv
      <3> HIDE DEF held
      <3> QED BY <2>3, <3>2, FS_Singleton
    <2>4. ASSUME stage[e] # "taken" PROVE Cardinality(held) = 0
      <3>1. held = {}
        BY <2>4 DEF Inv, PlaceInv
      <3> HIDE DEF held
      <3> QED BY <2>4, <3>1, FS_EmptySet
    <2>5. Cardinality(queued) = IF stage[e] = "queued" THEN 1 ELSE 0
      BY <2>1, <2>2
    <2>6. Cardinality(held) = IF stage[e] = "taken" THEN 1 ELSE 0
      BY <2>3, <2>4
    <2> QED BY <2>5, <2>6
  <1> QED BY <1>1, Invariance, PTL

\* handleEvent serves each webhook that was there from the dispatch on, or gives
\* it up after every attempt: failing endpoints, restarts and registrations that
\* come and go take nothing from the others.
THEOREM Served == Spec => []HandledReachesAll
  <1>1. Inv => HandledReachesAll
    BY DEF Inv, ReachInv
  <1> QED BY <1>1, Invariance, PTL

\* handleEvent posts to webhooks of the event's repository only, and to none
\* deleted before the event was dispatched.
THEOREM Wanted == Spec => []PostsAreWanted
  <1>1. Inv => PostsAreWanted
    <2> SUFFICES ASSUME Inv, NEW w \in Workers, Busy(w),
                        NEW h \in job[w].todo \cup ({job[w].at} \ {None})
                 PROVE  h.repo = RepoOf[job[w].event] /\ h.id \notin gone[job[w].event]
      BY DEF PostsAreWanted
    <2>1. Serves(w)
      BY JobFacts
    <2> QED BY <2>1 DEF Serves
  <1> QED BY <1>1, Invariance, PTL

\* An accepted post ends the retries of sendWebhook for good.
THEOREM NoRepetition == Spec => NoPostAfterSuccess
  <1> DEFINE Quiet == \A e \in Events, i \in Ids : <<e, i>> \in accepted => posts'[e][i] = posts[e][i]
  <1>1. ASSUME Inv, [Next]_vars, NEW e \in Events, NEW i \in Ids, <<e, i>> \in accepted
        PROVE  posts'[e][i] = posts[e][i]
    <2>1. ASSUME NEW w \in Workers, PostSucceeds(w) \/ PostFails(w)
          PROVE  posts'[e][i] = posts[e][i]
      <3> DEFINE d == job[w].event  j == job[w].at.id
      <3>1. /\ Busy(w) /\ job[w].at # None /\ posts' = [posts EXCEPT ![d][j] = @ + 1]
        BY <2>1 DEF PostSucceeds, PostFails
      <3>2. Serves(w) /\ d \in Events
        BY <3>1, JobFacts, <1>1
      <3>3. <<d, j>> \notin accepted
        BY <3>1, <3>2 DEF Serves
      <3>4. posts \in [Events -> [Ids -> 0 .. Attempts]]
        BY <1>1 DEF Inv, Types
      <3>5. d # e \/ j # i
        BY <1>1, <3>3
      <3> HIDE DEF d, j
      <3> QED BY <3>1, <3>2, <3>4, <3>5
    <2>2. CASE UNCHANGED posts
      BY <2>2
    <2>3. UNCHANGED posts \/ \E w \in Workers : PostSucceeds(w) \/ PostFails(w)
      BY <1>1 DEF Next, vars, RegisterWebhook, DeleteWebhooks, DispatchEvent, Work, Receive, Leave, List,
                  NextHook, PostCancelled, Finish, Stop, Restart, Rest
    <2> QED BY <2>1, <2>2, <2>3
  <1>2. Inv /\ [Next]_vars => [Quiet]_vars
    BY <1>1
  <1> QED BY <1>2, Invariance, PTL DEF Spec, NoPostAfterSuccess

-------------------------------------------------------------------------------
(* The service keeps the ledger of Deliveries: every step of its workers,   *)
(* handlers and of the process is a step of the ledger, or shows nothing.   *)

\* A webhook that was there at the dispatch is still there under its id, or its id
\* is nobody's.
LiveInv ==
  \A e \in Events :
    /\ stage[e] = "new" => live[e] = {}
    /\ \A h \in live[e], k \in hooks : h.id = k.id => h = k

LEMMA LiveInvStep == ASSUME Inv, LiveInv, [Next]_vars PROVE LiveInv'
  <1>1. ASSUME NEW r \in Repos, NEW u \in Urls, RegisterWebhook(r, u) PROVE LiveInv'
    <2>1. /\ hooks' = hooks \cup {[id |-> lastId + 1, repo |-> r, url |-> u]}
          /\ UNCHANGED <<stage, live>>
      BY <1>1 DEF RegisterWebhook
    <2>2. \A e \in Events : \A h \in live[e] : h.id <= lastId /\ h.id \in Nat
      <3>1. \A e \in Events : \A h \in live[e] : stage[e] # "new" /\ h \in Hook
        BY DEF Inv, LiveInv, Types
      <3>2. \A h \in Hook : h.id \in Nat
        BY DEF Hook, Ids
      <3>3. \A e \in Events : stage[e] # "new" => \A h \in live[e] : h.id <= lastId
        BY DEF Inv, IdInv
      <3> QED BY <3>1, <3>2, <3>3
    <2>3. lastId \in Nat
      BY BoundAssumption DEF Inv, Types
    <2>4. \A e \in Events : \A h \in live[e] : h.id # lastId + 1
      BY <2>2, <2>3
    <2> QED BY <2>1, <2>4 DEF LiveInv
  <1>2. ASSUME NEW doomed, DeleteWebhooks(doomed) PROVE LiveInv'
    BY <1>2 DEF DeleteWebhooks, LiveInv
  <1>3. ASSUME NEW e \in Events, DispatchEvent(e) PROVE LiveInv'
    <2>1. /\ stage'[e] # "new" /\ live'[e] = HooksOf(RepoOf[e])
          /\ \A d \in Events : d # e => stage'[d] = stage[d] /\ live'[d] = live[d]
      BY <1>3 DEF DispatchEvent, Inv, Types
    <2>2. UNCHANGED hooks /\ HooksOf(RepoOf[e]) \subseteq hooks
      BY <1>3 DEF DispatchEvent, HooksOf
    <2>3. \A h, k \in hooks : h.id = k.id => h = k
      BY DEF Inv, IdInv
    <2> QED BY <2>1, <2>2, <2>3 DEF LiveInv
  <1>4. ASSUME UNCHANGED <<hooks, live>>, \A e \in Events : stage'[e] = "new" => stage[e] = "new"
        PROVE  LiveInv'
    BY <1>4 DEF LiveInv
  <1>5. ASSUME NEW w \in Workers, Work(w) PROVE LiveInv'
    <2>1. UNCHANGED <<hooks, live>>
      BY <1>5 DEF Work, Receive, Leave, List, NextHook, PostSucceeds, PostFails, PostCancelled, Finish
    <2>2. ASSUME NEW e \in Events, stage'[e] = "new" PROVE stage[e] = "new"
      <3>1. stage \in [Events -> Stages]
        BY DEF Inv, Types
      <3>2. CASE Receive(w)
        BY <2>2, <3>1, <3>2 DEF Receive
      <3>3. CASE List(w)
        BY <2>2, <3>1, <3>3 DEF List
      <3>4. CASE Finish(w)
        BY <2>2, <3>1, <3>4 DEF Finish
      <3>5. CASE Leave(w) \/ NextHook(w) \/ PostSucceeds(w) \/ PostFails(w) \/ PostCancelled(w)
        BY <2>2, <3>5 DEF Leave, NextHook, PostSucceeds, PostFails, PostCancelled
      <3> QED BY <1>5, <3>2, <3>3, <3>4, <3>5 DEF Work
    <2> QED BY <1>4, <2>1, <2>2
  <1>6. CASE Restart
    BY <1>4, <1>6 DEF Restart
  <1>7. CASE Stop \/ UNCHANGED vars
    BY <1>4, <1>7 DEF Stop, vars
  <1> QED BY <1>1, <1>2, <1>3, <1>5, <1>6, <1>7 DEF Next, Rest

Fates == [e \in Events |-> FateOf(e)]
Retired == (1 .. lastId) \ IdsOf(hooks)
Owed == [e \in Events |-> IdsOf(live[e])]

\* What a stage stands for in the ledger.
LEMMA FateFacts ==
  ASSUME NEW e \in Events
  PROVE  /\ Fates[e] = FateOf(e)
         /\ stage[e] = "new" => FateOf(e) = "new"
         /\ stage[e] \in {"queued", "taken"} => FateOf(e) = "open"
         /\ stage[e] = "handled" => FateOf(e) = "done"
         /\ stage[e] \in {"dropped", "unlisted", "cancelled", "lost"} => FateOf(e) = "lost"
  BY DEF FateOf, Fates

LEMMA FateFactsNext ==
  ASSUME NEW e \in Events
  PROVE  /\ stage'[e] = "new" => FateOf(e)' = "new"
         /\ stage'[e] \in {"queued", "taken"} => FateOf(e)' = "open"
         /\ stage'[e] = "handled" => FateOf(e)' = "done"
         /\ stage'[e] \in {"dropped", "unlisted", "cancelled", "lost"} => FateOf(e)' = "lost"
  BY DEF FateOf

\* Only the event that a step is about changes its fate.
LEMMA FateFrame ==
  ASSUME NEW e \in Events, \A d \in Events : d # e => stage'[d] = stage[d]
  PROVE  /\ Fates' = [Fates EXCEPT ![e] = FateOf(e)']
         /\ FateOf(e)' = FateOf(e) => Fates' = Fates
  <1>1. \A d \in Events : d # e => FateOf(d)' = FateOf(d)
    BY DEF FateOf
  <1> QED BY <1>1 DEF Fates

\* Steps that show nothing.
LEMMA Hidden ==
  ASSUME UNCHANGED <<hooks, lastId, live, gone, posts, accepted>>, Fates' = Fates
  PROVE  UNCHANGED Ledger!vars
  BY DEF Ledger!vars, Fates, IdsOf

LEMMA HiddenStage ==
  ASSUME UNCHANGED <<hooks, lastId, stage, live, gone, posts, accepted>>
  PROVE  UNCHANGED Ledger!vars
  <1>1. Fates' = Fates
    BY DEF Fates, FateOf
  <1> QED BY <1>1, Hidden

LEMMA RegisterKeeps ==
  ASSUME Inv, NEW r \in Repos, NEW u \in Urls, RegisterWebhook(r, u)
  PROVE  Ledger!Next
  <1> DEFINE i == lastId + 1
  <1>1. /\ hooks' = hooks \cup {[id |-> i, repo |-> r, url |-> u]} /\ lastId' = i
        /\ i \in Ids /\ lastId \in Nat /\ UNCHANGED <<stage, live, gone, posts, accepted>>
    BY BoundAssumption DEF RegisterWebhook, Inv, Types, Ids
  <1>2. \A j \in IdsOf(hooks) : j <= lastId /\ j \in Nat
    BY DEF IdsOf, Inv, IdInv, Types, Hook, Ids
  <1>3. i \notin IdsOf(hooks) /\ i \notin Retired
    BY <1>1, <1>2 DEF Retired
  <1>4. IdsOf(hooks)' = IdsOf(hooks) \cup {i}
    <2> DEFINE new == [id |-> i, repo |-> r, url |-> u]
    <2>1. new.id = i /\ hooks' = hooks \cup {new}
      BY <1>1
    <2> HIDE DEF new, i
    <2> QED BY <2>1 DEF IdsOf
  <1>5. Retired' = Retired
    <2>1. 1 .. lastId' = (1 .. lastId) \cup {i}
      BY <1>1
    <2> QED BY <1>3, <1>4, <2>1 DEF Retired
  <1>6. Fates' = Fates /\ Owed' = Owed
    BY <1>1 DEF Fates, FateOf, Owed, IdsOf
  <1>7. Ledger!Register(i)
    BY <1>1, <1>3, <1>4, <1>5, <1>6 DEF Ledger!Register, Retired, Fates, Owed
  <1> QED BY <1>1, <1>7 DEF Ledger!Next

LEMMA RetireKeeps ==
  ASSUME Inv, NEW doomed \in SUBSET hooks, DeleteWebhooks(doomed)
  PROVE  Ledger!Next
  <1> DEFINE S == IdsOf(doomed)
  <1>1. hooks' = hooks \ doomed /\ UNCHANGED <<lastId, stage, live, gone, posts, accepted>>
    BY DEF DeleteWebhooks
  <1>2. IdsOf(hooks)' = IdsOf(hooks) \ S
    <2>1. \A h, k \in hooks : h.id = k.id => h = k
      BY DEF Inv, IdInv
    <2> QED BY <1>1, <2>1 DEF IdsOf
  <1>3. S \subseteq IdsOf(hooks)
    BY DEF IdsOf
  <1>4. \A j \in IdsOf(hooks) : j \in Ids /\ j \in 1 .. lastId
    <2>1. \A h \in hooks : h.id \in Ids /\ h.id <= lastId
      BY DEF Inv, Types, IdInv, Hook
    <2>2. lastId \in Nat
      BY BoundAssumption DEF Inv, Types
    <2> QED BY <2>1, <2>2 DEF IdsOf, Ids
  <1>5. Retired' = Retired \cup S
    <2>1. 1 .. lastId' = 1 .. lastId
      BY <1>1
    <2> HIDE DEF S
    <2> QED BY <1>2, <1>3, <1>4, <2>1 DEF Retired
  <1>6. Fates' = Fates /\ Owed' = Owed
    BY <1>1 DEF Fates, FateOf, Owed, IdsOf
  <1> HIDE DEF S
  <1>7. Ledger!Retire(S)
    BY <1>1, <1>2, <1>3, <1>5, <1>6 DEF Ledger!Retire, Retired, Fates, Owed
  <1>8. S \in SUBSET Ids
    BY <1>3, <1>4
  <1> QED BY <1>7, <1>8 DEF Ledger!Next

LEMMA AnnounceKeeps ==
  ASSUME Inv, NEW e \in Events, DispatchEvent(e)
  PROVE  Ledger!Next
  <1>1. /\ stage[e] = "new" /\ stage'[e] \in {"queued", "dropped"}
        /\ \A d \in Events : d # e => stage'[d] = stage[d]
        /\ live' = [live EXCEPT ![e] = HooksOf(RepoOf[e])]
        /\ UNCHANGED <<hooks, lastId, posts, accepted>>
    BY DEF DispatchEvent, Inv, Types
  <1>2. gone' = [gone EXCEPT ![e] = Retired]
    BY DEF DispatchEvent, Retired, IdsOf
  <1>3. \E f \in {"open", "lost"} : Fates' = [Fates EXCEPT ![e] = f]
    <2>1. FateOf(e)' \in {"open", "lost"}
      BY <1>1, FateFactsNext
    <2>2. Fates' = [Fates EXCEPT ![e] = FateOf(e)']
      BY <1>1, FateFrame
    <2> QED BY <2>1, <2>2
  <1>4. \E S \in SUBSET IdsOf(hooks) : Owed' = [Owed EXCEPT ![e] = S]
    <2>1. IdsOf(HooksOf(RepoOf[e])) \in SUBSET IdsOf(hooks)
      BY DEF IdsOf, HooksOf
    <2>2. live'[e] = HooksOf(RepoOf[e]) /\ \A d \in Events : d # e => live'[d] = live[d]
      BY <1>1 DEF Inv, Types
    <2>3. Owed' = [Owed EXCEPT ![e] = IdsOf(HooksOf(RepoOf[e]))]
      BY <2>2 DEF Owed, IdsOf
    <2> QED BY <2>1, <2>3
  <1>5. Fates[e] = "new"
    BY <1>1, FateFacts
  <1>6. IdsOf(hooks)' = IdsOf(hooks) /\ Retired' = Retired
    BY <1>1 DEF IdsOf, Retired
  <1>7. Ledger!Announce(e)
    BY <1>1, <1>2, <1>3, <1>4, <1>5, <1>6 DEF Ledger!Announce, Fates, Owed, Retired
  <1> QED BY <1>7 DEF Ledger!Next

\* A step of the workers or the process that leaves the registrations alone.
LEMMA Unregistered ==
  ASSUME UNCHANGED <<hooks, lastId, live, gone>>
  PROVE  /\ UNCHANGED gone
         /\ IdsOf(hooks)' = IdsOf(hooks) /\ Retired' = Retired /\ Owed' = Owed
  BY DEF IdsOf, Retired, Owed

LEMMA PostKeeps ==
  ASSUME Inv, NEW w \in Workers, PostSucceeds(w) \/ PostFails(w)
  PROVE  Ledger!Next
  <1> DEFINE e == job[w].event  i == job[w].at.id
  <1>1. /\ Busy(w) /\ job[w].at # None /\ posts' = [posts EXCEPT ![e][i] = @ + 1]
        /\ accepted' \in {accepted, accepted \cup {<<e, i>>}}
        /\ UNCHANGED <<hooks, lastId, stage, live, gone>>
    BY DEF PostSucceeds, PostFails
  <1>2. /\ e \in Events /\ stage[e] = "taken" /\ i \in Ids
        /\ posts[e][i] < Attempts /\ <<e, i>> \notin accepted /\ i \notin gone[e]
    <2>1. Serves(w) /\ e \in Events /\ stage[e] = "taken" /\ job[w].at \in Hook
      BY <1>1, JobFacts
    <2>2. i \in Ids
      BY <2>1 DEF Hook
    <2> QED BY <1>1, <2>1, <2>2 DEF Serves
  <1> HIDE DEF e, i
  <1>3. Fates[e] = "open"
    BY <1>2, FateFacts
  <1>4. Fates' = Fates
    BY <1>1 DEF Fates, FateOf
  <1>5. UNCHANGED gone /\ IdsOf(hooks)' = IdsOf(hooks) /\ Retired' = Retired /\ Owed' = Owed
    BY <1>1, Unregistered
  <1>6. Ledger!Post(e, i)
    BY <1>1, <1>2, <1>3, <1>4, <1>5 DEF Ledger!Post, Fates, Owed, Retired
  <1> QED BY <1>2, <1>6 DEF Ledger!Next

\* Events that were open are lost.
LEMMA LoseKeeps ==
  ASSUME NEW S \in SUBSET Events, \A e \in S : Fates[e] = "open" /\ FateOf(e)' = "lost",
         \A e \in Events \ S : FateOf(e)' = FateOf(e),
         UNCHANGED <<hooks, lastId, live, gone, posts, accepted>>
  PROVE  Ledger!Next
  <1>1. Fates' = [e \in Events |-> IF e \in S THEN "lost" ELSE Fates[e]]
    BY DEF Fates
  <1>2. UNCHANGED gone /\ IdsOf(hooks)' = IdsOf(hooks) /\ Retired' = Retired /\ Owed' = Owed
    BY Unregistered
  <1>3. Ledger!Lose(S)
    BY <1>1, <1>2 DEF Ledger!Lose, Fates, Owed, Retired
  <1> QED BY <1>3 DEF Ledger!Next

\* A worker that ends an event leaves the fates of the others.
LEMMA EndsOne ==
  ASSUME Inv, NEW w \in Workers, Busy(w), NEW end \in Stages,
         stage' = [stage EXCEPT ![job[w].event] = end]
  PROVE  /\ job[w].event \in Events /\ Fates[job[w].event] = "open"
         /\ stage'[job[w].event] = end
         /\ \A d \in Events : d # job[w].event => stage'[d] = stage[d] /\ FateOf(d)' = FateOf(d)
  <1> DEFINE e == job[w].event
  <1>1. e \in Events /\ stage[e] = "taken"
    BY JobFacts
  <1>2. stage'[e] = end /\ \A d \in Events : d # e => stage'[d] = stage[d]
    BY <1>1 DEF Inv, Types
  <1> HIDE DEF e
  <1>3. Fates[e] = "open" /\ \A d \in Events : d # e => FateOf(d)' = FateOf(d)
    BY <1>1, <1>2, FateFacts DEF FateOf
  <1> QED BY <1>1, <1>2, <1>3 DEF e

LEMMA GivesUpKeeps ==
  ASSUME Inv, NEW w \in Workers, Busy(w), NEW end \in {"unlisted", "cancelled"},
         stage' = [stage EXCEPT ![job[w].event] = end],
         UNCHANGED <<hooks, lastId, live, gone, posts, accepted>>
  PROVE  Ledger!Next
  <1>0. PICK e \in Events : e = job[w].event
    BY EndsOne DEF Stages
  <1>1. /\ Fates[e] = "open" /\ stage'[e] = end
        /\ \A d \in Events : d # e => FateOf(d)' = FateOf(d)
    BY <1>0, EndsOne DEF Stages
  <1>2. stage'[e] \in {"dropped", "unlisted", "cancelled", "lost"}
    BY <1>1
  <1>3. FateOf(e)' = "lost"
    BY <1>1, <1>2, FateFactsNext
  <1>4. {e} \in SUBSET Events /\ \A d \in {e} : Fates[d] = "open" /\ FateOf(d)' = "lost"
    BY <1>1, <1>3
  <1>5. \A d \in Events \ {e} : FateOf(d)' = FateOf(d)
    BY <1>1
  <1> QED BY <1>4, <1>5, LoseKeeps

LEMMA FinishKeeps ==
  ASSUME Inv, LiveInv, NEW w \in Workers, Finish(w)
  PROVE  Ledger!Next
  <1>0. PICK e \in Events : e = job[w].event
    BY JobFacts DEF Finish
  <1>1. /\ Busy(w) /\ job[w].listed /\ job[w].at = None /\ job[w].todo = {}
        /\ stage' = [stage EXCEPT ![e] = IF stopping THEN "cancelled" ELSE "handled"]
        /\ UNCHANGED <<hooks, lastId, live, gone, posts, accepted>>
    BY <1>0 DEF Finish
  <1>2. CASE stopping
    BY <1>0, <1>1, <1>2, GivesUpKeeps
  <1>3. CASE ~stopping
    <2>1. stage' = [stage EXCEPT ![e] = "handled"]
      BY <1>1, <1>3
    <2>2. /\ Fates[e] = "open" /\ stage'[e] = "handled"
          /\ \A d \in Events : d # e => stage'[d] = stage[d]
      BY <1>0, <1>1, <2>1, EndsOne DEF Stages
    <2>3. Reaches(w) /\ stage[e] = "taken"
      BY <1>0, <1>1, JobFacts
    <2>4. \A h \in live[e] \cap hooks : <<e, h.id>> \in accepted \/ posts[e][h.id] = Attempts
      <3>1. \A h \in hooks : h # None
        BY IdleAssumption DEF Inv, Types
      <3> QED BY <1>0, <1>1, <1>3, <2>3, <3>1 DEF Reaches
    <2>5. \A i \in IdsOf(live[e]) \cap IdsOf(hooks) : <<e, i>> \in accepted \/ posts[e][i] = Attempts
      <3> SUFFICES ASSUME NEW i \in IdsOf(live[e]), i \in IdsOf(hooks)
                   PROVE  <<e, i>> \in accepted \/ posts[e][i] = Attempts
        OBVIOUS
      <3>1. PICK h \in live[e] : i = h.id
        BY DEF IdsOf
      <3>2. PICK k \in hooks : i = k.id
        BY DEF IdsOf
      <3>3. h = k
        BY <3>1, <3>2 DEF LiveInv
      <3> QED BY <2>4, <3>1, <3>2, <3>3
    <2>6. FateOf(e)' = "done"
      BY <2>2, FateFactsNext
    <2>7. Fates' = [Fates EXCEPT ![e] = "done"]
      BY <2>2, <2>6, FateFrame
    <2>8. UNCHANGED gone /\ IdsOf(hooks)' = IdsOf(hooks) /\ Retired' = Retired /\ Owed' = Owed
      BY <1>1, Unregistered
    <2>9. Owed[e] = IdsOf(live[e])
      BY DEF Owed
    <2>10. Ledger!Complete(e)
      BY <1>1, <2>2, <2>5, <2>7, <2>8, <2>9 DEF Ledger!Complete, Fates, Owed, Retired
    <2> QED BY <2>10 DEF Ledger!Next
  <1> QED BY <1>2, <1>3

LEMMA ReceiveHidden ==
  ASSUME Inv, NEW w \in Workers, Receive(w)
  PROVE  UNCHANGED Ledger!vars
  <1>1. queue \in Seq(Events) /\ queue # <<>> /\ stage \in [Events -> Stages]
    BY DEF Receive, Inv, Types
  <1>2. PICK e \in Events : e = Head(queue) /\ e = queue[1] /\ 1 \in 1 .. Len(queue)
    BY <1>1
  <1>3. stage[e] = "queued"
    BY <1>2 DEF Inv, PlaceInv
  <1>4. /\ stage' = [stage EXCEPT ![e] = "taken"]
        /\ UNCHANGED <<hooks, lastId, live, gone, posts, accepted>>
    BY <1>2 DEF Receive
  <1>5. stage'[e] = "taken" /\ \A d \in Events : d # e => stage'[d] = stage[d]
    BY <1>1, <1>2, <1>4
  <1>6. FateOf(e)' = FateOf(e)
    BY <1>2, <1>3, <1>5, FateFacts, FateFactsNext
  <1>7. Fates' = Fates
    BY <1>2, <1>5, <1>6, FateFrame
  <1> QED BY <1>4, <1>7, Hidden

LEMMA WorkKeeps ==
  ASSUME Inv, LiveInv, NEW w \in Workers, Work(w)
  PROVE  [Ledger!Next]_(Ledger!vars)
  <1>1. CASE Receive(w)
    BY <1>1, ReceiveHidden
  <1>2. CASE List(w)
    <2>1. CASE UNCHANGED stage
      BY <1>2, <2>1, HiddenStage DEF List
    <2>2. CASE stage' = [stage EXCEPT ![job[w].event] = "unlisted"]
      BY <1>2, <2>2, GivesUpKeeps DEF List
    <2> QED BY <1>2, <2>1, <2>2 DEF List
  <1>3. CASE Leave(w) \/ NextHook(w) \/ PostCancelled(w)
    BY <1>3, HiddenStage DEF Leave, NextHook, PostCancelled
  <1>4. CASE PostSucceeds(w) \/ PostFails(w)
    BY <1>4, PostKeeps
  <1>5. CASE Finish(w)
    BY <1>5, FinishKeeps
  <1> QED BY <1>1, <1>2, <1>3, <1>4, <1>5 DEF Work

LEMMA RestartKeeps == ASSUME Inv, Restart PROVE Ledger!Next
  <1> DEFINE S == {e \in Events : stage[e] \in {"queued", "taken"}}
  <1>1. /\ stage' = [e \in Events |-> IF stage[e] \in {"queued", "taken"} THEN "lost" ELSE stage[e]]
        /\ UNCHANGED <<hooks, lastId, live, gone, posts, accepted>>
    BY DEF Restart
  <1>2. ASSUME NEW e \in S PROVE Fates[e] = "open" /\ FateOf(e)' = "lost"
    <2>1. stage'[e] = "lost"
      BY <1>1
    <2> QED BY <2>1, FateFacts, FateFactsNext
  <1>3. ASSUME NEW e \in Events \ S PROVE FateOf(e)' = FateOf(e)
    <2>1. stage'[e] = stage[e]
      BY <1>1
    <2> QED BY <2>1 DEF FateOf
  <1>4. S \in SUBSET Events
    OBVIOUS
  <1> HIDE DEF S
  <1> QED BY <1>1, <1>2, <1>3, <1>4, LoseKeeps

LEMMA NextKeeps == ASSUME Inv, LiveInv, [Next]_vars PROVE [Ledger!Next]_(Ledger!vars)
  <1>1. ASSUME NEW r \in Repos, NEW u \in Urls, RegisterWebhook(r, u) PROVE Ledger!Next
    BY <1>1, RegisterKeeps
  <1>2. ASSUME NEW doomed \in SUBSET hooks, DeleteWebhooks(doomed) PROVE Ledger!Next
    BY <1>2, RetireKeeps
  <1>3. \A r \in Repos : HooksOf(r) \in SUBSET hooks
    BY DEF HooksOf
  <1>4. ASSUME NEW e \in Events, DispatchEvent(e) PROVE Ledger!Next
    BY <1>4, AnnounceKeeps
  <1>5. ASSUME NEW w \in Workers, Work(w) PROVE [Ledger!Next]_(Ledger!vars)
    BY <1>5, WorkKeeps
  <1>6. CASE Stop \/ UNCHANGED vars
    BY <1>6, HiddenStage DEF Stop, vars
  <1>7. CASE Restart
    BY <1>7, RestartKeeps
  <1> QED BY <1>1, <1>2, <1>3, <1>4, <1>5, <1>6, <1>7 DEF Next, Rest

\* DispatchEvent, the workers with their listing, posts, retries and cancellation,
\* registrations that come and go and restarts at any moment keep the ledger of
\* Deliveries, whatever the numbers of each.
THEOREM LedgerIsKept == Spec => KeepsLedger
  <1>1. Init => LiveInv
    BY DEF Init, LiveInv
  <1>2. Inv /\ LiveInv /\ [Next]_vars => LiveInv'
    BY LiveInvStep
  <1>3. Spec => []LiveInv
    BY <1>1, <1>2, Invariance, PTL DEF Spec
  <1>4. Init => Ledger!Init
    <2> SUFFICES ASSUME Init PROVE Ledger!Init
      OBVIOUS
    <2>1. IdsOf(hooks) = {} /\ Retired = {}
      BY DEF Init, IdsOf, Retired
    <2>2. Fates = [e \in Events |-> "new"] /\ Owed = [e \in Events |-> {}]
      BY DEF Init, Fates, FateOf, Owed, IdsOf
    <2> QED BY <2>1, <2>2 DEF Init, Ledger!Init, Fates, Owed, Retired
  <1>5. Inv /\ LiveInv /\ [Next]_vars => [Ledger!Next]_(Ledger!vars)
    BY NextKeeps
  <1> QED BY <1>3, <1>4, <1>5, Invariance, PTL DEF Spec, KeepsLedger, Ledger!Spec
===============================================================================
