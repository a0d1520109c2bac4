------------------------------- MODULE Webhooks -------------------------------
(***************************************************************************)
(* The webhook service: registrations, the bounded channel of events, the  *)
(* workers that deliver them, and the process that may stop and start anew.*)
(*                                                                         *)
(* DispatchEvent puts an event on the channel or drops it.  A worker takes *)
(* an event, lists the webhooks its repository has at that time, and posts *)
(* to one after the other, up to Attempts times each.  Registrations are   *)
(* rows of the database and survive a restart; the channel and what the    *)
(* workers hold do not.                                                    *)
(***************************************************************************)
EXTENDS Naturals, Sequences, FiniteSets

CONSTANTS
  Repos, Urls,
  Silent,           \* urls whose endpoint takes requests and never answers
  Events, RepoOf,   \* ref changes to be announced, and their repositories
  Workers,
  Capacity,         \* size of the channel (1024 in the code)
  Attempts,         \* posts of one event to one webhook (3 in the code)
  MaxId,            \* bound on registrations
  MaxRestarts,      \* bound on process restarts
  QueryFails,       \* may the query of the webhooks fail?
  Idle, None

ASSUME EventAssumption == RepoOf \in [Events -> Repos] /\ Silent \subseteq Urls
ASSUME BoundAssumption ==
  /\ Capacity \in Nat \ {0} /\ Attempts \in Nat \ {0}
  /\ MaxId \in Nat /\ MaxRestarts \in Nat
  /\ QueryFails \in BOOLEAN

Ids == 1 .. MaxId
Hook == [id : Ids, repo : Repos, url : Urls]

VARIABLES
  hooks,     \* rows of the table webhooks; an id stands for its secret too
  lastId,    \* registrations so far
  stage,     \* what has become of each event
  queue,     \* the channel
  job,       \* what each worker is doing
  stopping,  \* the context of the workers is cancelled
  left,      \* the workers that have returned because of it
  restarts,  \* restarts so far
  live,      \* history: webhooks registered when the event was dispatched
  gone,      \* history: ids deleted before the event was dispatched
  posts,     \* history: posts of an event to a registration
  accepted   \* history: posts that the endpoint answered with success

vars == <<hooks, lastId, stage, queue, job, stopping, left, restarts, live, gone, posts, accepted>>

\* A job: the event, the webhooks not yet served, the one being served and the
\* posts to it that failed.
Job == [event : Events, listed : BOOLEAN, todo : SUBSET Hook,
        at : Hook \cup {None}, failed : 0 .. Attempts]

ASSUME IdleAssumption == Idle \notin Job /\ None \notin Hook

Init ==
  /\ hooks = {} /\ lastId = 0
  /\ stage = [e \in Events |-> "new"]
  /\ queue = <<>>
  /\ job = [w \in Workers |-> Idle]
  /\ stopping = FALSE /\ left = {} /\ restarts = 0
  /\ live = [e \in Events |-> {}]
  /\ gone = [e \in Events |-> {}]
  /\ posts = [e \in Events |-> [i \in Ids |-> 0]]
  /\ accepted = {}

-------------------------------------------------------------------------------
(* Registrations.                                                           *)

\* "on conflict(repository_id, url) do nothing".
UrlFree(r, u) == ~ \E h \in hooks : h.repo = r /\ h.url = u

RegisterWebhook(r, u) ==
  /\ lastId < MaxId
  /\ UrlFree(r, u)
  /\ lastId' = lastId + 1
  /\ hooks' = hooks \cup {[id |-> lastId + 1, repo |-> r, url |-> u]}
  /\ UNCHANGED <<stage, queue, job, stopping, left, restarts, live, gone, posts, accepted>>

\* Deletion of one webhook, or of its repository, which cascades.
DeleteWebhooks(doomed) ==
  /\ doomed # {}
  /\ hooks' = hooks \ doomed
  /\ UNCHANGED <<lastId, stage, queue, job, stopping, left, restarts, live, gone, posts, accepted>>

HooksOf(r) == {h \in hooks : h.repo = r}

-------------------------------------------------------------------------------
(* The channel.                                                             *)

\* The non-blocking send of DispatchEvent.
DispatchEvent(e) ==
  /\ stage[e] = "new"
  /\ IF Len(queue) < Capacity
     THEN /\ queue' = Append(queue, e)
          /\ stage' = [stage EXCEPT ![e] = "queued"]
     ELSE /\ stage' = [stage EXCEPT ![e] = "dropped"]
          /\ UNCHANGED queue
  /\ live' = [live EXCEPT ![e] = HooksOf(RepoOf[e])]
  /\ gone' = [gone EXCEPT ![e] = (1 .. lastId) \ {h.id : h \in hooks}]
  /\ UNCHANGED <<hooks, lastId, job, stopping, left, restarts, posts, accepted>>

\* Faulty: the received event stays on the channel.
Peek(q) == q

\* What a receive leaves on the channel.
Received(q) == Tail(q)

Waits(w) == job[w] = Idle /\ w \notin left

\* A waiting worker receives an event; when the context is cancelled too, select
\* chooses either.
Receive(w) ==
  /\ Waits(w) /\ queue # <<>>
  /\ job' = [job EXCEPT ![w] = [event |-> Head(queue), listed |-> FALSE,
                                todo |-> {}, at |-> None, failed |-> 0]]
  /\ stage' = [stage EXCEPT ![Head(queue)] = "taken"]
  /\ queue' = Received(queue)
  /\ UNCHANGED <<hooks, lastId, stopping, left, restarts, live, gone, posts, accepted>>

\* A waiting worker sees the cancelled context and returns; nobody receives what
\* is left on the channel, or put there later, when all have.
Leave(w) ==
  /\ Waits(w) /\ stopping
  /\ left' = left \cup {w}
  /\ UNCHANGED <<hooks, lastId, stage, queue, job, stopping, restarts, live, gone, posts, accepted>>

\* Faulty: webhooks of any repository.
AnyHooks(r) == hooks

\* ListWebhooksForRepository.
Listing(r) == HooksOf(r)

Busy(w) == job[w] # Idle

\* handleEvent asks for the webhooks; when the query fails the event is over.
List(w) ==
  /\ Busy(w) /\ ~job[w].listed
  /\ \/ /\ job' = [job EXCEPT ![w].listed = TRUE,
                               ![w].todo = Listing(RepoOf[job[w].event])]
        /\ UNCHANGED stage
     \/ /\ QueryFails \/ stopping
        /\ job' = [job EXCEPT ![w] = Idle]
        /\ stage' = [stage EXCEPT ![job[w].event] = "unlisted"]
  /\ UNCHANGED <<hooks, lastId, queue, stopping, left, restarts, live, gone, posts, accepted>>

-------------------------------------------------------------------------------
(* Deliveries.                                                              *)

\* The loop over the webhooks goes on to the next.
NextHook(w) ==
  /\ Busy(w) /\ job[w].listed /\ job[w].at = None
  /\ \E h \in job[w].todo :
       job' = [job EXCEPT ![w].todo = @ \ {h}, ![w].at = h, ![w].failed = 0]
  /\ UNCHANGED <<hooks, lastId, stage, queue, stopping, left, restarts, live, gone, posts, accepted>>

\* Faulty: a failed post does not count.
NeverTired(n) == n

\* withExponentialBackoff counts its attempts.
OneMore(n) == n + 1

\* Faulty: an endpoint that fails ends the event.
RestDropped(w) == {}

\* A webhook that was given up leaves the others to be served.
RestKept(w) == job[w].todo

\* One post.  It may fail in any way: no connection, no answer in 15 s, or a
\* status of 400 and above; whether the endpoint saw it is then unknown.
PostSucceeds(w) ==
  /\ Busy(w) /\ job[w].at # None /\ ~stopping
  /\ job[w].at.url \notin Silent
  /\ posts' = [posts EXCEPT ![job[w].event][job[w].at.id] = @ + 1]
  /\ accepted' = accepted \cup {<<job[w].event, job[w].at.id>>}
  /\ job' = [job EXCEPT ![w].at = None]
  /\ UNCHANGED <<hooks, lastId, stage, queue, stopping, left, restarts, live, gone>>

\* Faulty: a request without the 15 s timeout waits for the endpoint.
WaitsForAnswer(url) == url \notin Silent

\* The request fails by itself when nothing answers.
TimesOut(url) == TRUE

PostFails(w) ==
  /\ Busy(w) /\ job[w].at # None /\ ~stopping
  /\ TimesOut(job[w].at.url)
  /\ posts' = [posts EXCEPT ![job[w].event][job[w].at.id] = @ + 1]
  /\ LET failed == OneMore(job[w].failed) IN
     job' = [job EXCEPT ![w].failed = failed,
                        ![w].at = IF failed < Attempts THEN @ ELSE None,
                        ![w].todo = IF failed < Attempts THEN @ ELSE RestKept(w)]
  /\ UNCHANGED <<hooks, lastId, stage, queue, stopping, left, restarts, live, gone, accepted>>

\* A cancelled context fails the post at once and ends the wait before another.
PostCancelled(w) ==
  /\ Busy(w) /\ job[w].at # None /\ stopping
  /\ job' = [job EXCEPT ![w].at = None]
  /\ UNCHANGED <<hooks, lastId, stage, queue, stopping, left, restarts, live, gone, posts, accepted>>

Finish(w) ==
  /\ Busy(w) /\ job[w].listed /\ job[w].at = None /\ job[w].todo = {}
  /\ job' = [job EXCEPT ![w] = Idle]
  /\ stage' = [stage EXCEPT ![job[w].event] = IF stopping THEN "cancelled" ELSE "handled"]
  /\ UNCHANGED <<hooks, lastId, queue, stopping, left, restarts, live, gone, posts, accepted>>

-------------------------------------------------------------------------------
(* The process.                                                             *)

\* SIGTERM: the workers' context is cancelled.
Stop ==
  /\ restarts < MaxRestarts /\ ~stopping
  /\ stopping' = TRUE
  /\ UNCHANGED <<hooks, lastId, stage, queue, job, left, restarts, live, gone, posts, accepted>>

\* Run returns without waiting for the workers, or the process crashes; it is
\* started again with an empty channel.
Restart ==
  /\ restarts < MaxRestarts
  /\ restarts' = restarts + 1
  /\ stopping' = FALSE
  /\ left' = {}
  /\ queue' = <<>>
  /\ job' = [w \in Workers |-> Idle]
  /\ stage' = [e \in Events |-> IF stage[e] \in {"queued", "taken"} THEN "lost" ELSE stage[e]]
  /\ UNCHANGED <<hooks, lastId, live, gone, posts, accepted>>

Work(w) == Receive(w) \/ Leave(w) \/ List(w) \/ NextHook(w) \/ PostSucceeds(w) \/ PostFails(w)
           \/ PostCancelled(w) \/ Finish(w)

Rest == (\A e \in Events : stage[e] \notin {"new", "queued", "taken"}) /\ UNCHANGED vars

Next ==
  \/ \E r \in Repos, u \in Urls : RegisterWebhook(r, u)
  \/ \E h \in hooks : DeleteWebhooks({h})
  \/ \E r \in Repos : DeleteWebhooks(HooksOf(r))
  \/ \E e \in Events : DispatchEvent(e)
  \/ \E w \in Workers : Work(w)
  \/ Stop \/ Restart
  \/ Rest

Spec == Init /\ [][Next]_vars

\* Each worker is a goroutine that is scheduled; its query ends, each post ends
\* after 15 s at the latest and each wait after 4 s.
FairSpec == Spec /\ \A w \in Workers : WF_vars(Work(w))

-------------------------------------------------------------------------------
(* Properties.                                                              *)

Stages == {"new", "queued", "dropped", "taken", "unlisted", "handled", "cancelled", "lost"}

\* Type invariant, with the bound of the channel and of the posts.
TypeOK ==
  /\ hooks \subseteq Hook /\ lastId \in 0 .. MaxId
  /\ stage \in [Events -> Stages]
  /\ queue \in Seq(Events) /\ Len(queue) <= Capacity
  /\ job \in [Workers -> Job \cup {Idle}]
  /\ stopping \in BOOLEAN /\ restarts \in 0 .. MaxRestarts
  /\ left \subseteq Workers
  /\ live \in [Events -> SUBSET Hook] /\ gone \in [Events -> SUBSET Ids]
  /\ posts \in [Events -> [Ids -> 0 .. Attempts]]
  /\ accepted \subseteq Events \X Ids

\* Each event the service has taken on is in exactly one place: once on the
\* channel, or in the hands of one worker; every other event is in neither.
EventsConserved ==
  \A e \in Events :
    LET queued == {i \in 1 .. Len(queue) : queue[i] = e}
        held == {w \in Workers : Busy(w) /\ job[w].event = e}
    IN /\ Cardinality(queued) = IF stage[e] = "queued" THEN 1 ELSE 0
       /\ Cardinality(held) = IF stage[e] = "taken" THEN 1 ELSE 0

\* A handled event has reached each webhook that was registered when it was
\* dispatched and still is, or that webhook failed every attempt: an endpoint
\* that is down takes nothing from the others.
HandledReachesAll ==
  \A e \in Events : stage[e] = "handled" =>
    \A h \in live[e] \cap hooks :
      <<e, h.id>> \in accepted \/ posts[e][h.id] = Attempts

\* An event is posted to webhooks of its own repository only, and to none that
\* had been deleted before the event was dispatched (a rotated secret is not
\* used for later events).
PostsAreWanted ==
  \A w \in Workers : Busy(w) =>
    \A h \in job[w].todo \cup ({job[w].at} \ {None}) :
      h.repo = RepoOf[job[w].event] /\ h.id \notin gone[job[w].event]

\* No post follows one that was accepted, however the attempts interleave with
\* restarts and other workers.
NoPostAfterSuccess ==
  [][\A e \in Events, i \in Ids :
       <<e, i>> \in accepted => posts'[e][i] = posts[e][i]]_vars

\* An event on the channel is eventually delivered, given up or lost with the
\* process, unless the process is told to stop: no endpoint and no backlog blocks
\* the workers for ever.  After a stop they leave, and an event may stay on the
\* channel for as long as the process lives on.
EventsEnd ==
  \A e \in Events : stage[e] = "queued" ~> stopping \/ stage[e] \notin {"queued", "taken"}

-------------------------------------------------------------------------------
(* The service keeps the ledger of Deliveries.                              *)

IdsOf(S) == {h.id : h \in S}

FateOf(e) ==
  CASE stage[e] = "new" -> "new"
    [] stage[e] \in {"queued", "taken"} -> "open"
    [] stage[e] = "handled" -> "done"
    [] OTHER -> "lost"

Ledger == INSTANCE Deliveries WITH
  registered <- IdsOf(hooks), retired <- (1 .. lastId) \ IdsOf(hooks),
  fate <- [e \in Events |-> FateOf(e)], owed <- [e \in Events |-> IdsOf(live[e])], barred <- gone

\* Channel, workers and restarts together keep the ledger: an event is posted only
\* while it is open, to a registration that had not been deleted before, at most
\* Attempts times and never after it was accepted, and it ends as done only when
\* each registration that was there throughout has accepted it or failed every
\* attempt (service.go:96, service.go:109, service.go:198).
KeepsLedger == Ledger!Spec
===============================================================================
