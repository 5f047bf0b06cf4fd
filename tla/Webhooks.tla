------------------------------ MODULE Webhooks ------------------------------
(***************************************************************************)
(* The whole way of an event: add_member and the relay (Outbox) fill the   *)
(* queue that the delivery jobs (Delivery) empty, and the organization's   *)
(* administrators change the endpoints both of them read.                  *)
(***************************************************************************)
EXTENDS Outbox, Sequences

CONSTANTS MaxTries, Urls, Answers

VARIABLES received, abandoned, pinned, dialled

workerVars == <<received, abandoned, pinned, dialled>>
allVars == <<vars, workerVars>>

D == INSTANCE Delivery

ASSUME TriesAssumption == MaxTries \in Nat
ASSUME AnswersAssumption == Answers \subseteq Seq(D!Address)

\* What deliveries leave alone of the outbox.
restVars == <<addVars, outbox, queueUp, roundVars, enqueued, aborted, steady>>

WebhooksInit ==
    /\ Init
    /\ received = {} /\ abandoned = {}
    /\ pinned = {} /\ dialled = {}

WebhooksNext ==
    \/ Next /\ UNCHANGED workerVars
    \/ D!Deliver /\ UNCHANGED restVars

\* The relay cron runs and the workers take every job from the queue.
WebhooksFairness ==
    /\ \A w \in Relays : WF_allVars(Relay(w) /\ UNCHANGED workerVars)
    /\ \A e \in Requests, p \in Endpoints :
         WF_allVars(D!DeliverPair(<<e, p>>) /\ UNCHANGED restVars)

WebhooksSpec == WebhooksInit /\ [][WebhooksNext]_allVars /\ WebhooksFairness

-----------------------------------------------------------------------------

DeliveryTypeOK ==
    /\ TypeOK
    /\ received \subseteq Requests \X Endpoints
    /\ abandoned \subseteq Requests \X Endpoints
    /\ \A pin \in pinned : pin[1] \in jobs /\ pin[1].at = "posting"

\* A receiver hears only of members whose addition was committed, whatever was
\* retried or ran twice (dispatch.py: the relay reads committed rows).
OnlyCommittedDelivered == \A pair \in received : outbox[pair[1]] # NoRow

\* No worker ever connects to an address that leads to anything but the public
\* internet, whatever the resolver answers from one moment to the next and
\* however often the job is retried (egress.py: the connection is pinned to
\* the address that was judged).
DialsPublicOnly == \A ip \in dialled : D!Destination(ip).block = "global"

\* A committed event is published or dead-lettered in the end; and once it is
\* published, every endpoint that stays subscribed receives it, unless its
\* tries run out (outbox.py _fan_out: "Delivery is therefore at-least-once";
\* tasks.py deliver_webhook).
AtLeastOnce ==
    \A e \in Requests, p \in Endpoints :
        (outbox[e] # NoRow /\ outbox[e].published /\ p \in steady[e])
            ~> (p \notin steady[e] \/ <<e, p>> \in received \cup abandoned)

\* The queue drains: no job is retried for ever.
QueueDrains ==
    \A e \in Requests, p \in Endpoints :
        (\E j \in jobs : D!Pair(j) = <<e, p>>)
            ~> ~(\E j \in jobs : D!Pair(j) = <<e, p>>)

\* What names a job: each enqueue of an event for an endpoint makes one.
JobId(j) == <<j.event, j.endpoint, j.nth>>

\* The steps a job may still take, whatever dies.
TurnsLeft(j) ==
    3 * (MaxTries - j.try) + (CASE j.at = "queued" -> 0 [] j.at = "acking" -> 1 [] OTHER -> 2)

\* A job is at one place, the queue or a worker, and has no more tries than it
\* is granted, however often its worker dies (worker.py WorkerSettings; arq).
JobsSingle ==
    /\ \A i, j \in jobs : JobId(i) = JobId(j) => i = j
    /\ \A j \in jobs : j.try <= MaxTries

\* A job that appears was enqueued just then, or has come forth of the same job
\* with fewer steps left to it: what QueueDrains rests on.  With the bound on
\* enqueues (DuplicatesBounded) the work an event can cause is bounded.
JobsWearOut ==
    [][\A k \in jobs' \ jobs :
         \/ k.nth > enqueued[k.event][k.endpoint]
         \/ \E j \in jobs \ jobs' : JobId(j) = JobId(k) /\ TurnsLeft(k) < TurnsLeft(j)]_allVars

-----------------------------------------------------------------------------
(* The outbox, the relay and the workers implement Channel.                 *)

Sent == {e \in Requests : outbox[e] # NoRow}

Published == {e \in Sent : outbox[e].published}

Carried == {D!Pair(j) : j \in jobs}

Ch == INSTANCE Channel WITH
    Events <- Requests, Receivers <- Endpoints, sent <- Sent, published <- Published,
    owed <- steady, carried <- Carried

\* Whatever dies, is refused, retried, queued twice or reconfigured, no endpoint
\* that stays subscribed is forgotten on the way from the commit to its receiver
\* (outbox.py _fan_out: "Delivery is therefore at-least-once"; tasks.py
\* deliver_webhook: a 2xx, the last try or a refused target ends a delivery).
ImplementsChannel == Ch!Spec

-----------------------------------------------------------------------------
(* What the implementation rests on, beside the invariant of the outbox.    *)

\* A published event is on its way to every endpoint that stayed subscribed,
\* unless it has come or was given up: what AtLeastOnce then drives home.
NothingForgotten == \A e \in Published : \A p \in steady[e] : Ch!Accounted(e, p)

\* So is an event of which a job was ever queued: no job ends unheard.
JobsAccounted ==
    \A e \in Requests : \A p \in steady[e] :
        enqueued[e][p] > 0 => Ch!Accounted(e, p)

\* A job waits for its acknowledgement only after its receiver answered.
AckingReceived == \A j \in jobs : j.at = "acking" => D!Pair(j) \in received
=============================================================================
