------------------------------ MODULE Delivery ------------------------------
(***************************************************************************)
(* The job deliver_webhook (app/jobs/tasks.py): one signed POST of one     *)
(* event to one endpoint, run by an arq worker that runs a job again, up   *)
(* to MaxTries times in all, when it asks for a retry or its worker dies.  *)
(* The queue is filled by somebody else (module Webhooks).                 *)
(***************************************************************************)
EXTENDS Egress

CONSTANTS
    MaxTries,   \* arq's max_tries
    Urls,       \* the URLs an endpoint may have
    Answers     \* the answers a resolver may give for their hosts

VARIABLES
    endpoint,   \* the webhook_endpoints table
    jobs,       \* the jobs in the queue and in the workers
    received,   \* (event, endpoint): receivers that were sent the event
    abandoned,  \* (event, endpoint): given up, for want of tries or of a safe target
    pinned,     \* (job, target): what a worker that is posting will dial
    dialled     \* history: the addresses connected to

deliveryVars == <<endpoint, jobs, received, abandoned, pinned, dialled>>

Active(p) == endpoint[p] \in {"subscribed", "other"}

Pair(j) == <<j.event, j.endpoint>>

Becomes(j, where) == jobs' = (jobs \ {j}) \cup {[j EXCEPT !.at = where]}
Drop(j) == jobs' = jobs \ {j}
GiveUp(j) == abandoned' = abandoned \cup {Pair(j)}
Arrive(j) == received' = received \cup {Pair(j)}

-----------------------------------------------------------------------------

\* Slip: tries are not counted.
StartUncounted(j) ==
    /\ j.at = "queued"
    /\ jobs' = (jobs \ {j}) \cup
         IF Active(j.endpoint) THEN {[j EXCEPT !.at = "posting"]} ELSE {}
    /\ UNCHANGED <<endpoint, received, abandoned, pinned, dialled>>

\* arq counts the try first.  The task reads the endpoint in a session it
\* closes again; the subscription is not asked for a second time.
Start(j) ==
    /\ j.at = "queued"
    /\ j.try < MaxTries
    /\ jobs' = (jobs \ {j}) \cup
         IF Active(j.endpoint) THEN {[j EXCEPT !.try = @ + 1, !.at = "posting"]} ELSE {}
    /\ UNCHANGED <<endpoint, received, abandoned, pinned, dialled>>

\* arq fails a job that has had its tries.
Exhaust(j) ==
    /\ j.at = "queued"
    /\ j.try = MaxTries
    /\ Drop(j)
    /\ GiveUp(j)
    /\ UNCHANGED <<endpoint, received, pinned, dialled>>

Pins(j) == {pin \in pinned : pin[1] = j}

\* The egress guard, once per try.  A refusal is permanent, even one for want
\* of an answer: the job ends.
Resolve(j, url, answer) ==
    LET target == ResolvePinnedTarget(url, answer)
    IN  /\ j.at = "posting"
        /\ Pins(j) = {}
        /\ IF target = Refused
           THEN Drop(j) /\ GiveUp(j) /\ UNCHANGED pinned
           ELSE pinned' = pinned \cup {<<j, target>>} /\ UNCHANGED <<jobs, abandoned>>
        /\ UNCHANGED <<endpoint, received, dialled>>

\* Slip: the host is resolved again to connect.
DialByName(j) ==
    /\ Pins(j) # {}
    /\ pinned' = pinned \ Pins(j)
    /\ \E answer \in Answers \ {<<>>} : dialled' = dialled \cup {Head(answer)}

\* The POST connects to the pinned literal and follows no redirect.
Dial(j) ==
    /\ Pins(j) # {}
    /\ pinned' = pinned \ Pins(j)
    /\ dialled' = dialled \cup {pin[2].dials : pin \in Pins(j)}

\* A 2xx response.  The job is not acknowledged before its audit row commits.
PostAccepted(j) ==
    /\ j.at = "posting"
    /\ Dial(j)
    /\ Arrive(j)
    /\ Becomes(j, "acking")
    /\ UNCHANGED <<endpoint, abandoned>>

\* Slip: the error is swallowed, and the job ends.
PostFailedSwallowed(j, arrived) ==
    /\ j.at = "posting"
    /\ Dial(j)
    /\ IF arrived THEN Arrive(j) ELSE UNCHANGED received
    /\ Drop(j)
    /\ UNCHANGED <<endpoint, abandoned>>

\* Anything else raises Retry; the receiver may have had the event all the same.
PostFailed(j, arrived) ==
    /\ j.at = "posting"
    /\ Dial(j)
    /\ IF arrived THEN Arrive(j) ELSE UNCHANGED received
    /\ Becomes(j, "queued")
    /\ UNCHANGED <<endpoint, abandoned>>

Acknowledge(j) ==
    /\ j.at = "acking"
    /\ Drop(j)
    /\ UNCHANGED <<endpoint, received, abandoned, pinned, dialled>>

\* arq runs the job of a dead worker again.
WorkerDies(j) ==
    /\ j.at # "queued"
    /\ Becomes(j, "queued")
    /\ pinned' = pinned \ Pins(j)
    /\ UNCHANGED <<endpoint, received, abandoned, dialled>>

-----------------------------------------------------------------------------

Work(j) ==
    \/ Start(j) \/ Exhaust(j)
    \/ \E url \in Urls, answer \in Answers : Resolve(j, url, answer)
    \/ PostAccepted(j)
    \/ \E arrived \in BOOLEAN : PostFailed(j, arrived)
    \/ Acknowledge(j)

Deliver == \E j \in jobs : Work(j) \/ WorkerDies(j)

\* The work of the jobs that carry one event to one endpoint.
DeliverPair(pair) == \E j \in jobs : Pair(j) = pair /\ Work(j)

=============================================================================
