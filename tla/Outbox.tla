------------------------------- MODULE Outbox -------------------------------
(***************************************************************************)
(* Adding a member to an organization and the transactional outbox that    *)
(* announces it (app/tenancy/router.py, app/webhooks/dispatch.py and       *)
(* outbox.py, the relay_outbox cron of app/jobs/tasks.py), on PostgreSQL.  *)
(*                                                                         *)
(* POST /orgs/{id}/members inserts the membership and one outbox row in    *)
(* one transaction, and its audit row in another.  Relay rounds, several   *)
(* at a time, claim pending rows, enqueue one delivery job per subscribed  *)
(* endpoint and stamp the rows in one commit at the end.  A round may die  *)
(* at any point, and the queue may be unreachable.                         *)
(*                                                                         *)
(* One organization; an event is named by the request that emitted it.     *)
(***************************************************************************)
EXTENDS Naturals, FiniteSets

CONSTANTS
    Requests,       \* calls of add_member; each emits at most one event
    Users,          \* the users they add
    Endpoints,      \* webhook endpoints of the organization
    Relays,         \* relay rounds that may overlap
    Limit,          \* drain_outbox's limit
    MaxAttempts,    \* drain_outbox's max_attempts
    MaxAborts,      \* bound of the model: rounds that die with one event claimed
    NoEvent,        \* no event
    NoRow           \* no row in outbox_events

ASSUME BoundsAssumption ==
    /\ Limit \in Nat \ {0}
    /\ MaxAttempts \in Nat \ {0}
    /\ MaxAborts \in Nat

ASSUME RequestsAssumption == IsFiniteSet(Requests)

\* An outbox row: attempts, published_at and failed_at (set or NULL).
EventRow == [attempts: Nat, published: BOOLEAN, failed: BOOLEAN]

ASSUME NoRowAssumption == NoRow \notin EventRow
ASSUME NoEventAssumption == NoEvent \notin Requests

VARIABLES
    members,    \* the memberships table: users of the organization
    target,     \* the user each request adds
    adding,     \* where each add_member request is
    audited,    \* the requests with a member.added row in the audit log
    outbox,     \* the committed rows of outbox_events
    created,    \* created_at of each row, 0 before its INSERT
    endpoint,   \* the webhook_endpoints table
    queueUp,    \* Redis can be reached
    at,         \* whether a relay round is under way
    todo,       \* the claimed events a round has still to fan out
    current,    \* the one of them it is fanning out
    left,       \* the endpoints it has still to enqueue for that one
    verdict,    \* what its session will write of each event
    jobs,       \* the delivery jobs in the queue
    enqueued,   \* history: jobs queued for each event and endpoint
    aborted,    \* history: rounds that died with the event claimed
    steady      \* history: endpoints subscribed ever since the event committed

addVars == <<members, target, adding, audited, created>>
roundVars == <<at, todo, current, left, verdict>>
queueVars == <<jobs, enqueued>>
vars == <<addVars, outbox, endpoint, queueUp, roundVars, queueVars, aborted, steady>>

-----------------------------------------------------------------------------

\* An endpoint row: active and subscribed to member.added, active but
\* subscribed to other events only, or not active.
Live == {"subscribed", "other", "inactive"}

Verdicts == {"none", "published", "deferred"}

Job == [event: Requests, endpoint: Endpoints, nth: Nat \ {0}, try: Nat,
        at: {"queued", "posting", "acking"}]

Subscribed == {p \in Endpoints : endpoint[p] = "subscribed"}

TypeOK ==
    /\ members \subseteq Users
    /\ target \in [Requests -> Users]
    /\ adding \in [Requests -> {"idle", "inserted", "auditing", "done"}]
    /\ audited \subseteq Requests
    /\ outbox \in [Requests -> EventRow \cup {NoRow}]
    /\ created \in [Requests -> Nat]
    /\ endpoint \in [Endpoints -> Live \cup {"absent", "deleted"}]
    /\ queueUp \in BOOLEAN
    /\ at \in [Relays -> {"idle", "relaying"}]
    /\ todo \in [Relays -> SUBSET Requests]
    /\ current \in [Relays -> Requests \cup {NoEvent}]
    /\ left \in [Relays -> SUBSET Endpoints]
    /\ verdict \in [Relays -> [Requests -> Verdicts]]
    /\ jobs \subseteq Job
    /\ enqueued \in [Requests -> [Endpoints -> Nat]]
    /\ aborted \in [Requests -> Nat]
    /\ steady \in [Requests -> SUBSET Endpoints]

-----------------------------------------------------------------------------
(* Adding and removing members.                                             *)

\* Slip: the delivery is queued from inside the transaction.
AddFlushEnqueues(r) ==
    /\ adding[r] = "idle"
    /\ target[r] \notin members
    /\ adding' = [adding EXCEPT ![r] = "inserted"]
    /\ jobs' = jobs \cup
         {[event |-> r, endpoint |-> p, nth |-> 1, try |-> 0, at |-> "queued"] : p \in Subscribed}
    /\ UNCHANGED <<members, target, audited, created, outbox, endpoint, queueUp,
                   roundVars, enqueued, aborted, steady>>

\* dispatch()'s flush: the membership and its event are inserted, neither of
\* them committed.  The UNIQUE (organization, user) makes the INSERT wait for
\* an uncommitted one of the same user.
AddFlush(r) ==
    /\ adding[r] = "idle"
    /\ target[r] \notin members
    /\ \A q \in Requests : adding[q] = "inserted" => target[q] # target[r]
    /\ adding' = [adding EXCEPT ![r] = "inserted"]
    /\ created' = [created EXCEPT ![r] = Cardinality({q \in Requests : created[q] # 0}) + 1]
    /\ UNCHANGED <<members, target, audited, outbox, endpoint, queueUp, roundVars,
                   queueVars, aborted, steady>>

\* IntegrityError: both are rolled back, 409.
AddConflict(r) ==
    /\ adding[r] = "idle"
    /\ target[r] \in members
    /\ adding' = [adding EXCEPT ![r] = "done"]
    /\ UNCHANGED <<members, target, audited, created, outbox, endpoint, queueUp,
                   roundVars, queueVars, aborted, steady>>

\* Slip: the event is left for a transaction after the membership's.
AddCommitMemberOnly(r) ==
    /\ adding[r] = "inserted"
    /\ adding' = [adding EXCEPT ![r] = "auditing"]
    /\ members' = members \cup {target[r]}
    /\ UNCHANGED <<target, audited, created, outbox, endpoint, queueUp, roundVars,
                   queueVars, aborted, steady>>

AddCommit(r) ==
    /\ adding[r] = "inserted"
    /\ adding' = [adding EXCEPT ![r] = "auditing"]
    /\ members' = members \cup {target[r]}
    /\ outbox' = [outbox EXCEPT ![r] = [attempts |-> 0, published |-> FALSE, failed |-> FALSE]]
    /\ steady' = [steady EXCEPT ![r] = Subscribed]
    /\ UNCHANGED <<target, audited, created, endpoint, queueUp, roundVars, queueVars, aborted>>

\* The audit row is a transaction of its own, after the first.
AddAudit(r) ==
    /\ adding[r] = "auditing"
    /\ adding' = [adding EXCEPT ![r] = "done"]
    /\ audited' = audited \cup {r}
    /\ UNCHANGED <<members, target, created, outbox, endpoint, queueUp, roundVars,
                   queueVars, aborted, steady>>

\* The process dies or the client disconnects: what is not committed is gone.
AddAbort(r) ==
    /\ adding[r] \in {"inserted", "auditing"}
    /\ adding' = [adding EXCEPT ![r] = "done"]
    /\ UNCHANGED <<members, target, audited, created, outbox, endpoint, queueUp,
                   roundVars, queueVars, aborted, steady>>

RemoveMember(u) ==
    /\ u \in members
    /\ members' = members \ {u}
    /\ UNCHANGED <<target, adding, audited, created, outbox, endpoint, queueUp,
                   roundVars, queueVars, aborted, steady>>

-----------------------------------------------------------------------------
(* The organization's endpoints.                                            *)

SetEndpoint(p, state) ==
    /\ endpoint' = [endpoint EXCEPT ![p] = state]
    /\ steady' = [r \in Requests |->
                    IF state = "subscribed" THEN steady[r] ELSE steady[r] \ {p}]
    /\ UNCHANGED <<addVars, outbox, queueUp, roundVars, queueVars, aborted>>

CreateEndpoint(p, state) == endpoint[p] = "absent" /\ SetEndpoint(p, state)
UpdateEndpoint(p, state) == endpoint[p] \in Live /\ SetEndpoint(p, state)
DeleteEndpoint(p) == endpoint[p] \in Live /\ SetEndpoint(p, "deleted")

-----------------------------------------------------------------------------
(* The relay.                                                               *)

Pending(e) == outbox[e] # NoRow /\ ~outbox[e].published /\ ~outbox[e].failed

\* The rows a round's session holds locked.
Claimed(w) == todo[w] \cup {e \in Requests : verdict[w][e] # "none"}

\* Slip: the SELECT takes no locks.
FreeUnlocked == {e \in Requests : Pending(e)}

\* FOR UPDATE SKIP LOCKED.
Free == {e \in Requests : Pending(e) /\ \A w \in Relays : e \notin Claimed(w)}

\* ORDER BY created_at LIMIT limit.
Oldest(events, n) ==
    {e \in events : Cardinality({f \in events : created[f] < created[e]}) < n}

Undecided == [e \in Requests |-> "none"]

SelectBatch(w) ==
    /\ at[w] = "idle"
    /\ Free # {}
    /\ at' = [at EXCEPT ![w] = "relaying"]
    /\ todo' = [todo EXCEPT ![w] = Oldest(Free, Limit)]
    /\ UNCHANGED <<addVars, outbox, endpoint, queueUp, current, left, verdict,
                   queueVars, aborted, steady>>

\* _fan_out() of the next event reads the active endpoints and passes over
\* those that are not subscribed.
FanOut(w, e) ==
    /\ current[w] = NoEvent
    /\ e \in todo[w]
    /\ \A f \in todo[w] : created[e] <= created[f]
    /\ current' = [current EXCEPT ![w] = e]
    /\ left' = [left EXCEPT ![w] = Subscribed]
    /\ UNCHANGED <<addVars, outbox, endpoint, queueUp, at, todo, verdict, queueVars,
                   aborted, steady>>

NewJob(e, p) ==
    [event |-> e, endpoint |-> p, nth |-> enqueued[e][p] + 1, try |-> 0, at |-> "queued"]

Enqueue(e, p) ==
    /\ jobs' = jobs \cup {NewJob(e, p)}
    /\ enqueued' = [enqueued EXCEPT ![e][p] = @ + 1]

\* The loop turns to the next event.
Judge(w, result) ==
    /\ verdict' = [verdict EXCEPT ![w][current[w]] = result]
    /\ todo' = [todo EXCEPT ![w] = @ \ {current[w]}]
    /\ current' = [current EXCEPT ![w] = NoEvent]
    /\ left' = [left EXCEPT ![w] = {}]

EnqueueAccepted(w, p) ==
    /\ current[w] # NoEvent
    /\ p \in left[w]
    /\ queueUp
    /\ Enqueue(current[w], p)
    /\ left' = [left EXCEPT ![w] = @ \ {p}]
    /\ UNCHANGED <<addVars, outbox, endpoint, queueUp, at, todo, current, verdict,
                   aborted, steady>>

\* Slip: the result of enqueue() is not looked at.
EnqueueUnchecked(w, p, arrived) ==
    /\ current[w] # NoEvent
    /\ p \in left[w]
    /\ ~queueUp
    /\ IF arrived THEN Enqueue(current[w], p) ELSE UNCHANGED queueVars
    /\ left' = [left EXCEPT ![w] = @ \ {p}]
    /\ UNCHANGED <<addVars, outbox, endpoint, queueUp, at, todo, current, verdict,
                   aborted, steady>>

\* enqueue() returns False.  The job may have arrived all the same, if only the
\* reply was lost.  The event's other endpoints wait for the next round.
EnqueueRefused(w, p, arrived) ==
    /\ current[w] # NoEvent
    /\ p \in left[w]
    /\ ~queueUp
    /\ IF arrived THEN Enqueue(current[w], p) ELSE UNCHANGED queueVars
    /\ Judge(w, "deferred")
    /\ UNCHANGED <<addVars, outbox, endpoint, queueUp, at, aborted, steady>>

FannedOut(w) ==
    /\ current[w] # NoEvent
    /\ left[w] = {}
    /\ Judge(w, "published")
    /\ UNCHANGED <<addVars, outbox, endpoint, queueUp, at, queueVars, aborted, steady>>

\* Slip: a refused round is not counted.
StampedUncounted(row, result) ==
    IF result = "published" THEN [row EXCEPT !.published = TRUE] ELSE row

\* What a verdict makes of a row.
Stamped(row, result) ==
    CASE result = "none" -> row
      [] result = "published" -> [row EXCEPT !.published = TRUE]
      [] result = "deferred" ->
           [row EXCEPT !.attempts = @ + 1, !.failed = row.attempts + 1 >= MaxAttempts]

EndRound(w) ==
    /\ at' = [at EXCEPT ![w] = "idle"]
    /\ todo' = [todo EXCEPT ![w] = {}]
    /\ current' = [current EXCEPT ![w] = NoEvent]
    /\ left' = [left EXCEPT ![w] = {}]
    /\ verdict' = [verdict EXCEPT ![w] = Undecided]

RelayCommit(w) ==
    /\ at[w] = "relaying"
    /\ todo[w] = {}
    /\ outbox' = [e \in Requests |-> Stamped(outbox[e], verdict[w][e])]
    /\ EndRound(w)
    /\ UNCHANGED <<addVars, endpoint, queueUp, queueVars, aborted, steady>>

\* The worker dies, the job times out or the database fails: the session is
\* rolled back and its locks are gone; what was enqueued stays in the queue.
RelayAbort(w) ==
    /\ at[w] # "idle"
    /\ \A e \in Requests : aborted[e] < MaxAborts
    /\ aborted' = [e \in Requests |->
                     IF e \in Claimed(w) THEN aborted[e] + 1 ELSE aborted[e]]
    /\ EndRound(w)
    /\ UNCHANGED <<addVars, outbox, endpoint, queueUp, queueVars, steady>>

QueueFails ==
    /\ queueUp
    /\ queueUp' = FALSE
    /\ UNCHANGED <<addVars, outbox, endpoint, roundVars, queueVars, aborted, steady>>

QueueRecovers ==
    /\ ~queueUp
    /\ queueUp' = TRUE
    /\ UNCHANGED <<addVars, outbox, endpoint, roundVars, queueVars, aborted, steady>>

-----------------------------------------------------------------------------

Init ==
    /\ members = {}
    /\ target \in [Requests -> Users]
    /\ adding = [r \in Requests |-> "idle"]
    /\ audited = {}
    /\ outbox = [r \in Requests |-> NoRow]
    /\ created = [r \in Requests |-> 0]
    /\ endpoint = [p \in Endpoints |-> "absent"]
    /\ queueUp = TRUE
    /\ at = [w \in Relays |-> "idle"]
    /\ todo = [w \in Relays |-> {}]
    /\ current = [w \in Relays |-> NoEvent]
    /\ left = [w \in Relays |-> {}]
    /\ verdict = [w \in Relays |-> Undecided]
    /\ jobs = {}
    /\ enqueued = [r \in Requests |-> [p \in Endpoints |-> 0]]
    /\ aborted = [r \in Requests |-> 0]
    /\ steady = [r \in Requests |-> {}]

Add(r) == AddFlush(r) \/ AddConflict(r) \/ AddCommit(r) \/ AddAudit(r) \/ AddAbort(r)

Administer ==
    \/ \E u \in Users : RemoveMember(u)
    \/ \E p \in Endpoints :
         \/ \E state \in Live : CreateEndpoint(p, state) \/ UpdateEndpoint(p, state)
         \/ DeleteEndpoint(p)

Relay(w) ==
    \/ SelectBatch(w)
    \/ \E e \in Requests : FanOut(w, e)
    \/ \E p \in Endpoints : EnqueueAccepted(w, p)
    \/ \E p \in Endpoints, arrived \in BOOLEAN : EnqueueRefused(w, p, arrived)
    \/ FannedOut(w)
    \/ RelayCommit(w)

Next ==
    \/ \E r \in Requests : Add(r)
    \/ Administer
    \/ \E w \in Relays : Relay(w) \/ RelayAbort(w)
    \/ QueueFails
    \/ QueueRecovers

Spec == Init /\ [][Next]_vars

\* The relay is a cron job: a round starts every ten seconds, and runs to its
\* end unless it dies.
Fairness == \A w \in Relays : WF_vars(Relay(w))

FairSpec == Spec /\ Fairness

-----------------------------------------------------------------------------
(* What the outbox promises.                                                *)

\* Nobody is a member without the event that says so having been committed
\* (dispatch.py: "the event commits atomically with the change that produced
\* it").
EveryMemberHasEvent ==
    \A u \in members : \E r \in Requests : target[r] = u /\ outbox[r] # NoRow

\* An endpoint is given an event a second time only if a round that claimed the
\* event died or was refused an enqueue, however many rounds overlap (outbox.py:
\* "re-running never double-publishes an event"; _fan_out: "at-least-once").
OncePerRound ==
    \A e \in Requests : outbox[e] # NoRow =>
        \A p \in Endpoints :
            enqueued[e][p] <= aborted[e] + outbox[e].attempts + 1

\* An event is stamped published only when every endpoint that stayed
\* subscribed from the event's commit on has a job for it (outbox.py _fan_out:
\* the first refused enqueue leaves "the whole event pending").
NoEndpointSkipped ==
    \A e \in Requests :
        (outbox[e] # NoRow /\ outbox[e].published) =>
            \A p \in steady[e] : enqueued[e][p] > 0

\* A published or dead-lettered row is never written again, nor enqueued for,
\* whatever round read it before (outbox.py: "only unpublished,
\* non-dead-lettered rows are claimed").
SettledIsFinal ==
    [][\A e \in Requests :
          (outbox[e] # NoRow /\ ~Pending(e)) =>
              outbox'[e] = outbox[e] /\ enqueued'[e] = enqueued[e]]_vars

\* An event is dead-lettered with the last of its attempts, no sooner and no
\* later, and none is both published and dead-lettered (outbox.py drain_outbox).
DeadLetterExact ==
    \A e \in Requests : outbox[e] # NoRow =>
        /\ outbox[e].attempts <= MaxAttempts
        /\ outbox[e].failed <=> outbox[e].attempts = MaxAttempts
        /\ ~(outbox[e].failed /\ outbox[e].published)

\* However long the queue refuses, an endpoint is given an event no more than
\* MaxAttempts times, and once more for every round that died with it.
DuplicatesBounded ==
    \A e \in Requests, p \in Endpoints : enqueued[e][p] <= aborted[e] + MaxAttempts

\* The rounds that may still be refused before a row is settled.
RoundsLeft(e) == IF Pending(e) THEN MaxAttempts - outbox[e].attempts ELSE 0

\* Whatever a round writes of a row brings it nearer to being settled, so that
\* only rounds that die or never come keep it pending: what EventuallySettled
\* rests on.
WritesSettle ==
    [][\A e \in Requests :
          (outbox[e] # NoRow /\ outbox'[e] # outbox[e]) =>
              RoundsLeft(e)' < RoundsLeft(e)]_vars

\* A poison event cannot wedge the relay: every committed event is published or
\* dead-lettered in the end, with the queue up or down (outbox.py 26-28).
EventuallySettled ==
    \A e \in Requests :
        outbox[e] # NoRow ~> outbox[e] # NoRow /\ ~Pending(e)

-----------------------------------------------------------------------------
(* What the docstrings say, and the code does not do.                       *)

\* models.py: "the event can never be lost to a queue outage between commit and
\* publish": once the queue is back for good, every event is published.
NeverLostToOutage ==
    <>[]queueUp =>
        \A e \in Requests : outbox[e] # NoRow ~> outbox[e] # NoRow /\ outbox[e].published

\* audit/service.py: "an event recorded inside a request handler commits
\* atomically with the change it describes".
AuditedAtomically == \A r \in Requests : outbox[r] # NoRow => r \in audited

-----------------------------------------------------------------------------
(* The inductive invariant behind the promises.                             *)

\* What is not committed has no row, and what has no row was never relayed.
Uncommitted ==
    \A r \in Requests :
        /\ adding[r] \in {"idle", "inserted"} => outbox[r] = NoRow
        /\ outbox[r] = NoRow => aborted[r] = 0 /\ \A p \in Endpoints : enqueued[r][p] = 0

SteadySubscribed == \A e \in Requests : steady[e] \subseteq Subscribed

\* A round fans out an event it has still to do, and none it has judged.
RoundShape ==
    \A w \in Relays :
        /\ at[w] = "idle" => todo[w] = {} /\ current[w] = NoEvent
        /\ current[w] # NoEvent => current[w] \in todo[w]
        /\ \A e \in todo[w] : verdict[w][e] = "none"

ClaimsDisjoint ==
    \A v, w \in Relays : v # w => Claimed(v) \cap Claimed(w) = {}

ClaimsPending == \A w \in Relays : \A e \in Claimed(w) : Pending(e)

\* Round w is past the enqueue of e for p.
Past(w, e, p) == verdict[w][e] # "none" \/ (current[w] = e /\ p \notin left[w])

\* Each round adds at most one job for an endpoint, and pays for it with an
\* attempt, a death or the stamp.
Spent(e) == aborted[e] + outbox[e].attempts

CountBound ==
    \A e \in Requests, p \in Endpoints : outbox[e] # NoRow =>
        /\ enqueued[e][p] <= Spent(e) + 1
        /\ (~outbox[e].published /\ \A w \in Relays : ~Past(w, e, p))
              => enqueued[e][p] <= Spent(e)

\* Every endpoint that stayed subscribed has a job for e.
Reached(e) == \A p \in steady[e] : enqueued[e][p] > 0

NotSkipped ==
    /\ NoEndpointSkipped
    /\ \A w \in Relays, e \in Requests : verdict[w][e] = "published" => Reached(e)
    /\ \A w \in Relays, e \in Requests : current[w] = e =>
         \A p \in steady[e] : p \in left[w] \/ enqueued[e][p] > 0

IInv ==
    /\ TypeOK
    /\ Uncommitted
    /\ SteadySubscribed
    /\ RoundShape
    /\ ClaimsDisjoint
    /\ ClaimsPending
    /\ CountBound
    /\ NotSkipped
    /\ EveryMemberHasEvent

=============================================================================
