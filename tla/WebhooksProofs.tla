--------------------------- MODULE WebhooksProofs ---------------------------
(***************************************************************************)
(* Proofs about Webhooks: whatever is retried, whatever dies and whatever  *)
(* a resolver answers, only committed events are delivered and only public *)
(* addresses are dialled, for any number of relays, jobs and tries.        *)
(***************************************************************************)
EXTENDS Webhooks, OutboxProofs

-----------------------------------------------------------------------------
(* The egress guard.                                                        *)

\* The guard lets no answer pass but one whose first address is public
\* (egress.py resolve_pinned_target, _is_public).
LEMMA PinnedIsPublic ==
    ASSUME NEW url, NEW answer \in Answers, D!ResolvePinnedTarget(url, answer) # D!Refused
    PROVE  D!Destination(D!ResolvePinnedTarget(url, answer).dials).block = "global"
<1>1. D!Resolves(answer) /\ D!ResolvePinnedTarget(url, answer).dials = Head(answer)
  BY DEF D!ResolvePinnedTarget
<1>2. answer \in Seq(D!Address) /\ answer # <<>>
  BY <1>1, AnswersAssumption DEF D!Resolves
<1>3. 1 \in DOMAIN answer /\ Head(answer) = answer[1] /\ answer[1] \in D!Address
  BY <1>2
<1>4. D!IsPublic(answer[1])
  BY <1>1, <1>3 DEF D!Resolves
<1>5. ASSUME NEW ip \in D!Address, D!IsPublic(ip)
      PROVE  D!Destination(ip).block = "global"
  BY <1>5 DEF D!Address, D!IsPublic, D!Destination, D!Flagged, D!V4, D!V6, D!Mapped
<1>6. QED
  BY <1>1, <1>3, <1>4, <1>5

\* For any URL and any answer of any length, the guard gives a target exactly
\* if the URL is well formed and every address leads to the public internet;
\* the target keeps the URL's name for routing and for TLS, and only the address
\* it dials is the resolver's (egress.py resolve_pinned_target).
THEOREM GuardExact ==
    ASSUME NEW url, NEW answer \in Seq(D!Address)
    PROVE  LET found == D!ResolvePinnedTarget(url, answer)
           IN  /\ found # D!Refused <=>
                     /\ D!WellFormed(url) /\ answer # <<>>
                     /\ \A i \in DOMAIN answer : D!Destination(answer[i]).block = "global"
               /\ found # D!Refused =>
                     /\ found.dials = answer[1] /\ found.port = url.port
                     /\ found.sni_hostname = url.host
                     /\ found.host_header = <<url.host, url.port>>
<1> DEFINE found == D!ResolvePinnedTarget(url, answer)
           public == \A i \in DOMAIN answer : D!Destination(answer[i]).block = "global"
<1>1. ASSUME NEW ip \in D!Address
      PROVE  D!IsPublic(ip) <=> D!Destination(ip).block = "global"
  BY DEF D!Address, D!IsPublic, D!Destination, D!Flagged, D!V4, D!V6, D!Mapped
<1>2. \A i \in DOMAIN answer : answer[i] \in D!Address
  OBVIOUS
<1>3. D!Resolves(answer) <=> answer # <<>> /\ public
  BY <1>1, <1>2 DEF D!Resolves
<1>4. CASE D!WellFormed(url) /\ D!Resolves(answer)
  <2>1. found = [dials |-> Head(answer), port |-> url.port,
                  host_header |-> <<url.host, url.port>>, sni_hostname |-> url.host]
    BY <1>4 DEF D!ResolvePinnedTarget
  <2>2. Head(answer) = answer[1]
    BY <1>3, <1>4
  <2>3. found # D!Refused
    <3>1. "port" \in DOMAIN found /\ "port" \notin DOMAIN D!Refused
      BY <2>1 DEF D!Refused
    <3>2. QED
      BY <3>1
  <2> HIDE DEF found
  <2>4. QED
    BY <1>3, <1>4, <2>1, <2>2, <2>3 DEF found
<1>5. CASE ~ (D!WellFormed(url) /\ D!Resolves(answer))
  <2>1. found = D!Refused
    BY <1>5 DEF D!ResolvePinnedTarget
  <2>2. QED
    BY <1>3, <1>5, <2>1
<1>6. QED
  BY <1>4, <1>5

-----------------------------------------------------------------------------
(* The invariant.                                                           *)

\* A job is of an event that has a row: the relay reads committed rows only.
JobsCommitted == \A j \in jobs : outbox[j.event] # NoRow

\* What a posting worker holds was judged public before.
PinsPublic == \A pin \in pinned : D!Destination(pin[2].dials).block = "global"

DeliveryIInv ==
    /\ IInv
    /\ DeliveryTypeOK
    /\ JobsCommitted
    /\ OnlyCommittedDelivered
    /\ PinsPublic
    /\ DialsPublicOnly

\* At first there are no jobs, nothing is received and nothing dialled.
LEMMA DeliveryInit == WebhooksInit => DeliveryIInv
<1> SUFFICES ASSUME WebhooksInit PROVE DeliveryIInv
  OBVIOUS
<1>1. IInv
  BY InvariantInit DEF WebhooksInit
<1>2. jobs = {} /\ received = {} /\ abandoned = {} /\ pinned = {} /\ dialled = {}
  BY DEF WebhooksInit, Init
<1>3. QED
  BY <1>1, <1>2 DEF DeliveryIInv, DeliveryTypeOK, JobsCommitted, OnlyCommittedDelivered,
                    PinsPublic, DialsPublicOnly, IInv

-----------------------------------------------------------------------------
(* Steps of the outbox.                                                     *)

\* No step takes a committed row away (outbox.py drain_outbox deletes none).
LEMMA RowsStay ==
    ASSUME IInv, [Next]_vars, NEW e \in Requests, outbox[e] # NoRow
    PROVE  outbox'[e] # NoRow
<1> USE DEF addVars, queueVars, roundVars
<1>1. outbox[e] \in EventRow
  BY DEF IInv, TypeOK
<1>2. ASSUME NEW r \in Requests, AddCommit(r) PROVE outbox'[e] # NoRow
  <2>1. outbox'[e] \in EventRow
    BY <1>1, <1>2 DEF AddCommit, EventRow, IInv, TypeOK
  <2>2. QED
    BY <2>1, NoRowAssumption
<1>3. ASSUME NEW w \in Relays, RelayCommit(w) PROVE outbox'[e] # NoRow
  <2>1. outbox'[e] = Stamped(outbox[e], verdict[w][e]) /\ verdict[w][e] \in Verdicts
    BY <1>3 DEF RelayCommit, IInv, TypeOK
  <2>2. QED
    BY <1>1, <2>1, StampedType, NoRowAssumption
<1>4. ASSUME UNCHANGED outbox PROVE outbox'[e] # NoRow
  BY <1>4
<1>5. ASSUME NEW r \in Requests, AddFlush(r) \/ AddConflict(r) \/ AddAudit(r) \/ AddAbort(r)
      PROVE  UNCHANGED outbox
  BY <1>5 DEF AddFlush, AddConflict, AddAudit, AddAbort
<1>6. ASSUME Administer \/ QueueFails \/ QueueRecovers PROVE UNCHANGED outbox
  BY <1>6 DEF Administer, RemoveMember, CreateEndpoint, UpdateEndpoint, DeleteEndpoint,
              SetEndpoint, QueueFails, QueueRecovers
<1>7. ASSUME NEW w \in Relays,
             \/ SelectBatch(w) \/ (\E f \in Requests : FanOut(w, f))
             \/ (\E p \in Endpoints : EnqueueAccepted(w, p))
             \/ (\E p \in Endpoints, arrived \in BOOLEAN : EnqueueRefused(w, p, arrived))
             \/ FannedOut(w) \/ RelayAbort(w)
      PROVE  UNCHANGED outbox
  BY <1>7 DEF SelectBatch, FanOut, EnqueueAccepted, EnqueueRefused, FannedOut, RelayAbort
<1>8. ASSUME UNCHANGED vars PROVE UNCHANGED outbox
  BY <1>8 DEF vars
<1>9. QED
  BY <1>2, <1>3, <1>4, <1>5, <1>6, <1>7, <1>8 DEF Next, Add, Relay

\* A step of the outbox takes no job away and adds jobs of claimed, hence
\* committed, events only (outbox.py _fan_out).
LEMMA NewJobs ==
    ASSUME IInv, [Next]_vars
    PROVE  jobs \subseteq jobs' /\ \A j \in jobs' \ jobs : outbox[j.event] # NoRow
<1> USE DEF addVars, queueVars, roundVars
<1>1. ASSUME NEW w \in Relays, NEW p \in Endpoints, current[w] # NoEvent, Enqueue(current[w], p)
      PROVE  jobs \subseteq jobs' /\ \A j \in jobs' \ jobs : outbox[j.event] # NoRow
  <2>1. jobs' = jobs \cup {NewJob(current[w], p)} /\ NewJob(current[w], p).event = current[w]
    BY <1>1 DEF Enqueue, NewJob
  <2>2. outbox[current[w]] # NoRow
    BY <1>1, CurrentFacts DEF Pending
  <2>3. QED
    BY <2>1, <2>2
<1>2. ASSUME NEW w \in Relays,
             \/ (\E p \in Endpoints : EnqueueAccepted(w, p))
             \/ (\E p \in Endpoints, arrived \in BOOLEAN : EnqueueRefused(w, p, arrived))
      PROVE  jobs \subseteq jobs' /\ \A j \in jobs' \ jobs : outbox[j.event] # NoRow
  <2>1. \/ jobs' = jobs
        \/ \E p \in Endpoints : current[w] # NoEvent /\ Enqueue(current[w], p)
    BY <1>2 DEF EnqueueAccepted, EnqueueRefused
  <2>2. QED
    BY <1>1, <2>1
<1>3. ASSUME NEW r \in Requests, Add(r) PROVE UNCHANGED jobs
  BY <1>3 DEF Add, AddFlush, AddConflict, AddCommit, AddAudit, AddAbort
<1>4. ASSUME Administer \/ QueueFails \/ QueueRecovers PROVE UNCHANGED jobs
  BY <1>4 DEF Administer, RemoveMember, CreateEndpoint, UpdateEndpoint, DeleteEndpoint,
              SetEndpoint, QueueFails, QueueRecovers
<1>5. ASSUME NEW w \in Relays,
             \/ SelectBatch(w) \/ (\E f \in Requests : FanOut(w, f))
             \/ FannedOut(w) \/ RelayCommit(w) \/ RelayAbort(w)
      PROVE  UNCHANGED jobs
  BY <1>5 DEF SelectBatch, FanOut, FannedOut, RelayCommit, RelayAbort
<1>6. ASSUME UNCHANGED vars PROVE UNCHANGED jobs
  BY <1>6 DEF vars
<1>7. QED
  BY <1>2, <1>3, <1>4, <1>5, <1>6 DEF Next, Relay

\* Steps of the outbox touch nothing of the workers.
LEMMA OutboxKeeps ==
    ASSUME DeliveryIInv, [Next]_vars, UNCHANGED workerVars
    PROVE  DeliveryIInv'
<1> USE DEF workerVars
<1>1. IInv' /\ TypeOK'
  BY InvariantStep DEF DeliveryIInv, IInv
<1>2. jobs \subseteq jobs' /\ \A j \in jobs' \ jobs : outbox[j.event] # NoRow
  BY NewJobs DEF DeliveryIInv
<1>3. DeliveryTypeOK'
  BY <1>1, <1>2 DEF DeliveryIInv, DeliveryTypeOK
<1>4. \A e \in Requests : outbox[e] # NoRow => outbox'[e] # NoRow
  BY RowsStay DEF DeliveryIInv
<1>5. JobsCommitted'
  <2> SUFFICES ASSUME NEW j \in jobs' PROVE outbox'[j.event] # NoRow
    BY DEF JobsCommitted
  <2>1. j.event \in Requests
    BY <1>1 DEF TypeOK, Job
  <2>2. outbox[j.event] # NoRow
    BY <1>2 DEF DeliveryIInv, JobsCommitted
  <2>3. QED
    BY <1>4, <2>1, <2>2
<1>6. OnlyCommittedDelivered'
  BY <1>4 DEF DeliveryIInv, DeliveryTypeOK, OnlyCommittedDelivered
<1>7. PinsPublic' /\ DialsPublicOnly'
  BY DEF DeliveryIInv, PinsPublic, DialsPublicOnly
<1>8. QED
  BY <1>1, <1>3, <1>5, <1>6, <1>7 DEF DeliveryIInv

-----------------------------------------------------------------------------
(* Steps of the deliveries.                                                 *)

\* Work moves a job to another state, with its event and endpoint, or ends it.
LEMMA JobMoves ==
    ASSUME jobs \subseteq Job, NEW j \in jobs, D!Work(j) \/ D!WorkerDies(j)
    PROVE  \A k \in jobs' :
             \/ k \in jobs
             \/ k \in Job /\ k.event = j.event /\ k.endpoint = j.endpoint
<1> USE DEF Job
<1>0. j \in Job
  OBVIOUS
<1>1. CASE D!Start(j)
  <2> DEFINE n == j.try + 1
             started == [j EXCEPT !.try = n, !.at = "posting"]
  <2>0. n \in Nat
    BY <1>0
  <2> HIDE DEF n
  <2>1. started \in Job /\ started.event = j.event /\ started.endpoint = j.endpoint
    BY <1>0, <2>0
  <2> USE DEF n
  <2>2. jobs' \subseteq jobs \cup {started}
    BY <1>1 DEF D!Start
  <2> HIDE DEF started
  <2>3. QED
    BY <2>1, <2>2
<1>2. CASE D!Exhaust(j) \/ D!Acknowledge(j)
  BY <1>0, <1>2 DEF D!Exhaust, D!Acknowledge, D!Drop
<1>3. CASE \E url \in Urls, answer \in Answers : D!Resolve(j, url, answer)
  BY <1>0, <1>3 DEF D!Resolve, D!Drop
<1>4. CASE D!PostAccepted(j) \/ (\E arrived \in BOOLEAN : D!PostFailed(j, arrived)) \/ D!WorkerDies(j)
  BY <1>0, <1>4 DEF D!PostAccepted, D!PostFailed, D!WorkerDies, D!Becomes
<1>5. QED
  BY <1>1, <1>2, <1>3, <1>4 DEF D!Work

\* Only a posting job has a pin; it loses the pin when it leaves the post.
LEMMA PinMoves ==
    ASSUME DeliveryIInv, NEW j \in jobs, D!Work(j) \/ D!WorkerDies(j)
    PROVE  /\ \A pin \in pinned' : pin[1] \in jobs' /\ pin[1].at = "posting"
           /\ \A pin \in pinned' \ pinned : D!Destination(pin[2].dials).block = "global"
           /\ \A ip \in dialled' \ dialled : \E pin \in pinned : ip = pin[2].dials
<1>1. \A pin \in pinned : pin[1] \in jobs /\ pin[1].at = "posting"
  BY DEF DeliveryIInv, DeliveryTypeOK
<1>2. j.at # "posting" => \A pin \in pinned : pin[1] # j
  BY <1>1
<1>3. CASE D!Start(j)
  BY <1>1, <1>2, <1>3 DEF D!Start
<1>4. CASE D!Exhaust(j) \/ D!Acknowledge(j)
  BY <1>1, <1>2, <1>4 DEF D!Exhaust, D!Acknowledge, D!Drop
<1>5. ASSUME NEW url \in Urls, NEW answer \in Answers, D!Resolve(j, url, answer)
      PROVE  /\ \A pin \in pinned' : pin[1] \in jobs' /\ pin[1].at = "posting"
             /\ \A pin \in pinned' \ pinned : D!Destination(pin[2].dials).block = "global"
             /\ dialled' = dialled
  <2> DEFINE resolved == D!ResolvePinnedTarget(url, answer)
  <2>1. dialled' = dialled /\ j.at = "posting" /\ \A pin \in pinned : pin[1] # j
    BY <1>5 DEF D!Resolve, D!Pins
  <2>2. CASE resolved = D!Refused
    BY <1>1, <1>5, <2>1, <2>2 DEF D!Resolve, D!Drop
  <2>3. CASE resolved # D!Refused
    <3>1. pinned' = pinned \cup {<<j, resolved>>} /\ jobs' = jobs
      BY <1>5, <2>3 DEF D!Resolve
    <3>2. D!Destination(resolved.dials).block = "global"
      BY <2>3, PinnedIsPublic
    <3> HIDE DEF resolved
    <3>3. QED
      BY <1>1, <2>1, <3>1, <3>2
  <2>4. QED
    BY <2>2, <2>3
<1>6. CASE D!PostAccepted(j) \/ (\E arrived \in BOOLEAN : D!PostFailed(j, arrived))
  <2>1. /\ pinned' = pinned \ D!Pins(j)
        /\ dialled' = dialled \cup {pin[2].dials : pin \in D!Pins(j)}
        /\ \A k \in jobs : k # j => k \in jobs'
    BY <1>6 DEF D!PostAccepted, D!PostFailed, D!Dial, D!Becomes
  <2>2. QED
    BY <1>1, <2>1 DEF D!Pins
<1>7. CASE D!WorkerDies(j)
  BY <1>1, <1>7 DEF D!WorkerDies, D!Becomes, D!Pins
<1>8. QED
  BY <1>3, <1>4, <1>5, <1>6, <1>7 DEF D!Work

\* What arrives, or is given up, is the event of a job.
LEMMA ArrivalsAreJobs ==
    ASSUME NEW j \in jobs, D!Work(j) \/ D!WorkerDies(j)
    PROVE  /\ received' \subseteq received \cup {D!Pair(j)}
           /\ abandoned' \subseteq abandoned \cup {D!Pair(j)}
<1> USE DEF D!Arrive, D!GiveUp
<1>1. CASE D!Start(j) \/ D!Exhaust(j) \/ D!Acknowledge(j) \/ D!WorkerDies(j)
  BY <1>1 DEF D!Start, D!Exhaust, D!Acknowledge, D!WorkerDies
<1>2. CASE \E url \in Urls, answer \in Answers : D!Resolve(j, url, answer)
  BY <1>2 DEF D!Resolve
<1>3. CASE D!PostAccepted(j) \/ \E arrived \in BOOLEAN : D!PostFailed(j, arrived)
  BY <1>3 DEF D!PostAccepted, D!PostFailed
<1>4. QED
  BY <1>1, <1>2, <1>3 DEF D!Work

\* Deliveries leave the outbox's tables and rounds alone.
LEMMA DeliveryLeavesOutbox ==
    ASSUME IInv, NEW j \in jobs, D!Work(j) \/ D!WorkerDies(j), UNCHANGED restVars
    PROVE  IInv'
<1> USE DEF restVars, addVars, roundVars
<1>1. UNCHANGED endpoint
  BY DEF D!Work, D!Start, D!Exhaust, D!Resolve, D!PostAccepted, D!PostFailed, D!Acknowledge,
         D!WorkerDies
<1>2. jobs' \subseteq Job
  <2>1. jobs \subseteq Job
    BY DEF IInv, TypeOK
  <2>2. QED
    BY <2>1, JobMoves
<1>3. TypeOK'
  BY <1>1, <1>2 DEF IInv, TypeOK
<1>4. Uncommitted' /\ SteadySubscribed' /\ RoundShape'
  BY <1>1 DEF IInv, Uncommitted, SteadySubscribed, Subscribed, RoundShape
<1>5. ClaimsDisjoint' /\ ClaimsPending'
  BY DEF IInv, ClaimsDisjoint, ClaimsPending, Claimed, Pending
<1>6. CountBound'
  BY DEF IInv, CountBound, Spent, Past
<1>7. NotSkipped' /\ EveryMemberHasEvent'
  BY DEF IInv, NotSkipped, NoEndpointSkipped, Reached, EveryMemberHasEvent
<1>8. QED
  BY <1>3, <1>4, <1>5, <1>6, <1>7 DEF IInv

LEMMA DeliveryKeeps ==
    ASSUME DeliveryIInv, D!Deliver, UNCHANGED restVars
    PROVE  DeliveryIInv'
<1> PICK j \in jobs : D!Work(j) \/ D!WorkerDies(j)
  BY DEF D!Deliver
<1>1. jobs \subseteq Job /\ j \in Job /\ outbox[j.event] # NoRow /\ UNCHANGED outbox
  BY DEF DeliveryIInv, IInv, TypeOK, JobsCommitted, restVars
<1>2. IInv' /\ TypeOK'
  BY DeliveryLeavesOutbox DEF DeliveryIInv, IInv
<1>3. D!Pair(j) \in Requests \X Endpoints /\ D!Pair(j)[1] = j.event
  BY <1>1 DEF D!Pair, Job
<1>4. DeliveryTypeOK' /\ OnlyCommittedDelivered'
  <2>1. /\ received' \subseteq Requests \X Endpoints
        /\ abandoned' \subseteq Requests \X Endpoints
    BY <1>3, ArrivalsAreJobs DEF DeliveryIInv, DeliveryTypeOK
  <2>2. \A pair \in received' : outbox[pair[1]] # NoRow
    BY <1>1, <1>3, ArrivalsAreJobs DEF DeliveryIInv, OnlyCommittedDelivered
  <2>3. QED
    BY <1>1, <1>2, <2>1, <2>2, PinMoves DEF DeliveryTypeOK, OnlyCommittedDelivered
<1>5. JobsCommitted'
  BY <1>1, JobMoves DEF DeliveryIInv, JobsCommitted
<1>6. PinsPublic' /\ DialsPublicOnly'
  BY PinMoves DEF DeliveryIInv, PinsPublic, DialsPublicOnly
<1>7. QED
  BY <1>2, <1>4, <1>5, <1>6 DEF DeliveryIInv

-----------------------------------------------------------------------------
(* The channel.                                                             *)

ChannelInv == DeliveryIInv /\ JobsAccounted /\ AckingReceived

\* Nobody on the way forgets: what is accounted for stays so while its receiver
\* stays subscribed.  It is a fact of the abstract channel alone.
LEMMA ChannelKeeps ==
    ASSUME [Ch!Next]_(Ch!vars), NEW e \in Requests, NEW p \in Endpoints,
           p \in steady[e], p \in steady'[e], Ch!Accounted(e, p)
    PROVE  Ch!Accounted(e, p)'
<1> USE DEF Ch!Accounted
<1>1. CASE \E f \in Requests : Ch!Send(f) \/ \E q \in Endpoints : Ch!Carry(f, q)
  BY <1>1 DEF Ch!Send, Ch!Carry
<1>2. CASE \/ \E q \in Endpoints : Ch!Leave(q)
           \/ \E batch \in SUBSET Requests : Ch!Publish(batch)
           \/ UNCHANGED Ch!vars
  BY <1>2 DEF Ch!Leave, Ch!Publish, Ch!vars
<1>3. ASSUME NEW pair \in Requests \X Endpoints,
             Ch!HandOver(pair) \/ Ch!GiveUp(pair) \/ Ch!Drop(pair)
      PROVE  Ch!Accounted(e, p)'
  <2>1. CASE Ch!HandOver(pair) \/ Ch!GiveUp(pair)
    BY <2>1 DEF Ch!HandOver, Ch!GiveUp
  <2>2. CASE Ch!Drop(pair)
    <3>1. pair # <<e, p>> \/ <<e, p>> \in received \cup abandoned
      BY <2>2 DEF Ch!Drop
    <3>2. QED
      BY <2>2, <3>1 DEF Ch!Drop
  <2>3. QED
    BY <1>3, <2>1, <2>2
<1>4. QED
  BY <1>1, <1>2, <1>3 DEF Ch!Next

\* What a step of the outbox can do to rows, subscriptions and jobs together
\* (router.py add_member and the endpoint routes, outbox.py drain_outbox).
LEMMA OutboxMoves ==
    ASSUME IInv, [Next]_vars
    PROVE  \/ \E r \in Requests : AddCommit(r)
           \/ \E p \in Endpoints, state \in Live \cup {"deleted"} : SetEndpoint(p, state)
           \/ \E w \in Relays, p \in Endpoints :
                /\ current[w] # NoEvent /\ Enqueue(current[w], p)
                /\ UNCHANGED <<outbox, steady>>
           \/ \E w \in Relays : RelayCommit(w)
           \/ UNCHANGED <<outbox, steady, jobs, enqueued>>
<1> DEFINE Quiet == UNCHANGED <<outbox, steady, jobs, enqueued>>
<1> USE DEF queueVars
<1>1. ASSUME NEW r \in Requests, Add(r) PROVE AddCommit(r) \/ Quiet
  BY <1>1 DEF Add, AddFlush, AddConflict, AddAudit, AddAbort
<1>2. ASSUME Administer
      PROVE  \/ \E p \in Endpoints, state \in Live \cup {"deleted"} : SetEndpoint(p, state)
             \/ Quiet
  BY <1>2 DEF Administer, RemoveMember, CreateEndpoint, UpdateEndpoint, DeleteEndpoint
<1>3. ASSUME NEW w \in Relays,
             \/ SelectBatch(w) \/ (\E e \in Requests : FanOut(w, e))
             \/ FannedOut(w) \/ RelayAbort(w)
      PROVE  Quiet
  BY <1>3 DEF SelectBatch, FanOut, FannedOut, RelayAbort
<1>4. ASSUME NEW w \in Relays, NEW p \in Endpoints,
             \/ EnqueueAccepted(w, p)
             \/ \E arrived \in BOOLEAN : EnqueueRefused(w, p, arrived)
      PROVE  \/ /\ current[w] # NoEvent /\ Enqueue(current[w], p)
                /\ UNCHANGED <<outbox, steady>>
             \/ Quiet
  BY <1>4 DEF EnqueueAccepted, EnqueueRefused
<1>5. ASSUME QueueFails \/ QueueRecovers \/ UNCHANGED vars PROVE Quiet
  BY <1>5 DEF QueueFails, QueueRecovers, vars
<1>6. QED
  BY <1>1, <1>2, <1>3, <1>4, <1>5 DEF Next, Relay

\* A deferred row keeps its stamp (outbox.py drain_outbox counts the attempt).
LEMMA DeferredUnpublished ==
    ASSUME NEW row \in EventRow
    PROVE  Stamped(row, "deferred").published = row.published
<1> DEFINE n == row.attempts + 1
           b == row.attempts + 1 >= MaxAttempts
<1>1. Stamped(row, "deferred") = [row EXCEPT !.attempts = n, !.failed = b]
  BY DEF Stamped
<1> HIDE DEF n, b
<1>2. QED
  BY <1>1 DEF EventRow

\* The commit of an addition sends its event, to whoever is subscribed.
LEMMA CommitSends ==
    ASSUME ChannelInv, NEW r \in Requests, AddCommit(r), UNCHANGED workerVars
    PROVE  Ch!Send(r) /\ JobsAccounted' /\ AckingReceived'
<1> USE DEF ChannelInv, DeliveryIInv, IInv, TypeOK, workerVars, queueVars
<1>1. outbox[r] = NoRow /\ \A p \in Endpoints : enqueued[r][p] = 0
  BY DEF AddCommit, Uncommitted
<1> DEFINE row == [attempts |-> 0, published |-> FALSE, failed |-> FALSE]
<1>2. row \in EventRow /\ row # NoRow /\ ~ row.published
  <2>1. row \in EventRow /\ ~ row.published
    BY Zenon DEF EventRow
  <2>2. QED
    BY <2>1, NoRowAssumption
<1>3. outbox' = [outbox EXCEPT ![r] = row] /\ UNCHANGED <<jobs, enqueued>>
      /\ steady' = [steady EXCEPT ![r] = Subscribed]
  BY DEF AddCommit
<1> HIDE DEF row
<1>4. Sent' = Sent \cup {r} /\ r \notin Sent
  BY <1>1, <1>2, <1>3 DEF Sent
<1>5. Published' = Published
  BY <1>1, <1>2, <1>3, <1>4 DEF Published, Sent
<1>6. Carried' = Carried
  BY <1>3 DEF Carried
<1>7. Ch!Send(r)
  BY <1>3, <1>4, <1>5, <1>6 DEF Ch!Send, Subscribed
<1>8. JobsAccounted'
  <2> SUFFICES ASSUME NEW e \in Requests, NEW p \in Endpoints, p \in steady'[e],
                      enqueued'[e][p] > 0
               PROVE  Ch!Accounted(e, p)'
    BY <1>3 DEF JobsAccounted, Subscribed
  <2>1. e # r
    BY <1>1, <1>3
  <2>2. Ch!Accounted(e, p)
    BY <1>3, <2>1 DEF JobsAccounted
  <2>3. QED
    BY <1>6, <2>2 DEF Ch!Accounted
<1>9. QED
  BY <1>3, <1>7, <1>8 DEF AckingReceived

\* An endpoint that is changed stays subscribed, or is owed nothing any more.
LEMMA EndpointLeaves ==
    ASSUME ChannelInv, NEW p \in Endpoints, NEW state, SetEndpoint(p, state),
           UNCHANGED workerVars
    PROVE  (Ch!Leave(p) \/ UNCHANGED Ch!vars) /\ JobsAccounted' /\ AckingReceived'
<1> USE DEF ChannelInv, DeliveryIInv, IInv, TypeOK, workerVars, queueVars, SetEndpoint
<1>1. Sent' = Sent /\ Published' = Published /\ Carried' = Carried
  BY DEF Sent, Published, Carried
<1>2. \/ steady' = [e \in Requests |-> steady[e] \ {p}]
      \/ steady' = steady
  BY Zenon
<1>3. \A e \in Requests : steady'[e] \subseteq steady[e]
  BY <1>2
<1>4. JobsAccounted'
  BY <1>1, <1>3 DEF JobsAccounted, Ch!Accounted
<1>5. AckingReceived'
  BY DEF AckingReceived
<1>6. QED
  BY <1>1, <1>2, <1>4, <1>5 DEF Ch!Leave, Ch!vars

\* An enqueue carries an event that is committed and not yet published.
LEMMA EnqueueCarries ==
    ASSUME ChannelInv, NEW w \in Relays, NEW p \in Endpoints, current[w] # NoEvent,
           Enqueue(current[w], p), UNCHANGED <<outbox, steady>>, UNCHANGED workerVars
    PROVE  Ch!Carry(current[w], p) /\ JobsAccounted' /\ AckingReceived'
<1> USE DEF ChannelInv, DeliveryIInv, IInv, TypeOK, workerVars
<1> DEFINE e == current[w]
<1>1. e \in Requests /\ Pending(e)
  BY CurrentFacts
<1>2. e \in Sent \ Published
  BY <1>1 DEF Pending, Sent, Published
<1>3. /\ jobs' = jobs \cup {NewJob(e, p)}
      /\ D!Pair(NewJob(e, p)) = <<e, p>> /\ NewJob(e, p).at = "queued"
  BY DEF Enqueue, NewJob, D!Pair
<1>4. \A f \in Requests, q \in Endpoints :
        <<f, q>> # <<e, p>> => enqueued'[f][q] = enqueued[f][q]
  BY <1>1 DEF Enqueue
<1> HIDE DEF e
<1>5. Carried' = Carried \cup {<<e, p>>}
  BY <1>3 DEF Carried
<1>6. Sent' = Sent /\ Published' = Published
  BY DEF Sent, Published
<1>7. Ch!Carry(e, p)
  BY <1>2, <1>5, <1>6 DEF Ch!Carry
<1>8. JobsAccounted'
  BY <1>4, <1>5 DEF JobsAccounted, Ch!Accounted
<1>9. AckingReceived'
  BY <1>3 DEF AckingReceived
<1>10. QED
  BY <1>7, <1>8, <1>9 DEF e

\* The commit of a round publishes the events it has enqueued for everybody.
LEMMA RoundPublishes ==
    ASSUME ChannelInv, NEW w \in Relays, RelayCommit(w), UNCHANGED workerVars
    PROVE  /\ \E batch \in SUBSET Requests : Ch!Publish(batch)
           /\ JobsAccounted' /\ AckingReceived'
<1> USE DEF ChannelInv, DeliveryIInv, IInv, TypeOK, workerVars, queueVars
<1> DEFINE batch == {e \in Requests : verdict[w][e] = "published"}
<1>1. UNCHANGED <<jobs, enqueued, steady>>
      /\ \A e \in Requests : outbox'[e] = Stamped(outbox[e], verdict[w][e])
  BY DEF RelayCommit
<1>2. \A e \in Requests : verdict[w][e] \in Verdicts
  OBVIOUS
<1>3. ASSUME NEW e \in Requests, verdict[w][e] # "none"
      PROVE  /\ outbox[e] \in EventRow /\ outbox'[e] \in EventRow
             /\ outbox'[e].published <=> (outbox[e].published \/ verdict[w][e] = "published")
  <2>1. Pending(e)
    BY <1>3 DEF ClaimsPending, Claimed
  <2>2. outbox[e] \in EventRow
    BY <2>1 DEF Pending
  <2>3. outbox'[e] \in EventRow
    BY <1>1, <1>2, <2>2, StampedType
  <2>4. CASE verdict[w][e] = "published"
    BY <1>1, <2>2, <2>4 DEF Stamped, EventRow
  <2>5. CASE verdict[w][e] = "deferred"
    <3>1. outbox'[e].published = outbox[e].published
      BY <1>1, <2>2, <2>5, DeferredUnpublished
    <3>2. QED
      BY <2>2, <2>3, <2>5, <3>1 DEF EventRow
  <2>6. QED
    BY <1>2, <1>3, <2>2, <2>3, <2>4, <2>5 DEF Verdicts
<1>4. \A e \in Requests : verdict[w][e] = "none" => outbox'[e] = outbox[e]
  BY <1>1 DEF Stamped
<1>5. Sent' = Sent /\ batch \subseteq Sent
  BY <1>3, <1>4, NoRowAssumption DEF Sent
<1>6. Published' = Published \cup batch
  BY <1>3, <1>4, <1>5, NoRowAssumption DEF Published, Sent
<1>7. Carried' = Carried
  BY <1>1 DEF Carried
<1>8. \A e \in batch : \A p \in steady[e] : Ch!Accounted(e, p)
  BY DEF JobsAccounted, NotSkipped, Reached
<1>9. Ch!Publish(batch)
  BY <1>1, <1>5, <1>6, <1>7, <1>8 DEF Ch!Publish
<1>10. JobsAccounted' /\ AckingReceived'
  BY <1>1, <1>7 DEF JobsAccounted, AckingReceived, Ch!Accounted
<1> HIDE DEF batch
<1>11. batch \in SUBSET Requests
  BY DEF batch
<1>12. QED
  BY <1>9, <1>10, <1>11

\* A job that changes its place carries its event on.
LEMMA BecomesCarries ==
    ASSUME jobs \subseteq Job, NEW j \in jobs, NEW k, D!Pair(k) = D!Pair(j),
           jobs' = (jobs \ {j}) \cup {k}
    PROVE  Carried' = Carried
BY DEF Carried

\* A job that is dropped leaves its event to another job, or drops it.
LEMMA DropDrops ==
    ASSUME NEW j \in jobs, jobs' = jobs \ {j}
    PROVE  Carried' \in {Carried, Carried \ {D!Pair(j)}}
<1>1. CASE \E k \in jobs \ {j} : D!Pair(k) = D!Pair(j)
  BY <1>1 DEF Carried
<1>2. CASE ~ \E k \in jobs \ {j} : D!Pair(k) = D!Pair(j)
  <2>1. Carried' = Carried \ {D!Pair(j)}
    BY <1>2 DEF Carried
  <2>2. QED
    BY <2>1
<1>3. QED
  BY <1>1, <1>2

\* A delivery hands its event over, gives it up, drops what nobody is owed, or
\* tries again (tasks.py deliver_webhook).
LEMMA DeliveryImplements ==
    ASSUME ChannelInv, NEW j \in jobs, D!Work(j) \/ D!WorkerDies(j), UNCHANGED restVars
    PROVE  [Ch!Next]_(Ch!vars) /\ AckingReceived'
<1> USE DEF restVars
<1> DEFINE pair == D!Pair(j)
<1>1. jobs \subseteq Job /\ j \in Job
  BY DEF ChannelInv, DeliveryIInv, IInv, TypeOK
<1>2. pair \in Requests \X Endpoints /\ pair \in Carried
      /\ pair[1] = j.event /\ pair[2] = j.endpoint
  BY <1>1 DEF D!Pair, Job, Carried
<1>3. Sent' = Sent /\ Published' = Published /\ UNCHANGED steady
  BY DEF Sent, Published
<1>4. \A k \in jobs : k.at = "acking" => D!Pair(k) \in received
  BY DEF ChannelInv, AckingReceived
<1>5. \A where : /\ D!Pair([j EXCEPT !.at = where]) = pair
                 /\ [j EXCEPT !.at = where].at = where
  BY <1>1 DEF D!Pair, Job
<1> HIDE DEF pair
<1>6. ASSUME received \subseteq received', jobs' \subseteq jobs PROVE AckingReceived'
  BY <1>4, <1>6 DEF AckingReceived
<1>7. ASSUME NEW where, D!Becomes(j, where), received \subseteq received',
             where = "acking" => pair \in received'
      PROVE  Carried' = Carried /\ AckingReceived'
  <2>1. jobs' = (jobs \ {j}) \cup {[j EXCEPT !.at = where]}
    BY <1>7 DEF D!Becomes
  <2>2. Carried' = Carried
    BY <1>1, <1>5, <2>1, BecomesCarries DEF pair
  <2>3. AckingReceived'
    BY <1>4, <1>5, <1>7, <2>1 DEF AckingReceived
  <2>4. QED
    BY <2>2, <2>3
<1>8. CASE D!Start(j)
  <2> DEFINE n == j.try + 1
             started == [j EXCEPT !.try = n, !.at = "posting"]
  <2>1. UNCHANGED <<received, abandoned, endpoint>>
    BY <1>8 DEF D!Start
  <2>2. CASE D!Active(j.endpoint)
    <3>1. jobs' = (jobs \ {j}) \cup {started}
      BY <1>8, <2>2 DEF D!Start
    <3> HIDE DEF n
    <3>2. D!Pair(started) = pair /\ started.at = "posting"
      BY <1>1 DEF D!Pair, Job, pair
    <3> HIDE DEF started
    <3>3. Carried' = Carried
      BY <1>1, <3>1, <3>2, BecomesCarries DEF pair
    <3>4. AckingReceived'
      BY <1>4, <2>1, <3>1, <3>2 DEF AckingReceived
    <3>5. QED
      BY <1>3, <2>1, <3>3, <3>4 DEF Ch!vars
  <2>3. CASE ~ D!Active(j.endpoint)
    <3>1. jobs' = jobs \ {j}
      BY <1>8, <2>3 DEF D!Start
    <3>2. pair[2] \notin steady[pair[1]]
      BY <1>2, <2>3 DEF D!Active, ChannelInv, DeliveryIInv, IInv, SteadySubscribed, Subscribed
    <3>3. Ch!Drop(pair) \/ UNCHANGED Ch!vars
      BY <1>2, <1>3, <2>1, <3>1, <3>2, DropDrops DEF Ch!Drop, Ch!vars, pair
    <3>4. QED
      BY <1>2, <1>6, <2>1, <3>1, <3>3 DEF Ch!Next
  <2>4. QED
    BY <2>2, <2>3
<1>9. CASE D!Exhaust(j) \/ \E url \in Urls, answer \in Answers : D!Resolve(j, url, answer)
  <2>1. CASE UNCHANGED <<jobs, abandoned, received>>
    <3>1. Carried' = Carried
      BY <2>1 DEF Carried
    <3>2. QED
      BY <1>3, <1>6, <2>1, <3>1 DEF Ch!vars
  <2>2. CASE jobs' = jobs \ {j} /\ abandoned' = abandoned \cup {pair} /\ UNCHANGED received
    <3>1. Ch!GiveUp(pair)
      BY <1>2, <1>3, <2>2, DropDrops DEF Ch!GiveUp, pair
    <3>2. QED
      BY <1>2, <1>6, <2>2, <3>1 DEF Ch!Next
  <2>3. QED
    BY <1>9, <2>1, <2>2 DEF D!Exhaust, D!Resolve, D!Drop, D!GiveUp, pair
<1>10. CASE D!PostAccepted(j) \/ \E arrived \in BOOLEAN : D!PostFailed(j, arrived)
  <2>1. /\ UNCHANGED abandoned
        /\ received' \in {received, received \cup {pair}}
        /\ \/ D!Becomes(j, "acking") /\ received' = received \cup {pair}
           \/ D!Becomes(j, "queued")
    BY <1>10 DEF D!PostAccepted, D!PostFailed, D!Arrive, pair
  <2>2. Carried' = Carried /\ AckingReceived'
    BY <1>7, <2>1
  <2>3. Ch!HandOver(pair) \/ UNCHANGED Ch!vars
    BY <1>2, <1>3, <2>1, <2>2 DEF Ch!HandOver, Ch!vars
  <2>4. QED
    BY <1>2, <2>2, <2>3 DEF Ch!Next
<1>11. CASE D!Acknowledge(j)
  <2>1. jobs' = jobs \ {j} /\ UNCHANGED <<received, abandoned>> /\ pair \in received
    BY <1>4, <1>11 DEF D!Acknowledge, D!Drop, pair
  <2>2. Ch!Drop(pair) \/ UNCHANGED Ch!vars
    BY <1>2, <1>3, <2>1, DropDrops DEF Ch!Drop, Ch!vars, pair
  <2>3. QED
    BY <1>2, <1>6, <2>1, <2>2 DEF Ch!Next
<1>12. CASE D!WorkerDies(j)
  <2>1. D!Becomes(j, "queued") /\ UNCHANGED <<received, abandoned>>
    BY <1>12 DEF D!WorkerDies
  <2>2. Carried' = Carried /\ AckingReceived'
    BY <1>7, <2>1
  <2>3. QED
    BY <1>3, <2>1, <2>2 DEF Ch!vars
<1>13. QED
  BY <1>8, <1>9, <1>10, <1>11, <1>12 DEF D!Work

\* Every step of the pipeline is a step of the channel or leaves it alone, and
\* keeps what that rests on.
LEMMA ChannelStep ==
    ASSUME ChannelInv, [WebhooksNext]_allVars
    PROVE  [Ch!Next]_(Ch!vars) /\ JobsAccounted' /\ AckingReceived'
<1> USE DEF ChannelInv, DeliveryIInv
<1>1. CASE Next /\ UNCHANGED workerVars
  <2>1. ASSUME NEW r \in Requests, AddCommit(r)
        PROVE  Ch!Next /\ JobsAccounted' /\ AckingReceived'
    BY <1>1, <2>1, CommitSends DEF Ch!Next
  <2>2. ASSUME NEW p \in Endpoints, NEW state \in Live \cup {"deleted"}, SetEndpoint(p, state)
        PROVE  [Ch!Next]_(Ch!vars) /\ JobsAccounted' /\ AckingReceived'
    BY <1>1, <2>2, EndpointLeaves DEF Ch!Next
  <2>3. ASSUME NEW w \in Relays, NEW p \in Endpoints, current[w] # NoEvent,
               Enqueue(current[w], p), UNCHANGED <<outbox, steady>>
        PROVE  Ch!Next /\ JobsAccounted' /\ AckingReceived'
    BY <1>1, <2>3, EnqueueCarries, CurrentFacts DEF Ch!Next
  <2>4. ASSUME NEW w \in Relays, RelayCommit(w)
        PROVE  Ch!Next /\ JobsAccounted' /\ AckingReceived'
    BY <1>1, <2>4, RoundPublishes DEF Ch!Next
  <2>5. ASSUME UNCHANGED <<outbox, steady, jobs, enqueued>>
        PROVE  UNCHANGED Ch!vars /\ JobsAccounted' /\ AckingReceived'
    BY <1>1, <2>5 DEF workerVars, Ch!vars, Sent, Published, Carried, JobsAccounted,
       AckingReceived, Ch!Accounted
  <2>6. QED
    BY <1>1, <2>1, <2>2, <2>3, <2>4, <2>5, OutboxMoves
<1>2. CASE D!Deliver /\ UNCHANGED restVars
  <2>1. PICK j \in jobs : D!Work(j) \/ D!WorkerDies(j)
    BY <1>2 DEF D!Deliver
  <2>2. [Ch!Next]_(Ch!vars) /\ AckingReceived'
    BY <1>2, <2>1, DeliveryImplements
  <2>3. UNCHANGED <<steady, enqueued>> /\ \A e \in Requests : steady[e] \subseteq Endpoints
    BY <1>2 DEF restVars, IInv, TypeOK
  <2>4. JobsAccounted'
    BY <2>2, <2>3, ChannelKeeps DEF JobsAccounted
  <2>5. QED
    BY <2>2, <2>4
<1>3. CASE UNCHANGED allVars
  BY <1>3 DEF allVars, vars, workerVars, queueVars, Ch!vars, Sent, Published, Carried,
     JobsAccounted, AckingReceived, Ch!Accounted
<1>4. QED
  BY <1>1, <1>2, <1>3 DEF WebhooksNext

\* An empty queue has nothing to account for.
LEMMA ChannelInit == WebhooksInit => ChannelInv /\ Ch!Init
<1> SUFFICES ASSUME WebhooksInit PROVE ChannelInv /\ Ch!Init
  OBVIOUS
<1>1. DeliveryIInv
  BY DeliveryInit
<1>2. /\ jobs = {} /\ received = {} /\ abandoned = {}
      /\ outbox = [r \in Requests |-> NoRow] /\ steady = [r \in Requests |-> {}]
  BY DEF WebhooksInit, Init
<1>3. Sent = {} /\ Published = {} /\ Carried = {}
  BY <1>2 DEF Sent, Published, Carried
<1>4. JobsAccounted /\ AckingReceived
  BY <1>2 DEF JobsAccounted, AckingReceived
<1>5. QED
  BY <1>1, <1>2, <1>3, <1>4 DEF ChannelInv, Ch!Init

-----------------------------------------------------------------------------
(* Theorems.                                                                *)

\* Every step of the outbox, the relays and the workers keeps the invariant.
LEMMA DeliveryInductive == WebhooksSpec => []DeliveryIInv
<1>1. WebhooksInit => DeliveryIInv
  BY DeliveryInit
<1>2. DeliveryIInv /\ [WebhooksNext]_allVars => DeliveryIInv'
  <2> SUFFICES ASSUME DeliveryIInv, [WebhooksNext]_allVars PROVE DeliveryIInv'
    OBVIOUS
  <2>1. CASE Next /\ UNCHANGED workerVars
    BY <2>1, OutboxKeeps
  <2>2. CASE D!Deliver /\ UNCHANGED restVars
    BY <2>2, DeliveryKeeps
  <2>3. CASE UNCHANGED allVars
    BY <2>3, OutboxKeeps DEF allVars
  <2>4. QED
    BY <2>1, <2>2, <2>3 DEF WebhooksNext
<1>3. QED
  BY <1>1, <1>2, PTL DEF WebhooksSpec

\* Receivers, given-up deliveries and pins keep to their types, and only a job
\* that is being posted has a pinned target (tasks.py deliver_webhook).
THEOREM DeliveryTypeCorrect == WebhooksSpec => []DeliveryTypeOK
<1>1. DeliveryIInv => DeliveryTypeOK
  BY DEF DeliveryIInv
<1>2. QED
  BY <1>1, DeliveryInductive, PTL

\* No receiver hears of a membership that was not committed (dispatch.py,
\* outbox.py drain_outbox).
THEOREM OnlyCommittedDeliveredHolds == WebhooksSpec => []OnlyCommittedDelivered
<1>1. DeliveryIInv => OnlyCommittedDelivered
  BY DEF DeliveryIInv
<1>2. QED
  BY <1>1, DeliveryInductive, PTL

\* No worker connects to an address that is not public (egress.py
\* resolve_pinned_target, tasks.py deliver_webhook).
THEOREM DialsPublicOnlyHolds == WebhooksSpec => []DialsPublicOnly
<1>1. DeliveryIInv => DialsPublicOnly
  BY DEF DeliveryIInv
<1>2. QED
  BY <1>1, DeliveryInductive, PTL

\* The invariant of the pipeline holds together with its accounts.
LEMMA ChannelInductive == WebhooksSpec => []ChannelInv
<1>1. ChannelInv /\ [WebhooksNext]_allVars => JobsAccounted' /\ AckingReceived'
  BY ChannelStep
<1>2. ChannelInv <=> DeliveryIInv /\ JobsAccounted /\ AckingReceived
  BY DEF ChannelInv
<1>3. QED
  BY <1>1, <1>2, ChannelInit, DeliveryInductive, PTL DEF WebhooksSpec

\* From the commit of an event to its receivers, the outbox, the relay, the
\* queue and the workers implement an at-least-once channel, whatever dies or is
\* reconfigured (router.py add_member, outbox.py, tasks.py deliver_webhook).
THEOREM ChannelImplemented == WebhooksSpec => ImplementsChannel
<1>1. ChannelInv /\ [WebhooksNext]_allVars => [Ch!Next]_(Ch!vars)
  BY ChannelStep
<1>2. QED
  BY <1>1, ChannelInit, ChannelInductive, PTL DEF WebhooksSpec, ImplementsChannel, Ch!Spec

\* A published event is on its way to every endpoint that stayed subscribed, or
\* has reached it, or was given up (outbox.py drain_outbox stamps only what
\* _fan_out has queued for all; tasks.py deliver_webhook).
THEOREM NothingForgottenHolds == WebhooksSpec => []NothingForgotten
<1>1. ASSUME ChannelInv, NEW e \in Published, NEW p \in steady[e]
      PROVE  Ch!Accounted(e, p)
  BY <1>1 DEF ChannelInv, DeliveryIInv, IInv, NotSkipped, NoEndpointSkipped, Published, Sent,
     JobsAccounted
<1>2. ChannelInv => NothingForgotten
  BY <1>1 DEF NothingForgotten
<1>3. QED
  BY <1>2, ChannelInductive, PTL

\* The workers take nothing from what the outbox promises: a membership and its
\* event commit together, no round publishes what another has, and no endpoint
\* is skipped, with deliveries under way (outbox.py, tasks.py).
THEOREM OutboxPromisesKept ==
    WebhooksSpec => [](EveryMemberHasEvent /\ OncePerRound /\ NoEndpointSkipped)
<1>1. DeliveryIInv => EveryMemberHasEvent /\ OncePerRound /\ NoEndpointSkipped
  BY DEF DeliveryIInv, IInv, CountBound, OncePerRound, Spent, NotSkipped
<1>2. QED
  BY <1>1, DeliveryInductive, PTL

\* Nor does a worker bring a settled event back: with deliveries under way, no
\* step writes a published or dead-lettered row or queues it again (outbox.py
\* drain_outbox; tasks.py deliver_webhook writes no outbox row).
THEOREM SettledIsFinalKept == WebhooksSpec => SettledIsFinal
<1>1. DeliveryIInv /\ [WebhooksNext]_allVars =>
        [\A e \in Requests :
            (outbox[e] # NoRow /\ ~Pending(e)) =>
                outbox'[e] = outbox[e] /\ enqueued'[e] = enqueued[e]]_vars
  <2> SUFFICES ASSUME DeliveryIInv, [WebhooksNext]_allVars,
                      NEW e \in Requests, outbox[e] # NoRow, ~Pending(e)
               PROVE  outbox'[e] = outbox[e] /\ enqueued'[e] = enqueued[e]
    OBVIOUS
  <2>1. CASE [Next]_vars
    BY <2>1, SettledStep DEF DeliveryIInv
  <2>2. CASE UNCHANGED restVars
    BY <2>2 DEF restVars
  <2>3. QED
    BY <2>1, <2>2 DEF WebhooksNext, allVars
<1>2. QED
  BY <1>1, DeliveryInductive, PTL DEF WebhooksSpec, SettledIsFinal

-----------------------------------------------------------------------------
(* How long.                                                                *)

\* A step of the outbox enqueues one job or leaves the queue alone.
LEMMA QueueGrows ==
    ASSUME IInv, [Next]_vars
    PROVE  \/ UNCHANGED <<jobs, enqueued>>
           \/ \E e \in Requests, p \in Endpoints : Enqueue(e, p)
<1>1. ASSUME NEW w \in Relays, current[w] # NoEvent PROVE current[w] \in Requests
  BY <1>1, CurrentFacts
<1>2. QED
  BY <1>1, OutboxMoves DEF AddCommit, SetEndpoint, RelayCommit, queueVars

\* A step of a delivery ends its job or leaves it fewer steps (tasks.py
\* deliver_webhook; arq counts the try first).
LEMMA JobWears ==
    ASSUME jobs \subseteq Job, NEW j \in jobs, j.try <= MaxTries, D!Work(j) \/ D!WorkerDies(j)
    PROVE  \/ jobs' \subseteq jobs
           \/ \E k \in Job :
                /\ jobs' = (jobs \ {j}) \cup {k}
                /\ JobId(k) = JobId(j) /\ k.try <= MaxTries /\ TurnsLeft(k) < TurnsLeft(j)
<1>0. j \in Job /\ j.try \in Nat /\ MaxTries \in Nat /\ j.at \in {"queued", "posting", "acking"}
  BY TriesAssumption DEF Job
<1>1. ASSUME NEW where \in {"queued", "acking"}, D!Becomes(j, where),
             j.at = "posting" \/ (j.at = "acking" /\ where = "queued")
      PROVE  \E k \in Job :
                /\ jobs' = (jobs \ {j}) \cup {k}
                /\ JobId(k) = JobId(j) /\ k.try <= MaxTries /\ TurnsLeft(k) < TurnsLeft(j)
  <2> DEFINE k == [j EXCEPT !.at = where]
  <2>1. jobs' = (jobs \ {j}) \cup {k}
    BY <1>1 DEF D!Becomes
  <2>2. /\ k \in Job /\ k.try = j.try /\ k.at = where
        /\ k.event = j.event /\ k.endpoint = j.endpoint /\ k.nth = j.nth
    BY <1>0, <1>1 DEF Job
  <2> HIDE DEF k
  <2>3. TurnsLeft(k) < TurnsLeft(j)
    BY <1>0, <1>1, <2>2 DEF TurnsLeft
  <2>4. QED
    BY <2>1, <2>2, <2>3 DEF JobId
<1>2. CASE D!Start(j)
  <2> DEFINE n == j.try + 1
             k == [j EXCEPT !.try = n, !.at = "posting"]
  <2>1. j.at = "queued" /\ j.try < MaxTries /\ jobs' = (jobs \ {j}) \cup
          IF D!Active(j.endpoint) THEN {k} ELSE {}
    BY <1>2 DEF D!Start
  <2>2. n \in Nat /\ n <= MaxTries
    BY <1>0, <2>1
  <2> HIDE DEF n
  <2>3. /\ k \in Job /\ k.try = n /\ k.at = "posting"
        /\ k.event = j.event /\ k.endpoint = j.endpoint /\ k.nth = j.nth
    BY <1>0, <2>2 DEF Job
  <2> HIDE DEF k
  <2>4. TurnsLeft(k) < TurnsLeft(j)
    BY <1>0, <2>1, <2>2, <2>3 DEF TurnsLeft, n
  <2>5. QED
    BY <2>1, <2>2, <2>3, <2>4 DEF JobId
<1>3. CASE D!Exhaust(j) \/ D!Acknowledge(j)
  BY <1>3 DEF D!Exhaust, D!Acknowledge, D!Drop
<1>4. CASE \E url \in Urls, answer \in Answers : D!Resolve(j, url, answer)
  BY <1>4 DEF D!Resolve, D!Drop
<1>5. CASE D!PostAccepted(j) \/ \E arrived \in BOOLEAN : D!PostFailed(j, arrived)
  BY <1>1, <1>5 DEF D!PostAccepted, D!PostFailed
<1>6. CASE D!WorkerDies(j)
  BY <1>0, <1>1, <1>6 DEF D!WorkerDies
<1>7. QED
  BY <1>2, <1>3, <1>4, <1>5, <1>6 DEF D!Work

\* A job's number is one of those counted for its event and endpoint.
JobsCounted == \A j \in jobs : j.nth <= enqueued[j.event][j.endpoint]

JobsInv == JobsSingle /\ JobsCounted

\* An enqueue makes a job that is like no other, and a delivery keeps its job
\* the only one of its name.
LEMMA JobsStep ==
    ASSUME DeliveryIInv, JobsInv, [WebhooksNext]_allVars
    PROVE  /\ JobsInv'
           /\ \A k \in jobs' \ jobs :
                \/ k.nth > enqueued[k.event][k.endpoint]
                \/ \E j \in jobs \ jobs' : JobId(j) = JobId(k) /\ TurnsLeft(k) < TurnsLeft(j)
<1>1. /\ IInv /\ jobs \subseteq Job /\ enqueued \in [Requests -> [Endpoints -> Nat]]
      /\ MaxTries \in Nat
  BY TriesAssumption DEF DeliveryIInv, IInv, TypeOK
<1>2. CASE UNCHANGED <<jobs, enqueued>>
  BY <1>2 DEF JobsInv, JobsSingle, JobsCounted
<1>3. ASSUME NEW e \in Requests, NEW p \in Endpoints, Enqueue(e, p)
      PROVE  /\ JobsInv'
             /\ \A k \in jobs' \ jobs : k.nth > enqueued[k.event][k.endpoint]
  <2> DEFINE new == NewJob(e, p)
  <2>1. /\ new.event = e /\ new.endpoint = p /\ new.nth = enqueued[e][p] + 1 /\ new.try = 0
        /\ jobs' = jobs \cup {new}
    BY <1>3 DEF Enqueue, NewJob
  <2>2. enqueued[e][p] \in Nat
    BY <1>1
  <2>3. enqueued'[e][p] = enqueued[e][p] + 1
    BY <1>1, <1>3 DEF Enqueue
  <2>4. \A f \in Requests, q \in Endpoints :
          enqueued[f][q] \in Nat /\ enqueued[f][q] <= enqueued'[f][q]
    BY <1>1, <1>3 DEF Enqueue
  <2> HIDE DEF new
  <2>5. \A j \in jobs : JobId(j) # JobId(new)
    BY <1>1, <2>1, <2>2 DEF JobsInv, JobsCounted, JobId, Job
  <2>6. JobsSingle'
    BY <1>1, <2>1, <2>5 DEF JobsInv, JobsSingle
  <2>7. JobsCounted'
    <3> SUFFICES ASSUME NEW j \in jobs' PROVE j.nth <= enqueued'[j.event][j.endpoint]
      BY DEF JobsCounted
    <3>1. CASE j = new
      BY <2>1, <2>2, <2>3, <3>1
    <3>2. CASE j \in jobs
      <4>1. j.nth \in Nat /\ j.event \in Requests /\ j.endpoint \in Endpoints
        BY <1>1, <3>2 DEF Job
      <4>2. j.nth <= enqueued[j.event][j.endpoint] /\ enqueued'[j.event][j.endpoint] \in Nat
        BY <1>1, <1>3, <3>2, <4>1 DEF JobsInv, JobsCounted, Enqueue
      <4>3. QED
        BY <2>4, <4>1, <4>2
    <3>3. QED
      BY <2>1, <3>1, <3>2
  <2>8. QED
    BY <2>1, <2>2, <2>6, <2>7 DEF JobsInv
<1>4. ASSUME NEW j \in jobs, D!Work(j) \/ D!WorkerDies(j), UNCHANGED enqueued
      PROVE  /\ JobsInv'
             /\ \A k \in jobs' \ jobs :
                  \E i \in jobs \ jobs' : JobId(i) = JobId(k) /\ TurnsLeft(k) < TurnsLeft(i)
  <2>1. CASE jobs' \subseteq jobs
    BY <1>4, <2>1 DEF JobsInv, JobsSingle, JobsCounted
  <2>2. ASSUME NEW k \in Job, jobs' = (jobs \ {j}) \cup {k}, JobId(k) = JobId(j),
               k.try <= MaxTries, TurnsLeft(k) < TurnsLeft(j)
        PROVE  /\ JobsInv'
               /\ \A l \in jobs' \ jobs :
                    \E i \in jobs \ jobs' : JobId(i) = JobId(l) /\ TurnsLeft(l) < TurnsLeft(i)
    <3>1. k # j
      <4>1. TurnsLeft(j) \in Int
        BY <1>1 DEF TurnsLeft, Job
      <4>2. QED
        BY <2>2, <4>1
    <3>2. j \in jobs \ jobs'
      BY <2>2, <3>1
    <3>3. \A i \in jobs \ {j} : JobId(i) # JobId(k)
      BY <2>2 DEF JobsInv, JobsSingle
    <3>4. JobsSingle'
      BY <2>2, <3>3 DEF JobsInv, JobsSingle
    <3>5. k.nth = j.nth /\ k.event = j.event /\ k.endpoint = j.endpoint
      BY <2>2 DEF JobId
    <3>6. JobsCounted'
      BY <1>4, <2>2, <3>5 DEF JobsInv, JobsCounted
    <3>7. QED
      BY <2>2, <3>2, <3>4, <3>6 DEF JobsInv
  <2>3. j.try <= MaxTries
    BY DEF JobsInv, JobsSingle
  <2>4. QED
    BY <1>1, <1>4, <2>1, <2>2, <2>3, JobWears
<1>5. CASE [Next]_vars
  BY <1>1, <1>2, <1>3, <1>5, QueueGrows
<1>6. CASE D!Deliver /\ UNCHANGED restVars
  BY <1>4, <1>6 DEF D!Deliver, restVars
<1>7. QED
  BY <1>5, <1>6 DEF WebhooksNext, allVars

\* Jobs stay single and counted in every behaviour (outbox.py _fan_out; tasks.py
\* deliver_webhook).
LEMMA JobsInductive == WebhooksSpec => []JobsInv
<1>1. WebhooksInit => JobsInv
  BY DEF WebhooksInit, Init, JobsInv, JobsSingle, JobsCounted
<1>2. DeliveryIInv /\ JobsInv /\ [WebhooksNext]_allVars => JobsInv'
  BY JobsStep
<1>3. QED
  BY <1>1, <1>2, DeliveryInductive, PTL DEF WebhooksSpec

\* No job is in two places, or tried more often than it may be (worker.py
\* WorkerSettings).
THEOREM JobsSingleHolds == WebhooksSpec => []JobsSingle
<1>1. JobsInv => JobsSingle
  BY DEF JobsInv
<1>2. QED
  BY <1>1, JobsInductive, PTL

\* Whatever its worker does or dies of, a job has fewer steps left to it
\* afterwards, and only an enqueue brings a job into the queue (tasks.py
\* deliver_webhook; outbox.py _fan_out).
THEOREM JobsWearOutHolds == WebhooksSpec => JobsWearOut
<1>1. DeliveryIInv /\ JobsInv /\ [WebhooksNext]_allVars =>
        [\A k \in jobs' \ jobs :
           \/ k.nth > enqueued[k.event][k.endpoint]
           \/ \E j \in jobs \ jobs' : JobId(j) = JobId(k) /\ TurnsLeft(k) < TurnsLeft(j)]_allVars
  BY JobsStep
<1>2. QED
  BY <1>1, DeliveryInductive, JobsInductive, PTL DEF WebhooksSpec, JobsWearOut

\* With deliveries under way too, the attempts of an event bound what an endpoint
\* is given, and each write of its row uses one up (outbox.py drain_outbox).
THEOREM AttemptsKept ==
    WebhooksSpec => [](DeadLetterExact /\ DuplicatesBounded) /\ WritesSettle
<1> DEFINE Settles == \A e \in Requests :
             (outbox[e] # NoRow /\ outbox'[e] # outbox[e]) => RoundsLeft(e)' < RoundsLeft(e)
<1>1. WebhooksInit => DeadLetterExact
  BY DEF WebhooksInit, Init, DeadLetterExact
<1>2. DeliveryIInv /\ DeadLetterExact /\ [WebhooksNext]_allVars
        => DeadLetterExact' /\ [Settles]_vars
  <2> SUFFICES ASSUME DeliveryIInv, DeadLetterExact, [WebhooksNext]_allVars
               PROVE  DeadLetterExact' /\ Settles
    OBVIOUS
  <2>1. CASE [Next]_vars
    BY <2>1, AttemptsStep DEF DeliveryIInv
  <2>2. CASE UNCHANGED restVars
    BY <2>2 DEF restVars, DeadLetterExact
  <2>3. QED
    BY <2>1, <2>2 DEF WebhooksNext, allVars
<1>3. DeliveryIInv /\ DeadLetterExact => DuplicatesBounded
  BY Bounded DEF DeliveryIInv
<1>4. QED
  BY <1>1, <1>2, <1>3, DeliveryInductive, PTL DEF WebhooksSpec, WritesSettle
=============================================================================
