---------------------------- MODULE OutboxProofs ----------------------------
(***************************************************************************)
(* Proofs about Outbox: type correctness, and what the outbox promises of  *)
(* members, rounds and endpoints, for every number of requests, endpoints  *)
(* and overlapping relay rounds.                                           *)
(***************************************************************************)
EXTENDS Outbox, FiniteSetTheorems, TLAPS

-----------------------------------------------------------------------------
(* Types.                                                                   *)

\* An empty outbox with idle requests and relays is well typed.
LEMMA TypeInit == Init => TypeOK
BY DEF Init, TypeOK, Undecided, Verdicts

\* Requests are finitely many, so the next created_at is a number.
LEMMA NextCreated == Cardinality({q \in Requests : created[q] # 0}) + 1 \in Nat
<1>1. IsFiniteSet({q \in Requests : created[q] # 0})
  BY RequestsAssumption, FS_Subset
<1>2. QED
  BY <1>1, FS_CardinalityType

\* The steps of add_member and remove_member keep the types (tenancy/router.py).
LEMMA TypeAdd ==
    ASSUME TypeOK, NEW r \in Requests, Add(r)
    PROVE  TypeOK'
<1> USE DEF addVars, roundVars, queueVars
<1>1. CASE AddFlush(r)
  BY <1>1, NextCreated DEF AddFlush, TypeOK
<1>2. CASE AddConflict(r)
  BY <1>2 DEF AddConflict, TypeOK
<1>3. CASE AddCommit(r)
  BY <1>3 DEF AddCommit, TypeOK, EventRow, Subscribed
<1>4. CASE AddAudit(r)
  BY <1>4 DEF AddAudit, TypeOK
<1>5. CASE AddAbort(r)
  BY <1>5 DEF AddAbort, TypeOK
<1>6. QED
  BY <1>1, <1>2, <1>3, <1>4, <1>5 DEF Add

\* So do the changes administrators make (tenancy/router.py, webhooks/router.py).
LEMMA TypeAdminister == TypeOK /\ Administer => TypeOK'
<1> SUFFICES ASSUME TypeOK, Administer PROVE TypeOK'
  OBVIOUS
<1> USE DEF addVars, roundVars, queueVars
<1>1. ASSUME NEW u \in Users, RemoveMember(u) PROVE TypeOK'
  BY <1>1 DEF RemoveMember, TypeOK
<1>2. ASSUME NEW p \in Endpoints, NEW state \in Live \cup {"deleted"}, SetEndpoint(p, state)
      PROVE  TypeOK'
  BY <1>2 DEF SetEndpoint, TypeOK
<1>3. QED
  BY <1>1, <1>2 DEF Administer, CreateEndpoint, UpdateEndpoint, DeleteEndpoint

\* The queue gets jobs, and counts of them are numbers (queue.py).
LEMMA TypeEnqueue ==
    ASSUME TypeOK, NEW e \in Requests, NEW p \in Endpoints, Enqueue(e, p)
    PROVE  jobs' \subseteq Job /\ enqueued' \in [Requests -> [Endpoints -> Nat]]
<1>1. NewJob(e, p) \in Job
  BY DEF TypeOK, NewJob, Job
<1>2. jobs' \subseteq Job
  BY <1>1 DEF Enqueue, TypeOK
<1>3. enqueued' \in [Requests -> [Endpoints -> Nat]]
  BY DEF Enqueue, TypeOK
<1>4. QED
  BY <1>2, <1>3

\* Judging an event keeps the types of a round.
LEMMA TypeJudge ==
    ASSUME TypeOK, NEW w \in Relays, NEW result \in Verdicts, Judge(w, result)
    PROVE  /\ todo' \in [Relays -> SUBSET Requests]
           /\ current' \in [Relays -> Requests \cup {NoEvent}]
           /\ left' \in [Relays -> SUBSET Endpoints]
           /\ verdict' \in [Relays -> [Requests -> Verdicts]]
BY DEF Judge, TypeOK

\* Stamping a row keeps it a row (outbox.py drain_outbox).
LEMMA StampedType ==
    ASSUME NEW row \in EventRow, NEW result \in Verdicts
    PROVE  Stamped(row, result) \in EventRow
<1> DEFINE n == row.attempts + 1
           b == row.attempts + 1 >= MaxAttempts
<1>1. n \in Nat
  BY DEF EventRow
<1>2. b \in BOOLEAN
  OBVIOUS
<1>3. result = "deferred" => Stamped(row, result) = [row EXCEPT !.attempts = n, !.failed = b]
  BY DEF Stamped
<1> HIDE DEF n, b
<1>4. CASE result = "deferred"
  BY <1>1, <1>2, <1>3, <1>4 DEF EventRow
<1>5. CASE result # "deferred"
  BY <1>5 DEF Stamped, EventRow, Verdicts
<1>6. QED
  BY <1>4, <1>5

-----------------------------------------------------------------------------
(* Facts about claims.                                                      *)

\* What one round has claimed no other round has in hand (SKIP LOCKED).
LEMMA Alone ==
    ASSUME IInv, NEW w \in Relays, NEW e \in Claimed(w), NEW v \in Relays, v # w
    PROVE  verdict[v][e] = "none" /\ current[v] # e /\ e \notin todo[v]
<1>1. e \notin Claimed(v)
  BY DEF IInv, ClaimsDisjoint
<1>2. e \in Requests
  BY DEF Claimed, IInv, TypeOK
<1>3. e # NoEvent
  BY <1>2, NoEventAssumption
<1>4. QED
  BY <1>1, <1>2, <1>3 DEF Claimed, IInv, RoundShape

\* The event a round fans out is a committed, pending row it has not judged.
LEMMA CurrentFacts ==
    ASSUME IInv, NEW w \in Relays, current[w] # NoEvent
    PROVE  /\ current[w] \in Requests
           /\ current[w] \in todo[w]
           /\ current[w] \in Claimed(w)
           /\ verdict[w][current[w]] = "none"
           /\ Pending(current[w])
           /\ outbox[current[w]] \in EventRow
           /\ at[w] # "idle"
<1>1. current[w] \in Requests /\ current[w] \in todo[w]
  BY DEF IInv, TypeOK, RoundShape
<1>2. current[w] \in Claimed(w) /\ verdict[w][current[w]] = "none" /\ at[w] # "idle"
  BY <1>1 DEF IInv, RoundShape, Claimed
<1>3. Pending(current[w])
  BY <1>2 DEF IInv, ClaimsPending
<1>4. QED
  BY <1>1, <1>2, <1>3 DEF Pending, IInv, TypeOK

\* Steps that touch no row, round or job, and make nothing more steady, keep the
\* invariant.
LEMMA Frame ==
    ASSUME IInv, TypeOK', UNCHANGED <<outbox, roundVars, enqueued, aborted, target>>,
           members' \subseteq members,
           \A r \in Requests : adding'[r] \in {"idle", "inserted"}
                                 => adding[r] \in {"idle", "inserted"},
           \A e \in Requests : steady'[e] \subseteq steady[e],
           SteadySubscribed'
    PROVE  IInv'
<1> USE DEF roundVars
<1>1. Uncommitted'
  BY DEF IInv, Uncommitted
<1>2. RoundShape' /\ ClaimsDisjoint' /\ ClaimsPending'
  BY DEF IInv, RoundShape, ClaimsDisjoint, ClaimsPending, Claimed, Pending
<1>3. CountBound'
  BY DEF IInv, CountBound, Past, Spent
<1>4. NotSkipped'
  BY DEF IInv, NotSkipped, NoEndpointSkipped, Reached
<1>5. EveryMemberHasEvent'
  BY DEF IInv, EveryMemberHasEvent
<1>6. QED
  BY <1>1, <1>2, <1>3, <1>4, <1>5 DEF IInv

-----------------------------------------------------------------------------
(* Every action keeps the invariant.                                        *)

\* add_member up to its commit, and after it.
LEMMA AddStep ==
    ASSUME IInv, NEW r \in Requests, AddFlush(r) \/ AddConflict(r) \/ AddAudit(r) \/ AddAbort(r)
    PROVE  IInv'
<1> USE DEF addVars, queueVars
<1>1. TypeOK'
  BY TypeAdd DEF IInv, Add
<1>2. SteadySubscribed'
  BY DEF IInv, SteadySubscribed, Subscribed, AddFlush, AddConflict, AddAudit, AddAbort
<1>3. UNCHANGED <<outbox, roundVars, enqueued, aborted, target, members, steady>>
  BY DEF AddFlush, AddConflict, AddAudit, AddAbort
<1>4. \A q \in Requests : adding'[q] \in {"idle", "inserted"}
                            => adding[q] \in {"idle", "inserted"}
  BY DEF AddFlush, AddConflict, AddAudit, AddAbort, IInv, TypeOK
<1>5. QED
  BY <1>1, <1>2, <1>3, <1>4, Frame

\* The commit brings the member and its event together.
LEMMA AddCommitStep ==
    ASSUME IInv, NEW r \in Requests, AddCommit(r)
    PROVE  IInv'
<1> USE DEF addVars, roundVars, queueVars
<1>0. /\ outbox[r] = NoRow
      /\ aborted[r] = 0
      /\ \A p \in Endpoints : enqueued[r][p] = 0
      /\ \A w \in Relays : r \notin Claimed(w)
  BY DEF IInv, Uncommitted, AddCommit, ClaimsPending, Pending
<1>1. TypeOK'
  BY TypeAdd DEF IInv, Add
<1>2. Uncommitted'
  BY DEF IInv, TypeOK, Uncommitted, AddCommit
<1>3. SteadySubscribed'
  BY DEF IInv, TypeOK, SteadySubscribed, AddCommit, Subscribed
<1>4. outbox'[r] = [attempts |-> 0, published |-> FALSE, failed |-> FALSE]
  BY DEF IInv, TypeOK, AddCommit
<1>5. \A e \in Requests : e # r => outbox'[e] = outbox[e] /\ steady'[e] = steady[e]
  BY DEF IInv, TypeOK, AddCommit
<1>6. UNCHANGED <<roundVars, enqueued, aborted>>
  BY DEF AddCommit
<1>7. RoundShape' /\ ClaimsDisjoint'
  BY <1>6 DEF IInv, RoundShape, ClaimsDisjoint, Claimed
<1>8. ClaimsPending'
  <2> SUFFICES ASSUME NEW w \in Relays, NEW e \in Claimed(w) PROVE Pending(e)'
    BY <1>6 DEF ClaimsPending, Claimed
  <2>1. e \in Requests /\ e # r /\ Pending(e)
    BY <1>0 DEF IInv, ClaimsPending, Claimed, TypeOK
  <2>2. QED
    BY <2>1, <1>5 DEF Pending
<1>9. CountBound'
  <2> SUFFICES ASSUME NEW e \in Requests, NEW p \in Endpoints, outbox'[e] # NoRow
               PROVE  /\ enqueued[e][p] <= Spent(e)' + 1
                      /\ (~outbox'[e].published /\ \A w \in Relays : ~Past(w, e, p))
                           => enqueued[e][p] <= Spent(e)'
    BY <1>6 DEF CountBound, Past
  <2>1. CASE e = r
    BY <2>1, <1>0, <1>4, <1>6 DEF Spent
  <2>2. CASE e # r
    BY <2>2, <1>5, <1>6 DEF IInv, CountBound, Spent
  <2>3. QED
    BY <2>1, <2>2
<1>10. NotSkipped'
  <2>1. \A w \in Relays : verdict[w][r] = "none" /\ current[w] # r
    BY <1>0, NoEventAssumption DEF IInv, Claimed, RoundShape
  <2>2. QED
    BY <2>1, <1>4, <1>5, <1>6 DEF IInv, NotSkipped, NoEndpointSkipped, Reached
<1>11. EveryMemberHasEvent'
  <2> SUFFICES ASSUME NEW u \in members'
               PROVE  \E q \in Requests : target[q] = u /\ outbox'[q] # NoRow
    BY DEF EveryMemberHasEvent, AddCommit
  <2>0. outbox'[r] \in EventRow
    BY <1>4 DEF EventRow
  <2>1. outbox'[r] # NoRow
    BY <2>0, NoRowAssumption
  <2>2. CASE u = target[r]
    BY <2>1, <2>2
  <2>3. CASE u \in members
    BY <2>1, <2>3, <1>5 DEF IInv, EveryMemberHasEvent
  <2>4. QED
    BY <2>2, <2>3 DEF AddCommit
<1>12. QED
  BY <1>1, <1>2, <1>3, <1>7, <1>8, <1>9, <1>10, <1>11 DEF IInv

\* Removing a member takes no event back; endpoints that stop being subscribed
\* are steady no longer.
LEMMA AdministerStep ==
    ASSUME IInv, Administer
    PROVE  IInv'
<1> USE DEF addVars, queueVars
<1>1. TypeOK'
  BY TypeAdminister DEF IInv
<1>2. ASSUME NEW u \in Users, RemoveMember(u) PROVE IInv'
  <2>1. SteadySubscribed'
    BY <1>2 DEF RemoveMember, IInv, SteadySubscribed, Subscribed
  <2>2. QED
    BY <1>1, <1>2, <2>1, Frame DEF RemoveMember
<1>3. ASSUME NEW p \in Endpoints, NEW state \in Live \cup {"deleted"}, SetEndpoint(p, state)
      PROVE  IInv'
  <2>1. \A e \in Requests : steady'[e] \subseteq steady[e]
    BY <1>3 DEF SetEndpoint
  <2>2. SteadySubscribed'
    <3> SUFFICES ASSUME NEW e \in Requests, NEW q \in steady'[e]
                 PROVE  q \in Endpoints /\ endpoint'[q] = "subscribed"
      BY DEF SteadySubscribed, Subscribed
    <3>1. q \in Endpoints /\ endpoint[q] = "subscribed"
      BY <2>1 DEF IInv, SteadySubscribed, Subscribed
    <3>2. CASE state = "subscribed"
      BY <3>1, <3>2, <1>3 DEF SetEndpoint, IInv, TypeOK
    <3>3. CASE state # "subscribed"
      BY <3>1, <3>3, <1>3 DEF SetEndpoint, IInv, TypeOK
    <3>4. QED
      BY <3>2, <3>3
  <2>3. UNCHANGED <<outbox, roundVars, enqueued, aborted, target, members, adding>>
    BY <1>3 DEF SetEndpoint
  <2>4. QED
    BY <1>1, <2>1, <2>2, <2>3, Frame
<1>4. QED
  BY <1>2, <1>3 DEF Administer, CreateEndpoint, UpdateEndpoint, DeleteEndpoint

\* The queue failing or coming back changes nothing else.
LEMMA QueueStep ==
    ASSUME IInv, QueueFails \/ QueueRecovers
    PROVE  IInv'
<1> USE DEF addVars, roundVars, queueVars
<1>1. TypeOK'
  BY DEF IInv, TypeOK, QueueFails, QueueRecovers
<1>2. SteadySubscribed'
  BY DEF IInv, SteadySubscribed, Subscribed, QueueFails, QueueRecovers
<1>3. QED
  BY <1>1, <1>2, Frame DEF QueueFails, QueueRecovers

\* A round claims pending rows nobody has claimed.
LEMMA SelectBatchStep ==
    ASSUME IInv, NEW w \in Relays, SelectBatch(w)
    PROVE  IInv'
<1> USE DEF addVars, queueVars
<1>1. todo'[w] \subseteq Free /\ \A v \in Relays : v # w => todo'[v] = todo[v]
  BY DEF SelectBatch, Oldest, IInv, TypeOK
<1>2. at'[w] = "relaying" /\ \A v \in Relays : v # w => at'[v] = at[v]
  BY DEF SelectBatch, IInv, TypeOK
<1>3. current[w] = NoEvent
  BY DEF SelectBatch, IInv, RoundShape
<1>4. UNCHANGED <<addVars, outbox, endpoint, queueUp, current, left, verdict,
                  queueVars, aborted, steady>>
  BY DEF SelectBatch
<1>5. TypeOK'
  BY DEF SelectBatch, IInv, TypeOK, Oldest, Free
<1>6. \A e \in Free : e \in Requests /\ Pending(e) /\ \A v \in Relays : e \notin Claimed(v)
  BY DEF Free
<1>7. Uncommitted' /\ SteadySubscribed' /\ EveryMemberHasEvent'
  BY <1>4 DEF IInv, Uncommitted, SteadySubscribed, Subscribed, EveryMemberHasEvent
<1>8. RoundShape'
  BY <1>1, <1>2, <1>3, <1>4, <1>6 DEF IInv, RoundShape, Claimed
<1>9. \A v \in Relays : Claimed(v)' \subseteq Claimed(v) \cup (IF v = w THEN Free ELSE {})
  BY <1>1, <1>4 DEF Claimed
<1>10. ClaimsDisjoint'
  BY <1>6, <1>9 DEF IInv, ClaimsDisjoint
<1>11. ClaimsPending'
  BY <1>4, <1>6, <1>9 DEF IInv, ClaimsPending, Pending
<1>12. CountBound' /\ NotSkipped'
  BY <1>4 DEF IInv, CountBound, Past, Spent, NotSkipped, NoEndpointSkipped, Reached
<1>13. QED
  BY <1>5, <1>7, <1>8, <1>10, <1>11, <1>12 DEF IInv

\* The endpoints an event is fanned out to are at least those that stayed
\* subscribed since its commit.
LEMMA FanOutStep ==
    ASSUME IInv, NEW w \in Relays, NEW e \in Requests, FanOut(w, e)
    PROVE  IInv'
<1> USE DEF addVars, queueVars
<1>1. /\ current'[w] = e
      /\ left'[w] = Subscribed
      /\ \A v \in Relays : v # w => current'[v] = current[v] /\ left'[v] = left[v]
  BY DEF FanOut, IInv, TypeOK
<1>2. UNCHANGED <<addVars, outbox, endpoint, queueUp, at, todo, verdict, queueVars,
                  aborted, steady>>
  BY DEF FanOut
<1>3. e \in todo[w] /\ current[w] = NoEvent /\ e # NoEvent
  BY NoEventAssumption DEF FanOut
<1>4. TypeOK'
  BY DEF FanOut, IInv, TypeOK, Subscribed
<1>5. Uncommitted' /\ SteadySubscribed' /\ EveryMemberHasEvent'
  BY <1>2 DEF IInv, Uncommitted, SteadySubscribed, Subscribed, EveryMemberHasEvent
<1>6. at[w] # "idle"
  <2>1. todo[w] # {} => at[w] # "idle"
    BY DEF IInv, RoundShape
  <2>2. QED
    BY <1>3, <2>1
<1>7. RoundShape'
  BY <1>1, <1>2, <1>3, <1>6 DEF IInv, RoundShape
<1>8. ClaimsDisjoint' /\ ClaimsPending'
  BY <1>2 DEF IInv, ClaimsDisjoint, ClaimsPending, Claimed, Pending
<1>9. \A v \in Relays, f \in Requests, p \in Endpoints : Past(v, f, p) => Past(v, f, p)'
  BY <1>1, <1>2, <1>3, NoEventAssumption DEF Past
<1>10. CountBound'
  BY <1>2, <1>9 DEF IInv, CountBound, Spent
<1>11. NotSkipped'
  <2>1. steady[e] \subseteq left'[w]
    BY <1>1 DEF IInv, SteadySubscribed
  <2>2. QED
    BY <2>1, <1>1, <1>2 DEF IInv, NotSkipped, NoEndpointSkipped, Reached
<1>12. QED
  BY <1>4, <1>5, <1>7, <1>8, <1>10, <1>11 DEF IInv

\* A job is queued for an endpoint the round has still to serve: it is the one
\* job of this round for it.
LEMMA EnqueueAcceptedStep ==
    ASSUME IInv, NEW w \in Relays, NEW p \in Endpoints, EnqueueAccepted(w, p)
    PROVE  IInv'
<1> USE DEF addVars, queueVars
<1>0. PICK e \in Requests : e = current[w]
  BY CurrentFacts DEF EnqueueAccepted
<1>1. /\ e \in Requests /\ e \in Claimed(w) /\ verdict[w][e] = "none"
      /\ Pending(e) /\ outbox[e] \in EventRow /\ e # NoEvent
  BY <1>0, CurrentFacts DEF EnqueueAccepted
<1>2. /\ p \in left[w]
      /\ left'[w] = left[w] \ {p}
      /\ \A v \in Relays : v # w => left'[v] = left[v]
  BY DEF EnqueueAccepted, IInv, TypeOK
<1>3. UNCHANGED <<addVars, outbox, endpoint, queueUp, at, todo, current, verdict,
                  aborted, steady>>
  BY DEF EnqueueAccepted
<1>4. /\ enqueued'[e][p] = enqueued[e][p] + 1
      /\ \A f \in Requests, q \in Endpoints :
           <<f, q>> # <<e, p>> => enqueued'[f][q] = enqueued[f][q]
      /\ \A f \in Requests, q \in Endpoints : enqueued[f][q] \in Nat
  BY <1>0 DEF EnqueueAccepted, Enqueue, IInv, TypeOK
<1>5. TypeOK'
  <2>1. jobs' \subseteq Job /\ enqueued' \in [Requests -> [Endpoints -> Nat]]
    BY <1>0, TypeEnqueue DEF EnqueueAccepted, IInv
  <2>2. left' \in [Relays -> SUBSET Endpoints]
    BY DEF EnqueueAccepted, IInv, TypeOK
  <2>3. QED
    BY <2>1, <2>2, <1>3 DEF IInv, TypeOK
<1>6. Uncommitted'
  BY <1>1, <1>3, <1>4 DEF IInv, Uncommitted, Pending
<1>7. SteadySubscribed' /\ EveryMemberHasEvent'
  BY <1>3 DEF IInv, SteadySubscribed, Subscribed, EveryMemberHasEvent
<1>8. RoundShape' /\ ClaimsDisjoint' /\ ClaimsPending'
  BY <1>3 DEF IInv, RoundShape, ClaimsDisjoint, ClaimsPending, Claimed, Pending
<1>9. \A v \in Relays, f \in Requests, q \in Endpoints : Past(v, f, q) => Past(v, f, q)'
  BY <1>2, <1>3 DEF Past
<1>10. Past(w, e, p)'
  BY <1>0, <1>2, <1>3 DEF Past
<1>11. \A v \in Relays : ~Past(v, e, p)
  BY <1>0, <1>1, <1>2, Alone DEF Past
<1>12. CountBound'
  <2> SUFFICES ASSUME NEW f \in Requests, NEW q \in Endpoints, outbox[f] # NoRow
               PROVE  /\ enqueued'[f][q] <= Spent(f) + 1
                      /\ (~outbox[f].published /\ \A v \in Relays : ~Past(v, f, q)')
                           => enqueued'[f][q] <= Spent(f)
    BY <1>3 DEF CountBound, Spent
  <2>1. CASE <<f, q>> = <<e, p>>
    <3>1. enqueued[e][p] <= Spent(e)
      BY <1>1, <1>11 DEF IInv, CountBound, Pending
    <3>2. Spent(e) \in Nat
      BY <1>1 DEF Spent, IInv, TypeOK, EventRow
    <3>3. QED
      BY <2>1, <3>1, <3>2, <1>4, <1>10
  <2>2. CASE <<f, q>> # <<e, p>>
    BY <2>2, <1>4, <1>9 DEF IInv, CountBound
  <2>3. QED
    BY <2>1, <2>2
<1>13. NotSkipped'
  <2>1. \A f \in Requests, q \in Endpoints : enqueued[f][q] > 0 => enqueued'[f][q] > 0
    BY <1>4
  <2>2. \A f \in Requests : steady[f] \subseteq Endpoints
    BY DEF IInv, TypeOK
  <2>3. enqueued'[e][p] > 0
    BY <1>1, <1>4
  <2>4. NoEndpointSkipped'
    BY <1>3, <2>1, <2>2 DEF IInv, NotSkipped, NoEndpointSkipped
  <2>5. \A v \in Relays, f \in Requests : verdict'[v][f] = "published" => Reached(f)'
    BY <1>3, <2>1, <2>2 DEF IInv, NotSkipped, Reached
  <2>6. ASSUME NEW v \in Relays, NEW f \in Requests, current[v] = f, NEW q \in steady[f]
        PROVE  q \in left'[v] \/ enqueued'[f][q] > 0
    <3>1. q \in left[v] \/ enqueued[f][q] > 0
      BY <2>6 DEF IInv, NotSkipped
    <3>2. CASE v = w /\ q = p
      BY <3>2, <2>3, <2>6, <1>0
    <3>3. CASE ~(v = w /\ q = p)
      BY <3>1, <3>3, <2>1, <2>2, <1>2
    <3>4. QED
      BY <3>2, <3>3
  <2>7. QED
    BY <1>3, <2>4, <2>5, <2>6 DEF NotSkipped
<1>14. QED
  BY <1>5, <1>6, <1>7, <1>8, <1>12, <1>13 DEF IInv

\* Judging the current event takes it from the round's work and leaves the
\* claims as they are.
LEMMA JudgeFacts ==
    ASSUME IInv, NEW w \in Relays, NEW result \in Verdicts \ {"none"},
           current[w] # NoEvent, Judge(w, result)
    PROVE  /\ verdict'[w][current[w]] = result
           /\ \A v \in Relays, f \in Requests :
                <<v, f>> # <<w, current[w]>> => verdict'[v][f] = verdict[v][f]
           /\ todo'[w] = todo[w] \ {current[w]}
           /\ current'[w] = NoEvent
           /\ \A v \in Relays : v # w =>
                todo'[v] = todo[v] /\ current'[v] = current[v] /\ left'[v] = left[v]
           /\ \A v \in Relays : Claimed(v)' = Claimed(v)
<1>1. current[w] \in Requests /\ current[w] \in todo[w]
  BY CurrentFacts
<1>2. /\ verdict'[w][current[w]] = result
      /\ \A v \in Relays, f \in Requests :
           <<v, f>> # <<w, current[w]>> => verdict'[v][f] = verdict[v][f]
      /\ todo'[w] = todo[w] \ {current[w]}
      /\ current'[w] = NoEvent
      /\ \A v \in Relays : v # w =>
           todo'[v] = todo[v] /\ current'[v] = current[v] /\ left'[v] = left[v]
  BY <1>1 DEF Judge, IInv, TypeOK
<1>3. ASSUME NEW v \in Relays PROVE Claimed(v)' = Claimed(v)
  BY <1>1, <1>2 DEF Claimed
<1>4. QED
  BY <1>2, <1>3

\* It leaves the rounds well shaped and disjoint, on pending rows.
LEMMA JudgeShape ==
    ASSUME IInv, NEW w \in Relays, NEW result \in Verdicts \ {"none"},
           current[w] # NoEvent, Judge(w, result), UNCHANGED <<at, outbox>>
    PROVE  RoundShape' /\ ClaimsDisjoint' /\ ClaimsPending'
<1>1. at[w] # "idle" /\ current[w] \in Requests
  BY CurrentFacts
<1>2. RoundShape'
  BY <1>1, JudgeFacts DEF IInv, RoundShape, TypeOK
<1>3. ClaimsDisjoint' /\ ClaimsPending'
  BY JudgeFacts DEF IInv, ClaimsDisjoint, ClaimsPending, Pending
<1>4. QED
  BY <1>2, <1>3

\* No other event's account changes by it, and the judged event is past all its
\* enqueues.
LEMMA JudgePast ==
    ASSUME IInv, NEW w \in Relays, NEW result \in Verdicts \ {"none"},
           current[w] # NoEvent, Judge(w, result)
    PROVE  /\ \A v \in Relays, f \in Requests, q \in Endpoints :
                Past(v, f, q) => Past(v, f, q)'
           /\ \A q \in Endpoints, f \in Requests : f = current[w] => Past(w, f, q)'
BY CurrentFacts, JudgeFacts DEF Past

\* A refused enqueue may leave a job behind; the round is over for the event.
LEMMA EnqueueRefusedStep ==
    ASSUME IInv, NEW w \in Relays, NEW p \in Endpoints, NEW arrived \in BOOLEAN,
           EnqueueRefused(w, p, arrived)
    PROVE  IInv'
<1> USE DEF addVars, queueVars
<1>0. PICK e \in Requests : e = current[w]
  BY CurrentFacts DEF EnqueueRefused
<1>1. /\ e \in Claimed(w) /\ verdict[w][e] = "none"
      /\ Pending(e) /\ outbox[e] \in EventRow /\ e # NoEvent
      /\ p \in left[w]
  BY <1>0, CurrentFacts DEF EnqueueRefused
<1>2. Judge(w, "deferred") /\ "deferred" \in Verdicts \ {"none"} /\ current[w] # NoEvent
  BY DEF EnqueueRefused, Verdicts
<1>3. UNCHANGED <<addVars, outbox, endpoint, queueUp, at, aborted, steady>>
  BY DEF EnqueueRefused
<1>4. /\ enqueued'[e][p] = enqueued[e][p] + 1 \/ enqueued'[e][p] = enqueued[e][p]
      /\ \A f \in Requests, q \in Endpoints :
           <<f, q>> # <<e, p>> => enqueued'[f][q] = enqueued[f][q]
      /\ \A f \in Requests, q \in Endpoints : enqueued[f][q] \in Nat
  BY <1>0 DEF EnqueueRefused, Enqueue, IInv, TypeOK
<1>5. TypeOK'
  <2>1. jobs' \subseteq Job /\ enqueued' \in [Requests -> [Endpoints -> Nat]]
    BY <1>0, TypeEnqueue DEF EnqueueRefused, IInv, TypeOK
  <2>2. QED
    BY <2>1, <1>2, <1>3, TypeJudge DEF IInv, TypeOK
<1>6. Uncommitted'
  BY <1>1, <1>3, <1>4 DEF IInv, Uncommitted, Pending
<1>7. SteadySubscribed' /\ EveryMemberHasEvent'
  BY <1>3 DEF IInv, SteadySubscribed, Subscribed, EveryMemberHasEvent
<1>8. RoundShape' /\ ClaimsDisjoint' /\ ClaimsPending'
  BY <1>2, <1>3, JudgeShape
<1>9. \A v \in Relays : ~Past(v, e, p)
  BY <1>0, <1>1, Alone DEF Past
<1>10. CountBound'
  <2> SUFFICES ASSUME NEW f \in Requests, NEW q \in Endpoints, outbox[f] # NoRow
               PROVE  /\ enqueued'[f][q] <= Spent(f) + 1
                      /\ (~outbox[f].published /\ \A v \in Relays : ~Past(v, f, q)')
                           => enqueued'[f][q] <= Spent(f)
    BY <1>3 DEF CountBound, Spent
  <2>1. CASE f = e
    <3>1. Past(w, f, q)'
      BY <2>1, <1>0, <1>2, JudgePast
    <3>2. enqueued[e][p] <= Spent(e)
      BY <1>1, <1>9 DEF IInv, CountBound, Pending
    <3>3. Spent(e) \in Nat
      BY <1>1 DEF Spent, IInv, TypeOK, EventRow
    <3>4. enqueued'[f][q] <= Spent(f) + 1
      BY <2>1, <3>2, <3>3, <1>4 DEF IInv, CountBound
    <3>5. QED
      BY <3>1, <3>4
  <2>2. CASE f # e
    BY <2>2, <1>2, <1>4, JudgePast DEF IInv, CountBound
  <2>3. QED
    BY <2>1, <2>2
<1>11. NotSkipped'
  <2>1. \A f \in Requests, q \in Endpoints : enqueued[f][q] > 0 => enqueued'[f][q] > 0
    BY <1>4
  <2>2. \A f \in Requests : steady[f] \subseteq Endpoints
    BY DEF IInv, TypeOK
  <2>3. NoEndpointSkipped'
    BY <1>3, <2>1, <2>2 DEF IInv, NotSkipped, NoEndpointSkipped
  <2>4. \A v \in Relays, f \in Requests : verdict'[v][f] = "published" => Reached(f)'
    BY <1>2, <1>3, <2>1, <2>2, JudgeFacts DEF IInv, NotSkipped, Reached
  <2>5. \A v \in Relays, f \in Requests : current'[v] = f =>
          \A q \in steady[f] : q \in left'[v] \/ enqueued'[f][q] > 0
    BY <1>2, <2>1, <2>2, JudgeFacts, NoEventAssumption DEF IInv, NotSkipped
  <2>6. QED
    BY <1>3, <2>3, <2>4, <2>5 DEF NotSkipped
<1>12. QED
  BY <1>5, <1>6, <1>7, <1>8, <1>10, <1>11 DEF IInv

\* An event is found published only when no steady endpoint is left to serve.
LEMMA FannedOutStep ==
    ASSUME IInv, NEW w \in Relays, FannedOut(w)
    PROVE  IInv'
<1> USE DEF addVars, queueVars
<1>0. PICK e \in Requests : e = current[w]
  BY CurrentFacts DEF FannedOut
<1>1. Judge(w, "published") /\ "published" \in Verdicts \ {"none"} /\ current[w] # NoEvent
  BY DEF FannedOut, Verdicts
<1>2. UNCHANGED <<addVars, outbox, endpoint, queueUp, at, queueVars, aborted, steady>>
  BY DEF FannedOut
<1>3. TypeOK'
  BY <1>1, <1>2, TypeJudge DEF IInv, TypeOK
<1>4. Uncommitted' /\ SteadySubscribed' /\ EveryMemberHasEvent'
  BY <1>2 DEF IInv, Uncommitted, SteadySubscribed, Subscribed, EveryMemberHasEvent
<1>5. RoundShape' /\ ClaimsDisjoint' /\ ClaimsPending'
  BY <1>1, <1>2, JudgeShape
<1>6. CountBound'
  BY <1>1, <1>2, JudgePast DEF IInv, CountBound, Spent
<1>7. NotSkipped'
  <2>1. Reached(e)
    BY <1>0 DEF FannedOut, IInv, NotSkipped, Reached
  <2>2. NoEndpointSkipped'
    BY <1>2 DEF IInv, NotSkipped, NoEndpointSkipped
  <2>3. \A v \in Relays, f \in Requests : verdict'[v][f] = "published" => Reached(f)
    BY <2>1, <1>0, <1>1, JudgeFacts DEF IInv, NotSkipped
  <2>4. \A v \in Relays, f \in Requests : current'[v] = f =>
          \A q \in steady[f] : q \in left'[v] \/ enqueued[f][q] > 0
    BY <1>1, JudgeFacts, NoEventAssumption DEF IInv, NotSkipped
  <2>5. QED
    BY <1>2, <2>2, <2>3, <2>4 DEF NotSkipped, Reached
<1>8. QED
  BY <1>3, <1>4, <1>5, <1>6, <1>7 DEF IInv

\* A round that ends lets go of everything it claimed, and the others are as
\* they were.
LEMMA EndRoundFacts ==
    ASSUME IInv, NEW w \in Relays, EndRound(w)
    PROVE  /\ at'[w] = "idle" /\ todo'[w] = {} /\ current'[w] = NoEvent
           /\ \A e \in Requests : verdict'[w][e] = "none"
           /\ \A v \in Relays : v # w =>
                /\ at'[v] = at[v] /\ todo'[v] = todo[v] /\ current'[v] = current[v]
                /\ left'[v] = left[v] /\ verdict'[v] = verdict[v]
           /\ Claimed(w)' = {}
           /\ \A v \in Relays : v # w => Claimed(v)' = Claimed(v)
           /\ at' \in [Relays -> {"idle", "relaying"}]
           /\ todo' \in [Relays -> SUBSET Requests]
           /\ current' \in [Relays -> Requests \cup {NoEvent}]
           /\ left' \in [Relays -> SUBSET Endpoints]
           /\ verdict' \in [Relays -> [Requests -> Verdicts]]
           /\ RoundShape'
           /\ ClaimsDisjoint'
<1>1. Undecided \in [Requests -> Verdicts]
  BY DEF Undecided, Verdicts
<1>2. /\ at'[w] = "idle" /\ todo'[w] = {} /\ current'[w] = NoEvent
      /\ verdict'[w] = Undecided
      /\ \A v \in Relays : v # w =>
           /\ at'[v] = at[v] /\ todo'[v] = todo[v] /\ current'[v] = current[v]
           /\ left'[v] = left[v] /\ verdict'[v] = verdict[v]
  BY DEF EndRound, IInv, TypeOK
<1>3. /\ at' \in [Relays -> {"idle", "relaying"}]
      /\ todo' \in [Relays -> SUBSET Requests]
      /\ current' \in [Relays -> Requests \cup {NoEvent}]
      /\ left' \in [Relays -> SUBSET Endpoints]
      /\ verdict' \in [Relays -> [Requests -> Verdicts]]
  BY <1>1 DEF EndRound, IInv, TypeOK
<1>4. \A e \in Requests : verdict'[w][e] = "none"
  BY <1>2 DEF Undecided
<1>5. Claimed(w)' = {}
  BY <1>2, <1>4 DEF Claimed
<1>6. \A v \in Relays : v # w => Claimed(v)' = Claimed(v)
  BY <1>2 DEF Claimed
<1>7. RoundShape'
  BY <1>2 DEF IInv, RoundShape
<1>8. ClaimsDisjoint'
  <2> SUFFICES ASSUME NEW u \in Relays, NEW v \in Relays, u # v
               PROVE  Claimed(u)' \cap Claimed(v)' = {}
    BY DEF ClaimsDisjoint
  <2>1. CASE u = w \/ v = w
    BY <2>1, <1>5
  <2>2. CASE u # w /\ v # w
    BY <2>2, <1>6 DEF IInv, ClaimsDisjoint
  <2>3. QED
    BY <2>1, <2>2
<1>9. QED
  BY <1>2, <1>3, <1>4, <1>5, <1>6, <1>7, <1>8

\* The commit stamps the rows it judged, which nobody else has claimed, and pays
\* for their jobs.
LEMMA RelayCommitStep ==
    ASSUME IInv, NEW w \in Relays, RelayCommit(w)
    PROVE  IInv'
<1> USE DEF addVars, queueVars
<1>1. EndRound(w) /\ todo[w] = {} /\ current[w] = NoEvent
  BY DEF RelayCommit, IInv, RoundShape
<1>2. UNCHANGED <<addVars, endpoint, queueUp, queueVars, aborted, steady>>
  BY DEF RelayCommit
<1>3. \A e \in Requests : outbox'[e] = Stamped(outbox[e], verdict[w][e])
  BY DEF RelayCommit
<1>4. \A e \in Requests : verdict[w][e] \in Verdicts
  BY DEF IInv, TypeOK
<1>5. \A e \in Requests : verdict[w][e] = "none" => outbox'[e] = outbox[e]
  BY <1>3 DEF Stamped
<1>6. ASSUME NEW e \in Requests, verdict[w][e] # "none"
      PROVE  /\ e \in Claimed(w)
             /\ Pending(e)
             /\ outbox[e] \in EventRow
             /\ outbox'[e] \in EventRow
  <2>1. e \in Claimed(w)
    BY <1>6 DEF Claimed
  <2>2. Pending(e)
    BY <2>1 DEF IInv, ClaimsPending
  <2>3. outbox[e] \in EventRow
    BY <2>2 DEF Pending, IInv, TypeOK
  <2>4. QED
    BY <2>1, <2>2, <2>3, <1>3, <1>4, StampedType
<1>7. \A e \in Requests : verdict[w][e] = "published" =>
        outbox'[e].attempts = outbox[e].attempts /\ outbox'[e].published
  BY <1>3, <1>6 DEF Stamped, EventRow
<1>8. \A e \in Requests : verdict[w][e] = "deferred" =>
        /\ outbox'[e].attempts = outbox[e].attempts + 1
        /\ outbox'[e].published = outbox[e].published
  BY <1>3, <1>6 DEF Stamped, EventRow
<1>9. \A e \in Requests : outbox'[e] = NoRow <=> outbox[e] = NoRow
  BY <1>5, <1>6, NoRowAssumption DEF Pending
<1>10. outbox' \in [Requests -> EventRow \cup {NoRow}]
  <2>1. \A e \in Requests : outbox'[e] \in EventRow \cup {NoRow}
    BY <1>5, <1>6 DEF IInv, TypeOK
  <2>2. outbox' = [e \in Requests |-> outbox'[e]]
    BY DEF RelayCommit
  <2>3. QED
    BY <2>1, <2>2
<1>11. TypeOK'
  BY <1>1, <1>2, <1>10, EndRoundFacts DEF IInv, TypeOK
<1>12. Uncommitted' /\ SteadySubscribed' /\ EveryMemberHasEvent'
  BY <1>2, <1>9 DEF IInv, Uncommitted, SteadySubscribed, Subscribed, EveryMemberHasEvent,
                    TypeOK
<1>13. RoundShape' /\ ClaimsDisjoint'
  BY <1>1, EndRoundFacts
<1>14. ClaimsPending'
  <2> SUFFICES ASSUME NEW v \in Relays, NEW e \in Claimed(v)' PROVE Pending(e)'
    BY DEF ClaimsPending
  <2>1. v # w /\ e \in Claimed(v) /\ e \in Requests
    BY <1>1, EndRoundFacts DEF Claimed, IInv, TypeOK
  <2>2. Pending(e) /\ verdict[w][e] = "none"
    BY <2>1, Alone DEF IInv, ClaimsPending
  <2>3. QED
    BY <2>1, <2>2, <1>5 DEF Pending
<1>15. CountBound'
  <2> SUFFICES ASSUME NEW e \in Requests, NEW p \in Endpoints, outbox'[e] # NoRow
               PROVE  /\ enqueued[e][p] <= Spent(e)' + 1
                      /\ (~outbox'[e].published /\ \A v \in Relays : ~Past(v, e, p)')
                           => enqueued[e][p] <= Spent(e)'
    BY <1>2 DEF CountBound
  <2>1. /\ enqueued[e][p] <= Spent(e) + 1
        /\ (~outbox[e].published /\ \A v \in Relays : ~Past(v, e, p))
             => enqueued[e][p] <= Spent(e)
    BY <1>9 DEF IInv, CountBound
  <2>2. /\ enqueued[e][p] \in Nat /\ aborted[e] \in Nat /\ outbox[e].attempts \in Nat
        /\ aborted'[e] = aborted[e]
    BY <1>2, <1>9 DEF IInv, TypeOK, EventRow
  <2>3. CASE verdict[w][e] = "none"
    <3>1. ~Past(w, e, p)
      BY <2>3, <1>1, NoEventAssumption DEF Past
    <3>2. \A v \in Relays : Past(v, e, p) => Past(v, e, p)'
      BY <3>1, <1>1, EndRoundFacts DEF Past
    <3>3. Spent(e)' = Spent(e) /\ outbox'[e] = outbox[e]
      BY <2>3, <1>2, <1>5 DEF Spent
    <3>4. QED
      BY <2>1, <3>2, <3>3
  <2>4. CASE verdict[w][e] = "published"
    BY <2>1, <2>2, <2>4, <1>7 DEF Spent
  <2>5. CASE verdict[w][e] = "deferred"
    BY <2>1, <2>2, <2>5, <1>8 DEF Spent
  <2>6. QED
    BY <2>3, <2>4, <2>5, <1>4 DEF Verdicts
<1>16. NotSkipped'
  <2>1. ASSUME NEW e \in Requests, outbox'[e] # NoRow, outbox'[e].published
        PROVE  Reached(e)
    <3>1. CASE verdict[w][e] = "none"
      BY <2>1, <3>1, <1>5 DEF IInv, NotSkipped, NoEndpointSkipped, Reached
    <3>2. CASE verdict[w][e] = "published"
      BY <3>2 DEF IInv, NotSkipped
    <3>3. CASE verdict[w][e] = "deferred"
      BY <2>1, <3>3, <1>6, <1>8 DEF Pending
    <3>4. QED
      BY <3>1, <3>2, <3>3, <1>4 DEF Verdicts
  <2>2. NoEndpointSkipped'
    BY <2>1, <1>2 DEF NoEndpointSkipped, Reached
  <2>3. \A v \in Relays, e \in Requests : verdict'[v][e] = "published" => Reached(e)
    BY <1>1, EndRoundFacts DEF IInv, NotSkipped
  <2>4. \A v \in Relays, e \in Requests : current'[v] = e =>
          \A q \in steady[e] : q \in left'[v] \/ enqueued[e][q] > 0
    BY <1>1, EndRoundFacts, NoEventAssumption DEF IInv, NotSkipped
  <2>5. QED
    BY <1>2, <2>2, <2>3, <2>4 DEF NotSkipped, Reached
<1>17. QED
  BY <1>11, <1>12, <1>13, <1>14, <1>15, <1>16 DEF IInv

\* A round that dies is paid for by its death.
LEMMA RelayAbortStep ==
    ASSUME IInv, NEW w \in Relays, RelayAbort(w)
    PROVE  IInv'
<1> USE DEF addVars, queueVars
<1>1. EndRound(w)
  BY DEF RelayAbort
<1>2. UNCHANGED <<addVars, outbox, endpoint, queueUp, queueVars, steady>>
  BY DEF RelayAbort
<1>3. /\ \A e \in Claimed(w) : aborted'[e] = aborted[e] + 1
      /\ \A e \in Requests : e \notin Claimed(w) => aborted'[e] = aborted[e]
      /\ aborted' \in [Requests -> Nat]
  BY DEF RelayAbort, IInv, TypeOK, Claimed
<1>4. TypeOK'
  BY <1>1, <1>2, <1>3, EndRoundFacts DEF IInv, TypeOK
<1>5. \A e \in Claimed(w) : Pending(e)
  BY DEF IInv, ClaimsPending
<1>6. Uncommitted' /\ SteadySubscribed' /\ EveryMemberHasEvent'
  BY <1>2, <1>3, <1>5 DEF IInv, Uncommitted, SteadySubscribed, Subscribed,
                          EveryMemberHasEvent, Pending
<1>7. RoundShape' /\ ClaimsDisjoint'
  BY <1>1, EndRoundFacts
<1>8. ClaimsPending'
  <2> SUFFICES ASSUME NEW v \in Relays, NEW e \in Claimed(v)' PROVE Pending(e)'
    BY DEF ClaimsPending
  <2>1. v # w /\ e \in Claimed(v)
    BY <1>1, EndRoundFacts
  <2>2. QED
    BY <2>1, <1>2 DEF IInv, ClaimsPending, Pending
<1>9. CountBound'
  <2> SUFFICES ASSUME NEW e \in Requests, NEW p \in Endpoints, outbox[e] # NoRow
               PROVE  /\ enqueued[e][p] <= Spent(e)' + 1
                      /\ (~outbox[e].published /\ \A v \in Relays : ~Past(v, e, p)')
                           => enqueued[e][p] <= Spent(e)'
    BY <1>2 DEF CountBound
  <2>1. /\ enqueued[e][p] <= Spent(e) + 1
        /\ (~outbox[e].published /\ \A v \in Relays : ~Past(v, e, p))
             => enqueued[e][p] <= Spent(e)
    BY DEF IInv, CountBound
  <2>2. enqueued[e][p] \in Nat /\ aborted[e] \in Nat /\ outbox[e].attempts \in Nat
    BY DEF IInv, TypeOK, EventRow
  <2>3. CASE e \in Claimed(w)
    BY <2>1, <2>2, <2>3, <1>2, <1>3 DEF Spent
  <2>4. CASE e \notin Claimed(w)
    <3>1. ~Past(w, e, p)
      BY <2>4, CurrentFacts, NoEventAssumption DEF Past, Claimed
    <3>2. \A v \in Relays : Past(v, e, p) => Past(v, e, p)'
      BY <3>1, <1>1, EndRoundFacts DEF Past
    <3>3. Spent(e)' = Spent(e)
      BY <2>4, <1>2, <1>3 DEF Spent
    <3>4. QED
      BY <2>1, <3>2, <3>3
  <2>5. QED
    BY <2>3, <2>4
<1>10. NotSkipped'
  <2>1. NoEndpointSkipped'
    BY <1>2 DEF IInv, NotSkipped, NoEndpointSkipped
  <2>2. \A v \in Relays, e \in Requests : verdict'[v][e] = "published" => Reached(e)
    BY <1>1, EndRoundFacts DEF IInv, NotSkipped
  <2>3. \A v \in Relays, e \in Requests : current'[v] = e =>
          \A q \in steady[e] : q \in left'[v] \/ enqueued[e][q] > 0
    BY <1>1, EndRoundFacts, NoEventAssumption DEF IInv, NotSkipped
  <2>4. QED
    BY <1>2, <2>1, <2>2, <2>3 DEF NotSkipped, Reached
<1>11. QED
  BY <1>4, <1>6, <1>7, <1>8, <1>9, <1>10 DEF IInv

-----------------------------------------------------------------------------
(* The invariant, and what follows from it.                                 *)

\* The invariant holds of an empty outbox.
LEMMA InvariantInit == Init => IInv
<1> SUFFICES ASSUME Init PROVE IInv
  OBVIOUS
<1>1. \A w \in Relays : Claimed(w) = {}
  BY DEF Init, Claimed, Undecided
<1>2. RoundShape /\ ClaimsDisjoint /\ ClaimsPending
  BY <1>1 DEF Init, RoundShape, ClaimsDisjoint, ClaimsPending
<1>3. Uncommitted /\ SteadySubscribed /\ CountBound /\ EveryMemberHasEvent
  BY DEF Init, Uncommitted, SteadySubscribed, CountBound, EveryMemberHasEvent
<1>4. NotSkipped
  BY NoEventAssumption DEF Init, NotSkipped, NoEndpointSkipped, Undecided
<1>5. QED
  BY <1>2, <1>3, <1>4, TypeInit DEF IInv

\* Every step of add_member, of an administrator, of a relay round and of the
\* queue keeps it.
LEMMA InvariantStep == IInv /\ [Next]_vars => IInv'
<1> SUFFICES ASSUME IInv, [Next]_vars PROVE IInv'
  OBVIOUS
<1>1. ASSUME NEW r \in Requests, Add(r) PROVE IInv'
  BY <1>1, AddStep, AddCommitStep DEF Add
<1>2. ASSUME NEW w \in Relays, Relay(w) PROVE IInv'
  BY <1>2, SelectBatchStep, FanOutStep, EnqueueAcceptedStep, EnqueueRefusedStep,
     FannedOutStep, RelayCommitStep DEF Relay
<1>3. CASE UNCHANGED vars
  <2> USE <1>3 DEF vars, addVars, roundVars, queueVars
  <2>1. TypeOK'
    BY DEF IInv, TypeOK
  <2>2. SteadySubscribed'
    BY DEF IInv, SteadySubscribed, Subscribed
  <2>3. QED
    BY <2>1, <2>2, Frame
<1>4. QED
  BY <1>1, <1>2, <1>3, AdministerStep, QueueStep, RelayAbortStep DEF Next

\* Hence it holds in every reachable state.
LEMMA Invariant == Spec => []IInv
<1>1. QED
  BY InvariantInit, InvariantStep, PTL DEF Spec

\* Tables, jobs and the rounds' sessions keep their types.
THEOREM TypeCorrect == Spec => []TypeOK
<1>1. IInv => TypeOK
  BY DEF IInv
<1>2. QED
  BY <1>1, Invariant, PTL

\* Whoever is a member has an event that was committed with the membership
\* (add_member and dispatch()).
THEOREM EveryMemberHasEventHolds == Spec => []EveryMemberHasEvent
<1>1. IInv => EveryMemberHasEvent
  BY DEF IInv
<1>2. QED
  BY <1>1, Invariant, PTL

\* However many rounds overlap, die or are refused, none of them gives an
\* endpoint an event twice (drain_outbox()).
THEOREM OncePerRoundHolds == Spec => []OncePerRound
<1>1. IInv => OncePerRound
  BY DEF IInv, CountBound, OncePerRound, Spent
<1>2. QED
  BY <1>1, Invariant, PTL

\* A published event has a job for every endpoint that stayed subscribed
\* (_fan_out()).
THEOREM NoEndpointSkippedHolds == Spec => []NoEndpointSkipped
<1>1. IInv => NoEndpointSkipped
  BY DEF IInv, NotSkipped
<1>2. QED
  BY <1>1, Invariant, PTL

\* A settled row is in no round's hands.
LEMMA SettledUnclaimed ==
    ASSUME IInv, NEW e \in Requests, outbox[e] # NoRow, ~Pending(e), NEW w \in Relays
    PROVE  verdict[w][e] = "none" /\ current[w] # e
<1>1. e \notin Claimed(w)
  BY DEF IInv, ClaimsPending
<1>2. QED
  BY <1>1, NoEventAssumption DEF Claimed, IInv, RoundShape

\* No step writes a published or dead-lettered row or enqueues for it
\* (drain_outbox()).
LEMMA SettledStep ==
    ASSUME IInv, [Next]_vars, NEW e \in Requests, outbox[e] # NoRow, ~Pending(e)
    PROVE  outbox'[e] = outbox[e] /\ enqueued'[e] = enqueued[e]
<1> USE DEF addVars, roundVars, queueVars
<1>1. ASSUME NEW r \in Requests, Add(r)
      PROVE  outbox'[e] = outbox[e] /\ enqueued'[e] = enqueued[e]
  <2>1. AddCommit(r) => e # r
    BY DEF AddCommit, IInv, Uncommitted
  <2>2. QED
    BY <1>1, <2>1 DEF Add, AddFlush, AddConflict, AddCommit, AddAudit, AddAbort,
                            IInv, TypeOK
<1>2. ASSUME NEW w \in Relays, Relay(w)
      PROVE  outbox'[e] = outbox[e] /\ enqueued'[e] = enqueued[e]
  <2>1. verdict[w][e] = "none" /\ current[w] # e
    BY SettledUnclaimed
  <2>2. CASE SelectBatch(w) \/ FannedOut(w) \/ \E f \in Requests : FanOut(w, f)
    BY <2>2 DEF SelectBatch, FanOut, FannedOut
  <2>3. ASSUME NEW p \in Endpoints, EnqueueAccepted(w, p)
        PROVE  outbox'[e] = outbox[e] /\ enqueued'[e] = enqueued[e]
    BY <2>1, <2>3 DEF EnqueueAccepted, Enqueue, IInv, TypeOK
  <2>4. ASSUME NEW p \in Endpoints, NEW arrived \in BOOLEAN, EnqueueRefused(w, p, arrived)
        PROVE  outbox'[e] = outbox[e] /\ enqueued'[e] = enqueued[e]
    BY <2>1, <2>4 DEF EnqueueRefused, Enqueue, IInv, TypeOK
  <2>5. CASE RelayCommit(w)
    BY <2>1, <2>5 DEF RelayCommit, Stamped
  <2>6. QED
    BY <1>2, <2>2, <2>3, <2>4, <2>5 DEF Relay
<1>3. ASSUME NEW w \in Relays, RelayAbort(w)
      PROVE  outbox'[e] = outbox[e] /\ enqueued'[e] = enqueued[e]
  BY <1>3 DEF RelayAbort
<1>4. CASE Administer \/ QueueFails \/ QueueRecovers \/ UNCHANGED vars
  BY <1>4 DEF Administer, RemoveMember, CreateEndpoint, UpdateEndpoint, DeleteEndpoint,
              SetEndpoint, QueueFails, QueueRecovers, vars
<1>5. QED
  BY <1>1, <1>2, <1>3, <1>4 DEF Next

\* So a published or dead-lettered row is never written or enqueued for again
\* (drain_outbox()).
THEOREM SettledIsFinalHolds == Spec => SettledIsFinal
<1>1. IInv /\ [Next]_vars =>
        [\A e \in Requests :
            (outbox[e] # NoRow /\ ~Pending(e)) =>
                outbox'[e] = outbox[e] /\ enqueued'[e] = enqueued[e]]_vars
  BY SettledStep
<1>2. QED
  BY <1>1, Invariant, PTL DEF Spec, SettledIsFinal

-----------------------------------------------------------------------------
(* How often.                                                               *)

\* A row comes with its member, and is written when it is pending, by the round
\* that has judged it.
LEMMA RowMoves ==
    ASSUME IInv, [Next]_vars, NEW e \in Requests
    PROVE  \/ outbox'[e] = outbox[e]
           \/ /\ outbox[e] = NoRow
              /\ outbox'[e] = [attempts |-> 0, published |-> FALSE, failed |-> FALSE]
           \/ /\ Pending(e) /\ outbox[e] \in EventRow
              /\ \E result \in {"published", "deferred"} :
                   outbox'[e] = Stamped(outbox[e], result)
<1> USE DEF addVars, queueVars, roundVars
<1>1. ASSUME NEW r \in Requests, AddCommit(r)
      PROVE  \/ outbox'[e] = outbox[e]
             \/ /\ outbox[e] = NoRow
                /\ outbox'[e] = [attempts |-> 0, published |-> FALSE, failed |-> FALSE]
  BY <1>1 DEF AddCommit, IInv, Uncommitted, TypeOK
<1>2. ASSUME NEW w \in Relays, RelayCommit(w)
      PROVE  \/ outbox'[e] = outbox[e]
             \/ /\ Pending(e) /\ outbox[e] \in EventRow
                /\ \E result \in {"published", "deferred"} :
                     outbox'[e] = Stamped(outbox[e], result)
  <2>1. outbox'[e] = Stamped(outbox[e], verdict[w][e]) /\ verdict[w][e] \in Verdicts
    BY <1>2 DEF RelayCommit, IInv, TypeOK
  <2>2. CASE verdict[w][e] = "none"
    BY <2>1, <2>2 DEF Stamped
  <2>3. CASE verdict[w][e] # "none"
    <3>1. Pending(e)
      BY <2>3 DEF Claimed, IInv, ClaimsPending
    <3>2. QED
      BY <2>1, <2>3, <3>1 DEF Verdicts, Pending, IInv, TypeOK
  <2>4. QED
    BY <2>2, <2>3
<1>3. ASSUME NEW r \in Requests, AddFlush(r) \/ AddConflict(r) \/ AddAudit(r) \/ AddAbort(r)
      PROVE  UNCHANGED outbox
  BY <1>3 DEF AddFlush, AddConflict, AddAudit, AddAbort
<1>4. ASSUME Administer \/ QueueFails \/ QueueRecovers PROVE UNCHANGED outbox
  BY <1>4 DEF Administer, RemoveMember, CreateEndpoint, UpdateEndpoint, DeleteEndpoint,
              SetEndpoint, QueueFails, QueueRecovers
<1>5. ASSUME NEW w \in Relays,
             \/ SelectBatch(w) \/ (\E f \in Requests : FanOut(w, f))
             \/ (\E p \in Endpoints : EnqueueAccepted(w, p))
             \/ (\E p \in Endpoints, arrived \in BOOLEAN : EnqueueRefused(w, p, arrived))
             \/ FannedOut(w) \/ RelayAbort(w)
      PROVE  UNCHANGED outbox
  BY <1>5 DEF SelectBatch, FanOut, EnqueueAccepted, EnqueueRefused, FannedOut, RelayAbort
<1>6. ASSUME UNCHANGED vars PROVE UNCHANGED outbox
  BY <1>6 DEF vars
<1>7. QED
  BY <1>1, <1>2, <1>3, <1>4, <1>5, <1>6 DEF Next, Add, Relay

\* What a verdict leaves of a pending row that has attempts left.
LEMMA StampedCounts ==
    ASSUME NEW row \in EventRow, ~row.published, ~row.failed, row.attempts < MaxAttempts,
           NEW result \in {"published", "deferred"}
    PROVE  LET new == Stamped(row, result) IN
           /\ new # NoRow /\ new.attempts \in Nat /\ new.attempts <= MaxAttempts
           /\ new.failed <=> new.attempts = MaxAttempts
           /\ ~(new.failed /\ new.published)
           /\ ~new.published /\ ~new.failed => new.attempts = row.attempts + 1
<1> DEFINE n == row.attempts + 1
           b == row.attempts + 1 >= MaxAttempts
<1>1. Stamped(row, result) # NoRow
  BY StampedType, NoRowAssumption DEF Verdicts
<1>2. n \in Nat /\ n <= MaxAttempts /\ (b <=> n = MaxAttempts) /\ b \in BOOLEAN
      /\ row.attempts # MaxAttempts /\ row.attempts \in Nat
  BY BoundsAssumption DEF EventRow
<1>3. CASE result = "published"
  <2>1. Stamped(row, result) = [row EXCEPT !.published = TRUE]
    BY <1>3 DEF Stamped
  <2>2. /\ Stamped(row, result).attempts = row.attempts
        /\ Stamped(row, result).failed = row.failed
        /\ Stamped(row, result).published = TRUE
    BY <2>1 DEF EventRow
  <2>3. ~Stamped(row, result).failed /\ Stamped(row, result).published
    BY <2>2
  <2>4. row.attempts <= MaxAttempts /\ row.attempts # MaxAttempts /\ row.attempts \in Nat
    BY <1>2, BoundsAssumption
  <2> HIDE DEF n, b
  <2>5. QED
    BY <1>1, <2>2, <2>3, <2>4
<1>4. CASE result = "deferred"
  <2>1. Stamped(row, result) = [row EXCEPT !.attempts = n, !.failed = b]
    BY <1>4 DEF Stamped
  <2> HIDE DEF n, b
  <2>2. /\ Stamped(row, result).attempts = n
        /\ Stamped(row, result).failed = b
        /\ Stamped(row, result).published = row.published
    BY <2>1 DEF EventRow
  <2>3. row.published = FALSE
    BY DEF EventRow
  <2>4. QED
    BY <1>1, <1>2, <2>2, <2>3 DEF n
<1>5. QED
  BY <1>3, <1>4

\* Every write of a row keeps to the attempts it is granted, and uses one of
\* them or settles it (outbox.py drain_outbox).
LEMMA AttemptsStep ==
    ASSUME IInv, DeadLetterExact, [Next]_vars
    PROVE  /\ DeadLetterExact'
           /\ \A e \in Requests :
                (outbox[e] # NoRow /\ outbox'[e] # outbox[e]) => RoundsLeft(e)' < RoundsLeft(e)
<1> SUFFICES ASSUME NEW e \in Requests
             PROVE  /\ outbox'[e] # NoRow =>
                         /\ outbox'[e].attempts <= MaxAttempts
                         /\ outbox'[e].failed <=> outbox'[e].attempts = MaxAttempts
                         /\ ~(outbox'[e].failed /\ outbox'[e].published)
                    /\ (outbox[e] # NoRow /\ outbox'[e] # outbox[e])
                         => RoundsLeft(e)' < RoundsLeft(e)
  BY DEF DeadLetterExact
<1>1. CASE outbox'[e] = outbox[e]
  BY <1>1 DEF DeadLetterExact
<1>2. CASE outbox[e] = NoRow /\ outbox'[e] = [attempts |-> 0, published |-> FALSE, failed |-> FALSE]
  BY <1>2, BoundsAssumption
<1>3. ASSUME Pending(e), outbox[e] \in EventRow, NEW result \in {"published", "deferred"},
             outbox'[e] = Stamped(outbox[e], result)
      PROVE  /\ outbox'[e].attempts <= MaxAttempts
             /\ outbox'[e].failed <=> outbox'[e].attempts = MaxAttempts
             /\ ~(outbox'[e].failed /\ outbox'[e].published)
             /\ RoundsLeft(e)' < RoundsLeft(e)
  <2>1. /\ outbox[e] # NoRow /\ ~outbox[e].published /\ ~outbox[e].failed
        /\ outbox[e].attempts \in Nat /\ outbox[e].attempts < MaxAttempts
    BY <1>3, BoundsAssumption DEF Pending, DeadLetterExact, EventRow
  <2>2. /\ outbox'[e] # NoRow /\ outbox'[e].attempts \in Nat
        /\ outbox'[e].attempts <= MaxAttempts
        /\ outbox'[e].failed <=> outbox'[e].attempts = MaxAttempts
        /\ ~(outbox'[e].failed /\ outbox'[e].published)
        /\ ~outbox'[e].published /\ ~outbox'[e].failed
             => outbox'[e].attempts = outbox[e].attempts + 1
    BY <1>3, <2>1, StampedCounts
  <2>3. RoundsLeft(e) = MaxAttempts - outbox[e].attempts
    BY <1>3 DEF RoundsLeft
  <2>4. Pending(e)' <=> ~outbox'[e].published /\ ~outbox'[e].failed
    BY <2>2 DEF Pending
  <2>5. RoundsLeft(e)' = IF Pending(e)' THEN MaxAttempts - outbox'[e].attempts ELSE 0
    BY DEF RoundsLeft
  <2>6. QED
    BY <2>1, <2>2, <2>3, <2>4, <2>5, BoundsAssumption
<1>4. QED
  BY <1>1, <1>2, <1>3, RowMoves

\* An event that has its attempts counted right is never given away more often
\* than they allow.
LEMMA Bounded ==
    ASSUME IInv, DeadLetterExact
    PROVE  DuplicatesBounded
<1> SUFFICES ASSUME NEW e \in Requests, NEW p \in Endpoints
             PROVE  enqueued[e][p] <= aborted[e] + MaxAttempts
  BY DEF DuplicatesBounded
<1>1. enqueued[e][p] \in Nat /\ aborted[e] \in Nat /\ MaxAttempts \in Nat
  BY BoundsAssumption DEF IInv, TypeOK
<1>2. CASE outbox[e] = NoRow
  BY <1>1, <1>2 DEF IInv, Uncommitted
<1>3. CASE outbox[e] # NoRow
  <2>1. outbox[e] \in EventRow /\ outbox[e].attempts \in Nat
    BY <1>3 DEF IInv, TypeOK, EventRow
  <2>2. enqueued[e][p] <= aborted[e] + outbox[e].attempts + 1
    BY <1>3 DEF IInv, CountBound, Spent
  <2>3. CASE outbox[e].attempts < MaxAttempts
    BY <1>1, <2>1, <2>2, <2>3
  <2>4. CASE outbox[e].attempts >= MaxAttempts
    <3>1. outbox[e].attempts = MaxAttempts /\ outbox[e].failed /\ ~outbox[e].published
      BY <1>1, <1>3, <2>1, <2>4 DEF DeadLetterExact
    <3>2. \A w \in Relays : ~Past(w, e, p)
      BY <1>3, <3>1, SettledUnclaimed DEF Pending, Past
    <3>3. QED
      BY <1>3, <3>1, <3>2 DEF IInv, CountBound, Spent
  <2>5. QED
    BY <1>1, <2>1, <2>3, <2>4
<1>4. QED
  BY <1>2, <1>3

\* The attempts of an event are counted right in every reachable state.
LEMMA DeadLetterInductive == Spec => []DeadLetterExact
<1>1. Init => DeadLetterExact
  BY DEF Init, DeadLetterExact
<1>2. IInv /\ DeadLetterExact /\ [Next]_vars => DeadLetterExact'
  BY AttemptsStep
<1>3. QED
  BY <1>1, <1>2, Invariant, PTL DEF Spec

\* An event is dead-lettered exactly when its last attempt is refused, and an
\* endpoint is given it no more often than there are attempts, and deaths of
\* rounds (drain_outbox(), _fan_out()).
THEOREM DuplicatesBoundedHolds == Spec => [](DeadLetterExact /\ DuplicatesBounded)
<1>1. IInv /\ DeadLetterExact => DuplicatesBounded
  BY Bounded
<1>2. QED
  BY <1>1, Invariant, DeadLetterInductive, PTL

\* Every write of a row leaves it fewer rounds to be settled in (drain_outbox()).
THEOREM WritesSettleHolds == Spec => WritesSettle
<1>1. IInv /\ DeadLetterExact /\ [Next]_vars =>
        [\A e \in Requests :
            (outbox[e] # NoRow /\ outbox'[e] # outbox[e]) =>
                RoundsLeft(e)' < RoundsLeft(e)]_vars
  BY AttemptsStep
<1>2. QED
  BY <1>1, Invariant, DeadLetterInductive, PTL DEF Spec, WritesSettle

=============================================================================
