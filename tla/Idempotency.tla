---------------------------- MODULE Idempotency ----------------------------
(***************************************************************************)
(* The Idempotency-Key middleware and its SQL store (app/idempotency).     *)
(*                                                                         *)
(* A mutating request that carries a key claims the row (scope, key) of    *)
(* the table idempotency_keys, runs its handler if the claim made it the   *)
(* owner, and then completes the row (the response is cached) or releases  *)
(* it.  Every store call is a transaction of its own, so the steps of      *)
(* several requests, the passing of time and the purge job interleave      *)
(* between them.                                                           *)
(*                                                                         *)
(* A key of the model is a pair (scope, key) of the code; a hash is the    *)
(* fingerprint of (method, path, body); a response is named by the request *)
(* whose handler produced it.                                              *)
(***************************************************************************)
EXTENDS Naturals

CONSTANTS
    Requests,   \* mutating HTTP requests; a client's retry is another request
    Keys,       \* (caller scope, Idempotency-Key) pairs
    Hashes,     \* request fingerprints
    TTL,        \* idempotency_ttl_seconds
    MaxTime,    \* bound of the model: the clock stops here
    RowLocks,   \* TRUE on PostgreSQL (SELECT ... FOR UPDATE), FALSE on SQLite
    None,       \* no response
    NoRow       \* no row in the table

Statuses == {"in_progress", "completed"}

\* A row's primary key is a fresh uuid: the request that inserted it names it.
Row == [id: Requests, hash: Hashes, status: Statuses,
        response: Requests \cup {None}, expires: Nat]

ASSUME TimeAssumption == TTL \in Nat \ {0} /\ MaxTime \in Nat
ASSUME LockAssumption == RowLocks \in BOOLEAN
ASSUME NoneAssumption == None \notin Requests
ASSUME NoRowAssumption == NoRow \notin Row

VARIABLES
    clock,      \* the time _utcnow() returns
    rows,       \* the table, by its UNIQUE (scope, key)
    req,        \* what each request carries: its key and its fingerprint
    now,        \* the time each request read when its claim began
    pc,         \* where each request is
    seen,       \* the row a request loaded in the session it has open
    answer,     \* what the client of each request was sent
    overdue     \* history: requests still at work when their claim expired

vars == <<clock, rows, req, now, pc, seen, answer, overdue>>

-----------------------------------------------------------------------------
(* Where a request can be, and what can be sent to its client.              *)

Claiming == {"claiming", "inspecting", "reclaiming"}
Owning   == {"running", "completing", "writing", "releasing", "deleting"}
Working  == Claiming \cup Owning

Answers ==
    [kind: {"none", "handler", "replay", "error", "conflict", "mismatch", "passed"},
     by: Requests \cup {None}]

Said(kind) == [kind |-> kind, by |-> None]

KeyOf(r) == req[r].key
ExpiresAt(r) == now[r] + TTL

Owns(r) == pc[r] \in Owning

\* The requests of key k that were still at work when their claim ran out.
OverdueOn(k) == {r \in overdue : KeyOf(r) = k}

TypeOK ==
    /\ clock \in Nat
    /\ rows \in [Keys -> Row \cup {NoRow}]
    /\ req \in [Requests -> [key: Keys, hash: Hashes]]
    /\ now \in [Requests -> Nat]
    /\ pc \in [Requests -> Working \cup {"idle", "done"}]
    /\ seen \in [Requests -> Row \cup {NoRow}]
    /\ answer \in [Requests -> Answers]
    /\ overdue \subseteq Requests

-----------------------------------------------------------------------------
(* The table.                                                               *)

NewClaim(r) ==
    [id |-> r, hash |-> req[r].hash, status |-> "in_progress",
     response |-> None, expires |-> ExpiresAt(r)]

\* Slip: a reclaim that does not extend the expiry.
ReclaimedUnextended(row, r) ==
    [NewClaim(r) EXCEPT !.id = row.id, !.expires = row.expires]

\* What reclaiming a loaded row sets: everything but its primary key.
Reclaimed(row, r) == [NewClaim(r) EXCEPT !.id = row.id]

\* What completing a loaded row sets.
Completed(row, r) == [row EXCEPT !.status = "completed", !.response = r]

\* The ORM's flush: the columns whose value is not the loaded one are written
\* over what the row holds now.
Written(current, loaded, target) == IF target = loaded THEN current ELSE target

Flush(row, loaded, target) ==
    [row EXCEPT !.hash     = Written(@, loaded.hash, target.hash),
                !.status   = Written(@, loaded.status, target.status),
                !.response = Written(@, loaded.response, target.response),
                !.expires  = Written(@, loaded.expires, target.expires)]

SameRow(row, loaded) == row # NoRow /\ loaded # NoRow /\ row.id = loaded.id

GoTo(r, label) == pc' = [pc EXCEPT ![r] = label]
Answer(r, a) == answer' = [answer EXCEPT ![r] = a]
Load(r, row) == seen' = [seen EXCEPT ![r] = row]
Store(k, row) == rows' = [rows EXCEPT ![k] = row]

-----------------------------------------------------------------------------
(* The claim.                                                               *)

\* No key, a method that is not mutating, or a body over the cap: the app runs
\* and the store is never asked.
PassThrough(r) ==
    /\ pc[r] = "idle"
    /\ GoTo(r, "done")
    /\ Answer(r, Said("passed"))
    /\ UNCHANGED <<clock, rows, req, now, seen, overdue>>

\* The clock is read before the INSERT's transaction opens.
Arrive(r) ==
    /\ pc[r] = "idle"
    /\ clock + TTL <= MaxTime
    /\ now' = [now EXCEPT ![r] = clock]
    /\ GoTo(r, "claiming")
    /\ UNCHANGED <<clock, rows, req, seen, answer, overdue>>

\* Slip: a table without its UNIQUE constraint.
InsertClaimUnchecked(r) ==
    /\ pc[r] = "claiming"
    /\ Store(KeyOf(r), NewClaim(r))
    /\ GoTo(r, "running")
    /\ UNCHANGED <<clock, req, now, seen, answer, overdue>>

\* The INSERT commits, or the UNIQUE constraint refuses it.
InsertClaim(r) ==
    /\ pc[r] = "claiming"
    /\ IF rows[KeyOf(r)] = NoRow
         THEN Store(KeyOf(r), NewClaim(r)) /\ GoTo(r, "running")
         ELSE UNCHANGED rows /\ GoTo(r, "inspecting")
    /\ UNCHANGED <<clock, req, now, seen, answer, overdue>>

\* Slip: the fingerprint of a completed row is not compared.
RefusalUncompared(row, r) ==
    IF row # NoRow /\ row.status = "completed"
      THEN [kind |-> "replay", by |-> row.response]
      ELSE Said("conflict")

\* What claim() reports of a row it does not take.
Refusal(row, r) ==
    IF row = NoRow THEN Said("conflict")
    ELSE IF row.hash # req[r].hash THEN Said("mismatch")
    ELSE IF row.status = "completed" THEN [kind |-> "replay", by |-> row.response]
    ELSE Said("conflict")

\* The second transaction finds no row, or a row that has not expired.
InspectRefused(r) ==
    LET row == rows[KeyOf(r)] IN
    /\ pc[r] = "inspecting"
    /\ row # NoRow => row.expires > now[r]
    /\ Answer(r, Refusal(row, r))
    /\ GoTo(r, "done")
    /\ UNCHANGED <<clock, rows, req, now, seen, overdue>>

\* Slip: an unfinished claim is taken over before it expires.
InspectUnexpired(r) ==
    LET row == rows[KeyOf(r)] IN
    /\ pc[r] = "inspecting"
    /\ row # NoRow
    /\ row.status = "in_progress" \/ row.expires <= now[r]
    /\ Store(KeyOf(r), Reclaimed(row, r))
    /\ GoTo(r, "running")
    /\ UNCHANGED <<clock, req, now, seen, answer, overdue>>

\* It finds an expired row.  FOR UPDATE holds the row from the SELECT to the
\* commit; without it the UPDATE is a step of its own.
InspectExpired(r) ==
    LET row == rows[KeyOf(r)] IN
    /\ pc[r] = "inspecting"
    /\ row # NoRow
    /\ row.expires <= now[r]
    /\ IF RowLocks
         THEN /\ Store(KeyOf(r), Reclaimed(row, r))
              /\ GoTo(r, "running")
              /\ UNCHANGED seen
         ELSE /\ Load(r, row)
              /\ GoTo(r, "reclaiming")
              /\ UNCHANGED rows
    /\ UNCHANGED <<clock, req, now, answer, overdue>>

\* The UPDATE of a reclaim that held no lock; a row that is gone is an error.
Reclaim(r) ==
    LET row == rows[KeyOf(r)] IN
    /\ pc[r] = "reclaiming"
    /\ IF SameRow(row, seen[r])
         THEN /\ Store(KeyOf(r), Flush(row, seen[r], Reclaimed(seen[r], r)))
              /\ GoTo(r, "running")
              /\ UNCHANGED answer
         ELSE /\ GoTo(r, "done")
              /\ Answer(r, Said("error"))
              /\ UNCHANGED rows
    /\ Load(r, NoRow)
    /\ UNCHANGED <<clock, req, now, overdue>>

-----------------------------------------------------------------------------
(* The owner.                                                               *)

\* The handler returns; its response has been streamed to the client before
\* the store hears of it.  A status under 500 of bounded size is final.
HandlerReturns(r, final) ==
    /\ pc[r] = "running"
    /\ GoTo(r, IF final THEN "completing" ELSE "releasing")
    /\ Answer(r, IF final THEN [kind |-> "handler", by |-> r] ELSE Said("error"))
    /\ UNCHANGED <<clock, rows, req, now, seen, overdue>>

\* The handler raises: the claim is released first, the error sent after.
HandlerRaises(r) ==
    /\ pc[r] = "running"
    /\ GoTo(r, "releasing")
    /\ UNCHANGED <<clock, rows, req, now, seen, answer, overdue>>

\* complete() and release() load the row by (scope, key), without a lock and
\* without asking who holds it.
CompleteLoad(r) ==
    /\ pc[r] = "completing"
    /\ Load(r, rows[KeyOf(r)])
    /\ GoTo(r, IF rows[KeyOf(r)] = NoRow THEN "done" ELSE "writing")
    /\ UNCHANGED <<clock, rows, req, now, answer, overdue>>

\* The flush finds the loaded row by its primary key, or fails.
CompleteWrite(r) ==
    LET row == rows[KeyOf(r)] IN
    /\ pc[r] = "writing"
    /\ IF SameRow(row, seen[r])
         THEN Store(KeyOf(r), Flush(row, seen[r], Completed(seen[r], r)))
         ELSE UNCHANGED rows
    /\ Load(r, NoRow)
    /\ GoTo(r, "done")
    /\ UNCHANGED <<clock, req, now, answer, overdue>>

\* What the client of a released claim has been told by the time it is done.
AnswerError(r) ==
    Answer(r, IF answer[r].kind = "none" THEN Said("error") ELSE answer[r])

ReleaseLoad(r) ==
    LET row == rows[KeyOf(r)] IN
    /\ pc[r] = "releasing"
    /\ IF row # NoRow /\ row.status = "in_progress"
         THEN Load(r, row) /\ GoTo(r, "deleting") /\ UNCHANGED answer
         ELSE AnswerError(r) /\ GoTo(r, "done") /\ UNCHANGED seen
    /\ UNCHANGED <<clock, rows, req, now, overdue>>

\* The DELETE is by primary key; it tolerates a row that is gone.
ReleaseDelete(r) ==
    LET row == rows[KeyOf(r)] IN
    /\ pc[r] = "deleting"
    /\ IF SameRow(row, seen[r]) THEN Store(KeyOf(r), NoRow) ELSE UNCHANGED rows
    /\ Load(r, NoRow)
    /\ GoTo(r, "done")
    /\ AnswerError(r)
    /\ UNCHANGED <<clock, req, now, overdue>>

-----------------------------------------------------------------------------
(* The environment.                                                         *)

\* The process dies, the client disconnects (CancelledError is no Exception)
\* or a store call raises: nothing is released.
Abandon(r) ==
    /\ pc[r] \in Working
    /\ GoTo(r, "done")
    /\ Load(r, NoRow)
    /\ UNCHANGED <<clock, rows, req, now, answer, overdue>>

\* Slip: the purge spares unfinished claims.
PurgeCompleted ==
    /\ rows' = [k \in Keys |->
                 IF /\ rows[k] # NoRow
                    /\ rows[k].status = "completed"
                    /\ rows[k].expires <= clock
                   THEN NoRow ELSE rows[k]]
    /\ UNCHANGED <<clock, req, now, pc, seen, answer, overdue>>

\* Slip: the purge deletes what was completed, expired or not.
PurgeEarly ==
    /\ rows' = [k \in Keys |->
                 IF rows[k] # NoRow /\ rows[k].status = "completed"
                   THEN NoRow ELSE rows[k]]
    /\ UNCHANGED <<clock, req, now, pc, seen, answer, overdue>>

\* The nightly purge deletes every expired row, unfinished claims included.
Purge ==
    /\ rows' = [k \in Keys |->
                 IF rows[k] # NoRow /\ rows[k].expires <= clock
                   THEN NoRow ELSE rows[k]]
    /\ UNCHANGED <<clock, req, now, pc, seen, answer, overdue>>

Tick ==
    /\ clock < MaxTime
    /\ clock' = clock + 1
    /\ overdue' = overdue \cup
         {r \in Requests : pc[r] \in Working /\ ExpiresAt(r) <= clock + 1}
    /\ UNCHANGED <<rows, req, now, pc, seen, answer>>

Init ==
    /\ clock = 0
    /\ rows = [k \in Keys |-> NoRow]
    /\ req \in [Requests -> [key: Keys, hash: Hashes]]
    /\ now = [r \in Requests |-> 0]
    /\ pc = [r \in Requests |-> "idle"]
    /\ seen = [r \in Requests |-> NoRow]
    /\ answer = [r \in Requests |-> Said("none")]
    /\ overdue = {}

Step(r) ==
    \/ InsertClaim(r) \/ InspectRefused(r) \/ InspectExpired(r) \/ Reclaim(r)
    \/ \E final \in BOOLEAN : HandlerReturns(r, final)
    \/ HandlerRaises(r)
    \/ CompleteLoad(r) \/ CompleteWrite(r)
    \/ ReleaseLoad(r) \/ ReleaseDelete(r)

Next ==
    \/ \E r \in Requests : PassThrough(r) \/ Arrive(r) \/ Step(r) \/ Abandon(r)
    \/ Purge
    \/ Tick

Spec == Init /\ [][Next]_vars

\* Time passes and the purge cron runs; requests owe nothing.
FairSpec == Spec /\ WF_vars(Tick) /\ WF_vars(Purge)

-----------------------------------------------------------------------------
(* What the middleware promises.                                            *)

\* The handler of r answered, and the answer is one the store may cache.
Finished(r) == answer[r] = [kind |-> "handler", by |-> r]

\* Two requests with one key never run their handlers at the same time, while
\* no request of that key has outlived its claim (middleware.py: "run the
\* handler exactly once"; store.py: a lost INSERT serializes duplicates).
SingleOwner ==
    \A r, q \in Requests :
        (Owns(r) /\ Owns(q) /\ KeyOf(r) = KeyOf(q) /\ OverdueOn(KeyOf(r)) = {})
            => r = q

\* A replay is the answer of a handler that did finish, for the same key and
\* the same fingerprint (store.py: "A completed handler's response, replayed
\* verbatim to a duplicate request").
ReplayIsOfSameRequest(q) ==
    answer[q].kind = "replay" =>
        /\ answer[q].by # None
        /\ Finished(answer[q].by)
        /\ req[answer[q].by] = req[q]

ReplayFaithful ==
    \A q \in Requests : OverdueOn(KeyOf(q)) = {} => ReplayIsOfSameRequest(q)

\* A handler starts for a key only when every earlier handler of that key that
\* gave a final answer is past its expiry: a retry inside the window cannot run
\* a second time, whatever crashed in between (models.py: "a network retry
\* can't double-charge or double-submit").
OncePerWindow ==
    [][\A r, q \in Requests :
          (/\ ~Owns(r) /\ Owns(r)'
           /\ Finished(q) /\ KeyOf(q) = KeyOf(r)
           /\ OverdueOn(KeyOf(r)) = {})
              => ExpiresAt(q) <= clock]_vars

\* Until it expires a cached response is neither replaced nor dropped.
CachedAnswerStable ==
    [][\A k \in Keys :
          (/\ rows[k] # NoRow
           /\ rows[k].status = "completed"
           /\ rows[k].expires > clock
           /\ OverdueOn(k) = {})
              => rows'[k] = rows[k]]_vars

\* A claim whose owner is gone does not hold its key for ever, and the table
\* does not grow for ever (models.py: the expiry "bounds the crash window +
\* storage").
ClaimsAreReclaimed ==
    \A k \in Keys : rows[k] # NoRow ~> rows[k] = NoRow

\* The store was asked about r: it read the clock and tried to claim its key.
Asked(r) == pc[r] # "idle" /\ answer[r].kind # "passed"

\* Key k is in its first window: nothing that was asked of it has expired yet.
Fresh(k) ==
    ~ \E p \in Requests : Asked(p) /\ KeyOf(p) = k /\ ExpiresAt(p) <= clock

\* Before the first expiry on a key, at most one request of that key owns it:
\* the UNIQUE constraint alone sees to that, on SQLite as well (models.py: "The
\* UNIQUE (scope, key) IS the lock").
FirstWindowExclusive ==
    \A r, q \in Requests :
        (Owns(r) /\ Owns(q) /\ KeyOf(r) = KeyOf(q) /\ r # q) => ~ Fresh(KeyOf(r))

\* No row outlives the present by more than the ttl, so a claim whose owner is
\* gone is open to the purge and to a reclaim within that time (store.py: the
\* claim and the reclaim set expires_at to now plus the ttl, and nothing else does).
ClaimsExpire == \A k \in Keys : rows[k] # NoRow => rows[k].expires <= clock + TTL

-----------------------------------------------------------------------------
(* The middleware implements OnceOnly.                                      *)

Lapsed == {k \in Keys : OverdueOn(k) # {}}

\* The handlers running, what each key stands for and what each duplicate was
\* told, on the keys the promise still covers.
RunningNow == {r \in Requests : Owns(r) /\ KeyOf(r) \notin Lapsed}

Caches(k) == rows[k] # NoRow /\ rows[k].status = "completed"

OutcomeNow ==
    [k \in Keys |-> IF k \notin Lapsed /\ Caches(k) THEN rows[k].response ELSE None]

Replayed(r) == answer[r].kind = "replay"

ToldSoFar ==
    [r \in Requests |->
        IF KeyOf(r) \notin Lapsed /\ Replayed(r) THEN answer[r].by ELSE None]

Once == INSTANCE OnceOnly WITH
    lapsed <- Lapsed, running <- RunningNow, outcome <- OutcomeNow, told <- ToldSoFar

\* Every claim, completion, release, replay, purge and crash is a step of the
\* abstract key or leaves it as it is (middleware.py, module docstring).
ImplementsOnceOnly == Once!Spec

-----------------------------------------------------------------------------
(* What the docstrings say of every request, overdue or not.                *)

\* store.py: "A completed handler's response, replayed verbatim to a duplicate
\* request"; models.py: "the same key with a different request -> 422".
EveryReplayIsOfSameRequest == \A q \in Requests : ReplayIsOfSameRequest(q)

-----------------------------------------------------------------------------
(* The inductive invariant behind the promises, for a store that locks the  *)
(* row it inspects.  All of it is about keys with no overdue request.       *)

Untroubled(k) == OverdueOn(k) = {}

\* A request still at work and not overdue is inside its claim.
InTime ==
    \A r \in Requests :
        /\ now[r] <= clock
        /\ pc[r] \in Working /\ r \notin overdue => clock < ExpiresAt(r)

\* What a client can have been told where its request is.
AnswerFits ==
    \A r \in Requests :
        /\ pc[r] \in Claiming \cup {"idle", "running"} => answer[r].kind = "none"
        /\ pc[r] \in {"completing", "writing"} => Finished(r)
        /\ pc[r] \in {"releasing", "deleting"} => answer[r].kind \in {"none", "error"}

\* The row of an owner is the claim it made, and what it has loaded is that row.
OwnerHoldsRow ==
    \A r \in Requests :
        (Owns(r) /\ Untroubled(KeyOf(r))) =>
            /\ rows[KeyOf(r)] # NoRow
            /\ rows[KeyOf(r)].hash = req[r].hash
            /\ rows[KeyOf(r)].status = "in_progress"
            /\ rows[KeyOf(r)].expires = ExpiresAt(r)
            /\ pc[r] \in {"writing", "deleting"} => seen[r] = rows[KeyOf(r)]

\* A final answer holds its key until it expires.
FinishedHoldsRow ==
    \A q \in Requests :
        (Finished(q) /\ Untroubled(KeyOf(q)) /\ clock < ExpiresAt(q)) =>
            /\ rows[KeyOf(q)] # NoRow
            /\ rows[KeyOf(q)].expires = ExpiresAt(q)

\* No other request of the key owns it meanwhile.
FinishedExcludesOwners ==
    \A r, q \in Requests :
        (Owns(r) /\ Finished(q) /\ KeyOf(q) = KeyOf(r) /\ r # q /\ Untroubled(KeyOf(r)))
            => ExpiresAt(q) <= clock

\* A cached response is a final answer to the request the row is about.
CachedIsFinal ==
    \A k \in Keys :
        (rows[k] # NoRow /\ rows[k].status = "completed" /\ Untroubled(k)) =>
            /\ rows[k].response # None
            /\ Finished(rows[k].response)
            /\ req[rows[k].response] = [key |-> k, hash |-> rows[k].hash]

NeverReclaiming == \A r \in Requests : pc[r] # "reclaiming"

IInv ==
    /\ TypeOK
    /\ InTime
    /\ AnswerFits
    /\ OwnerHoldsRow
    /\ SingleOwner
    /\ FinishedHoldsRow
    /\ FinishedExcludesOwners
    /\ CachedIsFinal
    /\ ReplayFaithful
    /\ NeverReclaiming

-----------------------------------------------------------------------------
(* The inductive invariant behind the first window.  It asks nothing of the *)
(* database but the UNIQUE constraint.                                      *)

\* A request reads the clock no later than now.
ClockWasRead == \A r \in Requests : now[r] <= clock

\* A request the store was never asked about has nothing left to do.
PassedAreDone == \A r \in Requests : answer[r].kind = "passed" => pc[r] = "done"

\* A row's expiry is the one some request of its key came with.
RowsDated ==
    \A k \in Keys : rows[k] # NoRow =>
        \E p \in Requests : Asked(p) /\ KeyOf(p) = k /\ ExpiresAt(p) = rows[k].expires

\* In the first window the owner is the request that inserted the row.
OwnerInserted ==
    \A r \in Requests : (Owns(r) /\ Fresh(KeyOf(r))) =>
        rows[KeyOf(r)] # NoRow /\ rows[KeyOf(r)].id = r

\* In the first window nothing is being taken over.
ReclaimsAreLate ==
    \A r \in Requests : pc[r] = "reclaiming" => ~ Fresh(KeyOf(r))

WindowInv ==
    /\ TypeOK
    /\ ClockWasRead
    /\ PassedAreDone
    /\ RowsDated
    /\ OwnerInserted
    /\ ReclaimsAreLate

=============================================================================
