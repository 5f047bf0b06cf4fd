------------------------------ MODULE RateLimit -----------------------------
(***************************************************************************)
(* Rate limiting (app/ratelimit/): the token bucket of one organization    *)
(* and route and the plan cache of one process, which decides the bucket's *)
(* tier; and the count of failed logins that locks an identity out.        *)
(*                                                                         *)
(* Time is counted in ticks, and kept as ages and remaining lifetimes; the *)
(* clock of Redis and the monotonic clock of the process go at one pace.   *)
(* Every Redis call may fail, and then lets the request through.  Tokens   *)
(* are counted in 1/Window: a request costs Window of them, and a tick     *)
(* brings as many as the tier's limit.  The tiers have one window, as      *)
(* PLAN_TIERS and the default settings have.                               *)
(***************************************************************************)
EXTENDS Naturals, FiniteSets

CONSTANTS
    Requests,       \* calls of a rate-limited route of the organization
    Limit,          \* tier_for_plan(): each plan's requests per window
    Window,
    PlanTTL,        \* ratelimit_plan_cache_seconds
    Clients,        \* callers of POST /login with one identifier
    Threshold,      \* ratelimit_lockout_threshold
    LockWindow,     \* ratelimit_lockout_window_seconds
    MaxCount,       \* bound of the model: failures counted while Redis fails reads
    None            \* no bucket; nothing cached

Plans == DOMAIN Limit

ASSUME TiersAssumption ==
    /\ \A p \in Plans : Limit[p] \in Nat \ {0}
    /\ \E p \in Plans : \A r \in Plans : Limit[r] <= Limit[p]
    /\ IsFiniteSet(Clients)
    /\ {Window, Threshold, LockWindow} \subseteq Nat \ {0}
    /\ {PlanTTL, MaxCount} \subseteq Nat

VARIABLES
    load,       \* what callers do in this behaviour: the two share the clock alone
    plan,       \* the plan of the organization's active subscription
    held,       \* history: for each plan, the ticks since it was the organization's
    cache,      \* _PLAN_CACHE: the organization's entry and the ticks it is still good for
    at,         \* where each request is
    took,       \* ticks since it read the clock
    tier,       \* the plan it read, or was resolved to
    bucket,     \* the hash in Redis: tokens, and the ticks since ts
    login,      \* whether each client has passed assert_not_locked_out()
    count,      \* the failure counter, 0 if there is no key
    left,       \* ticks until it expires, 0 if it does not
    open        \* history: a client passed the check because Redis failed

planVars == <<plan, held, cache>>
requestVars == <<at, took, tier>>
lockVars == <<login, count, left, open>>
vars == <<load, planVars, requestVars, bucket, lockVars>>

Burst(p) == Limit[p] * Window

\* The most generous tier.
Top == CHOOSE p \in Plans : \A r \in Plans : Limit[r] <= Limit[p]

Bucket == [tokens : 0 .. Burst(Top), age : 0 .. 2 * Window]

ASSUME NoneAssumption == None \notin Bucket

TypeOK ==
    /\ load \in {"requests", "logins"}
    /\ plan \in Plans
    /\ held \in [Plans -> 0 .. PlanTTL + 1]
    /\ cache \in [plan : Plans, left : 1 .. PlanTTL] \cup {None}
    /\ at \in [Requests -> {"idle", "reading", "read", "resolved", "admitted", "limited"}]
    /\ took \in [Requests -> 0 .. PlanTTL]
    /\ tier \in [Requests -> Plans]
    /\ bucket \in Bucket \cup {None}
    /\ login \in [Clients -> BOOLEAN]
    /\ count \in Nat /\ left \in 0 .. LockWindow
    /\ open \in BOOLEAN

Init ==
    /\ load \in {"requests", "logins"}
    /\ plan \in Plans
    /\ held = [p \in Plans |-> IF p = plan THEN 0 ELSE PlanTTL + 1]
    /\ cache = None
    /\ at = [q \in Requests |-> "idle"]
    /\ took = [q \in Requests |-> 0]
    /\ tier = [q \in Requests |-> plan]
    /\ bucket = None
    /\ login = [c \in Clients |-> FALSE]
    /\ count = 0 /\ left = 0
    /\ open = FALSE

Least(a, b) == IF a < b THEN a ELSE b
Monus(a, b) == IF a > b THEN a - b ELSE 0

-----------------------------------------------------------------------------
(* The plan of a request: _plan_for_org()                                   *)

\* Billing changes the subscription.
ChangePlan(p) ==
    /\ load = "requests"
    /\ p # plan
    /\ plan' = p
    /\ held' = [held EXCEPT ![p] = 0]
    /\ UNCHANGED <<load, cache, requestVars, bucket, lockVars>>

Begin(q) == load = "requests" /\ at[q] \in {"idle", "admitted", "limited"}

UseCache(q) ==
    /\ Begin(q)
    /\ cache # None
    /\ at' = [at EXCEPT ![q] = "resolved"]
    /\ tier' = [tier EXCEPT ![q] = cache.plan]
    /\ UNCHANGED <<load, planVars, took, bucket, lockVars>>

\* No entry, or none that is still good; the clock was read before this.
MissCache(q) ==
    /\ Begin(q)
    /\ cache = None
    /\ at' = [at EXCEPT ![q] = "reading"]
    /\ took' = [took EXCEPT ![q] = 0]
    /\ UNCHANGED <<load, planVars, tier, bucket, lockVars>>

ReadPlan(q) ==
    /\ at[q] = "reading"
    /\ at' = [at EXCEPT ![q] = "read"]
    /\ tier' = [tier EXCEPT ![q] = plan]
    /\ UNCHANGED <<load, planVars, took, bucket, lockVars>>

Resolve(q, entry) ==
    /\ at[q] = "read"
    /\ at' = [at EXCEPT ![q] = "resolved"]
    /\ took' = [took EXCEPT ![q] = 0]
    /\ cache' = IF entry.left > 0 THEN entry ELSE None
    /\ UNCHANGED <<load, plan, held, tier, bucket, lockVars>>

\* Slip: the clock is read again for the expiry.
FillCacheAnew(q) == Resolve(q, [plan |-> tier[q], left |-> PlanTTL])

\* The entry expires a TTL after the clock was read, so that one of a slow read
\* may be stale at once.  It replaces any other request's, and so may clear().
FillCache(q) == Resolve(q, [plan |-> tier[q], left |-> Monus(PlanTTL, took[q])])

-----------------------------------------------------------------------------
(* The bucket: hit()                                                        *)

\* _BUCKET_LUA: the bucket is full if there is none, else what it was and what
\* the time since has brought, at the tier of this request.
Tokens(p) ==
    IF bucket = None THEN Burst(p) ELSE Least(Burst(p), bucket.tokens + bucket.age * Limit[p])

Hit(q) ==
    /\ at[q] = "resolved"
    /\ LET tokens == Tokens(tier[q])
           allowed == tokens >= Window
       IN  /\ at' = [at EXCEPT ![q] = IF allowed THEN "admitted" ELSE "limited"]
           /\ bucket' = [tokens |-> IF allowed THEN tokens - Window ELSE tokens, age |-> 0]
    /\ UNCHANGED <<load, planVars, took, tier, lockVars>>

\* Redis fails: the request goes on unmetered.
HitOpen(q) ==
    /\ at[q] = "resolved"
    /\ at' = [at EXCEPT ![q] = "idle"]
    /\ UNCHANGED <<load, planVars, took, tier, bucket, lockVars>>

-----------------------------------------------------------------------------
(* The lockout                                                              *)

\* Slip: one attempt more than the threshold.
PassCheckLate(c) ==
    /\ load = "logins"
    /\ ~ login[c]
    /\ count <= Threshold
    /\ login' = [login EXCEPT ![c] = TRUE]
    /\ UNCHANGED <<load, planVars, requestVars, bucket, count, left, open>>

\* assert_not_locked_out(), which a locked identity does not pass.
PassCheck(c) ==
    /\ load = "logins"
    /\ ~ login[c]
    /\ count < Threshold
    /\ login' = [login EXCEPT ![c] = TRUE]
    /\ UNCHANGED <<load, planVars, requestVars, bucket, count, left, open>>

PassCheckOpen(c) ==
    /\ load = "logins"
    /\ ~ login[c]
    /\ login' = [login EXCEPT ![c] = TRUE]
    /\ open' = (open \/ count >= Threshold)
    /\ UNCHANGED <<load, planVars, requestVars, bucket, count, left>>

\* Slip: INCR without the EXPIRE.
CountFailureForGood(c) ==
    /\ login[c]
    /\ count < MaxCount
    /\ login' = [login EXCEPT ![c] = FALSE]
    /\ count' = count + 1
    /\ UNCHANGED <<load, planVars, requestVars, bucket, left, open>>

\* record_login_failure(): _INCR_LUA, which gives the key its lifetime when it
\* makes it, and never a new one.
CountFailure(c) ==
    /\ login[c]
    /\ count < MaxCount
    /\ login' = [login EXCEPT ![c] = FALSE]
    /\ count' = count + 1
    /\ left' = IF count = 0 THEN LockWindow ELSE left
    /\ UNCHANGED <<load, planVars, requestVars, bucket, open>>

\* clear_login_failures()
ClearFailures(c) ==
    /\ login[c]
    /\ login' = [login EXCEPT ![c] = FALSE]
    /\ count' = 0 /\ left' = 0
    /\ UNCHANGED <<load, planVars, requestVars, bucket, open>>

\* The login ends with the counter as it was: Redis failed.
EndLoginOpen(c) ==
    /\ login[c]
    /\ login' = [login EXCEPT ![c] = FALSE]
    /\ UNCHANGED <<load, planVars, requestVars, bucket, count, left, open>>

-----------------------------------------------------------------------------
(* The clocks, and Redis's expiry of keys                                   *)

\* Slip: the bucket's EXPIRE is half as long as the time it takes to fill.
BucketTTLShort == Window \div 2

BucketTTL == 2 * Window

Tick ==
    /\ held' = [p \in Plans |-> IF p = plan THEN 0 ELSE Least(held[p] + 1, PlanTTL + 1)]
    /\ cache' = IF cache = None \/ cache.left <= 1 THEN None ELSE [cache EXCEPT !.left = @ - 1]
    /\ took' = [q \in Requests |->
                 IF at[q] \in {"reading", "read"} THEN Least(took[q] + 1, PlanTTL) ELSE 0]
    /\ bucket' = IF bucket = None \/ bucket.age + 1 >= BucketTTL THEN None
                 ELSE [bucket EXCEPT !.age = @ + 1]
    /\ left' = Monus(left, 1)
    /\ count' = IF left = 1 THEN 0 ELSE count
    /\ UNCHANGED <<load, plan, at, tier, login, open>>

Next ==
    \/ Tick
    \/ \E p \in Plans : ChangePlan(p)
    \/ \E q \in Requests :
         UseCache(q) \/ MissCache(q) \/ ReadPlan(q) \/ FillCache(q) \/ Hit(q) \/ HitOpen(q)
    \/ \E c \in Clients :
         \/ PassCheck(c) \/ PassCheckOpen(c)
         \/ CountFailure(c) \/ ClearFailures(c) \/ EndLoginOpen(c)

\* Time goes on.
Spec == Init /\ [][Next]_vars /\ WF_vars(Tick)

-----------------------------------------------------------------------------
(* Properties                                                               *)

\* Whatever plan each request is taken for, in whatever order, the bucket
\* admits no more than a meter of the most generous tier: neither the refill
\* at the tier of the next request nor the key's expiry gives tokens away.
\* With one tier that is its own meter.
BucketMeter == INSTANCE Meter WITH
    Callers <- Requests, Capacity <- Burst(Top), Cost <- Window, Rate <- Limit[Top],
    level <- IF bucket = None THEN 0
             ELSE Monus(Burst(Top), bucket.tokens + bucket.age * Limit[Top]),
    verdict <- [q \in Requests |-> IF at[q] \in {"admitted", "limited"} THEN at[q] ELSE "none"]

ImplementsMeter == BucketMeter!Spec

\* A cached plan was the organization's at most a TTL ago, less what the entry
\* has still to live, however long the read took and whichever of two
\* overlapping reads was written last.
PlanStaleAtMostTTL == cache # None => held[cache.plan] + cache.left <= PlanTTL

\* Of the clients that try an identity at once, each can overrun the threshold
\* by one attempt at most, as long as Redis answers.
AttemptsBounded ==
    ~ open => count + Cardinality({c \in Clients : login[c]}) <= Threshold - 1 + Cardinality(Clients)

\* A locked identity is unlocked in the end, whatever else is tried meanwhile.
LockoutEnds == (count >= Threshold) ~> (count < Threshold)

\* What that rests on: a count of failures always has a lifetime, of no more
\* than the window (limiter.py _INCR_LUA: INCR and EXPIRE in one script).
CountsExpire == count > 0 => left \in 1 .. LockWindow

\* While a count lives, nothing that anybody tries gives it more time: not even
\* another failure (_INCR_LUA sets the lifetime of a new key only).
NeverExtended == [][count > 0 /\ count' > 0 => left' <= left]_vars
=============================================================================
