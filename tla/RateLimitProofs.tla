-------------------------- MODULE RateLimitProofs ---------------------------
(***************************************************************************)
(* Proofs about RateLimit: for any plans, limits, windows and times to     *)
(* live, and any number of requests and clients, the bucket keeps to its   *)
(* meter, a cached plan to its age and an attacker to the threshold.       *)
(***************************************************************************)
EXTENDS RateLimit, FiniteSetTheorems, TLAPS

-----------------------------------------------------------------------------
(* Arithmetic.                                                              *)

\* Products of naturals grow with their factors.
LEMMA Products ==
    /\ \A a, b, c \in Nat : a * c \in Nat /\ (a <= b => a * c <= b * c) /\ (a <= b => c * a <= c * b)
    /\ \A a, c \in Nat : (a + 1) * c = a * c + c /\ a * c = c * a
OBVIOUS

\* Some tier is the most generous, and its burst is the largest
\* (tiers.py, limiter.py).
LEMMA TopTier ==
    /\ Top \in Plans
    /\ \A p \in Plans : Limit[p] \in Nat /\ Limit[p] <= Limit[Top]
    /\ Window \in Nat /\ Window > 0 /\ PlanTTL \in Nat /\ LockWindow \in Nat
    /\ \A p \in Plans : Burst(p) \in Nat /\ Burst(p) <= Burst(Top) /\ Window <= Burst(p)
<1>1. Top \in Plans /\ \A p \in Plans : Limit[p] <= Limit[Top]
  BY TiersAssumption DEF Top
<1>2. /\ \A p \in Plans : Limit[p] \in Nat /\ Limit[p] > 0
      /\ Window \in Nat /\ Window > 0 /\ PlanTTL \in Nat /\ LockWindow \in Nat
  BY TiersAssumption
<1>3. ASSUME NEW p \in Plans
      PROVE  Burst(p) \in Nat /\ Burst(p) <= Burst(Top) /\ Window <= Burst(p)
  <2>1. Limit[p] * Window \in Nat /\ Limit[p] * Window <= Limit[Top] * Window
    BY <1>1, <1>2, Products
  <2>2. 1 * Window <= Limit[p] * Window
    BY <1>2, Products
  <2>3. QED
    BY <1>2, <2>1, <2>2 DEF Burst
<1>4. QED
  BY <1>1, <1>2, <1>3

\* What a hit finds in the bucket is a number no larger than its tier's burst
\* (limiter.py _BUCKET_LUA).
LEMMA TokensType ==
    ASSUME TypeOK, NEW p \in Plans
    PROVE  Tokens(p) \in 0 .. Burst(p)
<1>1. CASE bucket = None
  BY <1>1, TopTier DEF Tokens
<1>2. CASE bucket # None
  <2>1. bucket.tokens \in Nat /\ bucket.age \in Nat
    BY <1>2, TopTier DEF TypeOK, Bucket
  <2>2. bucket.age * Limit[p] \in Nat
    BY <2>1, TopTier, Products
  <2>3. QED
    BY <1>2, <2>1, <2>2, TopTier DEF Tokens, Least
<1>3. QED
  BY <1>1, <1>2

-----------------------------------------------------------------------------
(* Types.                                                                   *)

\* An empty cache, no bucket and no failures are well typed.
LEMMA TypeInit == Init => TypeOK
<1> SUFFICES ASSUME Init PROVE TypeOK
  OBVIOUS
<1>1. load \in {"requests", "logins"} /\ plan \in Plans /\ held \in [Plans -> 0 .. PlanTTL + 1]
  BY TopTier DEF Init
<1>2. /\ cache = None /\ bucket = None /\ count = 0 /\ left = 0 /\ open = FALSE
      /\ at = [q \in Requests |-> "idle"] /\ took = [q \in Requests |-> 0]
      /\ tier = [q \in Requests |-> plan] /\ login = [c \in Clients |-> FALSE]
  BY DEF Init
<1>3. /\ at \in [Requests -> {"idle", "reading", "read", "resolved", "admitted", "limited"}]
      /\ took \in [Requests -> 0 .. PlanTTL]
  BY <1>2, TopTier
<1>4. tier \in [Requests -> Plans] /\ login \in [Clients -> BOOLEAN]
  BY <1>1, <1>2
<1>5. count \in Nat /\ left \in 0 .. LockWindow
  BY <1>2, TopTier
<1>6. open \in BOOLEAN
  BY <1>2, Zenon
<1>7. QED
  BY <1>1, <1>2, <1>3, <1>4, <1>5, <1>6 DEF TypeOK

\* Resolving, hitting, locking and the clocks keep the types (ratelimit/).
LEMMA TypeNext == TypeOK /\ [Next]_vars => TypeOK'
<1> SUFFICES ASSUME TypeOK, [Next]_vars PROVE TypeOK'
  OBVIOUS
<1> USE TopTier DEF planVars, requestVars, lockVars
<1>1. ASSUME NEW p \in Plans, ChangePlan(p) PROVE TypeOK'
  BY <1>1 DEF ChangePlan, TypeOK
<1>2. ASSUME NEW q \in Requests, UseCache(q) PROVE TypeOK'
  <2>1. cache.plan \in Plans
    BY <1>2 DEF UseCache, TypeOK
  <2>2. QED
    BY <1>2, <2>1 DEF UseCache, TypeOK
<1>3. ASSUME NEW q \in Requests, MissCache(q) \/ ReadPlan(q) \/ HitOpen(q) PROVE TypeOK'
  BY <1>3 DEF MissCache, ReadPlan, HitOpen, TypeOK
<1>4. ASSUME NEW q \in Requests, FillCache(q) PROVE TypeOK'
  <2> DEFINE entry == [plan |-> tier[q], left |-> Monus(PlanTTL, took[q])]
  <2>1. tier[q] \in Plans /\ took[q] \in 0 .. PlanTTL
    BY DEF TypeOK
  <2>2. entry.left \in 0 .. PlanTTL
    BY <2>1 DEF Monus
  <2>3. entry.left > 0 => entry \in [plan : Plans, left : 1 .. PlanTTL]
    BY <2>1, <2>2
  <2>4. cache' = IF entry.left > 0 THEN entry ELSE None
    BY <1>4 DEF FillCache, Resolve
  <2> HIDE DEF entry
  <2>5. cache' \in [plan : Plans, left : 1 .. PlanTTL] \cup {None}
    BY <2>3, <2>4
  <2>6. QED
    BY <1>4, <2>5 DEF FillCache, Resolve, TypeOK
<1>5. ASSUME NEW q \in Requests, Hit(q) PROVE TypeOK'
  <2> DEFINE tokens == Tokens(tier[q])
  <2>1. tokens \in 0 .. Burst(tier[q]) /\ Burst(tier[q]) <= Burst(Top) /\ Burst(tier[q]) \in Nat
    BY TokensType DEF TypeOK
  <2>2. bucket' = [tokens |-> IF tokens >= Window THEN tokens - Window ELSE tokens, age |-> 0]
    BY <1>5 DEF Hit
  <2> HIDE DEF tokens
  <2>3. bucket' \in Bucket
    BY <2>1, <2>2 DEF Bucket
  <2>4. at' \in [Requests -> {"idle", "reading", "read", "resolved", "admitted", "limited"}]
    BY <1>5 DEF Hit, TypeOK
  <2>5. QED
    BY <1>5, <2>3, <2>4 DEF Hit, TypeOK
<1>6. ASSUME NEW c \in Clients, PassCheck(c) \/ EndLoginOpen(c) PROVE TypeOK'
  BY <1>6 DEF PassCheck, EndLoginOpen, TypeOK
<1>7. ASSUME NEW c \in Clients, PassCheckOpen(c) PROVE TypeOK'
  <2>1. open' \in BOOLEAN
    BY <1>7 DEF PassCheckOpen
  <2>2. QED
    BY <1>7, <2>1 DEF PassCheckOpen, TypeOK
<1>8. ASSUME NEW c \in Clients, CountFailure(c) \/ ClearFailures(c) PROVE TypeOK'
  <2>1. count' \in Nat /\ left' \in 0 .. LockWindow
    BY <1>8 DEF CountFailure, ClearFailures, TypeOK
  <2>2. login' \in [Clients -> BOOLEAN]
    BY <1>8 DEF CountFailure, ClearFailures, TypeOK
  <2>3. UNCHANGED <<load, planVars, requestVars, bucket, open>>
    BY <1>8 DEF CountFailure, ClearFailures
  <2>4. QED
    BY <2>1, <2>2, <2>3 DEF TypeOK
<1>9. CASE Tick
  <2>1. held' \in [Plans -> 0 .. PlanTTL + 1] /\ took' \in [Requests -> 0 .. PlanTTL]
    BY <1>9 DEF Tick, TypeOK, Least
  <2>2. cache' \in [plan : Plans, left : 1 .. PlanTTL] \cup {None}
    BY <1>9 DEF Tick, TypeOK
  <2>3. bucket' \in Bucket \cup {None}
    BY <1>9 DEF Tick, TypeOK, Bucket, BucketTTL
  <2>4. left' \in 0 .. LockWindow /\ count' \in Nat
    BY <1>9 DEF Tick, TypeOK, Monus
  <2>5. QED
    BY <1>9, <2>1, <2>2, <2>3, <2>4 DEF Tick, TypeOK
<1>10. CASE UNCHANGED vars
  BY <1>10 DEF vars, TypeOK
<1>11. QED
  BY <1>1, <1>2, <1>3, <1>4, <1>5, <1>6, <1>7, <1>8, <1>9, <1>10 DEF Next

-----------------------------------------------------------------------------
(* The age of a cached plan.                                                *)

\* A plan that a request has read was the organization's when it was read,
\* and the request has counted the ticks since an earlier moment.
AgesSound ==
    /\ held[plan] = 0
    /\ \A q \in Requests : at[q] = "read" => held[tier[q]] <= took[q] \/ took[q] = PlanTTL
    /\ PlanStaleAtMostTTL

\* The entry's expiry counts from before the read (dependencies.py
\* _plan_for_org), so no step makes it older than it says.
LEMMA AgesNext == TypeOK /\ AgesSound /\ [Next]_vars => AgesSound'
<1> SUFFICES ASSUME TypeOK, AgesSound, [Next]_vars PROVE AgesSound'
  OBVIOUS
<1> USE TopTier DEF planVars, requestVars, lockVars, AgesSound
<1>1. ASSUME NEW p \in Plans, ChangePlan(p) PROVE AgesSound'
  <2>1. plan' = p /\ held'[p] = 0 /\ \A r \in Plans : held'[r] <= held[r] /\ held'[r] \in Nat
    BY <1>1 DEF ChangePlan, TypeOK
  <2>2. cache' = cache /\ tier' = tier /\ at' = at /\ took' = took
    BY <1>1 DEF ChangePlan
  <2>3. cache # None => cache.plan \in Plans /\ cache.left \in Nat
    BY DEF TypeOK
  <2>4. \A q \in Requests : tier[q] \in Plans /\ held[tier[q]] \in Nat /\ took[q] \in Nat
    BY DEF TypeOK
  <2>5. \A r \in Plans : held[r] \in Nat
    BY DEF TypeOK
  <2>6. QED
    BY <2>1, <2>2, <2>3, <2>4, <2>5 DEF PlanStaleAtMostTTL
<1>2. ASSUME NEW q \in Requests, UseCache(q) \/ MissCache(q) \/ Hit(q) \/ HitOpen(q)
      PROVE  AgesSound'
  <2>1. /\ UNCHANGED planVars
        /\ \A s \in Requests : at'[s] = "read" =>
             at[s] = "read" /\ tier'[s] = tier[s] /\ took'[s] = took[s]
    BY <1>2 DEF UseCache, MissCache, Hit, HitOpen, TypeOK
  <2>2. QED
    BY <2>1 DEF PlanStaleAtMostTTL
<1>3. ASSUME NEW q \in Requests, ReadPlan(q) PROVE AgesSound'
  <2>1. /\ UNCHANGED planVars /\ took' = took /\ tier'[q] = plan
        /\ \A s \in Requests \ {q} : at'[s] = at[s] /\ tier'[s] = tier[s]
    BY <1>3 DEF ReadPlan, TypeOK
  <2>2. took[q] \in Nat
    BY DEF TypeOK
  <2>3. QED
    BY <2>1, <2>2 DEF PlanStaleAtMostTTL
<1>4. ASSUME NEW q \in Requests, FillCache(q) PROVE AgesSound'
  <2>1. /\ plan' = plan /\ held' = held
        /\ \A s \in Requests : at'[s] = "read" =>
             at[s] = "read" /\ tier'[s] = tier[s] /\ took'[s] = took[s]
    BY <1>4 DEF FillCache, Resolve, TypeOK
  <2>2. /\ at[q] = "read" /\ tier[q] \in Plans /\ took[q] \in 0 .. PlanTTL
        /\ held[tier[q]] \in Nat
    BY <1>4 DEF FillCache, Resolve, TypeOK
  <2>3. cache' # None => cache'.plan = tier[q] /\ cache'.left = PlanTTL - took[q] /\ took[q] < PlanTTL
    BY <1>4, <2>2 DEF FillCache, Resolve, Monus
  <2>4. PlanStaleAtMostTTL'
    BY <2>1, <2>2, <2>3 DEF PlanStaleAtMostTTL
  <2>5. QED
    BY <2>1, <2>4
<1>5. ASSUME NEW c \in Clients,
             \/ PassCheck(c) \/ PassCheckOpen(c)
             \/ CountFailure(c) \/ ClearFailures(c) \/ EndLoginOpen(c)
      PROVE  AgesSound'
  <2>1. UNCHANGED <<planVars, requestVars>>
    BY <1>5 DEF PassCheck, PassCheckOpen, CountFailure, ClearFailures, EndLoginOpen
  <2>2. QED
    BY <2>1 DEF PlanStaleAtMostTTL
<1>6. CASE Tick
  <2>1. /\ plan' = plan /\ tier' = tier /\ at' = at /\ held'[plan] = 0
        /\ \A p \in Plans : held[p] \in 0 .. PlanTTL + 1 /\ held'[p] <= held[p] + 1
             /\ held'[p] \in Nat
    BY <1>6 DEF Tick, TypeOK, Least
  <2>2. \A q \in Requests :
          /\ took[q] \in 0 .. PlanTTL /\ tier[q] \in Plans
          /\ at[q] = "read" => took'[q] = Least(took[q] + 1, PlanTTL)
    BY <1>6 DEF Tick, TypeOK
  <2>3. ASSUME NEW q \in Requests, at[q] = "read"
        PROVE  held'[tier[q]] <= took'[q] \/ took'[q] = PlanTTL
    <3>1. held[tier[q]] <= took[q] \/ took[q] = PlanTTL
      BY <2>3
    <3>2. QED
      BY <2>1, <2>2, <2>3, <3>1 DEF Least
  <2>4. cache' # None => /\ cache # None /\ cache'.plan = cache.plan
                         /\ cache'.left = cache.left - 1 /\ cache.left \in Nat
                         /\ cache.plan \in Plans
    BY <1>6 DEF Tick, TypeOK
  <2>5. PlanStaleAtMostTTL'
    BY <2>1, <2>4 DEF PlanStaleAtMostTTL
  <2>6. QED
    BY <2>1, <2>3, <2>5
<1>7. CASE UNCHANGED vars
  BY <1>7 DEF vars, PlanStaleAtMostTTL
<1>8. QED
  BY <1>1, <1>2, <1>3, <1>4, <1>5, <1>6, <1>7 DEF Next

\* At first only the plan in force is fresh, and nothing is cached.
LEMMA AgesInit == Init => AgesSound
<1> SUFFICES ASSUME Init PROVE AgesSound
  OBVIOUS
<1>1. held[plan] = 0 /\ cache = None /\ at = [q \in Requests |-> "idle"]
  BY DEF Init
<1>2. QED
  BY <1>1 DEF AgesSound, PlanStaleAtMostTTL

-----------------------------------------------------------------------------
(* The lockout.                                                             *)

\* The clients that have passed the check and not yet counted or cleared.
Trying == {c \in Clients : login[c]}

LEMMA TryingFinite ==
    /\ IsFiniteSet(Trying) /\ Cardinality(Trying) \in Nat
    /\ Cardinality(Trying) <= Cardinality(Clients) /\ Cardinality(Clients) \in Nat
<1>1. Trying \subseteq Clients /\ IsFiniteSet(Clients)
  BY TiersAssumption DEF Trying
<1>2. QED
  BY <1>1, FS_Subset, FS_CardinalityType

\* An attempt is bounded by the check it passed, and each of the others that
\* passed it at the same time by its own.
LEMMA AttemptsInit == Init => AttemptsBounded
<1> SUFFICES ASSUME Init PROVE AttemptsBounded
  OBVIOUS
<1>1. Cardinality(Trying) = 0 /\ count = 0
  <2>1. Trying = {}
    BY DEF Init, Trying
  <2>2. QED
    BY <2>1, FS_EmptySet DEF Init
<1>2. Threshold \in Nat /\ Threshold > 0
  BY TiersAssumption
<1>3. QED
  BY <1>1, <1>2, TryingFinite DEF AttemptsBounded, Trying

\* A check passed below the threshold leaves room for every client's failure,
\* and a failure counted ends the attempt that it counts (lockout.py).
LEMMA AttemptsNext == TypeOK /\ AttemptsBounded /\ [Next]_vars => AttemptsBounded'
<1> SUFFICES ASSUME TypeOK, AttemptsBounded, [Next]_vars PROVE AttemptsBounded'
  OBVIOUS
<1> USE DEF lockVars
<1>1. /\ Threshold \in Nat /\ Threshold > 0 /\ count \in Nat
      /\ IsFiniteSet(Trying) /\ Cardinality(Trying) \in Nat
      /\ Cardinality(Trying') \in Nat /\ Cardinality(Trying') <= Cardinality(Clients)
      /\ Cardinality(Clients) \in Nat
  <2>1. IsFiniteSet(Clients) /\ Trying' \subseteq Clients
    BY TiersAssumption DEF Trying
  <2>2. QED
    BY <2>1, TiersAssumption, TryingFinite, FS_Subset, FS_CardinalityType DEF TypeOK
<1>2. ~ open => count + Cardinality(Trying) <= Threshold - 1 + Cardinality(Clients)
  BY DEF AttemptsBounded, Trying
<1>3. SUFFICES ~ open' => count' + Cardinality(Trying') <= Threshold - 1 + Cardinality(Clients)
  BY DEF AttemptsBounded, Trying
<1>4. CASE UNCHANGED lockVars
  BY <1>2, <1>4 DEF Trying
<1>5. ASSUME NEW c \in Clients, PassCheck(c) PROVE <1>3!1
  <2>1. count' = count /\ count < Threshold
    BY <1>5 DEF PassCheck
  <2>2. QED
    BY <1>1, <2>1
<1>6. ASSUME NEW c \in Clients, PassCheckOpen(c) PROVE <1>3!1
  <2>1. count' = count
    BY <1>6 DEF PassCheckOpen
  <2>2. ~ open' => ~ (count >= Threshold)
    BY <1>6, Zenon DEF PassCheckOpen
  <2>3. QED
    BY <1>1, <2>1, <2>2
<1>7. ASSUME NEW c \in Clients, CountFailure(c) \/ ClearFailures(c) \/ EndLoginOpen(c) PROVE <1>3!1
  <2>1. c \in Trying /\ Trying' = Trying \ {c} /\ open' = open
    BY <1>7 DEF CountFailure, ClearFailures, EndLoginOpen, Trying, TypeOK
  <2>2. Cardinality(Trying') = Cardinality(Trying) - 1
    BY <1>1, <2>1, FS_RemoveElement
  <2>3. count' \in {0, count, count + 1}
    BY <1>7 DEF CountFailure, ClearFailures, EndLoginOpen
  <2>4. QED
    BY <1>1, <1>2, <2>1, <2>2, <2>3
<1>8. CASE Tick
  <2>1. Trying' = Trying /\ open' = open /\ count' \in {0, count}
    BY <1>8 DEF Tick, Trying
  <2>2. QED
    BY <1>1, <1>2, <2>1
<1>9. QED
  <2>1. ASSUME NEW p \in Plans, ChangePlan(p) PROVE UNCHANGED lockVars
    BY <2>1 DEF ChangePlan
  <2>2. ASSUME NEW q \in Requests,
               \/ UseCache(q) \/ MissCache(q) \/ ReadPlan(q)
               \/ FillCache(q) \/ Hit(q) \/ HitOpen(q)
        PROVE  UNCHANGED lockVars
    BY <2>2 DEF UseCache, MissCache, ReadPlan, FillCache, Resolve, Hit, HitOpen
  <2>3. CASE UNCHANGED vars
    BY <2>3, <1>4 DEF vars
  <2>4. QED
    BY <1>4, <1>5, <1>6, <1>7, <1>8, <2>1, <2>2, <2>3 DEF Next

\* Only a new count sets the lifetime, only time takes of it, and the count is
\* gone with the last of it (limiter.py _INCR_LUA, clear_failures).
LEMMA LifetimeNext ==
    ASSUME TypeOK, CountsExpire, [Next]_vars
    PROVE  /\ CountsExpire'
           /\ count > 0 /\ count' > 0 => left' <= left
<1> USE DEF lockVars, CountsExpire
<1>1. /\ LockWindow \in Nat /\ LockWindow > 0
      /\ count \in Nat /\ left \in 0 .. LockWindow
  BY TiersAssumption DEF TypeOK
<1>2. CASE UNCHANGED <<count, left>>
  BY <1>1, <1>2
<1>3. ASSUME NEW c \in Clients, CountFailure(c)
      PROVE  CountsExpire' /\ (count > 0 /\ count' > 0 => left' <= left)
  <2>1. count' = count + 1 /\ left' = IF count = 0 THEN LockWindow ELSE left
    BY <1>3 DEF CountFailure
  <2>2. QED
    BY <1>1, <2>1
<1>4. ASSUME NEW c \in Clients, ClearFailures(c)
      PROVE  CountsExpire' /\ (count > 0 /\ count' > 0 => left' <= left)
  <2>1. count' = 0
    BY <1>4 DEF ClearFailures
  <2>2. QED
    BY <2>1
<1>5. CASE Tick
  <2>1. left' = Monus(left, 1) /\ count' = IF left = 1 THEN 0 ELSE count
    BY <1>5 DEF Tick
  <2>2. QED
    BY <1>1, <2>1 DEF Monus
<1>6. ASSUME NEW c \in Clients, PassCheck(c) \/ PassCheckOpen(c) \/ EndLoginOpen(c)
      PROVE  UNCHANGED <<count, left>>
  BY <1>6 DEF PassCheck, PassCheckOpen, EndLoginOpen
<1>7. ASSUME NEW p \in Plans, ChangePlan(p) PROVE UNCHANGED <<count, left>>
  BY <1>7 DEF ChangePlan
<1>8. ASSUME NEW q \in Requests,
             \/ UseCache(q) \/ MissCache(q) \/ ReadPlan(q)
             \/ FillCache(q) \/ Hit(q) \/ HitOpen(q)
      PROVE  UNCHANGED <<count, left>>
  BY <1>8 DEF UseCache, MissCache, ReadPlan, FillCache, Resolve, Hit, HitOpen
<1>9. CASE UNCHANGED vars
  BY <1>2, <1>9 DEF vars
<1>10. QED
  BY <1>2, <1>3, <1>4, <1>5, <1>6, <1>7, <1>8, <1>9 DEF Next

-----------------------------------------------------------------------------
(* The bucket and its meter.                                                *)

\* What the refinement of ImplementsMeter maps a bucket and the requests to.
Level ==
    IF bucket = None THEN 0 ELSE Monus(Burst(Top), bucket.tokens + bucket.age * Limit[Top])

Verdict == [q \in Requests |-> IF at[q] \in {"admitted", "limited"} THEN at[q] ELSE "none"]

\* A hit finds no more tokens than the level leaves of the largest burst,
\* whichever tier it is charged at (limiter.py _BUCKET_LUA).
LEMMA TokensBelowLevel ==
    ASSUME TypeOK, NEW p \in Plans
    PROVE  Level \in Nat /\ Tokens(p) \in Nat /\ Tokens(p) + Level <= Burst(Top)
<1>1. Tokens(p) \in 0 .. Burst(p) /\ Burst(p) \in Nat /\ Burst(p) <= Burst(Top) /\ Burst(Top) \in Nat
  BY TokensType, TopTier
<1>2. CASE bucket = None
  BY <1>1, <1>2 DEF Level
<1>3. CASE bucket # None
  <2>1. bucket.tokens \in Nat /\ bucket.age \in Nat
    BY <1>3, TopTier DEF TypeOK, Bucket
  <2>2. /\ bucket.age * Limit[p] \in Nat /\ bucket.age * Limit[Top] \in Nat
        /\ bucket.age * Limit[p] <= bucket.age * Limit[Top]
    BY <2>1, TopTier, Products
  <2>3. QED
    BY <1>1, <1>3, <2>1, <2>2 DEF Tokens, Least, Level, Monus
<1>4. QED
  BY <1>2, <1>3

\* What a hit leaves in the bucket is what the level lacks of the largest burst.
LEMMA LevelAfter ==
    ASSUME NEW n \in Nat, n <= Burst(Top), bucket' = [tokens |-> n, age |-> 0]
    PROVE  Level' = Burst(Top) - n
<1>1. bucket' # None
  <2>1. bucket' \in Bucket
    BY TopTier DEF Bucket
  <2>2. QED
    BY <2>1, NoneAssumption
<1>2. bucket'.tokens = n /\ bucket'.age * Limit[Top] = 0
  BY TopTier
<1>3. QED
  BY <1>1, <1>2, TopTier DEF Level, Monus

LEMMA VerdictAfter ==
    ASSUME TypeOK, NEW q \in Requests, NEW x, at' = [at EXCEPT ![q] = x]
    PROVE  Verdict' = [Verdict EXCEPT ![q] = IF x \in {"admitted", "limited"} THEN x ELSE "none"]
BY DEF TypeOK, Verdict

\* The time that passes brings back no more than the rate of the top tier, and
\* a bucket that expires would have been full (limiter.py ttl).
LEMMA TickDrains ==
    ASSUME TypeOK, Tick
    PROVE  /\ Level \in Nat /\ Level' \in Nat
           /\ Level' <= Level /\ Level' + Limit[Top] >= Level /\ Verdict' = Verdict
<1>1. Verdict' = Verdict
  BY DEF Tick, Verdict
<1>2. Burst(Top) \in Nat /\ Limit[Top] \in Nat /\ Window \in Nat /\ Window > 0
  BY TopTier
<1>3. CASE bucket = None
  <2>1. bucket' = None
    BY <1>3 DEF Tick
  <2>2. QED
    BY <1>1, <1>2, <1>3, <2>1 DEF Level
<1>4. CASE bucket # None
  <2>1. bucket.tokens \in Nat /\ bucket.age \in Nat /\ bucket \in Bucket
    BY <1>2, <1>4 DEF TypeOK, Bucket
  <2>2. /\ bucket.age * Limit[Top] \in Nat
        /\ (bucket.age + 1) * Limit[Top] = bucket.age * Limit[Top] + Limit[Top]
    BY <1>2, <2>1, Products
  <2>3. CASE bucket.age + 1 >= BucketTTL
    <3>1. bucket' = None
      BY <2>3 DEF Tick
    <3>2. Window <= bucket.age
      BY <1>2, <2>1, <2>3 DEF BucketTTL
    <3>3. Burst(Top) <= bucket.age * Limit[Top]
      BY <1>2, <2>1, <3>2, Products DEF Burst
    <3>4. QED
      BY <1>1, <1>2, <1>4, <2>1, <2>2, <3>1, <3>3 DEF Level, Monus
  <2>4. CASE ~ (bucket.age + 1 >= BucketTTL)
    <3>1. bucket' = [bucket EXCEPT !.age = bucket.age + 1]
      BY <1>4, <2>4 DEF Tick
    <3>2. bucket'.tokens = bucket.tokens /\ bucket'.age = bucket.age + 1 /\ bucket' \in Bucket
      BY <1>2, <2>1, <2>4, <3>1 DEF Bucket, BucketTTL
    <3>3. bucket' # None
      BY <3>2, NoneAssumption
    <3>4. QED
      BY <1>1, <1>2, <1>4, <2>1, <2>2, <3>2, <3>3 DEF Level, Monus
  <2>5. QED
    BY <2>3, <2>4
<1>5. QED
  BY <1>3, <1>4

\* At first there is no bucket: the meter is empty.
LEMMA MeterInit == Init => BucketMeter!Init
<1> SUFFICES ASSUME Init PROVE BucketMeter!Init
  OBVIOUS
<1>1. bucket = None /\ at = [q \in Requests |-> "idle"]
  BY DEF Init
<1>2. Level = 0 /\ Verdict = [q \in Requests |-> "none"]
  BY <1>1 DEF Level, Verdict
<1>3. QED
  BY <1>2 DEF BucketMeter!Init, Level, Verdict

\* A hit admits or refuses, a tick drains, and the rest is none of the meter's.
LEMMA MeterNext ==
    TypeOK /\ [Next]_vars
      => [BucketMeter!Next]_<<Level, Verdict>>
<1> SUFFICES ASSUME TypeOK, [Next]_vars PROVE [BucketMeter!Next]_<<Level, Verdict>>
  OBVIOUS
<1> USE DEF planVars, requestVars, lockVars
<1>1. ASSUME NEW q \in Requests,
             UseCache(q) \/ MissCache(q) \/ ReadPlan(q) \/ FillCache(q) \/ HitOpen(q)
      PROVE  BucketMeter!Forget(q)
  <2>1. bucket' = bucket /\ Level' = Level
    BY <1>1 DEF UseCache, MissCache, ReadPlan, FillCache, Resolve, HitOpen, Level
  <2>2. PICK x \in {"idle", "reading", "read", "resolved"} : at' = [at EXCEPT ![q] = x]
    BY <1>1 DEF UseCache, MissCache, ReadPlan, FillCache, Resolve, HitOpen
  <2>3. Verdict' = [Verdict EXCEPT ![q] = "none"]
    BY <2>2, VerdictAfter
  <2>4. QED
    BY <2>1, <2>3 DEF BucketMeter!Forget, Level, Verdict
<1>2. ASSUME NEW q \in Requests, Hit(q)
      PROVE  BucketMeter!Admit(q) \/ BucketMeter!Refuse(q)
  <2> DEFINE tokens == Tokens(tier[q])
  <2>1. /\ Level \in Nat /\ tokens \in Nat /\ tokens + Level <= Burst(Top)
        /\ Burst(Top) \in Nat /\ Window \in Nat /\ Window > 0
    BY TokensBelowLevel, TopTier DEF TypeOK
  <2>2. CASE tokens >= Window
    <3>1. bucket' = [tokens |-> tokens - Window, age |-> 0] /\ at' = [at EXCEPT ![q] = "admitted"]
      BY <1>2, <2>2 DEF Hit
    <3> HIDE DEF tokens
    <3>2. Level' = Burst(Top) - (tokens - Window)
      BY <2>1, <2>2, <3>1, LevelAfter
    <3>3. Level' \in Level + Window .. Burst(Top)
      BY <2>1, <2>2, <3>2
    <3>4. Verdict' = [Verdict EXCEPT ![q] = "admitted"]
      BY <3>1, VerdictAfter
    <3>5. BucketMeter!Admit(q)
      BY <3>3, <3>4 DEF BucketMeter!Admit, Level, Verdict
    <3>6. QED
      BY <3>5
  <2>3. CASE ~ (tokens >= Window)
    <3>1. bucket' = [tokens |-> tokens, age |-> 0] /\ at' = [at EXCEPT ![q] = "limited"]
      BY <1>2, <2>3 DEF Hit
    <3> HIDE DEF tokens
    <3>2. Level' = Burst(Top) - tokens
      BY <2>1, <3>1, LevelAfter
    <3>3. Level' \in Level .. Burst(Top)
      BY <2>1, <3>2
    <3>4. Verdict' = [Verdict EXCEPT ![q] = "limited"]
      BY <3>1, VerdictAfter
    <3>5. BucketMeter!Refuse(q)
      BY <3>3, <3>4 DEF BucketMeter!Refuse, Level, Verdict
    <3>6. QED
      BY <3>5
  <2>4. QED
    BY <2>2, <2>3
<1>3. CASE Tick
  <2>1. /\ Level \in Nat /\ Level' \in Nat
        /\ Level' <= Level /\ Level' + Limit[Top] >= Level /\ Verdict' = Verdict
    BY <1>3, TickDrains
  <2>2. CASE Level' = Level
    BY <2>1, <2>2
  <2>3. CASE Level' < Level
    <3>1. BucketMeter!Drain
      BY <2>1, <2>3 DEF BucketMeter!Drain, Level, Verdict
    <3>2. QED
      BY <3>1 DEF BucketMeter!Next
  <2>4. QED
    BY <2>1, <2>2, <2>3
<1>4. ASSUME UNCHANGED <<bucket, at>> PROVE UNCHANGED <<Level, Verdict>>
  BY <1>4 DEF Level, Verdict
<1>5. ASSUME NEW p \in Plans, ChangePlan(p) PROVE UNCHANGED <<bucket, at>>
  BY <1>5 DEF ChangePlan
<1>6. ASSUME NEW c \in Clients,
             \/ PassCheck(c) \/ PassCheckOpen(c)
             \/ CountFailure(c) \/ ClearFailures(c) \/ EndLoginOpen(c)
      PROVE  UNCHANGED <<bucket, at>>
  BY <1>6 DEF PassCheck, PassCheckOpen, CountFailure, ClearFailures, EndLoginOpen
<1>7. ASSUME UNCHANGED vars PROVE UNCHANGED <<bucket, at>>
  BY <1>7 DEF vars
<1>8. ASSUME NEW q \in Requests,
             BucketMeter!Admit(q) \/ BucketMeter!Refuse(q) \/ BucketMeter!Forget(q)
      PROVE  BucketMeter!Next
  BY <1>8 DEF BucketMeter!Next
<1>9. QED
  BY <1>1, <1>2, <1>3, <1>4, <1>5, <1>6, <1>7, <1>8 DEF Next

-----------------------------------------------------------------------------
(* Theorems.                                                                *)

\* The inductive invariant: the types, the ages, the attempts and the lifetime.
IInv == TypeOK /\ AgesSound /\ AttemptsBounded /\ CountsExpire

\* Every step of the limiter, the lockout and the clocks keeps the invariant.
THEOREM Inductive == Spec => []IInv
<1>1. Init => IInv
  BY TypeInit, AgesInit, AttemptsInit DEF IInv, CountsExpire, Init
<1>2. IInv /\ [Next]_vars => IInv'
  BY TypeNext, AgesNext, AttemptsNext, LifetimeNext DEF IInv
<1>3. QED
  BY <1>1, <1>2, PTL DEF Spec

\* Every variable keeps to its type: a bucket never holds more than the most
\* generous tier's burst, and a key's age stays below its expiry (limiter.py).
THEOREM TypeCorrect == Spec => []TypeOK
<1>1. IInv => TypeOK
  BY DEF IInv
<1>2. QED
  BY <1>1, Inductive, PTL

\* A plan served from the cache was in force at most a TTL ago
\* (dependencies.py _plan_for_org).
THEOREM Fresh == Spec => []PlanStaleAtMostTTL
<1>1. IInv => PlanStaleAtMostTTL
  BY DEF IInv, AgesSound
<1>2. QED
  BY <1>1, Inductive, PTL

\* Clients that try an identity together overrun the threshold by one attempt
\* each (lockout.py assert_not_locked_out, record_login_failure).
THEOREM Bounded == Spec => []AttemptsBounded
<1>1. IInv => AttemptsBounded
  BY DEF IInv
<1>2. QED
  BY <1>1, Inductive, PTL

\* No identity has a count of failures that does not expire, a window after
\* the first of them at the latest (limiter.py _INCR_LUA).
THEOREM CountsExpireHolds == Spec => []CountsExpire
<1>1. IInv => CountsExpire
  BY DEF IInv
<1>2. QED
  BY <1>1, Inductive, PTL

\* However long an identity is tried, a lockout under way is never drawn out:
\* its lifetime can only run down (limiter.py _INCR_LUA).
THEOREM NeverExtendedHolds == Spec => NeverExtended
<1>1. IInv /\ [Next]_vars => [count > 0 /\ count' > 0 => left' <= left]_vars
  BY LifetimeNext DEF IInv
<1>2. QED
  BY <1>1, Inductive, PTL DEF Spec, NeverExtended

\* The bucket admits no more than a meter of the most generous tier
\* (limiter.py _BUCKET_LUA, hit).
THEOREM Refinement == Spec => ImplementsMeter
<1>1. Init => BucketMeter!Init
  BY MeterInit
<1>2. IInv /\ [Next]_vars => [BucketMeter!Next]_<<Level, Verdict>>
  BY MeterNext DEF IInv
<1>3. QED
  BY <1>1, <1>2, Inductive, PTL DEF Spec, ImplementsMeter, BucketMeter!Spec, Level, Verdict
=============================================================================
