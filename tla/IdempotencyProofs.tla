------------------------- MODULE IdempotencyProofs -------------------------
(***************************************************************************)
(* Proofs about Idempotency: type correctness for both kinds of database,  *)
(* and the promises of the middleware on a database that locks the row it  *)
(* inspects.                                                               *)
(***************************************************************************)
EXTENDS Idempotency, TLAPS

USE DEF Statuses

\* The row operators stay inside the row type.
LEMMA NewClaimType ==
    ASSUME TypeOK, NEW r \in Requests
    PROVE  NewClaim(r) \in Row
BY TimeAssumption DEF TypeOK, NewClaim, ExpiresAt, Row

\* Reclaiming a loaded row sets columns of the right types (store.py 137-145).
LEMMA ReclaimedType ==
    ASSUME TypeOK, NEW r \in Requests, NEW row \in Row
    PROVE  Reclaimed(row, r) \in Row
BY NewClaimType DEF Reclaimed, Row

\* So does a flush, whatever row it finds.
LEMMA FlushType ==
    ASSUME NEW row \in Row, NEW loaded \in Row, NEW target \in Row
    PROVE  Flush(row, loaded, target) \in Row
BY DEF Flush, Written, Row

\* A flush over the row that was loaded leaves what was set.
LEMMA FlushOfCurrent ==
    ASSUME NEW row \in Row, NEW target \in Row, target.id = row.id
    PROVE  Flush(row, row, target) = target
BY DEF Flush, Written, Row

\* Every variable has its type in every reachable state (the table's columns,
\* the session's loaded row and the answer sent, store.py and middleware.py).
LEMMA TypeStep == TypeOK /\ [Next]_vars => TypeOK'
<1> SUFFICES ASSUME TypeOK, [Next]_vars PROVE TypeOK'
  OBVIOUS
<1> USE TimeAssumption
<1> USE DEF KeyOf, GoTo, Answer, Load, Store
<1>1. ASSUME NEW r \in Requests, PassThrough(r) PROVE TypeOK'
  BY <1>1 DEF PassThrough, TypeOK, Said, Answers
<1>2. ASSUME NEW r \in Requests, Arrive(r) PROVE TypeOK'
  BY <1>2 DEF Arrive, TypeOK, Working, Claiming
<1>3. ASSUME NEW r \in Requests, InsertClaim(r) PROVE TypeOK'
  BY <1>3, NewClaimType DEF InsertClaim, TypeOK, Working, Claiming, Owning
<1>4. ASSUME NEW r \in Requests, InspectRefused(r) PROVE TypeOK'
  <2>1. rows[req[r].key] \in Row \cup {NoRow}
    BY DEF TypeOK
  <2>2. Refusal(rows[req[r].key], r) \in Answers
    BY <2>1 DEF Refusal, Said, Answers, Row
  <2>3. QED
    BY <1>4, <2>2 DEF InspectRefused, TypeOK
<1>5. ASSUME NEW r \in Requests, InspectExpired(r) PROVE TypeOK'
  <2>1. rows[req[r].key] \in Row
    BY <1>5 DEF InspectExpired, TypeOK
  <2>2. Reclaimed(rows[req[r].key], r) \in Row
    BY <2>1, ReclaimedType
  <2>3. QED
    BY <1>5, <2>1, <2>2 DEF InspectExpired, TypeOK, Working, Claiming, Owning
<1>6. ASSUME NEW r \in Requests, Reclaim(r) PROVE TypeOK'
  <2>1. CASE SameRow(rows[req[r].key], seen[r])
    <3>1. rows[req[r].key] \in Row /\ seen[r] \in Row
      BY <2>1 DEF SameRow, TypeOK
    <3>2. Flush(rows[req[r].key], seen[r], Reclaimed(seen[r], r)) \in Row
      BY <3>1, ReclaimedType, FlushType
    <3>3. QED
      BY <1>6, <2>1, <3>2 DEF Reclaim, TypeOK, Working, Owning
  <2>2. CASE ~SameRow(rows[req[r].key], seen[r])
    <3>1. Said("error") \in Answers
      BY DEF Said, Answers
    <3>2. QED
      BY <1>6, <2>2, <3>1 DEF Reclaim, TypeOK
  <2>3. QED
    BY <2>1, <2>2
<1>7. ASSUME NEW r \in Requests, NEW final \in BOOLEAN, HandlerReturns(r, final)
      PROVE TypeOK'
  <2>1. answer' \in [Requests -> Answers]
    BY <1>7 DEF HandlerReturns, TypeOK, Said, Answers
  <2>2. QED
    BY <1>7, <2>1 DEF HandlerReturns, TypeOK, Working, Owning
<1>8. ASSUME NEW r \in Requests, HandlerRaises(r) PROVE TypeOK'
  BY <1>8 DEF HandlerRaises, TypeOK, Working, Owning
<1>9. ASSUME NEW r \in Requests, CompleteLoad(r) PROVE TypeOK'
  BY <1>9 DEF CompleteLoad, TypeOK, Working, Owning
<1>10. ASSUME NEW r \in Requests, CompleteWrite(r) PROVE TypeOK'
  <2>1. CASE SameRow(rows[req[r].key], seen[r])
    <3>1. rows[req[r].key] \in Row /\ seen[r] \in Row
      BY <2>1 DEF SameRow, TypeOK
    <3>2. Completed(seen[r], r) \in Row
      BY <3>1 DEF Completed, Row
    <3>3. Flush(rows[req[r].key], seen[r], Completed(seen[r], r)) \in Row
      BY <3>1, <3>2, FlushType
    <3>4. QED
      BY <1>10, <2>1, <3>3 DEF CompleteWrite, TypeOK
  <2>2. CASE ~SameRow(rows[req[r].key], seen[r])
    BY <1>10, <2>2 DEF CompleteWrite, TypeOK
  <2>3. QED
    BY <2>1, <2>2
<1>11. ASSUME NEW r \in Requests, ReleaseLoad(r) PROVE TypeOK'
  <2>1. answer' \in [Requests -> Answers]
    BY <1>11 DEF ReleaseLoad, AnswerError, TypeOK, Said, Answers
  <2>2. QED
    BY <1>11, <2>1 DEF ReleaseLoad, AnswerError, TypeOK, Working, Owning
<1>12. ASSUME NEW r \in Requests, ReleaseDelete(r) PROVE TypeOK'
  <2>1. answer' \in [Requests -> Answers]
    BY <1>12 DEF ReleaseDelete, AnswerError, TypeOK, Said, Answers
  <2>2. QED
    BY <1>12, <2>1 DEF ReleaseDelete, TypeOK
<1>13. ASSUME NEW r \in Requests, Abandon(r) PROVE TypeOK'
  BY <1>13 DEF Abandon, TypeOK
<1>14. ASSUME Purge PROVE TypeOK'
  BY <1>14 DEF Purge, TypeOK
<1>15. ASSUME Tick PROVE TypeOK'
  BY <1>15 DEF Tick, TypeOK
<1>16. CASE UNCHANGED vars
  BY <1>16 DEF vars, TypeOK
<1>17. QED
  BY <1>1, <1>2, <1>3, <1>4, <1>5, <1>6, <1>7, <1>8, <1>9, <1>10, <1>11,
     <1>12, <1>13, <1>14, <1>15, <1>16 DEF Next, Step

\* An empty table and idle requests are well typed.
LEMMA TypeInit == Init => TypeOK
BY DEF Init, TypeOK, Said, Answers

\* On PostgreSQL and on SQLite alike, the columns of the table, the rows the
\* sessions have loaded and the answers sent keep their types.
THEOREM TypeCorrect == Spec => []TypeOK
<1>1. QED
  BY TypeInit, TypeStep, PTL DEF Spec

-----------------------------------------------------------------------------
(* The first window, on both kinds of database.                             *)

\* A request that was asked about stays so, and its key and expiry with it: no
\* handler moves the time a claim was made at (claim() reads _utcnow() once).
LEMMA AskedStays ==
    ASSUME TypeOK, [Next]_vars, NEW p \in Requests, Asked(p)
    PROVE  Asked(p)' /\ KeyOf(p)' = KeyOf(p) /\ ExpiresAt(p)' = ExpiresAt(p)
<1> USE DEF Asked, KeyOf, ExpiresAt, TypeOK, GoTo, Answer, Load, Store
<1>1. ASSUME NEW r \in Requests, PassThrough(r) \/ Arrive(r) \/ Abandon(r)
      PROVE  Asked(p)' /\ KeyOf(p)' = KeyOf(p) /\ ExpiresAt(p)' = ExpiresAt(p)
  BY <1>1 DEF PassThrough, Arrive, Abandon
<1>2. ASSUME NEW r \in Requests, InsertClaim(r) \/ InspectExpired(r) \/ Reclaim(r)
      PROVE  Asked(p)' /\ KeyOf(p)' = KeyOf(p) /\ ExpiresAt(p)' = ExpiresAt(p)
  BY <1>2 DEF InsertClaim, InspectExpired, Reclaim, Said
<1>3. ASSUME NEW r \in Requests, InspectRefused(r)
      PROVE  Asked(p)' /\ KeyOf(p)' = KeyOf(p) /\ ExpiresAt(p)' = ExpiresAt(p)
  BY <1>3 DEF InspectRefused, Refusal, Said
<1>4. ASSUME NEW r \in Requests,
             CompleteLoad(r) \/ CompleteWrite(r) \/ HandlerRaises(r)
      PROVE  Asked(p)' /\ KeyOf(p)' = KeyOf(p) /\ ExpiresAt(p)' = ExpiresAt(p)
  BY <1>4 DEF CompleteLoad, CompleteWrite, HandlerRaises
<1>5. ASSUME NEW r \in Requests, NEW final \in BOOLEAN, HandlerReturns(r, final)
      PROVE  Asked(p)' /\ KeyOf(p)' = KeyOf(p) /\ ExpiresAt(p)' = ExpiresAt(p)
  BY <1>5 DEF HandlerReturns, Said
<1>6. ASSUME NEW r \in Requests, ReleaseLoad(r) \/ ReleaseDelete(r)
      PROVE  Asked(p)' /\ KeyOf(p)' = KeyOf(p) /\ ExpiresAt(p)' = ExpiresAt(p)
  BY <1>6 DEF ReleaseLoad, ReleaseDelete, AnswerError, Said
<1>7. CASE Purge \/ Tick \/ UNCHANGED vars
  BY <1>7 DEF Purge, Tick, vars
<1>8. QED
  BY <1>1, <1>2, <1>3, <1>4, <1>5, <1>6, <1>7 DEF Next, Step

\* Time passes by ticks alone, and a request reads the clock when it arrives.
LEMMA TimeMoves ==
    ASSUME [Next]_vars
    PROVE  /\ UNCHANGED clock \/ Tick
           /\ UNCHANGED now \/ \E r \in Requests : Arrive(r)
<1>1. ASSUME NEW r \in Requests, PassThrough(r) \/ Abandon(r)
      PROVE  UNCHANGED clock /\ UNCHANGED now
  BY <1>1 DEF PassThrough, Abandon
<1>2. ASSUME NEW r \in Requests, Arrive(r) PROVE UNCHANGED clock
  BY <1>2 DEF Arrive
<1>3. ASSUME NEW r \in Requests, Step(r) PROVE UNCHANGED clock /\ UNCHANGED now
  BY <1>3 DEF Step, InsertClaim, InspectRefused, InspectExpired, Reclaim, HandlerReturns,
     HandlerRaises, CompleteLoad, CompleteWrite, ReleaseLoad, ReleaseDelete
<1>4. CASE Purge \/ UNCHANGED vars
  BY <1>4 DEF Purge, vars
<1>5. CASE Tick
  BY <1>5 DEF Tick
<1>6. QED
  BY <1>1, <1>2, <1>3, <1>4, <1>5 DEF Next

\* A request becomes an owner by its INSERT or by taking a row over, and is in
\* the middle of taking one over only after it inspected it.
LEMMA LabelMoves ==
    ASSUME TypeOK, [Next]_vars, NEW r \in Requests
    PROVE  /\ Owns(r)' => Owns(r) \/ InsertClaim(r) \/ InspectExpired(r) \/ Reclaim(r)
           /\ pc'[r] = "reclaiming" => pc[r] = "reclaiming" \/ InspectExpired(r)
<1> USE DEF TypeOK, GoTo, Owns, Owning
<1>1. ASSUME NEW q \in Requests, PassThrough(q) \/ Arrive(q) \/ Abandon(q)
      PROVE  (Owns(r)' => Owns(r)) /\ (pc'[r] = "reclaiming" => pc[r] = "reclaiming")
  BY <1>1 DEF PassThrough, Arrive, Abandon
<1>2. ASSUME NEW q \in Requests,
             InsertClaim(q) \/ InspectRefused(q) \/ InspectExpired(q) \/ Reclaim(q)
      PROVE  /\ Owns(r)' => Owns(r) \/ (q = r /\ ~ InspectRefused(q))
             /\ pc'[r] = "reclaiming" => pc[r] = "reclaiming" \/ (q = r /\ InspectExpired(q))
  BY <1>2 DEF InsertClaim, InspectRefused, InspectExpired, Reclaim
<1>3. ASSUME NEW q \in Requests,
             \/ HandlerRaises(q) \/ CompleteLoad(q) \/ CompleteWrite(q)
             \/ ReleaseLoad(q) \/ ReleaseDelete(q)
             \/ \E final \in BOOLEAN : HandlerReturns(q, final)
      PROVE  (Owns(r)' => Owns(r)) /\ (pc'[r] = "reclaiming" => pc[r] = "reclaiming")
  BY <1>3 DEF HandlerReturns, HandlerRaises, CompleteLoad, CompleteWrite, ReleaseLoad,
     ReleaseDelete
<1>4. CASE Purge \/ Tick \/ UNCHANGED vars
  BY <1>4 DEF Purge, Tick, vars
<1>5. QED
  BY <1>1, <1>2, <1>3, <1>4 DEF Next, Step

\* The clock does not run back, so a key that left its first window never
\* enters it again.
LEMMA WindowCloses ==
    ASSUME TypeOK, TypeOK', [Next]_vars, NEW k \in Keys, ~ Fresh(k)
    PROVE  ~ Fresh(k)'
<1>1. PICK p \in Requests : Asked(p) /\ KeyOf(p) = k /\ ExpiresAt(p) <= clock
  BY DEF Fresh
<1>2. Asked(p)' /\ KeyOf(p)' = k /\ ExpiresAt(p)' = ExpiresAt(p)
  BY <1>1, AskedStays
<1>3. clock <= clock'
  BY TimeMoves DEF Tick, TypeOK
<1>4. ExpiresAt(p) \in Nat
  BY TimeAssumption DEF ExpiresAt, TypeOK
<1>5. ExpiresAt(p)' <= clock'
  BY <1>1, <1>2, <1>3, <1>4 DEF TypeOK
<1>6. QED
  BY <1>2, <1>5 DEF Fresh

\* A row that is there after a step was there before it, with its id and its
\* expiry, or a claim or a reclaim has just dated it (the columns store.py
\* assigns; complete() leaves both alone).
LEMMA RowChange ==
    ASSUME TypeOK, PassedAreDone, [Next]_vars, NEW k \in Keys, rows'[k] # NoRow
    PROVE  \/ /\ rows[k] # NoRow
              /\ rows'[k].id = rows[k].id
              /\ rows'[k].expires = rows[k].expires
           \/ \E r \in Requests :
                 /\ Asked(r) /\ KeyOf(r) = k /\ rows'[k].expires = ExpiresAt(r)
                 /\ InsertClaim(r) \/ InspectExpired(r) \/ Reclaim(r)
<1> DEFINE Kept == /\ rows[k] # NoRow
                   /\ rows'[k].id = rows[k].id
                   /\ rows'[k].expires = rows[k].expires
<1> USE DEF TypeOK, PassedAreDone, Asked, KeyOf, Store
<1>1. CASE UNCHANGED rows
  BY <1>1
<1>2. ASSUME NEW r \in Requests, InsertClaim(r)
      PROVE  Kept \/ (Asked(r) /\ KeyOf(r) = k /\ rows'[k].expires = ExpiresAt(r))
  BY <1>2 DEF InsertClaim, NewClaim
<1>3. ASSUME NEW r \in Requests, InspectExpired(r)
      PROVE  Kept \/ (Asked(r) /\ KeyOf(r) = k /\ rows'[k].expires = ExpiresAt(r))
  <2>1. rows[KeyOf(r)] \in Row /\ Reclaimed(rows[KeyOf(r)], r).expires = ExpiresAt(r)
    BY <1>3 DEF InspectExpired, Reclaimed, NewClaim
  <2>2. QED
    BY <1>3, <2>1 DEF InspectExpired
<1>4. ASSUME NEW r \in Requests, Reclaim(r)
      PROVE  Kept \/ (Asked(r) /\ KeyOf(r) = k /\ rows'[k].expires = ExpiresAt(r))
  <2>1. CASE SameRow(rows[KeyOf(r)], seen[r]) /\ KeyOf(r) = k
    <3>1. /\ rows[k] \in Row /\ seen[r] \in Row
          /\ rows'[k] = Flush(rows[k], seen[r], Reclaimed(seen[r], r))
      BY <1>4, <2>1 DEF Reclaim, SameRow
    <3>2. /\ rows'[k].id = rows[k].id
          /\ rows'[k].expires = Written(rows[k].expires, seen[r].expires, ExpiresAt(r))
      BY <3>1 DEF Flush, Reclaimed, NewClaim, Row
    <3>3. QED
      BY <1>4, <2>1, <3>1, <3>2, NoRowAssumption DEF Written, Reclaim
  <2>2. CASE ~(SameRow(rows[KeyOf(r)], seen[r]) /\ KeyOf(r) = k)
    BY <1>4, <2>2 DEF Reclaim
  <2>3. QED
    BY <2>1, <2>2
<1>5. ASSUME NEW r \in Requests, CompleteWrite(r) PROVE Kept
  <2>1. CASE SameRow(rows[KeyOf(r)], seen[r]) /\ KeyOf(r) = k
    <3>1. /\ rows[k] \in Row /\ seen[r] \in Row
          /\ rows'[k] = Flush(rows[k], seen[r], Completed(seen[r], r))
      BY <1>5, <2>1 DEF CompleteWrite, SameRow
    <3>2. rows'[k].id = rows[k].id /\ rows'[k].expires = rows[k].expires
      BY <3>1 DEF Flush, Completed, Written, Row
    <3>3. QED
      BY <3>1, <3>2, NoRowAssumption
  <2>2. CASE ~(SameRow(rows[KeyOf(r)], seen[r]) /\ KeyOf(r) = k)
    BY <1>5, <2>2 DEF CompleteWrite
  <2>3. QED
    BY <2>1, <2>2
<1>6. ASSUME NEW r \in Requests, ReleaseDelete(r) PROVE Kept
  BY <1>6 DEF ReleaseDelete
<1>7. CASE Purge
  BY <1>7 DEF Purge
<1>8. ASSUME NEW r \in Requests,
             \/ PassThrough(r) \/ Arrive(r) \/ Abandon(r) \/ InspectRefused(r)
             \/ HandlerRaises(r) \/ CompleteLoad(r) \/ ReleaseLoad(r)
             \/ \E final \in BOOLEAN : HandlerReturns(r, final)
      PROVE  UNCHANGED rows
  BY <1>8 DEF PassThrough, Arrive, Abandon, InspectRefused, HandlerRaises,
     CompleteLoad, ReleaseLoad, HandlerReturns
<1>9. CASE Tick \/ UNCHANGED vars
  BY <1>9 DEF Tick, vars
<1>10. QED
  BY <1>1, <1>2, <1>3, <1>4, <1>5, <1>6, <1>7, <1>8, <1>9 DEF Next, Step

\* A row whose expiry has come is one whose key left its first window.
LEMMA ExpiredIsLate ==
    ASSUME RowsDated, NEW k \in Keys, rows[k] # NoRow, rows[k].expires <= clock
    PROVE  ~ Fresh(k)
BY DEF RowsDated, Fresh

\* Nobody but an owner who lets go deletes or replaces an owner's row in the
\* first window: the purge and the reclaims come after an expiry, and an INSERT
\* is refused.
LEMMA WindowStep == WindowInv /\ [Next]_vars => WindowInv'
<1> SUFFICES ASSUME WindowInv, [Next]_vars PROVE WindowInv'
  OBVIOUS
<1> USE DEF WindowInv
<1>0. TypeOK'
  BY TypeStep
<1>k. \A r \in Requests : KeyOf(r) \in Keys /\ KeyOf(r)' = KeyOf(r)
  BY DEF TypeOK, KeyOf, Next, Step, PassThrough, Arrive, Abandon, InsertClaim,
     InspectRefused, InspectExpired, Reclaim, HandlerReturns, HandlerRaises,
     CompleteLoad, CompleteWrite, ReleaseLoad, ReleaseDelete, Purge, Tick, vars
<1>f. \A k \in Keys : Fresh(k)' => Fresh(k)
  BY <1>0, WindowCloses
<1>l. ASSUME NEW r \in Requests, InspectExpired(r)
      PROVE  ~ Fresh(KeyOf(r))
  <2>1. rows[KeyOf(r)] # NoRow /\ rows[KeyOf(r)].expires <= now[r]
    BY <1>l DEF InspectExpired
  <2>2. rows[KeyOf(r)].expires \in Nat /\ now[r] \in Nat /\ clock \in Nat /\ now[r] <= clock
    BY <1>k, <2>1 DEF TypeOK, Row, ClockWasRead
  <2>3. rows[KeyOf(r)].expires <= clock
    BY <2>1, <2>2
  <2>4. QED
    BY <1>k, <2>1, <2>3, ExpiredIsLate
<1>1. ClockWasRead'
  BY TimeMoves DEF ClockWasRead, TypeOK, Arrive, Tick
<1>2. PassedAreDone'
  <2>1. ASSUME NEW r \in Requests, PassThrough(r) \/ Arrive(r) \/ Abandon(r)
        PROVE  PassedAreDone'
    BY <2>1 DEF PassThrough, Arrive, Abandon, GoTo, Answer, TypeOK, PassedAreDone
  <2>2. ASSUME NEW r \in Requests,
               InsertClaim(r) \/ InspectRefused(r) \/ InspectExpired(r) \/ Reclaim(r)
        PROVE  PassedAreDone'
    BY <2>2 DEF InsertClaim, InspectRefused, InspectExpired, Reclaim, GoTo, Answer, TypeOK,
       PassedAreDone
  <2>3. ASSUME NEW r \in Requests,
               \/ HandlerRaises(r) \/ \E final \in BOOLEAN : HandlerReturns(r, final)
        PROVE  PassedAreDone'
    BY <2>3 DEF HandlerReturns, HandlerRaises, GoTo, Answer, Said, TypeOK, PassedAreDone
  <2>4. ASSUME NEW r \in Requests,
               CompleteLoad(r) \/ CompleteWrite(r) \/ ReleaseLoad(r) \/ ReleaseDelete(r)
        PROVE  PassedAreDone'
    BY <2>4 DEF CompleteLoad, CompleteWrite, ReleaseLoad, ReleaseDelete, AnswerError, GoTo,
       Answer, Said, TypeOK, PassedAreDone
  <2>5. CASE Purge \/ Tick \/ UNCHANGED vars
    BY <2>5 DEF Purge, Tick, vars, PassedAreDone
  <2>6. QED
    BY <2>1, <2>2, <2>3, <2>4, <2>5 DEF Next, Step
<1>3. RowsDated'
  <2> SUFFICES ASSUME NEW k \in Keys, rows'[k] # NoRow
               PROVE  \E p \in Requests :
                         Asked(p)' /\ KeyOf(p)' = k /\ ExpiresAt(p)' = rows'[k].expires
    BY DEF RowsDated
  <2>1. \E p \in Requests : Asked(p) /\ KeyOf(p) = k /\ ExpiresAt(p) = rows'[k].expires
    BY RowChange DEF RowsDated
  <2>2. QED
    BY <2>1, AskedStays
<1>4. ReclaimsAreLate'
  <2> SUFFICES ASSUME NEW r \in Requests, pc'[r] = "reclaiming"
               PROVE  ~ Fresh(KeyOf(r))
    BY <1>f, <1>k DEF ReclaimsAreLate
  <2>1. pc[r] = "reclaiming" \/ InspectExpired(r)
    BY LabelMoves
  <2>2. QED
    BY <1>l, <2>1 DEF ReclaimsAreLate
<1>5. OwnerInserted'
  <2> SUFFICES ASSUME NEW r \in Requests, Owns(r)', Fresh(KeyOf(r))'
               PROVE  rows'[KeyOf(r)] # NoRow /\ rows'[KeyOf(r)].id = r
    BY <1>k DEF OwnerInserted
  <2>1. Fresh(KeyOf(r))
    BY <1>f, <1>k
  <2>2. \A q \in Requests : KeyOf(q) = KeyOf(r) => ~ InspectExpired(q) /\ ~ Reclaim(q)
    BY <1>l, <2>1 DEF ReclaimsAreLate, Reclaim
  <2>3. CASE Owns(r)
    <3>1. rows[KeyOf(r)] # NoRow /\ rows[KeyOf(r)].id = r
      BY <2>1, <2>3 DEF OwnerInserted
    <3>2. rows'[KeyOf(r)] # NoRow
      <4>1. ~ (rows[KeyOf(r)].expires <= clock)
        BY <1>k, <2>1, <3>1, ExpiredIsLate
      <4>2. ASSUME Purge PROVE rows'[KeyOf(r)] # NoRow
        BY <1>k, <3>1, <4>1, <4>2 DEF Purge
      <4>3. ASSUME NEW q \in Requests, ReleaseDelete(q) PROVE rows'[KeyOf(r)] # NoRow
        <5>1. q # r
          BY <4>3 DEF ReleaseDelete, GoTo, TypeOK, Owns, Owning
        <5>2. Owns(q)
          BY <4>3 DEF ReleaseDelete, Owns, Owning
        <5>3. KeyOf(q) # KeyOf(r)
          BY <2>1, <3>1, <5>1, <5>2 DEF OwnerInserted
        <5>4. QED
          BY <1>k, <3>1, <4>3, <5>3 DEF ReleaseDelete, Store, TypeOK
      <4>4. ASSUME NEW q \in Requests, InsertClaim(q) PROVE rows'[KeyOf(r)] # NoRow
        BY <1>k, <3>1, <4>4 DEF InsertClaim, Store, TypeOK
      <4>5. ASSUME NEW q \in Requests, InspectExpired(q) \/ Reclaim(q)
            PROVE  rows'[KeyOf(r)] # NoRow
        BY <1>k, <2>2, <3>1, <4>5 DEF InspectExpired, Reclaim, Store, TypeOK
      <4>6. ASSUME NEW q \in Requests, CompleteWrite(q) PROVE rows'[KeyOf(r)] # NoRow
        <5>1. CASE SameRow(rows[KeyOf(q)], seen[q]) /\ KeyOf(q) = KeyOf(r)
          <6>1. rows[KeyOf(q)] \in Row /\ seen[q] \in Row
            BY <1>k, <5>1 DEF TypeOK, SameRow
          <6>2. Completed(seen[q], q) \in Row
            BY <6>1 DEF Completed, Row
          <6>3. Flush(rows[KeyOf(q)], seen[q], Completed(seen[q], q)) \in Row
            BY <6>1, <6>2, FlushType
          <6>4. QED
            BY <1>k, <4>6, <5>1, <6>3, NoRowAssumption DEF CompleteWrite, Store, TypeOK
        <5>2. CASE ~ (SameRow(rows[KeyOf(q)], seen[q]) /\ KeyOf(q) = KeyOf(r))
          BY <1>k, <3>1, <4>6, <5>2 DEF CompleteWrite, Store, TypeOK
        <5>3. QED
          BY <5>1, <5>2
      <4>7. CASE UNCHANGED rows
        BY <3>1, <4>7
      <4>8. QED
        BY <4>2, <4>3, <4>4, <4>5, <4>6, <4>7 DEF Next, Step, PassThrough, Arrive, Abandon,
           InspectRefused, HandlerReturns, HandlerRaises, CompleteLoad, ReleaseLoad, Tick,
           vars
    <3>3. \/ rows'[KeyOf(r)].id = rows[KeyOf(r)].id
          \/ \E q \in Requests : KeyOf(q) = KeyOf(r) /\ InsertClaim(q)
      BY <1>k, <2>2, <3>2, RowChange
    <3>4. ASSUME NEW q \in Requests, KeyOf(q) = KeyOf(r), InsertClaim(q)
          PROVE  rows'[KeyOf(r)].id = rows[KeyOf(r)].id
      BY <3>1, <3>4 DEF InsertClaim
    <3>5. QED
      BY <3>1, <3>2, <3>3, <3>4
  <2>4. CASE ~ Owns(r)
    <3>1. InsertClaim(r) \/ InspectExpired(r) \/ Reclaim(r)
      BY <2>4, LabelMoves
    <3>2. InsertClaim(r)
      BY <2>2, <3>1
    <3>3. rows[KeyOf(r)] = NoRow
      BY <2>4, <3>2 DEF InsertClaim, GoTo, TypeOK, Owns, Owning
    <3>4. rows'[KeyOf(r)] = NewClaim(r)
      BY <1>k, <3>2, <3>3 DEF InsertClaim, Store, TypeOK
    <3>5. NewClaim(r) # NoRow /\ NewClaim(r).id = r
      BY NewClaimType, NoRowAssumption DEF NewClaim
    <3>6. QED
      BY <3>4, <3>5
  <2>5. QED
    BY <2>3, <2>4
<1>6. QED
  BY <1>0, <1>1, <1>2, <1>3, <1>4, <1>5

\* An empty table has no row to date and no owner.
LEMMA WindowInit == Init => WindowInv
BY TypeInit DEF Init, WindowInv, ClockWasRead, PassedAreDone, RowsDated, OwnerInserted,
   ReclaimsAreLate, Owns, Owning, Said

\* What the first window rests on holds on both kinds of database.
LEMMA WindowInvariant == Spec => []WindowInv
BY WindowInit, WindowStep, PTL DEF Spec

\* With or without FOR UPDATE, two requests of one key never own it together
\* before the first expiry on that key: the INSERT and the UNIQUE constraint
\* decide (store.py, claim()).
THEOREM FirstWindowExclusiveHolds == Spec => []FirstWindowExclusive
<1>1. WindowInv => FirstWindowExclusive
  BY DEF WindowInv, OwnerInserted, FirstWindowExclusive
<1>2. QED
  BY <1>1, WindowInvariant, PTL

\* On both kinds of database every row expires within one ttl from now, so that
\* a claim nobody will finish cannot hold its key longer (store.py, claim()).
THEOREM ClaimsExpireHolds == Spec => []ClaimsExpire
<1>1. ASSUME WindowInv, NEW k \in Keys, rows[k] # NoRow
      PROVE  rows[k].expires <= clock + TTL
  <2>1. PICK p \in Requests : ExpiresAt(p) = rows[k].expires
    BY <1>1 DEF WindowInv, RowsDated
  <2>2. now[p] <= clock /\ now[p] \in Nat /\ clock \in Nat
    BY <1>1 DEF WindowInv, ClockWasRead, TypeOK
  <2>3. QED
    BY <2>1, <2>2, TimeAssumption DEF ExpiresAt
<1>2. WindowInv => ClaimsExpire
  BY <1>1 DEF ClaimsExpire
<1>3. QED
  BY <1>2, WindowInvariant, PTL

-----------------------------------------------------------------------------
(* Every action keeps the invariant, on a database that locks the row it    *)
(* inspects.  The steps are the conjuncts of IInv in their order.           *)

\* Requests the store never sees disturb nothing.
LEMMA PassThroughStep ==
    ASSUME RowLocks = TRUE, IInv, NEW r \in Requests, PassThrough(r)
    PROVE  IInv'
<1> USE TimeAssumption
<1> USE DEF IInv, KeyOf, ExpiresAt, GoTo, Answer, Load, Store, Owns, Working, Claiming, Owning,
            Untroubled, OverdueOn, Finished, Said
<1>0. TypeOK'
  BY TypeStep DEF Next, Step
<1>1. InTime'
  BY DEF PassThrough, TypeOK, InTime
<1>2. AnswerFits'
  BY DEF PassThrough, TypeOK, AnswerFits
<1>3. OwnerHoldsRow'
  BY DEF PassThrough, TypeOK, OwnerHoldsRow, SingleOwner, InTime, AnswerFits
<1>4. SingleOwner'
  BY DEF PassThrough, TypeOK, SingleOwner, OwnerHoldsRow, InTime
<1>5. FinishedHoldsRow'
  BY DEF PassThrough, TypeOK, FinishedHoldsRow, AnswerFits, OwnerHoldsRow, FinishedExcludesOwners, InTime
<1>6. FinishedExcludesOwners'
  BY DEF PassThrough, TypeOK, FinishedExcludesOwners, FinishedHoldsRow, SingleOwner, AnswerFits, InTime
<1>7. CachedIsFinal'
  BY DEF PassThrough, TypeOK, CachedIsFinal, AnswerFits, OwnerHoldsRow, InTime
<1>8. ReplayFaithful'
  BY DEF PassThrough, TypeOK, ReplayFaithful, AnswerFits, CachedIsFinal, ReplayIsOfSameRequest
<1>9. NeverReclaiming'
  BY DEF PassThrough, TypeOK, NeverReclaiming
<1>10. QED
  BY <1>0, <1>1, <1>2, <1>3, <1>4, <1>5, <1>6, <1>7, <1>8, <1>9

\* A request that reads the clock is in time: its claim is not made yet.
LEMMA ArriveStep ==
    ASSUME RowLocks = TRUE, IInv, NEW r \in Requests, Arrive(r)
    PROVE  IInv'
<1> USE TimeAssumption
<1> USE DEF IInv, KeyOf, ExpiresAt, GoTo, Answer, Load, Store, Owns, Working, Claiming, Owning,
            Untroubled, OverdueOn, Finished, Said
<1>0. TypeOK'
  BY TypeStep DEF Next, Step
<1>1. InTime'
  BY DEF Arrive, TypeOK, InTime
<1>2. AnswerFits'
  BY DEF Arrive, TypeOK, AnswerFits
<1>3. OwnerHoldsRow'
  BY DEF Arrive, TypeOK, OwnerHoldsRow, SingleOwner, InTime, AnswerFits
<1>4. SingleOwner'
  BY DEF Arrive, TypeOK, SingleOwner, OwnerHoldsRow, InTime
<1>5. FinishedHoldsRow'
  BY DEF Arrive, TypeOK, FinishedHoldsRow, AnswerFits, OwnerHoldsRow, FinishedExcludesOwners, InTime
<1>6. FinishedExcludesOwners'
  BY DEF Arrive, TypeOK, FinishedExcludesOwners, FinishedHoldsRow, SingleOwner, AnswerFits, InTime
<1>7. CachedIsFinal'
  BY DEF Arrive, TypeOK, CachedIsFinal, AnswerFits, OwnerHoldsRow, InTime
<1>8. ReplayFaithful'
  BY DEF Arrive, TypeOK, ReplayFaithful, AnswerFits, CachedIsFinal, ReplayIsOfSameRequest
<1>9. NeverReclaiming'
  BY DEF Arrive, TypeOK, NeverReclaiming
<1>10. QED
  BY <1>0, <1>1, <1>2, <1>3, <1>4, <1>5, <1>6, <1>7, <1>8, <1>9

\* An INSERT that wins makes an owner where there was none.
LEMMA InsertClaimStep ==
    ASSUME RowLocks = TRUE, IInv, NEW r \in Requests, InsertClaim(r)
    PROVE  IInv'
<1> USE TimeAssumption
<1> USE DEF IInv, KeyOf, ExpiresAt, GoTo, Answer, Load, Store, Owns, Working, Claiming, Owning,
            Untroubled, OverdueOn, Finished, Said
<1>0. TypeOK'
  BY TypeStep DEF Next, Step
<1>1. InTime'
  BY DEF InsertClaim, NewClaim, Row, TypeOK, InTime
<1>2. AnswerFits'
  BY DEF InsertClaim, NewClaim, Row, TypeOK, AnswerFits
<1>3. OwnerHoldsRow'
  <2>1. CASE rows[KeyOf(r)] = NoRow
    <3>1. rows' = [rows EXCEPT ![KeyOf(r)] = NewClaim(r)] /\ NewClaim(r) # NoRow
      BY <2>1, NewClaimType, NoRowAssumption DEF InsertClaim
    <3>2. ASSUME NEW q \in Requests, Owns(q)', Untroubled(KeyOf(q))'
          PROVE  q = r \/ KeyOf(q) # KeyOf(r)
      BY <2>1, <3>2 DEF InsertClaim, TypeOK, OwnerHoldsRow
    <3>3. QED
      BY <2>1, <3>1, <3>2 DEF InsertClaim, NewClaim, TypeOK, OwnerHoldsRow
  <2>2. CASE rows[KeyOf(r)] # NoRow
    BY <2>2 DEF InsertClaim, TypeOK, OwnerHoldsRow
  <2>3. QED
    BY <2>1, <2>2
<1>4. SingleOwner'
  BY DEF InsertClaim, NewClaim, Row, TypeOK, SingleOwner, OwnerHoldsRow, InTime
<1>5. FinishedHoldsRow'
  BY DEF InsertClaim, NewClaim, Row, TypeOK, FinishedHoldsRow, AnswerFits, OwnerHoldsRow, FinishedExcludesOwners, InTime
<1>6. FinishedExcludesOwners'
  BY DEF InsertClaim, NewClaim, Row, TypeOK, FinishedExcludesOwners, FinishedHoldsRow, SingleOwner, AnswerFits, InTime
<1>7. CachedIsFinal'
  <2>1. ASSUME NEW k \in Keys, rows'[k] # NoRow, rows'[k].status = "completed"
        PROVE  rows'[k] = rows[k]
    BY <2>1 DEF InsertClaim, NewClaim, TypeOK
  <2>2. QED
    BY <1>0, <2>1 DEF InsertClaim, CachedIsFinal
<1>8. ReplayFaithful'
  BY DEF InsertClaim, NewClaim, Row, TypeOK, ReplayFaithful, AnswerFits, CachedIsFinal, ReplayIsOfSameRequest
<1>9. NeverReclaiming'
  BY DEF InsertClaim, NewClaim, Row, TypeOK, NeverReclaiming
<1>10. QED
  BY <1>0, <1>1, <1>2, <1>3, <1>4, <1>5, <1>6, <1>7, <1>8, <1>9

\* A duplicate is told what the row says, and a cached row says it truly.
LEMMA InspectRefusedStep ==
    ASSUME RowLocks = TRUE, IInv, NEW r \in Requests, InspectRefused(r)
    PROVE  IInv'
<1> USE TimeAssumption
<1> USE DEF IInv, KeyOf, ExpiresAt, GoTo, Answer, Load, Store, Owns, Working, Claiming, Owning,
            Untroubled, OverdueOn, Finished, Said
<1>0. TypeOK'
  BY TypeStep DEF Next, Step
<1>1. InTime'
  BY DEF InspectRefused, Refusal, TypeOK, InTime
<1>2. AnswerFits'
  BY DEF InspectRefused, Refusal, TypeOK, AnswerFits
<1>3. OwnerHoldsRow'
  BY DEF InspectRefused, Refusal, TypeOK, OwnerHoldsRow, SingleOwner, InTime, AnswerFits
<1>4. SingleOwner'
  BY DEF InspectRefused, Refusal, TypeOK, SingleOwner, OwnerHoldsRow, InTime
<1>5. FinishedHoldsRow'
  BY DEF InspectRefused, Refusal, TypeOK, FinishedHoldsRow, AnswerFits, OwnerHoldsRow, FinishedExcludesOwners, InTime
<1>6. FinishedExcludesOwners'
  BY DEF InspectRefused, Refusal, TypeOK, FinishedExcludesOwners, FinishedHoldsRow, SingleOwner, AnswerFits, InTime
<1>7. CachedIsFinal'
  BY DEF InspectRefused, Refusal, TypeOK, CachedIsFinal, AnswerFits, OwnerHoldsRow, InTime
<1>8. ReplayFaithful'
  <2>1. ASSUME NEW q \in Requests, Untroubled(KeyOf(q))', answer'[q].kind = "replay"
        PROVE  answer'[q].by # None /\ Finished(answer'[q].by) /\ req[answer'[q].by] = req[q]
    <3>1. CASE q = r
      <4>1. answer'[r] = Refusal(rows[KeyOf(r)], r)
        BY DEF InspectRefused, TypeOK
      <4>2. /\ rows[KeyOf(r)] # NoRow
            /\ rows[KeyOf(r)].hash = req[r].hash
            /\ rows[KeyOf(r)].status = "completed"
            /\ answer'[r].by = rows[KeyOf(r)].response
        BY <2>1, <3>1, <4>1 DEF Refusal
      <4>3. req[r] = [key |-> KeyOf(r), hash |-> req[r].hash]
        BY DEF TypeOK
      <4>4. KeyOf(r) \in Keys
        BY DEF TypeOK
      <4>5. QED
        BY <2>1, <3>1, <4>2, <4>3, <4>4 DEF InspectRefused, CachedIsFinal
    <3>2. CASE q # r
      BY <2>1, <3>2 DEF InspectRefused, TypeOK, ReplayFaithful, ReplayIsOfSameRequest
    <3>3. QED
      BY <3>1, <3>2
  <2>2. ASSUME NEW p \in Requests, Finished(p)
        PROVE  Finished(p)'
    BY <2>2 DEF InspectRefused, TypeOK, AnswerFits
  <2>3. \A q \in Requests : answer'[q].by # None => answer'[q].by \in Requests
    BY <1>0 DEF TypeOK, Answers
  <2>4. QED
    BY <2>1, <2>2, <2>3 DEF InspectRefused, ReplayFaithful, ReplayIsOfSameRequest
<1>9. NeverReclaiming'
  BY DEF InspectRefused, Refusal, TypeOK, NeverReclaiming
<1>10. QED
  BY <1>0, <1>1, <1>2, <1>3, <1>4, <1>5, <1>6, <1>7, <1>8, <1>9

\* A claim is taken over only from a row whose owner is gone.
LEMMA InspectExpiredStep ==
    ASSUME RowLocks = TRUE, IInv, NEW r \in Requests, InspectExpired(r)
    PROVE  IInv'
<1> USE TimeAssumption
<1> USE DEF IInv, KeyOf, ExpiresAt, GoTo, Answer, Load, Store, Owns, Working, Claiming, Owning,
            Untroubled, OverdueOn, Finished, Said
<1>0. TypeOK'
  BY TypeStep DEF Next, Step
<1>1. InTime'
  BY DEF InspectExpired, Reclaimed, NewClaim, TypeOK, InTime
<1>2. AnswerFits'
  BY DEF InspectExpired, Reclaimed, NewClaim, TypeOK, AnswerFits
<1>3. OwnerHoldsRow'
  <2>1. rows[KeyOf(r)] \in Row /\ rows[KeyOf(r)].expires <= clock
    BY DEF InspectExpired, TypeOK, InTime, Row
  <2>2. /\ rows' = [rows EXCEPT ![KeyOf(r)] = Reclaimed(rows[KeyOf(r)], r)]
        /\ Reclaimed(rows[KeyOf(r)], r) # NoRow
    BY <2>1, ReclaimedType, NoRowAssumption DEF InspectExpired
  <2>3. ASSUME NEW q \in Requests, Owns(q)', Untroubled(KeyOf(q))'
        PROVE  q = r \/ KeyOf(q) # KeyOf(r)
    BY <2>1, <2>3 DEF InspectExpired, TypeOK, OwnerHoldsRow, InTime
  <2>4. QED
    BY <2>2, <2>3 DEF InspectExpired, Reclaimed, NewClaim, TypeOK, OwnerHoldsRow
<1>4. SingleOwner'
  BY DEF InspectExpired, Reclaimed, NewClaim, TypeOK, SingleOwner, OwnerHoldsRow, InTime
<1>5. FinishedHoldsRow'
  BY DEF InspectExpired, Reclaimed, NewClaim, TypeOK, FinishedHoldsRow, AnswerFits, OwnerHoldsRow, FinishedExcludesOwners, InTime
<1>6. FinishedExcludesOwners'
  BY DEF InspectExpired, Reclaimed, NewClaim, TypeOK, FinishedExcludesOwners, FinishedHoldsRow, SingleOwner, AnswerFits, InTime
<1>7. CachedIsFinal'
  BY DEF InspectExpired, Reclaimed, NewClaim, TypeOK, CachedIsFinal, AnswerFits, OwnerHoldsRow, InTime
<1>8. ReplayFaithful'
  BY DEF InspectExpired, Reclaimed, NewClaim, TypeOK, ReplayFaithful, AnswerFits, CachedIsFinal, ReplayIsOfSameRequest
<1>9. NeverReclaiming'
  BY DEF InspectExpired, Reclaimed, NewClaim, TypeOK, NeverReclaiming
<1>10. QED
  BY <1>0, <1>1, <1>2, <1>3, <1>4, <1>5, <1>6, <1>7, <1>8, <1>9

\* The only owner finishes: no other final answer of the key is in force.
LEMMA HandlerReturnsStep ==
    ASSUME RowLocks = TRUE, IInv, NEW r \in Requests, NEW final \in BOOLEAN, HandlerReturns(r, final)
    PROVE  IInv'
<1> USE TimeAssumption
<1> USE DEF IInv, KeyOf, ExpiresAt, GoTo, Answer, Load, Store, Owns, Working, Claiming, Owning,
            Untroubled, OverdueOn, Finished, Said
<1>0. TypeOK'
  BY TypeStep DEF Next, Step
<1>1. InTime'
  BY DEF HandlerReturns, TypeOK, InTime
<1>2. AnswerFits'
  BY DEF HandlerReturns, TypeOK, AnswerFits
<1>3. OwnerHoldsRow'
  BY DEF HandlerReturns, TypeOK, OwnerHoldsRow, SingleOwner, InTime, AnswerFits
<1>4. SingleOwner'
  BY DEF HandlerReturns, TypeOK, SingleOwner, OwnerHoldsRow, InTime
<1>5. FinishedHoldsRow'
  BY DEF HandlerReturns, TypeOK, FinishedHoldsRow, AnswerFits, OwnerHoldsRow, FinishedExcludesOwners, InTime
<1>6. FinishedExcludesOwners'
  BY DEF HandlerReturns, TypeOK, FinishedExcludesOwners, FinishedHoldsRow, SingleOwner, AnswerFits, InTime
<1>7. CachedIsFinal'
  BY DEF HandlerReturns, TypeOK, CachedIsFinal, AnswerFits, OwnerHoldsRow, InTime
<1>8. ReplayFaithful'
  BY DEF HandlerReturns, TypeOK, ReplayFaithful, AnswerFits, CachedIsFinal, ReplayIsOfSameRequest
<1>9. NeverReclaiming'
  BY DEF HandlerReturns, TypeOK, NeverReclaiming
<1>10. QED
  BY <1>0, <1>1, <1>2, <1>3, <1>4, <1>5, <1>6, <1>7, <1>8, <1>9

\* A handler that raises has told its client nothing.
LEMMA HandlerRaisesStep ==
    ASSUME RowLocks = TRUE, IInv, NEW r \in Requests, HandlerRaises(r)
    PROVE  IInv'
<1> USE TimeAssumption
<1> USE DEF IInv, KeyOf, ExpiresAt, GoTo, Answer, Load, Store, Owns, Working, Claiming, Owning,
            Untroubled, OverdueOn, Finished, Said
<1>0. TypeOK'
  BY TypeStep DEF Next, Step
<1>1. InTime'
  BY DEF HandlerRaises, TypeOK, InTime
<1>2. AnswerFits'
  BY DEF HandlerRaises, TypeOK, AnswerFits
<1>3. OwnerHoldsRow'
  BY DEF HandlerRaises, TypeOK, OwnerHoldsRow, SingleOwner, InTime, AnswerFits
<1>4. SingleOwner'
  BY DEF HandlerRaises, TypeOK, SingleOwner, OwnerHoldsRow, InTime
<1>5. FinishedHoldsRow'
  BY DEF HandlerRaises, TypeOK, FinishedHoldsRow, AnswerFits, OwnerHoldsRow, FinishedExcludesOwners, InTime
<1>6. FinishedExcludesOwners'
  BY DEF HandlerRaises, TypeOK, FinishedExcludesOwners, FinishedHoldsRow, SingleOwner, AnswerFits, InTime
<1>7. CachedIsFinal'
  BY DEF HandlerRaises, TypeOK, CachedIsFinal, AnswerFits, OwnerHoldsRow, InTime
<1>8. ReplayFaithful'
  BY DEF HandlerRaises, TypeOK, ReplayFaithful, AnswerFits, CachedIsFinal, ReplayIsOfSameRequest
<1>9. NeverReclaiming'
  BY DEF HandlerRaises, TypeOK, NeverReclaiming
<1>10. QED
  BY <1>0, <1>1, <1>2, <1>3, <1>4, <1>5, <1>6, <1>7, <1>8, <1>9

\* The owner loads the claim it made.
LEMMA CompleteLoadStep ==
    ASSUME RowLocks = TRUE, IInv, NEW r \in Requests, CompleteLoad(r)
    PROVE  IInv'
<1> USE TimeAssumption
<1> USE DEF IInv, KeyOf, ExpiresAt, GoTo, Answer, Load, Store, Owns, Working, Claiming, Owning,
            Untroubled, OverdueOn, Finished, Said
<1>0. TypeOK'
  BY TypeStep DEF Next, Step
<1>1. InTime'
  BY DEF CompleteLoad, TypeOK, InTime
<1>2. AnswerFits'
  BY DEF CompleteLoad, TypeOK, AnswerFits
<1>3. OwnerHoldsRow'
  BY DEF CompleteLoad, TypeOK, OwnerHoldsRow, SingleOwner, InTime, AnswerFits
<1>4. SingleOwner'
  BY DEF CompleteLoad, TypeOK, SingleOwner, OwnerHoldsRow, InTime
<1>5. FinishedHoldsRow'
  BY DEF CompleteLoad, TypeOK, FinishedHoldsRow, AnswerFits, OwnerHoldsRow, FinishedExcludesOwners, InTime
<1>6. FinishedExcludesOwners'
  BY DEF CompleteLoad, TypeOK, FinishedExcludesOwners, FinishedHoldsRow, SingleOwner, AnswerFits, InTime
<1>7. CachedIsFinal'
  BY DEF CompleteLoad, TypeOK, CachedIsFinal, AnswerFits, OwnerHoldsRow, InTime
<1>8. ReplayFaithful'
  BY DEF CompleteLoad, TypeOK, ReplayFaithful, AnswerFits, CachedIsFinal, ReplayIsOfSameRequest
<1>9. NeverReclaiming'
  BY DEF CompleteLoad, TypeOK, NeverReclaiming
<1>10. QED
  BY <1>0, <1>1, <1>2, <1>3, <1>4, <1>5, <1>6, <1>7, <1>8, <1>9

\* The flush of the one owner of a key writes its response over its own claim.
LEMMA CompletedRow ==
    ASSUME IInv, NEW r \in Requests, CompleteWrite(r), Untroubled(KeyOf(r))
    PROVE  /\ rows[KeyOf(r)] \in Row
           /\ rows[KeyOf(r)].hash = req[r].hash
           /\ rows[KeyOf(r)].expires = ExpiresAt(r)
           /\ rows'[KeyOf(r)] = Completed(rows[KeyOf(r)], r)
           /\ Completed(rows[KeyOf(r)], r) \in Row
           /\ rows'[KeyOf(r)] # NoRow
           /\ rows'[KeyOf(r)].status = "completed"
           /\ rows'[KeyOf(r)].response = r
<1>1. /\ rows[KeyOf(r)] \in Row
      /\ rows[KeyOf(r)].hash = req[r].hash
      /\ rows[KeyOf(r)].expires = ExpiresAt(r)
      /\ seen[r] = rows[KeyOf(r)]
  BY DEF IInv, CompleteWrite, OwnerHoldsRow, Owns, Owning, TypeOK, KeyOf
<1>2. SameRow(rows[KeyOf(r)], seen[r])
  BY <1>1, NoRowAssumption DEF SameRow
<1>3. /\ Completed(rows[KeyOf(r)], r) \in Row
      /\ Completed(rows[KeyOf(r)], r).id = rows[KeyOf(r)].id
      /\ Completed(rows[KeyOf(r)], r).status = "completed"
      /\ Completed(rows[KeyOf(r)], r).response = r
  BY <1>1 DEF Completed, Row
<1>4. Flush(rows[KeyOf(r)], seen[r], Completed(seen[r], r)) = Completed(rows[KeyOf(r)], r)
  BY <1>1, <1>3, FlushOfCurrent
<1>5. rows'[KeyOf(r)] = Completed(rows[KeyOf(r)], r)
  BY <1>1, <1>2, <1>4 DEF CompleteWrite, Store, IInv, TypeOK, KeyOf
<1>6. QED
  BY <1>1, <1>3, <1>5, NoRowAssumption

\* The row the owner loaded is still its claim, so its response is cached under
\* its own fingerprint.
LEMMA CompleteWriteStep ==
    ASSUME RowLocks = TRUE, IInv, NEW r \in Requests, CompleteWrite(r)
    PROVE  IInv'
<1> USE TimeAssumption
<1> USE DEF IInv, KeyOf, ExpiresAt, GoTo, Answer, Load, Store, Owns, Working, Claiming, Owning,
            Untroubled, OverdueOn, Finished, Said
<1>0. TypeOK'
  BY TypeStep DEF Next, Step
<1>a. /\ ~Owns(r)' /\ UNCHANGED <<clock, req, now, answer, overdue>>
      /\ \A q \in Requests \ {r} : pc'[q] = pc[q] /\ seen'[q] = seen[q]
      /\ \A k \in Keys \ {KeyOf(r)} : rows'[k] = rows[k]
  BY DEF CompleteWrite, TypeOK
<1>b. ASSUME Untroubled(KeyOf(r))
      PROVE  /\ rows[KeyOf(r)] \in Row
             /\ rows[KeyOf(r)].hash = req[r].hash
             /\ rows[KeyOf(r)].expires = ExpiresAt(r)
             /\ rows'[KeyOf(r)] = Completed(rows[KeyOf(r)], r)
             /\ Completed(rows[KeyOf(r)], r) \in Row
  BY <1>b, CompletedRow
<1>1. InTime'
  BY DEF CompleteWrite, Completed, SameRow, TypeOK, InTime
<1>2. AnswerFits'
  BY DEF CompleteWrite, Completed, SameRow, TypeOK, AnswerFits
<1>3. OwnerHoldsRow'
  BY DEF CompleteWrite, Completed, SameRow, TypeOK, OwnerHoldsRow, SingleOwner, InTime, AnswerFits
<1>4. SingleOwner'
  BY DEF CompleteWrite, Completed, SameRow, TypeOK, SingleOwner, OwnerHoldsRow, InTime
<1>5. FinishedHoldsRow'
  <2>1. ASSUME NEW q \in Requests, Finished(q)', Untroubled(KeyOf(q))',
               clock' < ExpiresAt(q)', KeyOf(q) = KeyOf(r)
        PROVE  rows'[KeyOf(q)] # NoRow /\ rows'[KeyOf(q)].expires = ExpiresAt(q)
    <3>1. rows[KeyOf(q)].expires = ExpiresAt(q)
      BY <1>a, <2>1 DEF FinishedHoldsRow
    <3>2. Untroubled(KeyOf(r))
      BY <1>a, <2>1
    <3>3. Completed(rows[KeyOf(r)], r) # NoRow
      BY <1>b, <3>2, NoRowAssumption
    <3>4. QED
      BY <1>b, <2>1, <3>1, <3>2, <3>3 DEF Completed, Row
  <2>2. \A q \in Requests : KeyOf(q) \in Keys
    BY DEF TypeOK
  <2>3. QED
    BY <1>a, <2>1, <2>2 DEF FinishedHoldsRow
<1>6. FinishedExcludesOwners'
  BY DEF CompleteWrite, Completed, SameRow, TypeOK, FinishedExcludesOwners, FinishedHoldsRow, SingleOwner, AnswerFits, InTime
<1>7. CachedIsFinal'
  <2>1. Untroubled(KeyOf(r)) =>
          /\ rows'[KeyOf(r)].response = r
          /\ rows'[KeyOf(r)].hash = req[r].hash
    BY <1>b DEF Completed, Row
  <2>2. Finished(r) /\ r # None
    BY NoneAssumption DEF CompleteWrite, AnswerFits
  <2>3. req[r] = [key |-> KeyOf(r), hash |-> req[r].hash]
    BY DEF TypeOK
  <2>4. QED
    BY <1>a, <2>1, <2>2, <2>3 DEF CachedIsFinal
<1>8. ReplayFaithful'
  BY DEF CompleteWrite, Completed, SameRow, TypeOK, ReplayFaithful, AnswerFits, CachedIsFinal, ReplayIsOfSameRequest
<1>9. NeverReclaiming'
  BY DEF CompleteWrite, Completed, SameRow, TypeOK, NeverReclaiming
<1>10. QED
  BY <1>0, <1>1, <1>2, <1>3, <1>4, <1>5, <1>6, <1>7, <1>8, <1>9

\* The owner of an unfinished claim loads the claim it made.
LEMMA ReleaseLoadStep ==
    ASSUME RowLocks = TRUE, IInv, NEW r \in Requests, ReleaseLoad(r)
    PROVE  IInv'
<1> USE TimeAssumption
<1> USE DEF IInv, KeyOf, ExpiresAt, GoTo, Answer, Load, Store, Owns, Working, Claiming, Owning,
            Untroubled, OverdueOn, Finished, Said
<1>0. TypeOK'
  BY TypeStep DEF Next, Step
<1>1. InTime'
  BY DEF ReleaseLoad, AnswerError, TypeOK, InTime
<1>2. AnswerFits'
  BY DEF ReleaseLoad, AnswerError, TypeOK, AnswerFits
<1>3. OwnerHoldsRow'
  BY DEF ReleaseLoad, AnswerError, TypeOK, OwnerHoldsRow, SingleOwner, InTime, AnswerFits
<1>4. SingleOwner'
  BY DEF ReleaseLoad, AnswerError, TypeOK, SingleOwner, OwnerHoldsRow, InTime
<1>5. FinishedHoldsRow'
  BY DEF ReleaseLoad, AnswerError, TypeOK, FinishedHoldsRow, AnswerFits, OwnerHoldsRow, FinishedExcludesOwners, InTime
<1>6. FinishedExcludesOwners'
  BY DEF ReleaseLoad, AnswerError, TypeOK, FinishedExcludesOwners, FinishedHoldsRow, SingleOwner, AnswerFits, InTime
<1>7. CachedIsFinal'
  <2>1. UNCHANGED <<clock, rows, req, now, overdue>>
    BY DEF ReleaseLoad
  <2>2. ASSUME NEW q \in Requests
        PROVE  /\ Finished(q) => Finished(q)'
               /\ answer'[q].kind = "replay" => answer'[q] = answer[q]
    BY DEF ReleaseLoad, AnswerError, TypeOK, AnswerFits
  <2>3. \A k \in Keys : rows[k] # NoRow => rows[k].response \in Requests \cup {None}
    BY DEF TypeOK, Row
  <2>4. QED
    BY <2>1, <2>2, <2>3 DEF CachedIsFinal
<1>8. ReplayFaithful'
  <2>1. UNCHANGED <<clock, rows, req, now, overdue>>
    BY DEF ReleaseLoad
  <2>2. ASSUME NEW q \in Requests
        PROVE  /\ Finished(q) => Finished(q)'
               /\ answer'[q].kind = "replay" => answer'[q] = answer[q]
    BY DEF ReleaseLoad, AnswerError, TypeOK, AnswerFits
  <2>3. \A q \in Requests : answer[q].by \in Requests \cup {None}
    BY DEF TypeOK, Answers
  <2>4. ASSUME NEW q \in Requests, Untroubled(KeyOf(q))', answer'[q].kind = "replay"
        PROVE  ReplayIsOfSameRequest(q)'
    <3>1. answer'[q] = answer[q] /\ ReplayIsOfSameRequest(q)
      BY <2>1, <2>2, <2>4 DEF ReplayFaithful
    <3>2. answer[q].by # None /\ Finished(answer[q].by) /\ req[answer[q].by] = req[q]
      BY <2>4, <3>1 DEF ReplayIsOfSameRequest
    <3>3. Finished(answer[q].by)'
      BY <2>2, <2>3, <3>1, <3>2
    <3>4. QED
      BY <2>1, <3>1, <3>2, <3>3 DEF ReplayIsOfSameRequest
  <2>5. QED
    BY <2>4 DEF ReplayFaithful, ReplayIsOfSameRequest
<1>9. NeverReclaiming'
  BY DEF ReleaseLoad, AnswerError, TypeOK, NeverReclaiming
<1>10. QED
  BY <1>0, <1>1, <1>2, <1>3, <1>4, <1>5, <1>6, <1>7, <1>8, <1>9

\* Nobody's answer is in force on the row a release deletes.
LEMMA ReleaseDeleteStep ==
    ASSUME RowLocks = TRUE, IInv, NEW r \in Requests, ReleaseDelete(r)
    PROVE  IInv'
<1> USE TimeAssumption
<1> USE DEF IInv, KeyOf, ExpiresAt, GoTo, Answer, Load, Store, Owns, Working, Claiming, Owning,
            Untroubled, OverdueOn, Finished, Said
<1>0. TypeOK'
  BY TypeStep DEF Next, Step
<1>1. InTime'
  BY DEF ReleaseDelete, AnswerError, SameRow, TypeOK, InTime
<1>2. AnswerFits'
  BY DEF ReleaseDelete, AnswerError, SameRow, TypeOK, AnswerFits
<1>3. OwnerHoldsRow'
  BY DEF ReleaseDelete, AnswerError, SameRow, TypeOK, OwnerHoldsRow, SingleOwner, InTime, AnswerFits
<1>4. SingleOwner'
  BY DEF ReleaseDelete, AnswerError, SameRow, TypeOK, SingleOwner, OwnerHoldsRow, InTime
<1>5. FinishedHoldsRow'
  BY DEF ReleaseDelete, AnswerError, SameRow, TypeOK, FinishedHoldsRow, AnswerFits, OwnerHoldsRow, FinishedExcludesOwners, InTime
<1>6. FinishedExcludesOwners'
  BY DEF ReleaseDelete, AnswerError, SameRow, TypeOK, FinishedExcludesOwners, FinishedHoldsRow, SingleOwner, AnswerFits, InTime
<1>7. CachedIsFinal'
  BY DEF ReleaseDelete, AnswerError, SameRow, TypeOK, CachedIsFinal, AnswerFits, OwnerHoldsRow, InTime
<1>8. ReplayFaithful'
  BY DEF ReleaseDelete, AnswerError, SameRow, TypeOK, ReplayFaithful, AnswerFits, CachedIsFinal, ReplayIsOfSameRequest
<1>9. NeverReclaiming'
  BY DEF ReleaseDelete, AnswerError, SameRow, TypeOK, NeverReclaiming
<1>10. QED
  BY <1>0, <1>1, <1>2, <1>3, <1>4, <1>5, <1>6, <1>7, <1>8, <1>9

\* A request that dies owns nothing and leaves its row.
LEMMA AbandonStep ==
    ASSUME RowLocks = TRUE, IInv, NEW r \in Requests, Abandon(r)
    PROVE  IInv'
<1> USE TimeAssumption
<1> USE DEF IInv, KeyOf, ExpiresAt, GoTo, Answer, Load, Store, Owns, Working, Claiming, Owning,
            Untroubled, OverdueOn, Finished, Said
<1>0. TypeOK'
  BY TypeStep DEF Next, Step
<1>1. InTime'
  BY DEF Abandon, TypeOK, InTime
<1>2. AnswerFits'
  BY DEF Abandon, TypeOK, AnswerFits
<1>3. OwnerHoldsRow'
  BY DEF Abandon, TypeOK, OwnerHoldsRow, SingleOwner, InTime, AnswerFits
<1>4. SingleOwner'
  BY DEF Abandon, TypeOK, SingleOwner, OwnerHoldsRow, InTime
<1>5. FinishedHoldsRow'
  BY DEF Abandon, TypeOK, FinishedHoldsRow, AnswerFits, OwnerHoldsRow, FinishedExcludesOwners, InTime
<1>6. FinishedExcludesOwners'
  BY DEF Abandon, TypeOK, FinishedExcludesOwners, FinishedHoldsRow, SingleOwner, AnswerFits, InTime
<1>7. CachedIsFinal'
  BY DEF Abandon, TypeOK, CachedIsFinal, AnswerFits, OwnerHoldsRow, InTime
<1>8. ReplayFaithful'
  BY DEF Abandon, TypeOK, ReplayFaithful, AnswerFits, CachedIsFinal, ReplayIsOfSameRequest
<1>9. NeverReclaiming'
  BY DEF Abandon, TypeOK, NeverReclaiming
<1>10. QED
  BY <1>0, <1>1, <1>2, <1>3, <1>4, <1>5, <1>6, <1>7, <1>8, <1>9

\* Only rows past their expiry are purged: no owner's, and no answer's in force.
LEMMA PurgeStep ==
    ASSUME RowLocks = TRUE, IInv, Purge
    PROVE  IInv'
<1> USE TimeAssumption
<1> USE DEF IInv, KeyOf, ExpiresAt, GoTo, Answer, Load, Store, Owns, Working, Claiming, Owning,
            Untroubled, OverdueOn, Finished, Said
<1>0. TypeOK'
  BY TypeStep DEF Next, Step
<1>1. InTime'
  BY DEF Purge, TypeOK, InTime
<1>2. AnswerFits'
  BY DEF Purge, TypeOK, AnswerFits
<1>3. OwnerHoldsRow'
  BY DEF Purge, TypeOK, OwnerHoldsRow, SingleOwner, InTime, AnswerFits
<1>4. SingleOwner'
  BY DEF Purge, TypeOK, SingleOwner, OwnerHoldsRow, InTime
<1>5. FinishedHoldsRow'
  BY DEF Purge, TypeOK, FinishedHoldsRow, AnswerFits, OwnerHoldsRow, FinishedExcludesOwners, InTime
<1>6. FinishedExcludesOwners'
  BY DEF Purge, TypeOK, FinishedExcludesOwners, FinishedHoldsRow, SingleOwner, AnswerFits, InTime
<1>7. CachedIsFinal'
  BY DEF Purge, TypeOK, CachedIsFinal, AnswerFits, OwnerHoldsRow, InTime
<1>8. ReplayFaithful'
  BY DEF Purge, TypeOK, ReplayFaithful, AnswerFits, CachedIsFinal, ReplayIsOfSameRequest
<1>9. NeverReclaiming'
  BY DEF Purge, TypeOK, NeverReclaiming
<1>10. QED
  BY <1>0, <1>1, <1>2, <1>3, <1>4, <1>5, <1>6, <1>7, <1>8, <1>9

\* A request whose claim runs out while it works is overdue.
LEMMA TickStep ==
    ASSUME RowLocks = TRUE, IInv, Tick
    PROVE  IInv'
<1> USE TimeAssumption
<1> USE DEF IInv, KeyOf, ExpiresAt, GoTo, Answer, Load, Store, Owns, Working, Claiming, Owning,
            Untroubled, OverdueOn, Finished, Said
<1>0. TypeOK'
  BY TypeStep DEF Next, Step
<1>1. InTime'
  BY DEF Tick, TypeOK, InTime
<1>2. AnswerFits'
  BY DEF Tick, TypeOK, AnswerFits
<1>3. OwnerHoldsRow'
  BY DEF Tick, TypeOK, OwnerHoldsRow, SingleOwner, InTime, AnswerFits
<1>4. SingleOwner'
  BY DEF Tick, TypeOK, SingleOwner, OwnerHoldsRow, InTime
<1>5. FinishedHoldsRow'
  BY DEF Tick, TypeOK, FinishedHoldsRow, AnswerFits, OwnerHoldsRow, FinishedExcludesOwners, InTime
<1>6. FinishedExcludesOwners'
  BY DEF Tick, TypeOK, FinishedExcludesOwners, FinishedHoldsRow, SingleOwner, AnswerFits, InTime
<1>7. CachedIsFinal'
  BY DEF Tick, TypeOK, CachedIsFinal, AnswerFits, OwnerHoldsRow, InTime
<1>8. ReplayFaithful'
  BY DEF Tick, TypeOK, ReplayFaithful, AnswerFits, CachedIsFinal, ReplayIsOfSameRequest
<1>9. NeverReclaiming'
  BY DEF Tick, TypeOK, NeverReclaiming
<1>10. QED
  BY <1>0, <1>1, <1>2, <1>3, <1>4, <1>5, <1>6, <1>7, <1>8, <1>9

-----------------------------------------------------------------------------
(* The invariant, and what follows from it.                                 *)

\* The invariant holds of an empty table, before any request has arrived.
LEMMA InvariantInit == Init => IInv
<1> SUFFICES ASSUME Init PROVE IInv
  OBVIOUS
<1>1. TypeOK
  BY TypeInit
<1>2. InTime /\ AnswerFits /\ NeverReclaiming
  BY <1>1 DEF Init, InTime, AnswerFits, NeverReclaiming, TypeOK, Working, Claiming,
              Owning, Said
<1>3. OwnerHoldsRow /\ SingleOwner /\ CachedIsFinal
  BY DEF Init, OwnerHoldsRow, SingleOwner, CachedIsFinal, Owns, Owning
<1>4. \A r \in Requests : ~Finished(r) /\ answer[r].kind # "replay"
  BY DEF Init, Finished, Said
<1>5. FinishedHoldsRow /\ FinishedExcludesOwners /\ ReplayFaithful
  BY <1>4 DEF FinishedHoldsRow, FinishedExcludesOwners, ReplayFaithful, ReplayIsOfSameRequest
<1>6. QED
  BY <1>1, <1>2, <1>3, <1>5 DEF IInv

\* Every store call, handler step, crash, purge and tick keeps the invariant, if
\* claim() locks the row it inspects (store.py 130).
LEMMA InvariantStep ==
    ASSUME RowLocks = TRUE
    PROVE  IInv /\ [Next]_vars => IInv'
<1> SUFFICES ASSUME IInv, [Next]_vars PROVE IInv'
  OBVIOUS
<1>1. ASSUME NEW r \in Requests, Step(r) PROVE IInv'
  <2>1. ~Reclaim(r)
    BY DEF Reclaim, IInv, NeverReclaiming
  <2>2. QED
    BY <1>1, <2>1, InsertClaimStep, InspectRefusedStep, InspectExpiredStep,
       HandlerReturnsStep, HandlerRaisesStep, CompleteLoadStep, CompleteWriteStep,
       ReleaseLoadStep, ReleaseDeleteStep DEF Step
<1>2. CASE UNCHANGED vars
  BY <1>2 DEF vars, IInv, TypeOK, InTime, AnswerFits, OwnerHoldsRow, SingleOwner,
              FinishedHoldsRow, FinishedExcludesOwners, CachedIsFinal, ReplayFaithful,
              ReplayIsOfSameRequest, NeverReclaiming, Untroubled, OverdueOn, Finished,
              Owns, KeyOf, ExpiresAt
<1>3. QED
  BY <1>1, <1>2, PassThroughStep, ArriveStep, AbandonStep, PurgeStep, TickStep DEF Next

\* Hence it holds in every state a locking store can reach.
LEMMA Invariant ==
    ASSUME RowLocks = TRUE
    PROVE  Spec => []IInv
<1>1. QED
  BY InvariantInit, InvariantStep, PTL DEF Spec

\* On a database that locks the row it inspects, two requests with one key run
\* their handlers one at a time unless one of that key outlived its claim
\* (store.py claim(), complete() and release(), purge_expired()).
THEOREM SingleOwnerHolds ==
    ASSUME RowLocks = TRUE
    PROVE  Spec => []SingleOwner
<1>1. IInv => SingleOwner
  BY DEF IInv
<1>2. QED
  BY <1>1, Invariant, PTL

\* There, what a duplicate is replayed is the finished answer of a handler to
\* the same key and fingerprint (store.py claim() and complete()).
THEOREM ReplayFaithfulHolds ==
    ASSUME RowLocks = TRUE
    PROVE  Spec => []ReplayFaithful
<1>1. IInv => ReplayFaithful
  BY DEF IInv
<1>2. QED
  BY <1>1, Invariant, PTL

\* There, no handler starts for a key while a final answer of that key is inside
\* its window, whatever crashed, was purged or was retried in between.
THEOREM OncePerWindowHolds ==
    ASSUME RowLocks = TRUE
    PROVE  Spec => OncePerWindow
<1>1. ASSUME IInv, [Next]_vars, NEW r \in Requests, NEW q \in Requests,
             ~Owns(r), Owns(r)', Finished(q), KeyOf(q) = KeyOf(r), OverdueOn(KeyOf(r)) = {}
      PROVE  ExpiresAt(q) <= clock
  <2>1. pc'[r] # pc[r] /\ pc'[r] \in Owning /\ pc[r] \notin Owning
    BY <1>1 DEF Owns
  <2>2. InsertClaim(r) \/ InspectExpired(r)
    <3>1. ASSUME NEW p \in Requests, PassThrough(p) \/ Arrive(p) \/ Step(p) \/ Abandon(p)
          PROVE  p = r
      BY <1>1, <2>1, <3>1 DEF IInv, TypeOK, PassThrough, Arrive, Abandon, Step, InsertClaim,
           InspectRefused, InspectExpired, Reclaim, HandlerReturns, HandlerRaises,
           CompleteLoad, CompleteWrite, ReleaseLoad, ReleaseDelete, GoTo
    <3>2. ~Purge /\ ~Tick /\ ~UNCHANGED vars
      BY <2>1 DEF Purge, Tick, vars
    <3>3. PassThrough(r) \/ Arrive(r) \/ Step(r) \/ Abandon(r)
      BY <1>1, <3>1, <3>2 DEF Next
    <3>4. QED
      BY <2>1, <3>3, <1>1 DEF IInv, TypeOK, NeverReclaiming, PassThrough, Arrive, Abandon,
           Step, InspectRefused, Reclaim, HandlerReturns, HandlerRaises, CompleteLoad,
           CompleteWrite, ReleaseLoad, ReleaseDelete, GoTo, Owning
  <2>3. clock < ExpiresAt(q) =>
          rows[KeyOf(r)] # NoRow /\ rows[KeyOf(r)].expires = ExpiresAt(q)
    BY <1>1 DEF IInv, FinishedHoldsRow, Untroubled
  <2>4. now[r] \in Nat /\ clock \in Nat /\ ExpiresAt(q) \in Nat /\ now[r] <= clock
    BY <1>1, TimeAssumption DEF IInv, TypeOK, InTime, ExpiresAt
  <2>5. CASE InsertClaim(r)
    <3>1. rows[KeyOf(r)] = NoRow
      BY <2>1, <2>5, <1>1 DEF InsertClaim, GoTo, Owning, IInv, TypeOK
    <3>2. QED
      BY <2>3, <2>4, <3>1
  <2>6. CASE InspectExpired(r)
    BY <2>3, <2>4, <2>6 DEF InspectExpired
  <2>7. QED
    BY <2>2, <2>5, <2>6
<1>2. IInv /\ [Next]_vars =>
        [\A r, q \in Requests :
            (/\ ~Owns(r) /\ Owns(r)'
             /\ Finished(q) /\ KeyOf(q) = KeyOf(r)
             /\ OverdueOn(KeyOf(r)) = {})
                => ExpiresAt(q) <= clock]_vars
  BY <1>1
<1>3. QED
  BY <1>2, Invariant, PTL DEF Spec, OncePerWindow

\* There, a cached response is neither replaced nor dropped before its expiry.
THEOREM CachedAnswerStableHolds ==
    ASSUME RowLocks = TRUE
    PROVE  Spec => CachedAnswerStable
<1>1. ASSUME IInv, [Next]_vars, NEW k \in Keys, rows[k] # NoRow,
             rows[k].status = "completed", rows[k].expires > clock, OverdueOn(k) = {}
      PROVE  rows'[k] = rows[k]
  <2>1. \A r \in Requests : Owns(r) => KeyOf(r) # k
    BY <1>1 DEF IInv, OwnerHoldsRow, Untroubled
  <2>2. ASSUME NEW r \in Requests, PassThrough(r) \/ Arrive(r) \/ Step(r) \/ Abandon(r)
        PROVE  rows'[k] = rows[k]
    <3>1. CASE InsertClaim(r)
      BY <1>1, <3>1 DEF InsertClaim, Store, IInv, TypeOK
    <3>2. CASE InspectExpired(r)
      <4>1. /\ clock \in Nat /\ now[r] \in Nat /\ now[r] <= clock
            /\ rows[k].expires \in Nat
        BY <1>1 DEF IInv, TypeOK, InTime, Row
      <4>2. KeyOf(r) # k
        BY <1>1, <3>2, <4>1 DEF InspectExpired
      <4>3. QED
        BY <1>1, <3>2, <4>2 DEF InspectExpired, Store, IInv, TypeOK
    <3>3. CASE CompleteWrite(r) \/ ReleaseDelete(r)
      <4>1. KeyOf(r) # k
        BY <2>1, <3>3 DEF CompleteWrite, ReleaseDelete, Owns, Owning
      <4>2. QED
        BY <1>1, <3>3, <4>1 DEF CompleteWrite, ReleaseDelete, Store, IInv, TypeOK
    <3>4. ~Reclaim(r)
      BY <1>1 DEF Reclaim, IInv, NeverReclaiming
    <3>5. QED
      BY <2>2, <3>1, <3>2, <3>3, <3>4 DEF Step, PassThrough, Arrive, Abandon,
         InspectRefused, HandlerReturns, HandlerRaises, CompleteLoad, ReleaseLoad
  <2>3. CASE Purge
    BY <1>1, <2>3 DEF Purge, IInv, TypeOK, Row
  <2>4. CASE Tick \/ UNCHANGED vars
    BY <2>4 DEF Tick, vars
  <2>5. QED
    BY <1>1, <2>2, <2>3, <2>4 DEF Next
<1>2. IInv /\ [Next]_vars =>
        [\A k \in Keys :
            (/\ rows[k] # NoRow
             /\ rows[k].status = "completed"
             /\ rows[k].expires > clock
             /\ OverdueOn(k) = {})
                => rows'[k] = rows[k]]_vars
  BY <1>1
<1>3. QED
  BY <1>2, Invariant, PTL DEF Spec, CachedAnswerStable

-----------------------------------------------------------------------------
(* The middleware implements OnceOnly.  A step maps to a step of the        *)
(* abstract key, or to a stutter.                                           *)

\* Nothing but the clock changes what is overdue.
LEMMA LapsedStable ==
    ASSUME UNCHANGED <<req, overdue>>
    PROVE  Lapsed' = Lapsed
BY DEF Lapsed, OverdueOn, KeyOf

\* Where no owner comes or goes, no row of the promise is cached or dropped and
\* no answer of it is a replay, the abstract key does not move.
LEMMA Unmoved ==
    ASSUME UNCHANGED <<req, overdue>>, RunningNow' = RunningNow,
           OutcomeNow' = OutcomeNow, ToldSoFar' = ToldSoFar
    PROVE  UNCHANGED Once!vars
BY LapsedStable DEF Once!vars

\* Every step of the middleware is a step of the abstract key or leaves it be.
LEMMA OnceStep ==
    ASSUME RowLocks = TRUE, IInv, IInv', [Next]_vars
    PROVE  [Once!Next]_(Once!vars)
<1> USE DEF IInv
<1>k. \A r \in Requests : KeyOf(r) \in Keys
  BY DEF TypeOK, KeyOf
<1>l. \A k \in Keys : k \notin Lapsed => Untroubled(k)
  BY DEF Lapsed, Untroubled
<1>1. ASSUME NEW r \in Requests,
             PassThrough(r) \/ Arrive(r) \/ HandlerRaises(r) \/ CompleteLoad(r)
               \/ ReleaseLoad(r) \/ \E final \in BOOLEAN : HandlerReturns(r, final)
      PROVE  UNCHANGED Once!vars
  <2>1. UNCHANGED <<req, overdue, rows>>
    BY <1>1 DEF PassThrough, Arrive, HandlerRaises, CompleteLoad, ReleaseLoad, HandlerReturns
  <2>2. ASSUME NEW q \in Requests
        PROVE  Replayed(q)' <=> Replayed(q)
    BY <1>1, <2>2 DEF PassThrough, Arrive, HandlerRaises, CompleteLoad, ReleaseLoad,
       HandlerReturns, Replayed, Answer, AnswerError, AnswerFits, TypeOK, Said, Claiming
  <2>3. ASSUME NEW q \in Requests, Replayed(q)
        PROVE  answer'[q] = answer[q]
    BY <1>1, <2>3 DEF PassThrough, Arrive, HandlerRaises, CompleteLoad, ReleaseLoad,
       HandlerReturns, Replayed, Answer, AnswerError, AnswerFits, TypeOK, Said, Claiming
  <2>4. ASSUME NEW q \in Requests, KeyOf(q) \notin Lapsed
        PROVE  Owns(q)' <=> Owns(q)
    BY <1>1, <1>k, <1>l, <2>4 DEF PassThrough, Arrive, HandlerRaises, CompleteLoad,
       ReleaseLoad, HandlerReturns, GoTo, Owns, Owning, TypeOK, OwnerHoldsRow
  <2>5. RunningNow' = RunningNow /\ OutcomeNow' = OutcomeNow /\ ToldSoFar' = ToldSoFar
    BY <2>1, <2>2, <2>3, <2>4, LapsedStable DEF RunningNow, OutcomeNow, ToldSoFar, Caches,
       KeyOf
  <2>6. QED
    BY <2>1, <2>5, Unmoved
<1>2. ASSUME NEW r \in Requests, InsertClaim(r) \/ InspectExpired(r)
      PROVE  Once!Begin(r) \/ UNCHANGED Once!vars
  <2>1. UNCHANGED <<req, overdue, answer>> /\ Lapsed' = Lapsed
    BY <1>2, LapsedStable DEF InsertClaim, InspectExpired
  <2>2. ToldSoFar' = ToldSoFar
    BY <2>1 DEF ToldSoFar, Replayed, KeyOf
  <2>3. CASE InsertClaim(r) /\ rows[KeyOf(r)] # NoRow
    <3>1. UNCHANGED rows /\ \A q \in Requests : Owns(q)' <=> Owns(q)
      BY <2>3 DEF InsertClaim, GoTo, Owns, Owning, TypeOK
    <3>2. QED
      BY <2>1, <2>2, <3>1, Unmoved DEF RunningNow, OutcomeNow, Caches, KeyOf
  <2>4. CASE ~(InsertClaim(r) /\ rows[KeyOf(r)] # NoRow)
    <3>1. /\ Owns(r)' /\ ~Owns(r)
          /\ \A q \in Requests \ {r} : Owns(q)' <=> Owns(q)
          /\ \A k \in Keys \ {KeyOf(r)} : rows'[k] = rows[k]
      BY <1>2, <2>4 DEF InsertClaim, InspectExpired, GoTo, Store, Owns, Owning, TypeOK
    <3>2. CASE KeyOf(r) \in Lapsed
      BY <2>1, <2>2, <3>1, <3>2, Unmoved DEF RunningNow, OutcomeNow, Caches, KeyOf
    <3>3. CASE KeyOf(r) \notin Lapsed
      <4>1. Untroubled(KeyOf(r))' /\ KeyOf(r)' = KeyOf(r)
        BY <1>k, <1>l, <2>1, <3>3 DEF Untroubled, OverdueOn, KeyOf
      <4>2. ~Caches(KeyOf(r))'
        BY <3>1, <4>1 DEF Caches, OwnerHoldsRow
      <4>3. \A q \in RunningNow : req[q].key # req[r].key
        BY <2>1, <3>1, <4>1 DEF RunningNow, SingleOwner, KeyOf, Untroubled
      <4>4. RunningNow' = RunningNow \cup {r}
        BY <2>1, <3>1, <3>3 DEF RunningNow, KeyOf
      <4>5. OutcomeNow' = [OutcomeNow EXCEPT ![req[r].key] = None]
        BY <2>1, <3>1, <4>1, <4>2 DEF OutcomeNow, Caches, KeyOf
      <4>6. QED
        BY <2>1, <2>2, <3>3, <4>3, <4>4, <4>5 DEF Once!Begin, Once!Promised, KeyOf
    <3>4. QED
      BY <3>2, <3>3
  <2>5. QED
    BY <1>2, <2>3, <2>4
<1>3. ASSUME NEW r \in Requests, InspectRefused(r)
      PROVE  Once!Tell(r) \/ UNCHANGED Once!vars
  <2>1. UNCHANGED <<req, overdue, rows>> /\ Lapsed' = Lapsed
    BY <1>3, LapsedStable DEF InspectRefused
  <2>2. RunningNow' = RunningNow /\ OutcomeNow' = OutcomeNow
    BY <1>3, <2>1 DEF InspectRefused, GoTo, Owns, Owning, TypeOK, RunningNow, OutcomeNow,
       Caches, KeyOf
  <2>3. /\ ~Replayed(r)
        /\ answer'[r] = Refusal(rows[KeyOf(r)], r)
        /\ \A q \in Requests \ {r} : answer'[q] = answer[q]
    BY <1>3 DEF InspectRefused, Answer, AnswerFits, Claiming, TypeOK, Replayed
  <2>4. CASE KeyOf(r) \notin Lapsed /\ Replayed(r)'
    <3>1. /\ Caches(KeyOf(r))
          /\ rows[KeyOf(r)].hash = req[r].hash
          /\ answer'[r].by = rows[KeyOf(r)].response
      BY <2>3, <2>4 DEF Refusal, Said, Replayed, Caches
    <3>2. OutcomeNow[req[r].key] = rows[KeyOf(r)].response
      BY <1>k, <2>4, <3>1 DEF OutcomeNow, KeyOf
    <3>3. /\ rows[KeyOf(r)].response # None
          /\ req[rows[KeyOf(r)].response] = [key |-> KeyOf(r), hash |-> req[r].hash]
      BY <1>k, <1>l, <2>4, <3>1 DEF CachedIsFinal, Caches
    <3>4. req[r] = [key |-> KeyOf(r), hash |-> req[r].hash]
      BY DEF TypeOK, KeyOf
    <3>5. ToldSoFar' = [ToldSoFar EXCEPT ![r] = OutcomeNow[req[r].key]]
      BY <2>1, <2>3, <2>4, <3>1, <3>2 DEF ToldSoFar, Replayed, KeyOf
    <3>6. QED
      BY <2>1, <2>2, <3>2, <3>3, <3>4, <3>5 DEF Once!Tell
  <2>5. CASE KeyOf(r) \in Lapsed \/ ~Replayed(r)'
    <3>1. ToldSoFar' = ToldSoFar
      BY <2>1, <2>3, <2>5 DEF ToldSoFar, Replayed, KeyOf
    <3>2. QED
      BY <2>1, <2>2, <3>1, Unmoved
  <2>6. QED
    BY <2>4, <2>5
<1>4. ASSUME NEW r \in Requests, CompleteWrite(r)
      PROVE  Once!Settle(r) \/ UNCHANGED Once!vars
  <2>1. UNCHANGED <<req, overdue, answer>> /\ Lapsed' = Lapsed
    BY <1>4, LapsedStable DEF CompleteWrite
  <2>2. ToldSoFar' = ToldSoFar
    BY <2>1 DEF ToldSoFar, Replayed, KeyOf
  <2>3. /\ Owns(r) /\ ~Owns(r)'
        /\ \A q \in Requests \ {r} : Owns(q)' <=> Owns(q)
        /\ \A k \in Keys \ {KeyOf(r)} : rows'[k] = rows[k]
    BY <1>4 DEF CompleteWrite, GoTo, Store, Owns, Owning, TypeOK
  <2>4. CASE KeyOf(r) \in Lapsed
    BY <2>1, <2>2, <2>3, <2>4, Unmoved DEF RunningNow, OutcomeNow, Caches, KeyOf
  <2>5. CASE KeyOf(r) \notin Lapsed
    <3>0. KeyOf(r)' = KeyOf(r) /\ Untroubled(KeyOf(r))
      BY <1>k, <1>l, <2>1, <2>5 DEF KeyOf
    <3>1. Caches(KeyOf(r))' /\ rows'[KeyOf(r)].response = r
      BY <1>4, <3>0, CompletedRow DEF Caches
    <3>2. RunningNow' = RunningNow \ {r} /\ r \in RunningNow
      BY <2>1, <2>3, <2>5 DEF RunningNow, KeyOf
    <3>3. OutcomeNow' = [OutcomeNow EXCEPT ![req[r].key] = r]
      BY <2>1, <2>3, <2>5, <3>1 DEF OutcomeNow, Caches, KeyOf
    <3>4. QED
      BY <2>1, <2>2, <3>2, <3>3 DEF Once!Settle
  <2>6. QED
    BY <2>4, <2>5
<1>5. ASSUME NEW r \in Requests, ReleaseDelete(r) \/ Abandon(r)
      PROVE  Once!GiveUp(r) \/ UNCHANGED Once!vars
  <2>1. UNCHANGED <<req, overdue>> /\ Lapsed' = Lapsed
    BY <1>5, LapsedStable DEF ReleaseDelete, Abandon
  <2>2. ASSUME NEW q \in Requests
        PROVE  (Replayed(q)' <=> Replayed(q)) /\ (Replayed(q) => answer'[q] = answer[q])
    BY <1>5, <2>2 DEF ReleaseDelete, Abandon, AnswerError, Answer, AnswerFits, Replayed,
       Said, TypeOK
  <2>3. ToldSoFar' = ToldSoFar
    BY <2>1, <2>2 DEF ToldSoFar, KeyOf
  <2>4. /\ ~Owns(r)'
        /\ \A q \in Requests \ {r} : Owns(q)' <=> Owns(q)
        /\ \A k \in Keys \ {KeyOf(r)} : rows'[k] = rows[k]
    BY <1>5 DEF ReleaseDelete, Abandon, GoTo, Store, Owns, Owning, TypeOK
  <2>5. KeyOf(r) \notin Lapsed => (Caches(KeyOf(r))' <=> Caches(KeyOf(r)))
                                /\ (Caches(KeyOf(r)) => rows'[KeyOf(r)] = rows[KeyOf(r)])
    BY <1>5, <1>k, <1>l, <2>1 DEF ReleaseDelete, Abandon, Store, Owns, Owning, TypeOK,
       OwnerHoldsRow, Caches, KeyOf
  <2>6. OutcomeNow' = OutcomeNow
    BY <2>1, <2>4, <2>5 DEF OutcomeNow, Caches, KeyOf
  <2>7. CASE r \in RunningNow
    <3>1. RunningNow' = RunningNow \ {r}
      BY <2>1, <2>4, <2>7 DEF RunningNow, KeyOf
    <3>2. QED
      BY <2>1, <2>3, <2>6, <2>7, <3>1 DEF Once!GiveUp
  <2>8. CASE r \notin RunningNow
    <3>1. RunningNow' = RunningNow
      BY <2>1, <2>4, <2>8 DEF RunningNow, KeyOf
    <3>2. QED
      BY <2>1, <2>3, <2>6, <3>1, Unmoved
  <2>9. QED
    BY <2>7, <2>8
<1>6. CASE Purge
  <2>1. UNCHANGED <<req, overdue, answer, pc>> /\ Lapsed' = Lapsed
    BY <1>6, LapsedStable DEF Purge
  <2>2. RunningNow' = RunningNow /\ ToldSoFar' = ToldSoFar
    BY <2>1 DEF RunningNow, ToldSoFar, Owns, Replayed, KeyOf
  <2>3. \A k \in Keys : rows'[k] = rows[k] \/ rows'[k] = NoRow
    BY <1>6 DEF Purge
  <2> DEFINE gone == {k \in Keys : rows'[k] = NoRow}
  <2>4. OutcomeNow' = [k \in Keys |-> IF k \in gone THEN None ELSE OutcomeNow[k]]
    BY <2>1, <2>3 DEF OutcomeNow, Caches
  <2>5. QED
    BY <2>1, <2>2, <2>4 DEF Once!Next, Once!Forget
<1>7. CASE Tick
  <2>1. UNCHANGED <<req, rows, pc, answer>> /\ overdue \subseteq overdue'
    BY <1>7 DEF Tick
  <2>2. Lapsed \subseteq Lapsed' /\ Lapsed' \subseteq Keys
    BY <2>1 DEF Lapsed, OverdueOn, KeyOf
  <2>3. /\ RunningNow' = {r \in RunningNow : req[r].key \notin Lapsed'}
        /\ OutcomeNow' = [k \in Keys |-> IF k \in Lapsed' THEN None ELSE OutcomeNow[k]]
        /\ ToldSoFar' = [r \in Requests |-> IF req[r].key \in Lapsed' THEN None ELSE ToldSoFar[r]]
    BY <2>1, <2>2 DEF RunningNow, OutcomeNow, ToldSoFar, Owns, Caches, Replayed, KeyOf
  <2>4. QED
    BY <2>1, <2>2, <2>3 DEF Once!Next, Once!Lapse
<1>8. CASE UNCHANGED vars
  BY <1>8, Unmoved DEF vars, RunningNow, OutcomeNow, ToldSoFar, Lapsed, OverdueOn, Owns,
     Caches, Replayed, KeyOf
<1>9. \A r \in Requests : ~Reclaim(r)
  BY DEF Reclaim, NeverReclaiming
<1>10. QED
  BY <1>1, <1>2, <1>3, <1>4, <1>5, <1>6, <1>7, <1>8, <1>9 DEF Next, Step, Once!Next

\* On a database that locks the row it inspects, the middleware and its store
\* implement the abstract key (middleware.py, store.py).
THEOREM OnceOnlyImplemented ==
    ASSUME RowLocks = TRUE
    PROVE  Spec => ImplementsOnceOnly
<1>1. Init => Once!Init
  BY DEF Init, Once!Init, RunningNow, OutcomeNow, ToldSoFar, Lapsed, OverdueOn, Owns,
     Owning, Caches, Replayed, Said
<1>2. IInv /\ IInv' /\ [Next]_vars => [Once!Next]_(Once!vars)
  BY OnceStep
<1>3. QED
  BY <1>1, <1>2, Invariant, PTL DEF Spec, ImplementsOnceOnly, Once!Spec

=============================================================================
