------------------------ MODULE AuthenticationProofs ------------------------
(***************************************************************************)
(* Proofs about ApiKeys, which is Sessions, the API keys and the members   *)
(* of an organization together: for any number of logins, rotations,       *)
(* logouts, bumps, people and calls.                                       *)
(***************************************************************************)
EXTENDS ApiKeys, TLAPS

-----------------------------------------------------------------------------
(* The invariant of the sessions.                                           *)

\* The rows of refresh_tokens: a family is named by its login, a token that is
\* being rotated is locked by one rotation and can still be rotated, and of a
\* family at most one token can be.
RowsSound ==
    /\ \A t \in issued : pc[t] = "done" /\ family[t] \in Logins \cap issued
    /\ \A r \in Rotating : token[r] \in issued \ (spent \cup revoked)
    /\ \A r, s \in Rotating : token[r] = token[s] => r = s
    /\ \A t, u \in issued \ (spent \cup revoked) : family[t] = family[u] => t = u

\* A revocation that no rotation has crossed has found every token of its
\* families that can be rotated, and none of them is locked.
Found(r) ==
    \A t \in targets[r] : ~ Locked(t) /\ Live(family[t]) \subseteq targets[r]

RevocationsSound ==
    /\ \A r \in Revokers : targets[r] \subseteq issued
    /\ \A r \in Revokers :
         pc[r] \in {"idle", "loaded", "claimed", "authenticated"} => targets[r] = {}
    /\ \A r \in Revokers \ raced : pc[r] = "revoking" => Found(r)
    /\ RevocationIsFinal

\* Logouts presented tokens that were issued, and denied them while Redis
\* answered.
LogoutsSound ==
    /\ \A r \in Logouts \cup Bumps : access[r] # None => access[r] \in issued
    /\ \A q \in Logouts : pc[q] = "authenticated" => access[q] \in issued
    /\ redis => \A q \in Logouts : pc[q] \in {"revoking", "done"} => access[q] \in denied

\* No request has read a version that is yet to come, and what a bump ended
\* has read one that is over.
VersionsSound ==
    /\ \A t \in ended : pc[t] \in {"loaded", "done", "dead"}
    /\ ~ lost => \A t \in Tokens : seen[t] <= version
    /\ ~ lost => \A t \in ended : seen[t] < version

SessionInv ==
    TypeOK /\ RowsSound /\ RevocationsSound /\ LogoutsSound /\ VersionsSound

-----------------------------------------------------------------------------
(* Types.                                                                   *)

\* The requests of different kinds are different (constants of Sessions).
LEMMA Kinds ==
    /\ Logins \subseteq Requests /\ Refreshes \subseteq Requests
    /\ Logouts \subseteq Requests /\ Bumps \subseteq Requests
    /\ Tokens \subseteq Requests /\ Revokers \subseteq Requests
    /\ Logins \cap Revokers = {}
    /\ Tokens \cap (Logouts \cup Bumps) = {} /\ Logouts \cap Bumps = {}
    /\ Refreshes \subseteq Tokens /\ Refreshes \cap (Logouts \cup Bumps) = {}
BY RequestsAssumption DEF Requests, Tokens, Revokers

\* A user without sessions is well typed (models.py).
LEMMA SessionTypeInit == Init => TypeOK
<1> SUFFICES ASSUME Init PROVE TypeOK
  OBVIOUS
<1>1. redis \in BOOLEAN /\ lost \in BOOLEAN
  BY DEF Init
<1>2. targets \in [Revokers -> SUBSET Tokens]
  BY DEF Init
<1>3. /\ pc = [r \in Requests |-> "idle"]
      /\ token = [r \in Refreshes |-> None]
      /\ access = [r \in Logouts \cup Bumps |-> None]
      /\ seen = [r \in Requests |-> 0]
      /\ family = [t \in Tokens |-> None]
      /\ issued = {} /\ spent = {} /\ revoked = {} /\ denied = {} /\ raced = {} /\ ended = {}
      /\ version = 0
  BY DEF Init
<1>4. QED
  BY <1>1, <1>2, <1>3 DEF TypeOK

\* A revocation finds rows (sessions.py _revoke_family, revoke_all_for_user).
LEMMA TypeFind ==
    ASSUME TypeOK, NEW r \in Revokers, NEW found, found \subseteq issued, Find(r, found)
    PROVE  /\ pc' \in [Requests -> {"idle", "loaded", "claimed", "authenticated", "revoking",
                                     "done", "dead"}]
           /\ targets' \in [Revokers -> SUBSET Tokens]
           /\ raced' \subseteq Revokers
BY DEF Find, Goto, TypeOK

\* Every step of a session keeps the types (router.py, sessions.py,
\* denylist.py).
LEMMA SessionTypeNext == SessionInv /\ [Next]_vars => TypeOK'
<1> SUFFICES ASSUME SessionInv, [Next]_vars PROVE TypeOK'
  OBVIOUS
<1> USE Kinds DEF rows, user, denylist, Goto, Idle, Issue
<1>0. TypeOK
  BY DEF SessionInv
<1>1. ASSUME NEW r \in Logins, LoginLoad(r) PROVE TypeOK'
  BY <1>0, <1>1 DEF LoginLoad, TypeOK
<1>2. ASSUME NEW r \in Logins, LoginCommit(r) PROVE TypeOK'
  BY <1>0, <1>2 DEF LoginCommit, TypeOK, Tokens
<1>3. ASSUME NEW r \in Refreshes, NEW t \in Tokens, Claim(r, t) PROVE TypeOK'
  BY <1>0, <1>3 DEF Claim, TypeOK
<1>4. ASSUME NEW r \in Refreshes, NEW t \in Tokens, Replay(r, t) PROVE TypeOK'
  <2>1. FamilyOf(t) \subseteq issued /\ r \in Revokers
    BY DEF FamilyOf, Revokers
  <2>2. QED
    BY <1>0, <1>4, <2>1, TypeFind DEF Replay, TypeOK
<1>5. ASSUME NEW r \in Refreshes, RefreshLoad(r) PROVE TypeOK'
  BY <1>0, <1>5 DEF RefreshLoad, TypeOK
<1>6. ASSUME NEW r \in Refreshes, RefreshCommit(r) PROVE TypeOK'
  <2>1. r \in Rotating /\ r \in Tokens
    BY <1>6 DEF RefreshCommit, Rotating, Tokens
  <2>2. token[r] \in issued /\ family[token[r]] \in Logins
    BY <2>1 DEF SessionInv, RowsSound
  <2>3. QED
    BY <1>0, <1>6, <2>1, <2>2 DEF RefreshCommit, TypeOK
<1>7. ASSUME NEW r \in Revokers, RevokeCommit(r) PROVE TypeOK'
  <2>1. targets[r] \subseteq issued
    BY DEF SessionInv, RevocationsSound
  <2>2. QED
    BY <1>0, <1>7, <2>1 DEF RevokeCommit, TypeOK
<1>8. ASSUME NEW r \in Logouts \cup Bumps, NEW t \in Tokens, Authenticate(r, t) PROVE TypeOK'
  BY <1>0, <1>8 DEF Authenticate, TypeOK
<1>9. ASSUME NEW r \in Logouts, NEW found, found \subseteq issued, LogoutFind(r, found)
      PROVE  TypeOK'
  <2>1. access[r] \in issued /\ r \in Revokers
    BY <1>9 DEF LogoutFind, SessionInv, LogoutsSound, Revokers
  <2>2. denied' \subseteq issued
    BY <1>0, <1>9, <2>1 DEF LogoutFind, TypeOK
  <2>3. QED
    BY <1>0, <1>9, <2>1, <2>2, TypeFind DEF LogoutFind, TypeOK
<1>10. ASSUME NEW r \in Bumps, ResetLoad(r) PROVE TypeOK'
  BY <1>0, <1>10 DEF ResetLoad, TypeOK
<1>11. ASSUME NEW r \in Bumps, BumpFind(r) PROVE TypeOK'
  BY <1>0, <1>11, TypeFind DEF BumpFind, TypeOK, Revokers
<1>12. ASSUME NEW r \in Bumps, BumpCommit(r) PROVE TypeOK'
  <2>1. targets[r] \subseteq issued /\ r \in Revokers
    BY DEF SessionInv, RevocationsSound, Revokers
  <2>2. version' \in Nat /\ lost' \in BOOLEAN /\ ended' \subseteq Tokens
    BY <1>0, <1>12 DEF BumpCommit, TypeOK
  <2>3. QED
    BY <1>0, <1>12, <2>1, <2>2 DEF BumpCommit, TypeOK
<1>13. ASSUME NEW r \in Revokers, Die(r) PROVE TypeOK'
  BY <1>0, <1>13 DEF Die, TypeOK
<1>14. ASSUME Outage PROVE TypeOK'
  BY <1>0, <1>14 DEF Outage, TypeOK
<1>15. CASE UNCHANGED vars
  BY <1>0, <1>15 DEF TypeOK, vars
<1>16. QED
  BY <1>1, <1>2, <1>3, <1>4, <1>5, <1>6, <1>7, <1>8, <1>9, <1>10, <1>11, <1>12, <1>13, <1>14, <1>15
     DEF Next, FamilyOf, Revokers

-----------------------------------------------------------------------------
(* The refresh tokens.                                                      *)

\* No token is issued twice, rotated twice or rotated when it cannot be
\* (sessions.py rotate_refresh_token).
LEMMA RowsNext == SessionInv /\ [Next]_vars => RowsSound'
<1> SUFFICES ASSUME SessionInv, [Next]_vars PROVE RowsSound'
  OBVIOUS
<1> USE Kinds DEF rows, user, denylist, Goto, Idle, Issue
<1>0. TypeOK /\ RowsSound
  BY DEF SessionInv
\* A step that writes no row and starts no rotation.
<1>1. ASSUME UNCHANGED <<rows, token>>, Rotating' \subseteq Rotating,
             \A t \in issued : pc'[t] = "done"
      PROVE  RowsSound'
  BY <1>0, <1>1 DEF RowsSound
\* A step of a request that is not rotating and has issued no token.
<1>2. ASSUME NEW r \in Requests, NEW to, pc[r] # "done", to \notin {"claimed", "loaded"},
             pc' = [pc EXCEPT ![r] = to], UNCHANGED <<rows, token>>
      PROVE  RowsSound'
  <2>1. Rotating' \subseteq Rotating
    BY <1>0, <1>2 DEF Rotating, TypeOK
  <2>2. \A t \in issued : pc'[t] = "done"
    BY <1>0, <1>2 DEF RowsSound, TypeOK
  <2>3. QED
    BY <1>1, <1>2, <2>1, <2>2
\* A step that revokes rows that are not locked.
<1>3. ASSUME NEW r \in Revokers, pc[r] = "revoking", \A t \in targets[r] : ~ Locked(t),
             pc' = [pc EXCEPT ![r] = "done"], revoked' = revoked \cup targets[r],
             UNCHANGED <<issued, family, spent, token>>
      PROVE  RowsSound'
  <2>1. Rotating' = Rotating
    BY <1>0, <1>3 DEF Rotating, TypeOK
  <2>2. \A q \in Rotating : token[q] \notin targets[r]
    BY <1>3 DEF Locked
  <2>3. QED
    BY <1>0, <1>3, <2>1, <2>2 DEF RowsSound, TypeOK
<1>4. ASSUME NEW r \in Logins, LoginLoad(r) PROVE RowsSound'
  <2>1. Rotating' \subseteq Rotating
    BY <1>0, <1>4, RequestsAssumption DEF LoginLoad, Rotating, TypeOK
  <2>2. \A t \in issued : pc'[t] = "done"
    BY <1>0, <1>4 DEF LoginLoad, RowsSound, TypeOK
  <2>3. QED
    BY <1>1, <1>4, <2>1, <2>2 DEF LoginLoad
<1>5. ASSUME NEW r \in Logins, LoginCommit(r) PROVE RowsSound'
  <2>1. Rotating' = Rotating /\ r \in Tokens /\ r \notin issued
    BY <1>0, <1>5, RequestsAssumption DEF LoginCommit, Rotating, TypeOK, RowsSound, Tokens
  <2>2. /\ issued' = issued \cup {r} /\ family'[r] = r /\ pc'[r] = "done"
        /\ \A t \in issued : family'[t] = family[t] /\ pc'[t] = pc[t] /\ family[t] # r
        /\ spent' = spent /\ revoked' = revoked /\ token' = token
    BY <1>0, <1>5, <2>1 DEF LoginCommit, TypeOK, RowsSound
  <2>3. QED
    BY <1>0, <2>1, <2>2 DEF RowsSound
<1>6. ASSUME NEW r \in Refreshes, NEW t \in Tokens, Claim(r, t) PROVE RowsSound'
  <2>1. Rotating' = Rotating \cup {r} /\ r \notin Rotating
    BY <1>0, <1>6 DEF Claim, Rotating, TypeOK
  <2>2. token'[r] = t /\ \A q \in Rotating : token'[q] = token[q] /\ token[q] # t
    BY <1>0, <1>6, <2>1 DEF Claim, Locked, Rotating, TypeOK
  <2>3. \A u \in issued : pc'[u] = "done"
    BY <1>0, <1>6 DEF Claim, RowsSound, TypeOK
  <2>4. QED
    BY <1>0, <1>6, <2>1, <2>2, <2>3 DEF Claim, RowsSound
<1>7. ASSUME NEW r \in Refreshes, RefreshLoad(r) PROVE RowsSound'
  <2>1. Rotating' = Rotating
    BY <1>0, <1>7 DEF RefreshLoad, Rotating, TypeOK
  <2>2. \A t \in issued : pc'[t] = "done"
    BY <1>0, <1>7 DEF RefreshLoad, RowsSound, TypeOK
  <2>3. QED
    BY <1>1, <1>7, <2>1, <2>2 DEF RefreshLoad
<1>8. ASSUME NEW r \in Refreshes, RefreshCommit(r) PROVE RowsSound'
  <2>1. /\ r \in Rotating /\ r \in Tokens /\ r \notin issued
        /\ Rotating' = Rotating \ {r}
    BY <1>0, <1>8 DEF RefreshCommit, Rotating, TypeOK, RowsSound, Tokens
  <2>2. token[r] \in issued \ (spent \cup revoked) /\ r \notin revoked /\ r \notin spent
    BY <1>0, <2>1 DEF RowsSound, TypeOK
  <2>3. /\ issued' = issued \cup {r} /\ family'[r] = family[token[r]] /\ pc'[r] = "done"
        /\ \A t \in issued : family'[t] = family[t] /\ pc'[t] = pc[t]
        /\ spent' = spent \cup {token[r]} /\ revoked' = revoked /\ token' = token
    BY <1>0, <1>8, <2>1 DEF RefreshCommit, TypeOK
  <2>4. \A q \in Rotating \ {r} : token[q] # token[r]
    BY <1>0, <2>1 DEF RowsSound
  <2>5. \A t, u \in issued' \ (spent' \cup revoked') : family'[t] = family'[u] => t = u
    BY <1>0, <2>1, <2>2, <2>3 DEF RowsSound
  <2>6. QED
    BY <1>0, <2>1, <2>2, <2>3, <2>4, <2>5 DEF RowsSound
<1>9. ASSUME NEW r \in Refreshes, NEW t \in Tokens, Replay(r, t) PROVE RowsSound'
  <2>1. Rotating' = Rotating /\ r \notin Rotating
    BY <1>0, <1>9 DEF Replay, Find, Rotating, TypeOK
  <2>2. \A q \in Rotating : token'[q] = token[q]
    BY <1>0, <1>9, <2>1 DEF Replay, Rotating, TypeOK
  <2>3. \A u \in issued : pc'[u] = "done"
    BY <1>0, <1>9 DEF Replay, Find, RowsSound, TypeOK
  <2>4. QED
    BY <1>0, <1>9, <2>1, <2>2, <2>3 DEF Replay, RowsSound
<1>10. ASSUME NEW r \in Revokers, RevokeCommit(r) PROVE RowsSound'
  BY <1>3, <1>10 DEF RevokeCommit
<1>11. ASSUME NEW r \in Logouts \cup Bumps, NEW t \in Tokens, Authenticate(r, t) PROVE RowsSound'
  BY <1>2, <1>11 DEF Authenticate
<1>12. ASSUME NEW r \in Logouts, NEW found, LogoutFind(r, found) PROVE RowsSound'
  BY <1>2, <1>12 DEF LogoutFind, Find
<1>13. ASSUME NEW r \in Bumps, ResetLoad(r) \/ BumpFind(r) PROVE RowsSound'
  BY <1>2, <1>13 DEF ResetLoad, BumpFind, Find
<1>14. ASSUME NEW r \in Bumps, BumpCommit(r) PROVE RowsSound'
  BY <1>3, <1>14 DEF BumpCommit, Revokers
<1>15. ASSUME NEW r \in Revokers, Die(r) PROVE RowsSound'
  BY <1>2, <1>15 DEF Die, Rotating
<1>16. CASE Outage \/ UNCHANGED vars
  BY <1>0, <1>1, <1>16 DEF Outage, vars, RowsSound, Rotating
<1>17. QED
  BY <1>4, <1>5, <1>6, <1>7, <1>8, <1>9, <1>10, <1>11, <1>12, <1>13, <1>14, <1>15, <1>16
     DEF Next, Revokers

-----------------------------------------------------------------------------
(* The revocations.                                                         *)

\* The rows that are not spent or revoked can only be fewer.
LEMMA LiveShrinks ==
    ASSUME NEW f, NEW more, issued' = issued, family' = family, spent' = spent,
           revoked' = revoked \cup more
    PROVE  Live(f)' = Live(f) \ more
BY DEF Live

\* What a revocation has found stays found, and what it ended stays ended, if
\* the step takes no family it has found any further.
LEMMA RevocationsKept ==
    ASSUME SessionInv, targets' = targets, issued \subseteq issued', raced \subseteq raced',
           \A q \in Revokers : pc'[q] \in {"revoking", "done"} => pc'[q] = pc[q] \/ targets[q] = {},
           \A q \in Revokers : pc'[q] \in {"idle", "loaded", "claimed", "authenticated"}
             => pc[q] \in {"idle", "loaded", "claimed", "authenticated"},
           \A q \in Revokers \ raced' : pc[q] \in {"revoking", "done"} =>
             \A t \in targets[q] :
               /\ family'[t] = family[t] /\ Live(family[t])' \subseteq Live(family[t])
               /\ pc[q] = "revoking" /\ Locked(t)' => Locked(t)
    PROVE  RevocationsSound'
<1> USE DEF SessionInv
<1>1. \A r \in Revokers : targets'[r] \subseteq issued'
  BY DEF RevocationsSound
<1>2. \A r \in Revokers :
        pc'[r] \in {"idle", "loaded", "claimed", "authenticated"} => targets'[r] = {}
  BY DEF RevocationsSound
<1>3. ASSUME NEW r \in Revokers \ raced', pc'[r] = "revoking" PROVE Found(r)'
  <2>1. CASE targets[r] = {}
    BY <2>1 DEF Found
  <2>2. CASE targets[r] # {}
    <3>1. pc[r] = "revoking" /\ Found(r)
      BY <1>3, <2>2 DEF RevocationsSound
    <3>2. SUFFICES ASSUME NEW t \in targets[r]
                   PROVE  ~ Locked(t)' /\ Live(family[t])' \subseteq targets[r]
      BY <3>1 DEF Found
    <3>3. QED
      BY <1>3, <3>1, <3>2 DEF Found
  <2>3. QED
    BY <2>1, <2>2
<1>4. ASSUME NEW r \in Revokers \ raced', pc'[r] = "done", NEW t \in targets'[r]
      PROVE  Live(family[t])' = {}
  <2>1. pc[r] = "done" /\ Live(family[t]) = {}
    BY <1>4 DEF RevocationsSound, RevocationIsFinal
  <2>2. QED
    BY <1>4, <2>1
<1>5. QED
  BY <1>1, <1>2, <1>3, <1>4 DEF RevocationsSound, RevocationIsFinal

\* A revocation's UPDATE has found whole families (sessions.py _revoke_family,
\* revoke_all_for_user).
LEMMA RevocationsFind ==
    ASSUME SessionInv, NEW r \in Revokers, NEW found, found \subseteq issued,
           \A t \in found : FamilyOf(t) \subseteq found,
           pc[r] \in {"idle", "authenticated"}, Find(r, found), UNCHANGED rows,
           \A q \in Rotating : token'[q] = token[q]
    PROVE  RevocationsSound'
<1> USE Kinds DEF rows, Goto
<1>0. TypeOK /\ RevocationsSound
  BY DEF SessionInv
<1>1. Rotating' = Rotating
  BY <1>0 DEF Find, Rotating, TypeOK
<1>2. \A t \in Tokens : Locked(t)' = Locked(t)
  BY <1>1 DEF Locked
<1>3. \A f : Live(f)' = Live(f)
  BY DEF Live
<1>4. /\ pc'[r] = "revoking" /\ targets'[r] = found
      /\ \A q \in Revokers \ {r} : pc'[q] = pc[q] /\ targets'[q] = targets[q]
      /\ raced \subseteq raced' /\ (r \notin raced' => \A t \in found : ~ Locked(t))
  BY <1>0 DEF Find, TypeOK
<1>5. ASSUME NEW q \in Revokers \ raced', pc'[q] = "revoking" PROVE Found(q)'
  <2>1. CASE q = r
    <3>1. \A t \in found : Live(family[t]) \subseteq found
      BY DEF Live, FamilyOf
    <3>2. \A t \in found : ~ Locked(t)' /\ Live(family[t])' \subseteq found
      BY <1>0, <1>2, <1>3, <1>4, <1>5, <2>1, <3>1 DEF TypeOK
    <3>3. QED
      BY <1>4, <2>1, <3>2 DEF Found
  <2>2. CASE q # r
    <3>1. Found(q) /\ targets'[q] = targets[q] /\ targets[q] \subseteq Tokens
      BY <1>0, <1>4, <1>5, <2>2 DEF RevocationsSound, TypeOK
    <3>2. QED
      BY <1>2, <1>3, <3>1 DEF Found
  <2>3. QED
    BY <2>1, <2>2
<1>6. RevocationIsFinal'
  BY <1>0, <1>3, <1>4 DEF RevocationsSound, RevocationIsFinal
<1>7. QED
  BY <1>0, <1>4, <1>5, <1>6 DEF RevocationsSound

\* A revocation that waits for no lock revokes what it found.
LEMMA RevocationsCommit ==
    ASSUME SessionInv, NEW r \in Revokers, pc[r] = "revoking",
           pc' = [pc EXCEPT ![r] = "done"], revoked' = revoked \cup targets[r],
           UNCHANGED <<issued, family, spent, token, targets, raced>>
    PROVE  RevocationsSound'
<1> USE Kinds
<1>0. TypeOK /\ RevocationsSound
  BY DEF SessionInv
<1>1. \A f : Live(f)' = Live(f) \ targets[r]
  BY LiveShrinks
<1>2. Rotating' = Rotating
  BY <1>0 DEF Rotating, TypeOK
<1>3. \A t : Locked(t)' = Locked(t)
  BY <1>2 DEF Locked
<1>4. pc'[r] = "done" /\ \A q \in Revokers \ {r} : pc'[q] = pc[q]
  BY <1>0 DEF TypeOK
<1>5. ASSUME NEW q \in Revokers \ raced, pc'[q] = "revoking" PROVE Found(q)'
  BY <1>0, <1>1, <1>3, <1>4, <1>5 DEF Found, RevocationsSound
<1>6. ASSUME NEW q \in Revokers \ raced, pc'[q] = "done", NEW t \in targets[q]
      PROVE  Live(family[t])' = {}
  <2>1. CASE q = r
    BY <1>0, <1>1, <1>6, <2>1 DEF Found, RevocationsSound
  <2>2. CASE q # r
    BY <1>0, <1>1, <1>4, <1>6, <2>2 DEF RevocationsSound, RevocationIsFinal
  <2>3. QED
    BY <2>1, <2>2
<1>7. RevocationIsFinal'
  BY <1>6 DEF RevocationIsFinal
<1>8. QED
  BY <1>0, <1>4, <1>5, <1>7 DEF RevocationsSound

\* No step brings back a family that a revocation has ended, unless a rotation
\* crossed it (sessions.py).
LEMMA RevocationsNext == SessionInv /\ [Next]_vars => RevocationsSound'
<1> SUFFICES ASSUME SessionInv, [Next]_vars PROVE RevocationsSound'
  OBVIOUS
<1> USE Kinds DEF rows, user, denylist, Goto, Idle, Issue
<1>0. TypeOK /\ RowsSound /\ RevocationsSound
  BY DEF SessionInv
\* A step of one request that changes no row.
<1>1. ASSUME NEW r \in Requests, NEW to, pc' = [pc EXCEPT ![r] = to], UNCHANGED <<rows, targets, raced>>,
             pc[r] \notin {"revoking", "done"} \/ to = "dead", to \notin {"revoking", "done"},
             r \in Revokers /\ to # "dead" => pc[r] \in {"idle", "loaded", "claimed", "authenticated"},
             Rotating' \subseteq Rotating, \A q \in Rotating : token'[q] = token[q]
      PROVE  RevocationsSound'
  <2>1. \A t : Locked(t)' => Locked(t)
    BY <1>1 DEF Locked
  <2>2. \A f : Live(f)' = Live(f)
    BY <1>1 DEF Live
  <2>3. \A q \in Revokers : pc'[q] = IF q = r THEN to ELSE pc[q]
    BY <1>0, <1>1 DEF TypeOK
  <2>4. QED
    BY <1>1, <2>1, <2>2, <2>3, RevocationsKept
<1>2. ASSUME NEW r \in Logins, LoginLoad(r) PROVE RevocationsSound'
  <2>1. Rotating' = Rotating
    BY <1>0, <1>2 DEF LoginLoad, Rotating, TypeOK, Revokers
  <2>2. QED
    BY <1>1, <1>2, <2>1 DEF LoginLoad
<1>3. ASSUME NEW r \in Logins, LoginCommit(r) PROVE RevocationsSound'
  <2>1. r \notin issued /\ r \in Tokens /\ r \notin Revokers
    BY <1>0, <1>3, RequestsAssumption DEF LoginCommit, RowsSound, Tokens
  <2>2. Rotating' = Rotating /\ \A q \in Revokers : pc'[q] = pc[q]
    BY <1>0, <1>3, <2>1 DEF LoginCommit, Rotating, TypeOK, Revokers
  <2>3. \A t : Locked(t)' => Locked(t)
    BY <1>3, <2>2 DEF Locked, LoginCommit
  <2>4. \A t \in issued : family'[t] = family[t] /\ Live(family[t])' \subseteq Live(family[t])
    BY <1>0, <1>3, <2>1 DEF LoginCommit, Live, TypeOK, RowsSound
  <2>5. targets' = targets /\ raced' = raced /\ issued \subseteq issued'
    BY <1>3 DEF LoginCommit
  <2>6. \A q \in Revokers : targets[q] \subseteq issued
    BY <1>0 DEF RevocationsSound
  <2>7. QED
    BY <2>2, <2>3, <2>4, <2>5, <2>6, RevocationsKept
<1>4. ASSUME NEW r \in Refreshes, NEW t \in Tokens, Claim(r, t) PROVE RevocationsSound'
  <2>1. Rotating' = Rotating \cup {r} /\ r \in Revokers
    BY <1>0, <1>4 DEF Claim, Rotating, TypeOK, Revokers
  <2>2. \A u \in Tokens : Locked(u)' => Locked(u) \/ u = t
    BY <1>0, <1>4, <2>1 DEF Claim, Locked, Rotating, TypeOK
  <2>3. \A f : Live(f)' = Live(f)
    BY <1>4 DEF Claim, Live
  <2>4. \A q \in Revokers : pc'[q] = IF q = r THEN "claimed" ELSE pc[q]
    BY <1>0, <1>4 DEF Claim, TypeOK
  <2>5. \A q \in Revokers \ raced' : pc[q] = "revoking" => t \notin targets[q]
    BY <1>4 DEF Claim
  <2>6. /\ targets' = targets /\ issued' = issued /\ family' = family /\ raced \subseteq raced'
        /\ pc[r] = "idle"
    BY <1>4 DEF Claim
  <2>7. \A q \in Revokers : targets[q] \subseteq Tokens
    BY <1>0 DEF TypeOK
  <2>8. QED
    BY <2>1, <2>2, <2>3, <2>4, <2>5, <2>6, <2>7, RevocationsKept
<1>5. ASSUME NEW r \in Refreshes, RefreshLoad(r) PROVE RevocationsSound'
  <2>1. Rotating' = Rotating
    BY <1>0, <1>5 DEF RefreshLoad, Rotating, TypeOK
  <2>2. QED
    BY <1>1, <1>5, <2>1 DEF RefreshLoad
<1>6. ASSUME NEW r \in Refreshes, RefreshCommit(r) PROVE RevocationsSound'
  <2>1. r \in Rotating /\ r \in Tokens /\ r \notin issued /\ r \in Revokers
    BY <1>0, <1>6 DEF RefreshCommit, Rotating, RowsSound, Revokers
  <2>2. targets[r] = {} /\ \A q \in Revokers : pc'[q] = IF q = r THEN "done" ELSE pc[q]
    BY <1>0, <1>6, <2>1 DEF RefreshCommit, RevocationsSound, TypeOK
  <2>3. token[r] \in Live(family[token[r]]) /\ Locked(token[r])
    BY <1>0, <2>1 DEF RowsSound, Live, Locked
  <2>4. /\ Rotating' \subseteq Rotating /\ targets' = targets /\ raced' = raced
        /\ issued' = issued \cup {r} /\ token' = token
    BY <1>0, <1>6 DEF RefreshCommit, Rotating, TypeOK
  <2>5. \A t : Locked(t)' => Locked(t)
    BY <2>4 DEF Locked
  <2>6. ASSUME NEW q \in Revokers \ raced, pc[q] \in {"revoking", "done"}, NEW t \in targets[q]
        PROVE  family'[t] = family[t] /\ Live(family[t])' \subseteq Live(family[t])
    <3>1. family[t] # family[token[r]]
      <4>1. CASE pc[q] = "revoking"
        BY <1>0, <2>3, <2>6, <4>1 DEF RevocationsSound, Found
      <4>2. CASE pc[q] = "done"
        BY <1>0, <2>3, <2>6, <4>2 DEF RevocationsSound, RevocationIsFinal
      <4>3. QED
        BY <2>6, <4>1, <4>2
    <3>2. t \in issued
      BY <1>0, <2>6 DEF RevocationsSound
    <3>3. QED
      BY <1>0, <1>6, <2>1, <3>1, <3>2 DEF RefreshCommit, Live, TypeOK
  <2>7. QED
    BY <2>1, <2>2, <2>4, <2>5, <2>6, RevocationsKept
<1>7. ASSUME NEW r \in Refreshes, NEW t \in Tokens, Replay(r, t) PROVE RevocationsSound'
  <2>1. r \in Revokers /\ r \notin Rotating
    BY <1>7 DEF Replay, Revokers, Rotating
  <2>2. \A q \in Rotating : token'[q] = token[q]
    BY <1>0, <1>7, <2>1 DEF Replay, TypeOK, Rotating
  <2>3. FamilyOf(t) \subseteq issued /\ \A u \in FamilyOf(t) : FamilyOf(u) \subseteq FamilyOf(t)
    BY DEF FamilyOf
  <2>4. QED
    BY <1>7, <2>1, <2>2, <2>3, RevocationsFind DEF Replay
<1>8. ASSUME NEW r \in Revokers, RevokeCommit(r) PROVE RevocationsSound'
  BY <1>8, RevocationsCommit DEF RevokeCommit
<1>9. ASSUME NEW r \in Logouts \cup Bumps, NEW t \in Tokens, Authenticate(r, t) PROVE RevocationsSound'
  <2>1. Rotating' = Rotating
    BY <1>0, <1>9 DEF Authenticate, Rotating, TypeOK
  <2>2. QED
    BY <1>1, <1>9, <2>1 DEF Authenticate
<1>10. ASSUME NEW r \in Logouts, NEW found, found \subseteq issued,
              \A t \in found : FamilyOf(t) \subseteq found, LogoutFind(r, found)
       PROVE  RevocationsSound'
  BY <1>10, RevocationsFind DEF LogoutFind, Revokers
<1>11. ASSUME NEW r \in Bumps, ResetLoad(r) PROVE RevocationsSound'
  <2>1. Rotating' = Rotating
    BY <1>0, <1>11 DEF ResetLoad, Rotating, TypeOK
  <2>2. QED
    BY <1>1, <1>11, <2>1 DEF ResetLoad
<1>12. ASSUME NEW r \in Bumps, BumpFind(r) PROVE RevocationsSound'
  <2>1. \A t \in issued : FamilyOf(t) \subseteq issued
    BY DEF FamilyOf
  <2>2. QED
    BY <1>12, <2>1, RevocationsFind DEF BumpFind, Revokers
<1>13. ASSUME NEW r \in Bumps, BumpCommit(r) PROVE RevocationsSound'
  BY <1>13, RevocationsCommit DEF BumpCommit, Revokers
<1>14. ASSUME NEW r \in Revokers, Die(r) PROVE RevocationsSound'
  <2>1. Rotating' \subseteq Rotating /\ r \in Requests
    BY <1>0, <1>14 DEF Die, Rotating, TypeOK
  <2>2. QED
    <3>1. UNCHANGED <<rows, targets, raced>> /\ token' = token /\ pc' = [pc EXCEPT ![r] = "dead"]
      BY <1>14 DEF Die
    <3>2. QED
      <4>1. \A t : Locked(t)' => Locked(t)
        BY <2>1, <3>1 DEF Locked
      <4>2. \A f : Live(f)' = Live(f)
        BY <3>1 DEF Live
      <4>3. \A q \in Revokers : pc'[q] = IF q = r THEN "dead" ELSE pc[q]
        BY <1>0, <2>1, <3>1 DEF TypeOK
      <4>4. QED
        BY <3>1, <4>1, <4>2, <4>3, RevocationsKept
<1>15. CASE Outage \/ UNCHANGED vars
  <2>1. UNCHANGED <<pc, token, rows, targets, raced>>
    BY <1>15 DEF Outage, vars
  <2>2. QED
    BY <1>0, <2>1, RevocationsKept DEF Live, Locked, Rotating
<1>16. QED
  <2>1. \A t : FamilyOf(t) \subseteq issued /\ \A u \in FamilyOf(t) : FamilyOf(u) \subseteq FamilyOf(t)
    BY DEF FamilyOf
  <2>2. QED
    BY <1>2, <1>3, <1>4, <1>5, <1>6, <1>7, <1>8, <1>9, <1>10, <1>11, <1>12, <1>13, <1>14, <1>15, <2>1
       DEF Next, Revokers

-----------------------------------------------------------------------------
(* The access tokens.                                                       *)

\* What becomes of a logout in a step that authenticates nobody.
Goes(q) ==
    pc'[q] = pc[q] \/ pc'[q] = "dead" \/ (pc[q] = "revoking" /\ pc'[q] = "done")

\* Logouts go on standing for tokens that were issued and denied
\* (router.py logout, denylist.py deny_jti).
LEMMA LogoutsNext == SessionInv /\ [Next]_vars => LogoutsSound'
<1> SUFFICES ASSUME SessionInv, [Next]_vars PROVE LogoutsSound'
  OBVIOUS
<1> USE Kinds DEF rows, user, denylist, Goto, Idle, Issue
<1>0. TypeOK /\ LogoutsSound
  BY DEF SessionInv
\* A step of no logout, or of one that goes on, and of no authentication.
<1>1. ASSUME access' = access, issued \subseteq issued', denied' = denied, redis' = redis \/ redis' = FALSE,
             \A q \in Logouts : Goes(q)
      PROVE  LogoutsSound'
  BY <1>0, <1>1 DEF LogoutsSound, Goes
<1>2. ASSUME NEW r \in Tokens \cup Bumps, NEW to, pc' = [pc EXCEPT ![r] = to],
             access' = access, issued \subseteq issued', UNCHANGED denylist
      PROVE  LogoutsSound'
  <2>1. \A q \in Logouts : pc'[q] = pc[q]
    BY <1>0, <1>2 DEF TypeOK
  <2>2. access' = access /\ issued \subseteq issued' /\ denied' = denied
    BY <1>2
  <2>3. redis' = redis \/ redis' = FALSE
    BY <1>2
  <2>4. QED
    BY <1>1, <2>1, <2>2, <2>3 DEF Goes
<1>3. ASSUME NEW r \in Logins, LoginLoad(r) \/ LoginCommit(r) PROVE LogoutsSound'
  BY <1>2, <1>3 DEF LoginLoad, LoginCommit, Tokens
<1>4. ASSUME NEW r \in Refreshes, NEW t \in Tokens, Claim(r, t) \/ Replay(r, t) PROVE LogoutsSound'
  BY <1>2, <1>4 DEF Claim, Replay, Find
<1>5. ASSUME NEW r \in Refreshes, RefreshLoad(r) \/ RefreshCommit(r) PROVE LogoutsSound'
  BY <1>2, <1>5 DEF RefreshLoad, RefreshCommit
<1>6. ASSUME NEW r \in Revokers, RevokeCommit(r) \/ Die(r) PROVE LogoutsSound'
  <2>1. CASE RevokeCommit(r)
    BY <1>0, <1>1, <2>1 DEF RevokeCommit, TypeOK, Goes
  <2>2. CASE Die(r)
    BY <1>0, <1>1, <2>2 DEF Die, TypeOK, Goes
  <2>3. QED
    BY <1>6, <2>1, <2>2
<1>7. ASSUME NEW r \in Logouts \cup Bumps, NEW t \in Tokens, Authenticate(r, t) PROVE LogoutsSound'
  <2>1. t \in issued /\ access'[r] = t /\ pc'[r] = "authenticated"
    BY <1>0, <1>7 DEF Authenticate, Accepted, TypeOK
  <2>2. \A q \in (Logouts \cup Bumps) \ {r} : access'[q] = access[q] /\ pc'[q] = pc[q]
    BY <1>0, <1>7 DEF Authenticate, TypeOK
  <2>3. issued' = issued /\ denied' = denied /\ redis' = redis
    BY <1>7 DEF Authenticate
  <2>4. QED
    BY <1>0, <2>1, <2>2, <2>3 DEF LogoutsSound
<1>8. ASSUME NEW r \in Logouts, NEW found, LogoutFind(r, found) PROVE LogoutsSound'
  <2>1. /\ access' = access /\ issued' = issued /\ redis' = redis /\ denied \subseteq denied'
        /\ redis => access[r] \in denied'
        /\ pc'[r] = "revoking" /\ \A q \in Logouts \ {r} : pc'[q] = pc[q]
    BY <1>0, <1>8 DEF LogoutFind, Find, TypeOK
  <2>2. QED
    BY <1>0, <2>1 DEF LogoutsSound
<1>9. ASSUME NEW r \in Bumps, ResetLoad(r) \/ BumpFind(r) \/ BumpCommit(r) PROVE LogoutsSound'
  BY <1>2, <1>9 DEF ResetLoad, BumpFind, BumpCommit, Find
<1>10. CASE Outage \/ UNCHANGED vars
  BY <1>1, <1>10 DEF Outage, vars, Goes
<1>11. QED
  BY <1>3, <1>4, <1>5, <1>6, <1>7, <1>8, <1>9, <1>10 DEF Next, Revokers

\* As long as no bump overwrites another one's, a token that was ended carries
\* a version that is over (auth.py read_token, router.py logout_all).
LEMMA VersionsNext == SessionInv /\ [Next]_vars => VersionsSound'
<1> SUFFICES ASSUME SessionInv, [Next]_vars PROVE VersionsSound'
  OBVIOUS
<1> USE Kinds DEF rows, user, denylist, Goto, Idle, Issue
<1>0. TypeOK /\ RowsSound /\ VersionsSound
  BY DEF SessionInv
\* A step that reads no version on behalf of a token.
<1>1. ASSUME UNCHANGED user, \A t \in Tokens : seen'[t] = seen[t],
             \A t \in Tokens : \/ pc'[t] = pc[t] \/ pc'[t] \in {"done", "dead"}
                              \/ pc[t] \notin {"loaded", "done", "dead"}
      PROVE  VersionsSound'
  <2>1. ended \subseteq Tokens
    BY <1>0 DEF TypeOK
  <2>2. QED
    BY <1>0, <1>1, <2>1 DEF VersionsSound
\* A token's request reads the version.
<1>2. ASSUME NEW r \in Tokens, pc[r] \notin {"loaded", "done", "dead"}, UNCHANGED user,
             seen' = [seen EXCEPT ![r] = version]
      PROVE  VersionsSound' \/ pc' # [pc EXCEPT ![r] = "loaded"]
  <2>1. r \notin ended /\ ended \subseteq Tokens /\ version \in Nat
    BY <1>0, <1>2 DEF VersionsSound, TypeOK
  <2>2. \A t \in Tokens : seen'[t] = IF t = r THEN version ELSE seen[t]
    BY <1>0, <1>2 DEF TypeOK
  <2>3. SUFFICES ASSUME pc' = [pc EXCEPT ![r] = "loaded"] PROVE VersionsSound'
    OBVIOUS
  <2>4. \A t \in Tokens \ {r} : pc'[t] = pc[t]
    BY <1>0, <2>3 DEF TypeOK
  <2>5. QED
    BY <1>0, <1>2, <2>1, <2>2, <2>4 DEF VersionsSound
\* A step of a request that issues no token.
<1>3. ASSUME NEW r \in Logouts \cup Bumps, NEW to, pc' = [pc EXCEPT ![r] = to], UNCHANGED user,
             \A t \in Tokens : seen'[t] = seen[t]
      PROVE  VersionsSound'
  BY <1>0, <1>1, <1>3 DEF TypeOK
<1>4. ASSUME NEW r \in Logins, LoginLoad(r) PROVE VersionsSound'
  BY <1>2, <1>4 DEF LoginLoad, Tokens
<1>5. ASSUME NEW r \in Refreshes, RefreshLoad(r) PROVE VersionsSound'
  BY <1>2, <1>5 DEF RefreshLoad
<1>6. ASSUME NEW r \in Logins, LoginCommit(r) PROVE VersionsSound'
  BY <1>0, <1>1, <1>6 DEF LoginCommit, TypeOK
<1>7. ASSUME NEW r \in Refreshes, NEW t \in Tokens, Claim(r, t) \/ Replay(r, t)
      PROVE  VersionsSound'
  <2>1. \A u \in Tokens : pc'[u] = pc[u] \/ pc[u] = "idle"
    BY <1>0, <1>7 DEF Claim, Replay, Find, TypeOK
  <2>2. seen' = seen /\ UNCHANGED user
    BY <1>7 DEF Claim, Replay
  <2>3. QED
    BY <1>1, <2>1, <2>2
<1>8. ASSUME NEW r \in Refreshes, RefreshCommit(r) PROVE VersionsSound'
  BY <1>0, <1>1, <1>8 DEF RefreshCommit, TypeOK
<1>9. ASSUME NEW r \in Revokers, RevokeCommit(r) \/ Die(r) PROVE VersionsSound'
  <2>1. \A u \in Tokens : pc'[u] = pc[u] \/ pc'[u] \in {"done", "dead"}
    BY <1>0, <1>9 DEF RevokeCommit, Die, TypeOK
  <2>2. seen' = seen /\ UNCHANGED user
    BY <1>9 DEF RevokeCommit, Die
  <2>3. QED
    BY <1>1, <2>1, <2>2
<1>10. ASSUME NEW r \in Logouts \cup Bumps, NEW t \in Tokens, Authenticate(r, t)
       PROVE  VersionsSound'
  BY <1>0, <1>3, <1>10 DEF Authenticate, TypeOK
<1>11. ASSUME NEW r \in Logouts, NEW found, LogoutFind(r, found) PROVE VersionsSound'
  BY <1>3, <1>11 DEF LogoutFind, Find
<1>12. ASSUME NEW r \in Bumps, ResetLoad(r) \/ BumpFind(r) PROVE VersionsSound'
  BY <1>0, <1>3, <1>12 DEF ResetLoad, BumpFind, Find, TypeOK
<1>13. ASSUME NEW r \in Bumps, BumpCommit(r) PROVE VersionsSound'
  <2>1. /\ version' = seen[r] + 1 /\ seen' = seen /\ (~ lost' => ~ lost /\ version = seen[r])
        /\ ended' = ended \cup issued \cup {t \in Tokens : pc[t] = "loaded"}
    BY <1>13 DEF BumpCommit
  <2>2. \A t \in Tokens : pc'[t] = pc[t]
    BY <1>0, <1>13 DEF BumpCommit, TypeOK
  <2>3. \A t \in ended' : pc'[t] \in {"loaded", "done", "dead"} /\ t \in Tokens
    BY <1>0, <2>1, <2>2 DEF VersionsSound, RowsSound, TypeOK
  <2>4. version \in Nat /\ \A t \in Tokens : seen[t] \in Nat
    BY <1>0 DEF TypeOK
  <2>5. ~ lost' => \A t \in Tokens : seen'[t] < version'
    BY <1>0, <2>1, <2>4 DEF VersionsSound
  <2>6. ~ lost' => \A t \in Tokens : seen'[t] <= version'
    BY <1>0, <2>1, <2>4 DEF VersionsSound
  <2>7. QED
    BY <2>3, <2>5, <2>6 DEF VersionsSound
<1>14. CASE Outage \/ UNCHANGED vars
  BY <1>1, <1>14 DEF Outage, vars
<1>15. QED
  BY <1>4, <1>5, <1>6, <1>7, <1>8, <1>9, <1>10, <1>11, <1>12, <1>13, <1>14 DEF Next, Revokers

\* The invariant of the sessions is inductive.
LEMMA SessionsInductive ==
    /\ Init => SessionInv
    /\ SessionInv /\ [Next]_vars => SessionInv'
<1>1. ASSUME Init PROVE SessionInv
  <2>1. /\ pc = [r \in Requests |-> "idle"] /\ issued = {} /\ raced = {}
        /\ targets = [r \in Revokers |-> {}]
        /\ access = [r \in Logouts \cup Bumps |-> None] /\ ended = {}
        /\ version = 0 /\ seen = [r \in Requests |-> 0]
    BY <1>1 DEF Init
  <2>2. RowsSound
    BY <2>1, Kinds DEF RowsSound, Rotating
  <2>3. RevocationsSound
    BY <2>1, Kinds DEF RevocationsSound, RevocationIsFinal
  <2>4. LogoutsSound
    BY <2>1, Kinds DEF LogoutsSound
  <2>5. VersionsSound
    BY <2>1, Kinds DEF VersionsSound
  <2>6. QED
    BY <1>1, <2>2, <2>3, <2>4, <2>5, SessionTypeInit DEF SessionInv
<1>2. ASSUME SessionInv, [Next]_vars PROVE SessionInv'
  BY <1>2, SessionTypeNext, RowsNext, RevocationsNext, LogoutsNext, VersionsNext DEF SessionInv
<1>3. QED
  BY <1>1, <1>2

-----------------------------------------------------------------------------
(* Token families.                                                          *)

\* A family's live tokens with and without a step (see Families).
live == [f \in Logins |-> Live(f)]
begun == {family[t] : t \in issued}

\* A step that changes no row is no step of a family.
LEMMA FamilyStutter ==
    ASSUME UNCHANGED rows
    PROVE  UNCHANGED <<live, begun, issued>>
BY DEF rows, live, begun, Live

\* A revocation ends the families whose live token it has found.
LEMMA FamilyEnd ==
    ASSUME SessionInv, NEW r \in Revokers, revoked' = revoked \cup targets[r],
           UNCHANGED <<issued, family, spent>>
    PROVE  FamilyContract!Next
<1> DEFINE F == {f \in Logins : Live(f) \cap targets[r] # {}}
<1>1. \A f \in Logins : Live(f)' = IF f \in F THEN {} ELSE Live(f)
  <2> SUFFICES ASSUME NEW f \in Logins PROVE Live(f)' = IF f \in F THEN {} ELSE Live(f)
    OBVIOUS
  <2>1. Live(f)' = Live(f) \ targets[r]
    BY LiveShrinks
  <2>2. \A t, u \in Live(f) : t = u
    BY DEF SessionInv, RowsSound, Live
  <2>3. QED
    BY <2>1, <2>2
<1>2. FamilyContract!End(F)
  BY <1>1 DEF FamilyContract!End
<1>3. F \in SUBSET Logins
  OBVIOUS
<1> HIDE DEF F
<1>4. QED
  BY <1>2, <1>3 DEF FamilyContract!Next

\* A login begins a family of its own.
LEMMA FamilyBegin ==
    ASSUME SessionInv, NEW r \in Logins, LoginCommit(r)
    PROVE  FamilyContract!Next
<1>0. TypeOK /\ RowsSound
  BY DEF SessionInv
<1>1. r \in Tokens /\ r \notin issued
  BY <1>0 DEF Tokens, LoginCommit, RowsSound
<1>2. /\ issued' = issued \cup {r} /\ spent' = spent /\ revoked' = revoked
      /\ family' = [family EXCEPT ![r] = r] /\ family'[r] = r
      /\ \A t \in issued : family'[t] = family[t] /\ family[t] # r
  BY <1>0, <1>1 DEF LoginCommit, Issue, TypeOK, RowsSound
<1>3. r \notin spent /\ r \notin revoked
  BY <1>0, <1>1 DEF TypeOK
<1>4. [f \in Logins |-> Live(f)]' = [[f \in Logins |-> Live(f)] EXCEPT ![r] = {r}]
  BY <1>1, <1>2, <1>3 DEF Live
<1>5. {family[t] : t \in issued}' = {family[t] : t \in issued} \cup {r}
  BY <1>2
<1>6. r \notin {family[t] : t \in issued}
  BY <1>2
<1>7. FamilyContract!Begin(r, r)
  BY <1>1, <1>2, <1>4, <1>5, <1>6 DEF FamilyContract!Begin
<1>8. QED
  BY <1>1, <1>7 DEF FamilyContract!Next

\* A rotation passes the right to rotate on to a token that is new.
LEMMA FamilyPass ==
    ASSUME SessionInv, NEW r \in Refreshes, RefreshCommit(r)
    PROVE  FamilyContract!Next
<1> DEFINE f == family[token[r]]
<1>0. TypeOK /\ RowsSound
  BY DEF SessionInv
<1>1. r \in Rotating /\ r \in Tokens /\ r \notin issued
  BY <1>0, Kinds DEF RefreshCommit, RowsSound, Rotating
<1>2. token[r] \in issued \ (spent \cup revoked) /\ f \in Logins
  BY <1>0, <1>1 DEF RowsSound
<1>3. /\ issued' = issued \cup {r} /\ spent' = spent \cup {token[r]} /\ revoked' = revoked
      /\ family' = [family EXCEPT ![r] = f] /\ family'[r] = f
      /\ \A t \in issued : family'[t] = family[t]
  BY <1>0, <1>1 DEF RefreshCommit, Issue, TypeOK
<1>4. r \notin spent /\ r \notin revoked /\ r # token[r]
  BY <1>0, <1>1, <1>2 DEF TypeOK
<1>5. token[r] \in Live(f) /\ \A t \in Live(f) : t = token[r]
  BY <1>0, <1>2 DEF Live, RowsSound
<1> HIDE DEF f
<1>6. \A g \in Logins : Live(g)' = IF g = f THEN {r} ELSE Live(g)
  <2> SUFFICES ASSUME NEW g \in Logins PROVE Live(g)' = IF g = f THEN {r} ELSE Live(g)
    OBVIOUS
  <2>1. CASE g = f
    BY <1>3, <1>4, <1>5, <2>1 DEF Live
  <2>2. CASE g # f
    <3>1. token[r] \notin Live(g)
      BY <2>2 DEF Live, f
    <3>2. QED
      BY <1>3, <2>2, <3>1 DEF Live
  <2>3. QED
    BY <2>1, <2>2
<1>7. {family[t] : t \in issued}' = {family[t] : t \in issued}
  BY <1>2, <1>3 DEF f
<1>8. FamilyContract!Pass(f, r)
  BY <1>1, <1>2, <1>3, <1>5, <1>6, <1>7 DEF FamilyContract!Pass
<1>9. QED
  BY <1>1, <1>2, <1>8 DEF FamilyContract!Next

\* Every step of the sessions is one of the families, or none
\* (sessions.py, Families).
LEMMA FamilyStep ==
    SessionInv /\ [Next]_vars => [FamilyContract!Next]_<<live, begun, issued>>
<1> SUFFICES ASSUME SessionInv, [Next]_vars,
                    ~ UNCHANGED <<live, begun, issued>>
             PROVE  FamilyContract!Next
  OBVIOUS
<1>1. ~ UNCHANGED rows
  BY FamilyStutter
<1>2. ASSUME NEW r \in Logins, LoginLoad(r) \/ LoginCommit(r) PROVE FamilyContract!Next
  BY <1>1, <1>2, FamilyBegin DEF LoginLoad
<1>3. ASSUME NEW r \in Refreshes, NEW t \in Tokens, Claim(r, t) \/ Replay(r, t) PROVE FALSE
  BY <1>1, <1>3 DEF Claim, Replay
<1>4. ASSUME NEW r \in Refreshes, RefreshLoad(r) \/ RefreshCommit(r) PROVE FamilyContract!Next
  BY <1>1, <1>4, FamilyPass DEF RefreshLoad
<1>5. ASSUME NEW r \in Revokers, RevokeCommit(r) PROVE FamilyContract!Next
  BY <1>5, FamilyEnd DEF RevokeCommit
<1>6. ASSUME NEW r \in Logouts \cup Bumps, NEW t \in Tokens, Authenticate(r, t) PROVE FALSE
  BY <1>1, <1>6 DEF Authenticate
<1>7. ASSUME NEW r \in Logouts, NEW found, LogoutFind(r, found) PROVE FALSE
  BY <1>1, <1>7 DEF LogoutFind
<1>8. ASSUME NEW r \in Bumps, ResetLoad(r) \/ BumpFind(r) PROVE FALSE
  BY <1>1, <1>8 DEF ResetLoad, BumpFind
<1>9. ASSUME NEW r \in Bumps, BumpCommit(r) PROVE FamilyContract!Next
  BY <1>9, FamilyEnd DEF BumpCommit, Revokers
<1>10. ASSUME NEW r \in Revokers, Die(r) PROVE FALSE
  BY <1>1, <1>10 DEF Die
<1>11. ~ (Outage \/ UNCHANGED vars)
  BY <1>1 DEF Outage, vars, rows
<1>12. QED
  BY <1>2, <1>3, <1>4, <1>5, <1>6, <1>7, <1>8, <1>9, <1>10, <1>11 DEF Next, Revokers

\* A user without tokens has no family.
LEMMA FamilyInit == Init => FamilyContract!Init
BY DEF Init, FamilyContract!Init, Live

-----------------------------------------------------------------------------
(* Keys.                                                                    *)

\* A request that has loaded the key's row can count on there being one.
KeysSound ==
    /\ key \in KeyRow \cup {NoKey}
    /\ at \in [Uses -> {"idle", "loaded", "done"}]
    /\ copy \in [Uses -> KeyRow \cup {NoKey}]
    /\ \A u \in Uses : at[u] # "idle" => key \in KeyRow

\* Minting, loading, stamping and revoking keep the row a row
\* (api_keys/router.py, dependencies.py).
LEMMA KeysNext == KeysSound /\ (KeyNext \/ UNCHANGED keyVars) => KeysSound'
<1> SUFFICES ASSUME KeysSound, KeyNext \/ UNCHANGED keyVars PROVE KeysSound'
  OBVIOUS
<1>1. CASE CreateKey
  BY <1>1 DEF CreateKey, KeysSound, KeyRow
<1>2. ASSUME NEW u \in Uses, LoadKey(u) PROVE KeysSound'
  BY <1>2 DEF LoadKey, KeysSound
<1>3. ASSUME NEW u \in Uses, Stamp(u) PROVE KeysSound'
  <2>1. key \in KeyRow
    BY <1>3 DEF Stamp, KeysSound
  <2>2. key' \in KeyRow
    BY <1>3, <2>1 DEF Stamp, KeyRow
  <2>3. QED
    BY <1>3, <2>2 DEF Stamp, KeysSound
<1>4. CASE RevokeKey
  <2>1. key \in KeyRow
    BY <1>4 DEF RevokeKey, KeysSound
  <2>2. key' \in KeyRow
    BY <1>4, <2>1 DEF RevokeKey, KeyRow
  <2>3. QED
    BY <1>4, <2>2 DEF RevokeKey, KeysSound
<1>5. CASE UNCHANGED keyVars
  BY <1>5 DEF keyVars, KeysSound
<1>6. QED
  BY <1>1, <1>2, <1>3, <1>4, <1>5 DEF KeyNext

\* No step on the key takes its revocation back (dependencies.py get_principal).
LEMMA KeyStep ==
    KeysSound /\ (KeyNext \/ UNCHANGED keyVars) =>
        [(key # NoKey /\ key.revoked) => key'.revoked]_key
<1> SUFFICES ASSUME KeysSound, KeyNext \/ UNCHANGED keyVars, key # NoKey, key.revoked, key' # key
             PROVE  key'.revoked
  OBVIOUS
<1>1. key \in KeyRow
  BY DEF KeysSound
<1>2. ASSUME NEW u \in Uses, Stamp(u) PROVE key'.revoked
  BY <1>1, <1>2 DEF Stamp, KeyRow
<1>3. CASE RevokeKey
  BY <1>1, <1>3 DEF RevokeKey, KeyRow
<1>4. ~ CreateKey /\ (\A u \in Uses : ~ LoadKey(u)) /\ ~ UNCHANGED keyVars
  BY DEF CreateKey, LoadKey, keyVars
<1>5. QED
  BY <1>2, <1>3, <1>4 DEF KeyNext

-----------------------------------------------------------------------------
(* Members.                                                                 *)

\* A call that is under way is known, and its caller may make it.
MembersSound ==
    /\ M!MembershipTypeOK
    /\ \A c \in M!UnderWay : call[c] \in M!Request
    /\ AuthorityHeld

\* Whoever has the scope to change members has the rank (permissions.py).
LEMMA ScopeHasRank ==
    ASSUME NEW p, M!RoleGrantsScope(p, "members:write")
    PROVE  M!HasRole(p, "admin")
BY DEF M!RoleGrantsScope, M!HasRole, M!Rank, M!SCOPES_BY_ROLE, M!ROLE_RANK

\* A call begins with its caller's authority.
LEMMA MembersBegin ==
    ASSUME MembersSound, NEW c \in Calls, NEW by \in People, NEW whom \in People,
           NEW role \in M!Roles, NEW to \in {"adding", "removing"},
           M!HasRole(by, "admin"), M!Begin(c, by, whom, role, to)
    PROVE  MembersSound'
<1>1. /\ call'[c] = [by |-> by, whom |-> whom, role |-> role, row |-> NoRow]
      /\ \A d \in Calls \ {c} : call'[d] = call[d] /\ stage'[d] = stage[d]
      /\ stage'[c] = to /\ membership' = membership /\ orphaned' = orphaned
  BY DEF M!Begin, MembersSound, M!MembershipTypeOK
<1>2. call'[c] \in M!Request
  BY <1>1 DEF M!Request
<1>3. M!MembershipTypeOK'
  BY <1>2 DEF M!Begin, MembersSound, M!MembershipTypeOK
<1>4. \A d \in M!UnderWay' : d = c \/ d \in M!UnderWay
  BY <1>1 DEF M!UnderWay
<1>5. \A p : M!HasRole(p, "admin")' <=> M!HasRole(p, "admin")
  BY <1>1 DEF M!HasRole, M!Rank
<1>6. ASSUME NEW d \in M!UnderWay' PROVE call'[d] \in M!Request
  <2>1. d \in Calls
    BY <1>6 DEF M!UnderWay
  <2>2. QED
    BY <1>1, <1>2, <1>4, <1>6, <2>1 DEF MembersSound
<1>7. ASSUME NEW d \in M!UnderWay', d \notin orphaned'
      PROVE  call'[d].by \in People /\ M!HasRole(call[d].by, "admin")'
  <2>1. CASE d = c
    BY <1>1, <1>5, <2>1
  <2>2. CASE d # c
    <3>1. d \in M!UnderWay /\ d \notin orphaned /\ call'[d] = call[d]
      BY <1>1, <1>4, <1>7, <2>2 DEF M!UnderWay
    <3>2. call[d].by \in People /\ M!HasRole(call[d].by, "admin")
      BY <3>1 DEF MembersSound, AuthorityHeld, M!AuthorityHeld, M!Administrators
    <3>3. QED
      BY <1>5, <3>1, <3>2
  <2>3. QED
    BY <2>1, <2>2
<1>8. AuthorityHeld'
  BY <1>7 DEF AuthorityHeld, M!AuthorityHeld, M!Administrators, M!UnderWay
<1>9. QED
  BY <1>3, <1>6, <1>8 DEF MembersSound

\* A call that goes on or ends, and takes no administrator's row away but for
\* those it orphans, leaves everybody else's authority alone.
LEMMA MembersGoOn ==
    ASSUME MembersSound, M!MembershipTypeOK', NEW c \in M!UnderWay,
           \A d \in Calls \ {c} : call'[d] = call[d] /\ stage'[d] = stage[d],
           call'[c] \in M!Request, call'[c].by = call[c].by, orphaned \subseteq orphaned',
           \A d \in M!UnderWay' \ orphaned' :
             M!HasRole(call[d].by, "admin") => M!HasRole(call[d].by, "admin")'
    PROVE  MembersSound'
<1>1. \A d \in M!UnderWay' : d \in M!UnderWay /\ d \in Calls /\ call'[d].by = call[d].by
  BY DEF M!UnderWay
<1>2. \A d \in M!UnderWay' : call'[d] \in M!Request
  BY <1>1 DEF MembersSound
<1>3. ASSUME NEW d \in M!UnderWay', d \notin orphaned'
      PROVE  call'[d].by \in People /\ M!HasRole(call[d].by, "admin")'
  <2>1. d \in M!UnderWay /\ d \notin orphaned /\ call'[d].by = call[d].by
    BY <1>1, <1>3
  <2>2. call[d].by \in People /\ M!HasRole(call[d].by, "admin")
    BY <2>1 DEF MembersSound, AuthorityHeld, M!AuthorityHeld, M!Administrators
  <2>3. membership'[call'[d].by] = membership'[call[d].by]
    BY <2>1
  <2>4. QED
    BY <1>3, <2>1, <2>2, <2>3 DEF M!HasRole
<1>4. AuthorityHeld'
  BY <1>3 DEF AuthorityHeld, M!AuthorityHeld, M!Administrators
<1>5. QED
  BY <1>2, <1>4 DEF MembersSound

\* Authority is checked at the start of a call and lost only to a removal
\* (tenancy/router.py add_member, remove_member; rbac/permissions.py).
LEMMA MembersNext ==
    MembersSound /\ (M!MembershipNext \/ UNCHANGED memberVars) => MembersSound'
<1> SUFFICES ASSUME MembersSound, M!MembershipNext \/ UNCHANGED memberVars PROVE MembersSound'
  OBVIOUS
<1>0. M!MembershipTypeOK
  BY DEF MembersSound
<1>1. ASSUME NEW c \in Calls, NEW by \in People, NEW whom \in People, NEW role \in M!Roles,
             M!AddAuthorised(c, by, whom, role)
      PROVE  MembersSound'
  BY <1>1, MembersBegin DEF M!AddAuthorised
<1>2. ASSUME NEW c \in Calls, NEW by \in People, NEW whom \in People,
             M!RemoveAuthorised(c, by, whom)
      PROVE  MembersSound'
  BY <1>2, MembersBegin, ScopeHasRank DEF M!RemoveAuthorised, M!Roles
<1>3. ASSUME NEW c \in Calls, M!Add(c) PROVE MembersSound'
  <2>1. c \in M!UnderWay /\ call[c] \in M!Request
    BY <1>3 DEF M!Add, M!UnderWay, MembersSound
  <2>2. call[c].whom \in People /\ [role |-> call[c].role, id |-> c] \in M!Row
    BY <2>1 DEF M!Request, M!Row
  <2>3. /\ membership' \in [People -> M!Row \cup {NoRow}]
        /\ \A p \in People : membership[p] # NoRow => membership'[p] = membership[p]
    BY <1>0, <1>3, <2>2 DEF M!Add, M!MembershipTypeOK
  <2>4. call' = call /\ orphaned' = orphaned /\ stage' = [stage EXCEPT ![c] = "done"]
    BY <1>3 DEF M!Add
  <2>5. M!MembershipTypeOK'
    BY <1>0, <2>3, <2>4 DEF M!MembershipTypeOK
  <2>6. \A d \in Calls \ {c} : call'[d] = call[d] /\ stage'[d] = stage[d]
    BY <1>0, <2>4 DEF M!MembershipTypeOK
  <2>7. \A p \in People : M!HasRole(p, "admin") => M!HasRole(p, "admin")'
    BY <2>3 DEF M!HasRole, M!Rank
  <2>8. \A d \in M!UnderWay' : call[d].by \in People
    BY <2>1, <2>4, <2>6 DEF M!UnderWay, MembersSound, M!Request
  <2>9. QED
    BY <2>1, <2>4, <2>5, <2>6, <2>7, <2>8, MembersGoOn
<1>4. ASSUME NEW c \in Calls, M!RemoveFind(c) PROVE MembersSound'
  <2>1. c \in M!UnderWay /\ call[c] \in M!Request
    BY <1>4 DEF M!RemoveFind, M!UnderWay, MembersSound
  <2>2. membership[call[c].whom] \in M!Row \cup {NoRow}
    BY <1>0, <2>1 DEF M!MembershipTypeOK, M!Request
  <2>3. call' = [call EXCEPT ![c].row = membership[call[c].whom]]
    BY <1>4 DEF M!RemoveFind
  <2>4. call'[c] \in M!Request /\ call'[c].by = call[c].by
    BY <1>0, <2>1, <2>2, <2>3 DEF M!Request, M!MembershipTypeOK
  <2>5. \A d \in Calls \ {c} : call'[d] = call[d] /\ stage'[d] = stage[d]
    BY <1>0, <1>4 DEF M!RemoveFind, M!MembershipTypeOK
  <2>6. stage' \in [Calls -> {"idle", "adding", "removing", "deleting", "done"}]
    BY <1>0, <1>4 DEF M!RemoveFind, M!MembershipTypeOK
  <2>7. membership' = membership /\ orphaned' = orphaned
    BY <1>4 DEF M!RemoveFind
  <2>8. call' \in [Calls -> M!Request \cup {NoCall}]
    BY <1>0, <2>3, <2>4 DEF M!MembershipTypeOK
  <2>9. M!MembershipTypeOK'
    BY <1>0, <2>6, <2>7, <2>8 DEF M!MembershipTypeOK
  <2>10. QED
    <3>1. orphaned \subseteq orphaned'
      BY <2>7
    <3>2. \A d \in M!UnderWay' \ orphaned' :
            M!HasRole(call[d].by, "admin") => M!HasRole(call[d].by, "admin")'
      <4>1. \A d \in Calls : call'[d].by = call[d].by
        BY <2>4, <2>5
      <4>2. QED
        BY <2>7, <4>1 DEF M!HasRole, M!Rank, M!UnderWay
    <3>3. QED
      BY <2>1, <2>4, <2>5, <2>9, <3>1, <3>2, MembersGoOn
<1>5. ASSUME NEW c \in Calls, M!Remove(c) PROVE MembersSound'
  <2> DEFINE p == call[c].whom
  <2>1. c \in M!UnderWay /\ call[c] \in M!Request /\ p \in People
    BY <1>5 DEF M!Remove, M!UnderWay, MembersSound, M!Request
  <2>2. /\ call' = call /\ stage' = [stage EXCEPT ![c] = "done"]
        /\ orphaned \subseteq orphaned' /\ orphaned' \subseteq orphaned \cup Calls
        /\ membership' \in [People -> M!Row \cup {NoRow}]
    BY <1>0, <1>5, <2>1 DEF M!Remove, M!MembershipTypeOK, M!UnderWay
  <2>3. M!MembershipTypeOK'
    BY <1>0, <2>2 DEF M!MembershipTypeOK
  <2>4. \A d \in Calls \ {c} : call'[d] = call[d] /\ stage'[d] = stage[d]
    BY <1>0, <2>2 DEF M!MembershipTypeOK
  <2>5. ASSUME NEW d \in M!UnderWay' \ orphaned'
        PROVE  membership'[call[d].by] = membership[call[d].by]
    <3>1. d \in M!UnderWay /\ call[d].by \in People
      BY <1>0, <2>1, <2>2, <2>5 DEF M!UnderWay, MembersSound, M!Request, M!MembershipTypeOK
    <3>2. QED
      BY <1>0, <1>5, <2>1, <2>5, <3>1 DEF M!Remove, M!MembershipTypeOK
  <2>6. \A d \in M!UnderWay' \ orphaned' :
          M!HasRole(call[d].by, "admin") => M!HasRole(call[d].by, "admin")'
    BY <2>2, <2>5 DEF M!HasRole, M!Rank
  <2>7. QED
    BY <2>1, <2>2, <2>3, <2>4, <2>6, MembersGoOn
<1>6. CASE UNCHANGED memberVars
  BY <1>6 DEF memberVars, MembersSound, AuthorityHeld, M!MembershipTypeOK, M!AuthorityHeld,
              M!UnderWay, M!Administrators, M!HasRole, M!Rank
<1>7. QED
  BY <1>1, <1>2, <1>3, <1>4, <1>5, <1>6 DEF M!MembershipNext

\* Without an administrator, no call begins; without a call, nothing changes.
LEMMA MembersStep ==
    (M!MembershipNext \/ UNCHANGED memberVars) =>
        [(M!Administrators = {} /\ M!UnderWay = {}) => UNCHANGED memberVars]_memberVars
<1> SUFFICES ASSUME M!MembershipNext, M!Administrators = {}, M!UnderWay = {} PROVE FALSE
  OBVIOUS
<1>1. \A p \in People : ~ M!HasRole(p, "admin")
  BY DEF M!Administrators
<1>2. ASSUME NEW c \in Calls, M!Add(c) \/ M!RemoveFind(c) \/ M!Remove(c) PROVE FALSE
  BY <1>2 DEF M!Add, M!RemoveFind, M!Remove, M!UnderWay
<1>3. QED
  BY <1>1, <1>2, ScopeHasRank DEF M!MembershipNext, M!AddAuthorised, M!RemoveAuthorised

-----------------------------------------------------------------------------
(* The whole.                                                               *)

AuthInv == SessionInv /\ KeysSound /\ MembersSound

\* A step of the whole is one part's, and leaves the others alone.
LEMMA Parts ==
    ASSUME [AuthNext]_<<vars, keyVars, memberVars>>
    PROVE  /\ [Next]_vars
           /\ KeyNext \/ UNCHANGED keyVars
           /\ M!MembershipNext \/ UNCHANGED memberVars
BY DEF AuthNext

\* The founder's membership is the only one at the start
\* (tenancy/router.py create_organization).
LEMMA MembersInit == M!MembershipInit => MembersSound
<1> SUFFICES ASSUME M!MembershipInit PROVE MembersSound
  OBVIOUS
<1>1. [role |-> "owner", id |-> Founder] \in M!Row
  BY DEF M!Row, M!Roles
<1>2. M!MembershipTypeOK
  BY <1>1 DEF M!MembershipInit, M!MembershipTypeOK
<1>3. M!UnderWay = {}
  BY DEF M!MembershipInit, M!UnderWay
<1>4. QED
  BY <1>2, <1>3 DEF MembersSound, AuthorityHeld, M!AuthorityHeld

\* The parts are sound together in every reachable state.
THEOREM Inductive == AuthSpec => []AuthInv
<1>1. AuthInit => AuthInv
  BY SessionsInductive, MembersInit DEF AuthInit, AuthInv, KeyInit, KeysSound
<1>2. AuthInv /\ [AuthNext]_<<vars, keyVars, memberVars>> => AuthInv'
  BY SessionsInductive, KeysNext, MembersNext, Parts DEF AuthInv
<1>3. QED
  BY <1>1, <1>2, PTL DEF AuthSpec

\* Every row, token, key and call of a reachable state is well typed
\* (users/models.py, api_keys/models.py, tenancy/models.py).
THEOREM TypeCorrect == AuthSpec => []KeyTypeOK
<1>1. AuthInv => KeyTypeOK
  BY DEF AuthInv, SessionInv, KeysSound, MembersSound, KeyTypeOK
<1>2. QED
  BY Inductive, <1>1, PTL

\* However rotations, replays and logouts interleave and die, each family keeps
\* to its contract: one token of it can be rotated at a time, and a family that
\* has ended stays ended (users/sessions.py).
THEOREM Refinement == AuthSpec => ImplementsFamilies
<1>1. AuthInit => FamilyContract!Init
  BY FamilyInit DEF AuthInit
<1>2. AuthInv /\ [AuthNext]_<<vars, keyVars, memberVars>>
        => [FamilyContract!Next]_<<live, begun, issued>>
  BY FamilyStep, Parts DEF AuthInv
<1>3. QED
  BY <1>1, <1>2, Inductive, PTL DEF AuthSpec, ImplementsFamilies, FamilyContract!Spec, live, begun

\* A revocation that no rotation crossed is final, whatever is done afterwards
\* with the tokens it found (sessions.py _revoke_family, router.py refresh).
THEOREM Final == AuthSpec => []RevocationIsFinal
<1>1. AuthInv => RevocationIsFinal
  BY DEF AuthInv, SessionInv, RevocationsSound
<1>2. QED
  BY Inductive, <1>1, PTL

\* A bump rejects the access tokens of every request that had read the user
\* before it, as long as no two bumps read one version (router.py logout_all,
\* auth.py read_token).
THEOREM Rejects == AuthSpec => []BumpRejects
<1>1. AuthInv => BumpRejects
  <2> SUFFICES ASSUME AuthInv, ~ lost, NEW t \in ended PROVE ~ Accepted(t)
    BY DEF BumpRejects
  <2>1. t \in Tokens /\ seen[t] \in Nat /\ version \in Nat /\ seen[t] < version
    BY Kinds DEF AuthInv, SessionInv, TypeOK, VersionsSound
  <2>2. QED
    BY <2>1 DEF Accepted
<1>2. QED
  BY Inductive, <1>1, PTL

\* With a Redis, no request is authenticated with the access token of a logout
\* that has answered (denylist.py, router.py logout).
THEOREM StaysOut == AuthSpec => LoggedOutStaysOut
<1> DEFINE Step ==
      \A r \in Logouts \cup Bumps, q \in Logouts :
        (redis /\ pc[q] = "done" /\ access[r] = None) => access'[r] # access[q]
<1>1. AuthInv /\ [AuthNext]_<<vars, keyVars, memberVars>> => [Step]_vars
  <2> SUFFICES ASSUME AuthInv, [Next]_vars, NEW r \in Logouts \cup Bumps, NEW q \in Logouts,
                      redis, pc[q] = "done", access[r] = None
               PROVE  access'[r] # access[q]
    BY Parts
  <2>1. access[q] \in denied /\ access[q] \in Tokens /\ access[q] # None
    BY RequestsAssumption DEF AuthInv, SessionInv, LogoutsSound, TypeOK, Tokens
  <2>2. ASSUME NEW t \in Tokens, NEW s \in Logouts \cup Bumps, Authenticate(s, t)
        PROVE  access'[r] # access[q]
    <3>1. t \notin denied
      BY <2>2 DEF Authenticate, Accepted
    <3>2. access'[r] = t \/ access'[r] = None
      BY <2>2 DEF Authenticate, AuthInv, SessionInv, TypeOK
    <3>3. QED
      BY <2>1, <3>1, <3>2
  <2>3. CASE access' = access
    BY <2>1, <2>3
  <2>4. access' = access \/ \E s \in Logouts \cup Bumps, t \in Tokens : Authenticate(s, t)
    BY DEF Next, vars, LoginLoad, LoginCommit, Claim, Replay, RefreshLoad, RefreshCommit,
           RevokeCommit, LogoutFind, ResetLoad, BumpFind, BumpCommit, Die, Outage
  <2>5. QED
    BY <2>2, <2>3, <2>4
<1>2. QED
  BY <1>1, Inductive, PTL DEF AuthSpec, LoggedOutStaysOut

\* A revoked key stays revoked under the stamps of requests that loaded it
\* before (api_keys/dependencies.py get_principal).
THEOREM Sticks == AuthSpec => RevocationSticks
<1>1. AuthInv /\ [AuthNext]_<<vars, keyVars, memberVars>>
        => [(key # NoKey /\ key.revoked) => key'.revoked]_key
  BY KeyStep, Parts DEF AuthInv
<1>2. QED
  BY <1>1, Inductive, PTL DEF AuthSpec, RevocationSticks

\* A call that changes members is an administrator's until its caller is
\* removed (tenancy/dependencies.py, rbac/permissions.py).
THEOREM Authority == AuthSpec => []AuthorityHeld
<1>1. AuthInv => AuthorityHeld
  BY DEF AuthInv, MembersSound
<1>2. QED
  BY Inductive, <1>1, PTL

\* An organization without administrators and calls keeps its members for good
\* (rbac/permissions.py require_role, require_scope).
THEOREM SealedForGood == AuthSpec => Sealed
<1>1. [AuthNext]_<<vars, keyVars, memberVars>>
        => [(M!Administrators = {} /\ M!UnderWay = {}) => UNCHANGED memberVars]_memberVars
  BY MembersStep, Parts
<1>2. QED
  BY <1>1, PTL DEF AuthSpec, Sealed, M!Sealed, memberVars, M!memberVars
=============================================================================
