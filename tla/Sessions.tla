------------------------------ MODULE Sessions ------------------------------
(***************************************************************************)
(* The sessions of one user on PostgreSQL (app/users/router.py,            *)
(* sessions.py, auth.py, denylist.py): logins, rotations of the refresh    *)
(* token, logouts of one session, and the two operations that end every    *)
(* session and bump token_version, POST /logout-all and a password reset.  *)
(*                                                                         *)
(* A request that issues tokens names them: r stands for the refresh token *)
(* and for the access token of the pair it returned.  Every token issued   *)
(* may be presented at any time and any number of times, by the client or  *)
(* by whoever else holds it; an expired or unknown one is refused without  *)
(* effect, and so is one of an inactive user.  A transaction is the steps  *)
(* between its first lock and its commit.                                  *)
(***************************************************************************)
EXTENDS Naturals, FiniteSets

CONSTANTS
    Logins, Refreshes, Logouts,
    Bumps,          \* calls of logout_all and of on_after_reset_password
    MaxRequests,    \* bound of the model: requests in a behaviour
    None            \* no token

Tokens == Logins \cup Refreshes

ASSUME RequestsAssumption ==
    /\ Logins \cap Refreshes = {}
    /\ Tokens \cap Logouts = {}
    /\ (Tokens \cup Logouts) \cap Bumps = {}
    /\ None \notin Tokens
    /\ MaxRequests \in Nat

Requests == Tokens \cup Logouts \cup Bumps

\* The requests that may end sessions; a refresh does on a replay.
Revokers == Refreshes \cup Logouts \cup Bumps

VARIABLES
    pc,         \* where each request is
    token,      \* the refresh token a refresh presents
    access,     \* the access token a logout or a logout-all presents
    seen,       \* the token_version each request read, and stamps as "tv"
    targets,    \* the rows that a revocation's UPDATE found
    issued,     \* refresh_tokens: the committed rows
    family,     \*   family_id, by its login
    spent,      \*   used_at is set
    revoked,    \*   revoked
    version,    \* user.token_version
    denied,     \* the access tokens in Redis's denylist
    redis,      \* whether Redis answers
    raced,      \* history: revocations that overlapped a rotation of their rows
    ended,      \* history: tokens whose request read the user before a bump's commit
    lost        \* history: a bump overwrote another one's version

rows == <<issued, family, spent, revoked>>
user == <<version, ended, lost>>
denylist == <<denied, redis>>
vars == <<pc, token, access, seen, targets, rows, user, denylist, raced>>

TypeOK ==
    /\ pc \in [Requests -> {"idle", "loaded", "claimed", "authenticated", "revoking",
                            "done", "dead"}]
    /\ token \in [Refreshes -> Tokens \cup {None}]
    /\ access \in [Logouts \cup Bumps -> Tokens \cup {None}]
    /\ seen \in [Requests -> Nat]
    /\ targets \in [Revokers -> SUBSET Tokens]
    /\ issued \subseteq Tokens
    /\ family \in [Tokens -> Logins \cup {None}]
    /\ spent \subseteq issued
    /\ revoked \subseteq issued
    /\ version \in Nat
    /\ denied \subseteq issued
    /\ redis \in BOOLEAN
    /\ raced \subseteq Revokers
    /\ ended \subseteq Tokens
    /\ lost \in BOOLEAN

Init ==
    /\ pc = [r \in Requests |-> "idle"]
    /\ token = [r \in Refreshes |-> None]
    /\ access = [r \in Logouts \cup Bumps |-> None]
    /\ seen = [r \in Requests |-> 0]
    /\ targets = [r \in Revokers |-> {}]
    /\ issued = {}
    /\ family = [t \in Tokens |-> None]
    /\ spent = {}
    /\ revoked = {}
    /\ version = 0
    /\ denied = {}
    /\ redis \in BOOLEAN
    /\ raced = {}
    /\ ended = {}
    /\ lost = FALSE

-----------------------------------------------------------------------------

Idle(r) ==
    /\ pc[r] = "idle"
    /\ Cardinality({q \in Requests : pc[q] # "idle"}) < MaxRequests

Goto(r, to) == pc' = [pc EXCEPT ![r] = to]

\* A row claimed by a rotation that has not committed: others wait for it.
Rotating == {r \in Refreshes : pc[r] \in {"claimed", "loaded"}}
Locked(t) == \E r \in Rotating : token[r] = t

FamilyOf(t) == {u \in issued : family[u] = family[t]}

\* read_token() accepts the access token t.
Accepted(t) ==
    /\ t \in issued
    /\ ~ (redis /\ t \in denied)
    /\ seen[t] = version

\* issue_refresh_token() and the commit that makes its row visible.
Issue(r, f) ==
    /\ issued' = issued \cup {r}
    /\ family' = [family EXCEPT ![r] = f]

-----------------------------------------------------------------------------
(* login                                                                    *)

\* authenticate() loads the user, whose version write_token() will stamp.
LoginLoad(r) ==
    /\ Idle(r)
    /\ Goto(r, "loaded")
    /\ seen' = [seen EXCEPT ![r] = version]
    /\ UNCHANGED <<token, access, targets, rows, user, denylist, raced>>

LoginCommit(r) ==
    /\ pc[r] = "loaded"
    /\ Goto(r, "done")
    /\ Issue(r, r)
    /\ UNCHANGED <<token, access, seen, targets, spent, revoked, user, denylist, raced>>

-----------------------------------------------------------------------------
(* refresh                                                                  *)

\* Slip: the claim only asks that the token is not spent.
ClaimRevoked(r, t) ==
    /\ Idle(r)
    /\ t \in issued \ spent
    /\ ~ Locked(t)
    /\ Goto(r, "claimed")
    /\ token' = [token EXCEPT ![r] = t]
    /\ raced' = raced \cup {q \in Revokers : pc[q] = "revoking" /\ t \in targets[q]}
    /\ UNCHANGED <<access, seen, targets, rows, user, denylist>>

\* rotate_refresh_token()'s conditional UPDATE matches the row.
Claim(r, t) ==
    /\ Idle(r)
    /\ t \in issued \ (spent \cup revoked)
    /\ ~ Locked(t)
    /\ Goto(r, "claimed")
    /\ token' = [token EXCEPT ![r] = t]
    /\ raced' = raced \cup {q \in Revokers : pc[q] = "revoking" /\ t \in targets[q]}
    /\ UNCHANGED <<access, seen, targets, rows, user, denylist>>

\* user_manager.get(): only now is the version read.
RefreshLoad(r) ==
    /\ pc[r] = "claimed"
    /\ Goto(r, "loaded")
    /\ seen' = [seen EXCEPT ![r] = version]
    /\ UNCHANGED <<token, access, targets, rows, user, denylist, raced>>

RefreshCommit(r) ==
    /\ pc[r] = "loaded"
    /\ Goto(r, "done")
    /\ spent' = spent \cup {token[r]}
    /\ Issue(r, family[token[r]])
    /\ UNCHANGED <<token, access, seen, targets, revoked, user, denylist, raced>>

\* The snapshot of an UPDATE ... SET revoked = true: it will write the rows
\* committed by now, and will miss the successor of a rotation under way.
Find(r, found) ==
    /\ Goto(r, "revoking")
    /\ targets' = [targets EXCEPT ![r] = found]
    /\ raced' = IF \E t \in found : Locked(t) THEN raced \cup {r} ELSE raced

\* The claim matched nothing: a replay, which ends the family.
Replay(r, t) ==
    /\ Idle(r)
    /\ t \in issued \cap (spent \cup revoked)
    /\ Find(r, FamilyOf(t))
    /\ token' = [token EXCEPT ![r] = t]
    /\ UNCHANGED <<access, seen, rows, user, denylist>>

\* Slip: refresh() answers 401 without the commit.
RevokeRollback(r) ==
    /\ pc[r] = "revoking"
    /\ \A t \in targets[r] : ~ Locked(t)
    /\ Goto(r, "done")
    /\ UNCHANGED <<token, access, seen, targets, rows, user, denylist, raced>>

\* The UPDATE has every row, having waited for those being rotated, and the
\* caller commits: logout() and, of a replay, the except clause of refresh().
RevokeCommit(r) ==
    /\ pc[r] = "revoking"
    /\ \A t \in targets[r] : ~ Locked(t)
    /\ Goto(r, "done")
    /\ revoked' = revoked \cup targets[r]
    /\ UNCHANGED <<token, access, seen, targets, issued, family, spent, user, denylist, raced>>

-----------------------------------------------------------------------------
(* logout, logout_all and password reset                                    *)

\* current_active_user: the user as loaded here is the one logout_all bumps.
Authenticate(r, t) ==
    /\ Idle(r)
    /\ Accepted(t)
    /\ Goto(r, "authenticated")
    /\ access' = [access EXCEPT ![r] = t]
    /\ seen' = [seen EXCEPT ![r] = version]
    /\ UNCHANGED <<token, targets, rows, user, denylist, raced>>

\* Slip: logout() revokes the family and denies nothing.
LogoutFindOnly(r, found) ==
    /\ pc[r] = "authenticated"
    /\ Find(r, found)
    /\ UNCHANGED <<token, access, seen, rows, user, denylist>>

\* deny_jti() if Redis answers, then revoke_family_of() the refresh token in
\* the body; any, even one that names no row.
LogoutFind(r, found) ==
    /\ pc[r] = "authenticated"
    /\ denied' = IF redis THEN denied \cup {access[r]} ELSE denied
    /\ Find(r, found)
    /\ UNCHANGED <<token, access, seen, rows, user, redis>>

\* A password reset, from a mailed token; the user is loaded once more after
\* the new password has been committed.
ResetLoad(r) ==
    /\ Idle(r)
    /\ Goto(r, "authenticated")
    /\ seen' = [seen EXCEPT ![r] = version]
    /\ UNCHANGED <<token, access, targets, rows, user, denylist, raced>>

\* The autoflush writes the user's row, one transaction at a time, before
\* revoke_all_for_user() finds the tokens.
BumpFind(r) ==
    /\ pc[r] = "authenticated"
    /\ \A q \in Bumps : pc[q] # "revoking"
    /\ Find(r, issued)
    /\ UNCHANGED <<token, access, seen, rows, user, denylist>>

\* Slip: token_version is not among the columns flushed.
BumpCommitUnwritten(r) ==
    /\ pc[r] = "revoking"
    /\ \A t \in targets[r] : ~ Locked(t)
    /\ Goto(r, "done")
    /\ revoked' = revoked \cup targets[r]
    /\ ended' = ended \cup issued \cup {t \in Tokens : pc[t] = "loaded"}
    /\ UNCHANGED <<token, access, seen, targets, issued, family, spent, version, lost,
                   denylist, raced>>

BumpCommit(r) ==
    /\ pc[r] = "revoking"
    /\ \A t \in targets[r] : ~ Locked(t)
    /\ Goto(r, "done")
    /\ revoked' = revoked \cup targets[r]
    /\ version' = seen[r] + 1
    /\ ended' = ended \cup issued \cup {t \in Tokens : pc[t] = "loaded"}
    /\ lost' = (lost \/ version # seen[r])
    /\ UNCHANGED <<token, access, seen, targets, issued, family, spent, denylist, raced>>

\* The server dies with the request, and the transaction is rolled back; one
\* that dies before it wrote anything might as well not have been made.
Die(r) ==
    /\ r \in Rotating \/ pc[r] = "revoking"
    /\ Goto(r, "dead")
    /\ UNCHANGED <<token, access, seen, targets, rows, user, denylist, raced>>

\* Redis stops answering; with none configured it never did.
Outage ==
    /\ redis
    /\ redis' = FALSE
    /\ UNCHANGED <<pc, token, access, seen, targets, rows, user, denied, raced>>

Next ==
    \/ Outage
    \/ \E r \in Logins : LoginLoad(r) \/ LoginCommit(r)
    \/ \E r \in Refreshes :
         \/ \E t \in Tokens : Claim(r, t) \/ Replay(r, t)
         \/ RefreshLoad(r) \/ RefreshCommit(r) \/ RevokeCommit(r)
    \/ \E r \in Logouts :
         \/ \E t \in Tokens : Authenticate(r, t)
         \/ LogoutFind(r, {}) \/ \E t \in issued : LogoutFind(r, FamilyOf(t))
         \/ RevokeCommit(r)
    \/ \E r \in Bumps :
         \/ \E t \in Tokens : Authenticate(r, t)
         \/ ResetLoad(r) \/ BumpFind(r) \/ BumpCommit(r)
    \/ \E r \in Revokers : Die(r)

Spec == Init /\ [][Next]_vars

-----------------------------------------------------------------------------
(* Properties                                                               *)

Live(f) == {t \in issued \ (spent \cup revoked) : family[t] = f}

\* Rotation, replay, logout and their crashes keep the promise of a token
\* family: one token of it can be rotated at a time, never again one that
\* was, and a family that ended stays ended.  Two requests with one token, or
\* a rotation racing a revocation, are what could break it.
FamilyContract == INSTANCE Families WITH
    Family <- Logins, Token <- Tokens,
    live <- [f \in Logins |-> Live(f)],
    begun <- {family[t] : t \in issued},
    used <- issued

ImplementsFamilies == FamilyContract!Spec

\* A replay that was answered 401, a logout and a logout-all have ended every
\* family they found, for good, unless a rotation of one of its tokens was
\* under way: _revoke_family() cannot see the row that rotation inserts.
RevocationIsFinal ==
    \A r \in Revokers \ raced : pc[r] = "done" =>
        \A t \in targets[r] : Live(family[t]) = {}

\* After a logout-all or a password reset no access token is accepted whose
\* request had read the user before, even one that is committed only now: as
\* long as no two of them read the same token_version.
BumpRejects == ~ lost => \A t \in ended : ~ Accepted(t)

\* With a Redis, an access token is refused once a logout that presented it
\* has answered, by every route that authenticates.
LoggedOutStaysOut ==
    [][\A r \in Logouts \cup Bumps, q \in Logouts :
         (redis /\ pc[q] = "done" /\ access[r] = None) => access'[r] # access[q]]_vars

\* The comment in logout_all(): a concurrent bump takes nothing away, each
\* of them rejects every access token.
LogoutAllRejectsAll == \A t \in ended : ~ Accepted(t)
=============================================================================
