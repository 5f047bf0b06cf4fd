------------------------------ MODULE ApiKeys -------------------------------
(***************************************************************************)
(* API keys and memberships beside the sessions (app/api_keys/router.py,   *)
(* dependencies.py): the user of Sessions, if a member, mints one key and  *)
(* revokes it, and other requests present it, each of them loading the row *)
(* at one moment and stamping last_used_at at a later one.  A key that is  *)
(* malformed, expired or has the wrong secret is refused without effect.   *)
(* Other people, whose sessions are not looked at, call as they like.      *)
(***************************************************************************)
EXTENDS Sessions

CONSTANTS Uses, NoKey, People, Calls, Founder, NoRow, NoCall,
    Me          \* the user of Sessions

VARIABLES
    membership, call, stage, orphaned,  \* see Memberships
    key,        \* the row of api_keys: revoked_at and last_used_at, set or NULL
    at,         \* where each request is
    copy        \* the row as a request that uses the key loaded it

memberVars == <<membership, call, stage, orphaned>>
keyVars == <<key, at, copy>>

M == INSTANCE Memberships WITH
    signedIn <- {p \in People : p = Me => \E t \in Tokens : Accepted(t)}

KeyRow == [revoked : BOOLEAN, used : BOOLEAN]

KeyTypeOK ==
    /\ TypeOK
    /\ M!MembershipTypeOK
    /\ key \in KeyRow \cup {NoKey}
    /\ at \in [Uses -> {"idle", "loaded", "done"}]
    /\ copy \in [Uses -> KeyRow \cup {NoKey}]

KeyInit ==
    /\ key = NoKey
    /\ at = [u \in Uses |-> "idle"]
    /\ copy = [u \in Uses |-> NoKey]

-----------------------------------------------------------------------------

\* get_current_membership: a valid access token of a member, else 401 or 404.
Authorised == membership[Me] # NoRow /\ \E t \in Tokens : Accepted(t)

\* create_api_key()
CreateKey ==
    /\ key = NoKey
    /\ Authorised
    /\ key' = [revoked |-> FALSE, used |-> FALSE]
    /\ UNCHANGED <<at, copy>>

\* get_principal() finds the row and nothing against it.
LoadKey(u) ==
    /\ at[u] = "idle"
    /\ key # NoKey
    /\ ~ key.revoked
    /\ at' = [at EXCEPT ![u] = "loaded"]
    /\ copy' = [copy EXCEPT ![u] = key]
    /\ UNCHANGED key

\* Slip: the whole row is written back as it was loaded.
StampWholeRow(u) ==
    /\ at[u] = "loaded"
    /\ at' = [at EXCEPT ![u] = "done"]
    /\ key' = [copy[u] EXCEPT !.used = TRUE]
    /\ UNCHANGED copy

\* The unit of work writes the columns it changed, last_used_at alone.
Stamp(u) ==
    /\ at[u] = "loaded"
    /\ at' = [at EXCEPT ![u] = "done"]
    /\ key' = [key EXCEPT !.used = TRUE]
    /\ UNCHANGED copy

\* revoke_api_key() writes revoked_at, again if it is set.  No key is ever
\* deleted, so that the row it loaded is still there at its commit.
RevokeKey ==
    /\ Authorised
    /\ key # NoKey
    /\ key' = [key EXCEPT !.revoked = TRUE]
    /\ UNCHANGED <<at, copy>>

KeyNext ==
    \/ CreateKey
    \/ \E u \in Uses : LoadKey(u) \/ Stamp(u)
    \/ RevokeKey

\* The bound of the model on the requests of a behaviour, of every kind.
Made ==
    Cardinality({r \in Requests : pc[r] # "idle"})
        + Cardinality({c \in Calls : stage[c] # "idle"})
        + Cardinality({u \in Uses : at[u] # "idle"})
        + IF key = NoKey THEN 0 ELSE IF key.revoked THEN 2 ELSE 1

AuthInit == Init /\ KeyInit /\ M!MembershipInit

AuthNext ==
    /\ \/ Next /\ UNCHANGED <<keyVars, memberVars>>
       \/ KeyNext /\ UNCHANGED <<vars, memberVars>>
       \/ M!MembershipNext /\ UNCHANGED <<vars, keyVars>>
    /\ Made' <= MaxRequests

AuthSpec == AuthInit /\ [][AuthNext]_<<vars, keyVars, memberVars>>

AuthorityHeld == M!AuthorityHeld
Sealed == M!Sealed

\* A key stays revoked, whatever a request that loaded it before the
\* revocation writes after it.
RevocationSticks ==
    [][(key # NoKey /\ key.revoked) => key'.revoked]_key
=============================================================================
