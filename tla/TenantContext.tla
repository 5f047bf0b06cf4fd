--------------------------- MODULE TenantContext ----------------------------
(***************************************************************************)
(* Row-level security (app/tenancy/rls.py, app/db/session.py, the policies *)
(* of migration 0008_rls): requests of several organizations, trusted      *)
(* flows, and sessions of a factory nobody tagged, each of them a sequence *)
(* of transactions that a pool or a transaction-mode pooler puts on any    *)
(* free connection to the server.                                          *)
(*                                                                         *)
(* A request is taken at its worst: its statements have no WHERE clause.   *)
(***************************************************************************)
EXTENDS Naturals

CONSTANTS
    Tenants, Requests,
    TenantPool,         \* connections made with DATABASE_URL
    PrivilegedPool,     \* and with DATABASE_URL_PRIVILEGED; the same ones if unset
    MaxTransactions,    \* bound of the model: transactions of one request
    NoTenant,           \* the setting app.current_tenant is '' or NULL
    NoConnection

ASSUME PoolAssumption ==
    /\ NoTenant \notin Tenants
    /\ NoConnection \notin TenantPool \cup PrivilegedPool
    /\ MaxTransactions \in Nat

Connections == TenantPool \cup PrivilegedPool

\* How a request has its session: from get_session(), get_privileged_session(),
\* PrivilegedSessionFactory as the workers and the rate limiter take it, or a
\* factory without info["rls_mode"].
Trusted == {"privileged", "worker"}
Modes == Trusted \cup {"tenant", "untagged"}

VARIABLES
    bypasses,   \* whether the role of the privileged connections has BYPASSRLS
    path,       \* current_tenant_id of each request
    mode,       \* the factory its session comes from
    pc,         \* where each request is
    on,         \* the connection of its open transaction
    begun,      \* how many transactions it has begun
    context,    \* app.current_tenant on each connection
    kept,       \* what it falls back to when the transaction ends
    verified,   \* _privileged_role_verified
    read,       \* history: (request, organization) of the rows it was shown
    written     \* history: (request, organization) of the rows it wrote

request == <<bypasses, path, mode>>
setting == <<context, kept>>
history == <<read, written>>
vars == <<request, pc, on, begun, setting, verified, history>>

TypeOK ==
    /\ bypasses \in BOOLEAN
    /\ path \in [Requests -> Tenants \cup {NoTenant}]
    /\ mode \in [Requests -> Modes]
    /\ pc \in [Requests -> {"idle", "open", "verifying", "working", "done"}]
    /\ on \in [Requests -> Connections \cup {NoConnection}]
    /\ begun \in [Requests -> Nat]
    /\ context \in [Connections -> Tenants \cup {NoTenant}]
    /\ kept \in [Connections -> Tenants \cup {NoTenant}]
    /\ verified \in BOOLEAN
    /\ read \subseteq Requests \X Tenants
    /\ written \subseteq Requests \X Tenants
    /\ \A r \in Requests : on[r] \in IF pc[r] \in {"verifying", "working"}
                                    THEN Connections ELSE {NoConnection}
    /\ \A r, s \in Requests : r # s /\ on[r] = on[s] => on[r] = NoConnection

\* The role has BYPASSRLS only if it is a role of its own.
Init ==
    /\ bypasses \in IF TenantPool \cap PrivilegedPool = {} THEN BOOLEAN ELSE {FALSE}
    /\ path \in [Requests -> Tenants \cup {NoTenant}]
    /\ mode \in [Requests -> Modes]
    /\ pc = [r \in Requests |-> "idle"]
    /\ on = [r \in Requests |-> NoConnection]
    /\ begun = [r \in Requests |-> 0]
    /\ context = [c \in Connections |-> NoTenant]
    /\ kept = [c \in Connections |-> NoTenant]
    /\ verified = FALSE
    /\ read = {}
    /\ written = {}

-----------------------------------------------------------------------------

Goto(r, to) == pc' = [pc EXCEPT ![r] = to]

Pool(r) == IF mode[r] \in Trusted THEN PrivilegedPool ELSE TenantPool

Free(c) == \A r \in Requests : on[r] # c

\* The role of a connection; a superuser or BYPASSRLS role has no policies.
Exempt(c) == bypasses /\ c \in PrivilegedPool

\* The policies: USING and WITH CHECK.
Visible(c) == IF Exempt(c) THEN Tenants ELSE {context[c]} \ {NoTenant}
MayWrite(c, tenant) == Exempt(c) \/ context[c] \in {NoTenant, tenant}

\* get_session(), get_privileged_session(): no connection is taken yet.
Open(r) ==
    /\ pc[r] = "idle"
    /\ Goto(r, "open")
    /\ UNCHANGED <<request, on, begun, setting, verified, history>>

\* Slip: set_config(..., false).
ApplyForGood(r, c) ==
    /\ context' = IF mode[r] = "untagged" THEN context
                  ELSE [context EXCEPT ![c] = IF mode[r] \in Trusted THEN NoTenant ELSE path[r]]
    /\ kept' = context'

\* Slip: the context is set when the session opens, for one transaction.
ApplyOnce(r, c) ==
    /\ context' = IF mode[r] = "untagged" \/ begun[r] > 0 THEN context
                  ELSE [context EXCEPT ![c] = IF mode[r] \in Trusted THEN NoTenant ELSE path[r]]
    /\ UNCHANGED kept

\* _apply_tenant_context(), after every begin: set_config(..., true).
Apply(r, c) ==
    /\ context' = IF mode[r] = "untagged" THEN context
                  ELSE [context EXCEPT ![c] = IF mode[r] \in Trusted THEN NoTenant ELSE path[r]]
    /\ UNCHANGED kept

\* A session begins when a statement needs it; the first privileged one of the
\* process is the query for rolbypassrls.
Begin(r, c) ==
    /\ pc[r] = "open"
    /\ begun[r] < MaxTransactions
    /\ c \in Pool(r)
    /\ Free(c)
    /\ on' = [on EXCEPT ![r] = c]
    /\ begun' = [begun EXCEPT ![r] = @ + 1]
    /\ Apply(r, c)
    /\ Goto(r, IF mode[r] = "privileged" /\ begun[r] = 0 /\ ~ verified
               THEN "verifying" ELSE "working")
    /\ UNCHANGED <<request, verified, history>>

\* Commit or rollback: the setting was local to the transaction.
Release(r) ==
    /\ context' = [context EXCEPT ![on[r]] = kept[on[r]]]
    /\ on' = [on EXCEPT ![r] = NoConnection]

\* get_privileged_session() goes on, or raises PrivilegedRoleMisconfigured.
Verify(r) ==
    /\ pc[r] = "verifying"
    /\ IF Exempt(on[r])
       THEN Goto(r, "working") /\ verified' = TRUE /\ UNCHANGED <<on, setting>>
       ELSE Goto(r, "done") /\ Release(r) /\ UNCHANGED <<verified, kept>>
    /\ UNCHANGED <<request, begun, history>>

Select(r) ==
    /\ pc[r] = "working"
    /\ read' = read \cup {r} \X Visible(on[r])
    /\ UNCHANGED <<request, pc, on, begun, setting, verified, written>>

Insert(r, tenant) ==
    /\ pc[r] = "working"
    /\ MayWrite(on[r], tenant)
    /\ written' = written \cup {<<r, tenant>>}
    /\ UNCHANGED <<request, pc, on, begun, setting, verified, read>>

\* commit() or rollback(), by the handler or for an INSERT that a policy
\* refused; the session may begin again.
EndTransaction(r) ==
    /\ pc[r] = "working"
    /\ Release(r)
    /\ Goto(r, "open")
    /\ UNCHANGED <<request, begun, kept, verified, history>>

Close(r) ==
    /\ pc[r] = "open"
    /\ Goto(r, "done")
    /\ UNCHANGED <<request, on, begun, setting, verified, history>>

Next ==
    \E r \in Requests :
        \/ Open(r) \/ (\E c \in Connections : Begin(r, c)) \/ Verify(r)
        \/ Select(r) \/ (\E t \in Tenants : Insert(r, t))
        \/ EndTransaction(r) \/ Close(r)

Spec == Init /\ [][Next]_vars

-----------------------------------------------------------------------------
(* Properties                                                               *)

\* However connections are handed from one request to the next, a statement
\* that forgets its WHERE clause reads the rows of the organization in the
\* path and of no other, and none at all where there is no organization or
\* the factory of the session was never tagged; and a request for one
\* organization writes no row of another (the policies and the setting local
\* to a transaction).
TenantIsolation ==
    \A r \in Requests, t \in Tenants :
        /\ <<r, t>> \in read => mode[r] \in Trusted \/ (mode[r] = "tenant" /\ t = path[r])
        /\ <<r, t>> \in written /\ mode[r] = "tenant" => path[r] \in {NoTenant, t}

\* Isolation blinds nobody to rows it is due: a request for an organization
\* sees its rows in the transactions after its first commit as well, and one
\* that get_privileged_session() lets through sees all rows, never none.  (The
\* sessions that the workers make for themselves have no such check.)
SeesItsOwn ==
    \A r \in Requests : pc[r] = "working" =>
        /\ (mode[r] = "tenant" /\ path[r] # NoTenant) => path[r] \in Visible(on[r])
        /\ mode[r] = "privileged" => Visible(on[r]) = Tenants
=============================================================================
