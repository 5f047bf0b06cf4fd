------------------------- MODULE TenantContextProofs ------------------------
(***************************************************************************)
(* Proofs about TenantContext: for any organizations, requests, pools and  *)
(* numbers of transactions, one organization's rows stay out of another's  *)
(* requests, and no request is blind to rows it is due.                    *)
(***************************************************************************)
EXTENDS TenantContext, TLAPS

\* The setting of a connection whose transaction is that of r.
ContextOf(r) == IF mode[r] = "tenant" THEN path[r] ELSE NoTenant

\* A privileged session that has gone past its first transaction knows the role.
Checked(r) ==
    (pc[r] = "working" \/ (pc[r] \in {"idle", "open"} /\ begun[r] > 0)) => verified

\* A connection carries the organization of the transaction that holds it, and
\* nothing between transactions; each side keeps to its own pool, and whoever
\* came past get_privileged_session() found a role with BYPASSRLS.
ContextIsLocal ==
    /\ \A c \in Connections : kept[c] = NoTenant
    /\ \A c \in Connections : Free(c) => context[c] = NoTenant
    /\ \A r \in Requests : on[r] # NoConnection =>
         on[r] \in Pool(r) /\ context[on[r]] = ContextOf(r)
    /\ bypasses => TenantPool \cap PrivilegedPool = {}
    /\ verified => bypasses
    /\ \A r \in Requests :
         mode[r] = "privileged" => Checked(r)

IInv == TypeOK /\ ContextIsLocal /\ TenantIsolation

-----------------------------------------------------------------------------
(* Types.                                                                   *)

\* The privileged role has BYPASSRLS only if it has connections of its own
\* (session.py.jinja privileged_engine).
LEMMA RoleInit == Init => bypasses \in BOOLEAN /\ (bypasses => TenantPool \cap PrivilegedPool = {})
<1>1. CASE TenantPool \cap PrivilegedPool = {}
  BY <1>1 DEF Init
<1>2. CASE TenantPool \cap PrivilegedPool # {}
  BY <1>2 DEF Init
<1>3. QED
  BY <1>1, <1>2

\* Idle requests on free connections are well typed (session.py.jinja).
LEMMA TypeInit == Init => TypeOK
<1> SUFFICES ASSUME Init PROVE TypeOK
  OBVIOUS
<1>1. /\ pc = [r \in Requests |-> "idle"]
      /\ on = [r \in Requests |-> NoConnection]
      /\ begun = [r \in Requests |-> 0]
      /\ context = [c \in Connections |-> NoTenant]
      /\ kept = [c \in Connections |-> NoTenant]
      /\ verified = FALSE /\ read = {} /\ written = {}
  BY DEF Init
<1>2. path \in [Requests -> Tenants \cup {NoTenant}] /\ mode \in [Requests -> Modes]
  BY DEF Init
<1>3. QED
  BY <1>1, <1>2, RoleInit DEF TypeOK

\* What a transaction sets is an organization or none (_apply_tenant_context).
LEMMA TypeApply ==
    ASSUME TypeOK, NEW r \in Requests, NEW c \in Connections, Apply(r, c)
    PROVE  /\ context' \in [Connections -> Tenants \cup {NoTenant}]
           /\ kept' = kept
BY DEF Apply, TypeOK, setting

\* A step keeps every variable in its type and gives no connection to two
\* requests (session.py.jinja).
LEMMA TypeNext == TypeOK /\ [Next]_vars => TypeOK'
<1> SUFFICES ASSUME TypeOK, [Next]_vars PROVE TypeOK'
  OBVIOUS
<1> USE DEF vars, request, setting, history, Goto
<1>1. ASSUME NEW r \in Requests, Open(r) PROVE TypeOK'
  BY <1>1 DEF Open, TypeOK
<1>2. ASSUME NEW r \in Requests, NEW c \in Connections, Begin(r, c) PROVE TypeOK'
  <2>1. /\ context' \in [Connections -> Tenants \cup {NoTenant}]
        /\ kept' = kept
    BY <1>2, TypeApply DEF Begin
  <2>2. begun' \in [Requests -> Nat]
    BY <1>2 DEF Begin, TypeOK
  <2>3. pc' \in [Requests -> {"idle", "open", "verifying", "working", "done"}]
    BY <1>2 DEF Begin, TypeOK
  <2>4. \A s \in Requests : on'[s] \in IF pc'[s] \in {"verifying", "working"}
                                       THEN Connections ELSE {NoConnection}
    BY <1>2 DEF Begin, TypeOK
  <2>5. \A s, t \in Requests : s # t /\ on'[s] = on'[t] => on'[s] = NoConnection
    BY <1>2 DEF Begin, TypeOK, Free
  <2>6. on' \in [Requests -> Connections \cup {NoConnection}]
    BY <1>2 DEF Begin, TypeOK
  <2>7. QED
    BY <1>2, <2>1, <2>2, <2>3, <2>4, <2>5, <2>6 DEF Begin, TypeOK
<1>3. ASSUME NEW r \in Requests, Verify(r) PROVE TypeOK'
  <2>1. on[r] \in Connections
    BY <1>3 DEF Verify, TypeOK
  <2>2. CASE Exempt(on[r])
    BY <1>3, <2>2 DEF Verify, TypeOK
  <2>3. CASE ~ Exempt(on[r])
    BY <1>3, <2>1, <2>3 DEF Verify, Release, TypeOK
  <2>4. QED
    BY <2>2, <2>3
<1>4. ASSUME NEW r \in Requests, Select(r) PROVE TypeOK'
  <2>1. on[r] \in Connections
    BY <1>4 DEF Select, TypeOK
  <2>2. Visible(on[r]) \subseteq Tenants
    BY <2>1 DEF Visible, TypeOK
  <2>3. read' \subseteq Requests \X Tenants
    BY <1>4, <2>2 DEF Select, TypeOK
  <2>4. QED
    BY <1>4, <2>3 DEF Select, TypeOK
<1>5. ASSUME NEW r \in Requests, NEW t \in Tenants, Insert(r, t) PROVE TypeOK'
  BY <1>5 DEF Insert, TypeOK
<1>6. ASSUME NEW r \in Requests, EndTransaction(r) PROVE TypeOK'
  <2>1. on[r] \in Connections
    BY <1>6 DEF EndTransaction, TypeOK
  <2>2. QED
    BY <1>6, <2>1 DEF EndTransaction, Release, TypeOK
<1>7. ASSUME NEW r \in Requests, Close(r) PROVE TypeOK'
  BY <1>7 DEF Close, TypeOK
<1>8. CASE UNCHANGED vars
  BY <1>8 DEF TypeOK, Free
<1>9. QED
  BY <1>1, <1>2, <1>3, <1>4, <1>5, <1>6, <1>7, <1>8 DEF Next

-----------------------------------------------------------------------------
(* The setting of each connection.                                          *)

\* No connection carries an organization at the start.
LEMMA LocalInit == Init => ContextIsLocal
<1> SUFFICES ASSUME Init PROVE ContextIsLocal
  OBVIOUS
<1>1. /\ pc = [r \in Requests |-> "idle"]
      /\ on = [r \in Requests |-> NoConnection]
      /\ begun = [r \in Requests |-> 0]
      /\ context = [c \in Connections |-> NoTenant]
      /\ kept = [c \in Connections |-> NoTenant]
      /\ verified = FALSE
  BY DEF Init
<1>2. QED
  BY <1>1, RoleInit DEF ContextIsLocal, Checked

\* Only the first transaction of the process on a privileged session is spent
\* on the role, and the session goes on only if that has BYPASSRLS; the end of
\* a transaction takes its setting away (session.py.jinja).
LEMMA LocalNext == TypeOK /\ ContextIsLocal /\ [Next]_vars => ContextIsLocal'
<1> SUFFICES ASSUME TypeOK, ContextIsLocal, [Next]_vars PROVE ContextIsLocal'
  OBVIOUS
<1> USE DEF vars, request, setting, history, Goto, Pool, Free, ContextOf, Checked
<1>1. ASSUME NEW r \in Requests, Open(r) PROVE ContextIsLocal'
  BY <1>1 DEF Open, ContextIsLocal, TypeOK
<1>2. ASSUME NEW r \in Requests, NEW c \in Connections, Begin(r, c) PROVE ContextIsLocal'
  <2>0. on'[r] = c /\ kept' = kept /\ c # NoConnection
    BY <1>2, PoolAssumption DEF Begin, Apply, TypeOK, Connections
  <2>1. context'[c] = ContextOf(r) /\ \A d \in Connections : d # c => context'[d] = context[d]
    BY <1>2 DEF Begin, Apply, TypeOK, ContextIsLocal, Modes, Trusted
  <2>2. \A s \in Requests : on'[s] # NoConnection =>
          on'[s] \in Pool(s) /\ context'[on'[s]] = ContextOf(s)
    <3> SUFFICES ASSUME NEW s \in Requests, on'[s] # NoConnection
                 PROVE  on'[s] \in Pool(s) /\ context'[on'[s]] = ContextOf(s)
      OBVIOUS
    <3>1. CASE s = r
      BY <1>2, <2>0, <2>1, <3>1 DEF Begin
    <3>2. CASE s # r
      <4>1. on'[s] = on[s] /\ on[s] # c /\ on[s] \in Connections
        BY <1>2, <3>2 DEF Begin, TypeOK
      <4>2. QED
        BY <2>1, <4>1 DEF ContextIsLocal
    <3>3. QED
      BY <3>1, <3>2
  <2>3. \A d \in Connections : (\A s \in Requests : on'[s] # d) => context'[d] = NoTenant
    <3> SUFFICES ASSUME NEW d \in Connections, \A s \in Requests : on'[s] # d
                 PROVE  context'[d] = NoTenant
      OBVIOUS
    <3>1. d # c
      BY <2>0
    <3>2. \A s \in Requests : on[s] # d
      <4>1. \A s \in Requests : s # r => on'[s] = on[s]
        BY <1>2 DEF Begin, TypeOK
      <4>2. on[r] = NoConnection
        BY <1>2 DEF Begin, TypeOK
      <4>3. d # NoConnection
        BY PoolAssumption DEF Connections
      <4>4. QED
        BY <4>1, <4>2, <4>3
    <3>3. QED
      BY <2>1, <3>1, <3>2 DEF ContextIsLocal
  <2>4. \A s \in Requests : mode[s] = "privileged" => Checked(s)'
    BY <1>2 DEF Begin, ContextIsLocal, TypeOK
  <2>5. QED
    BY <1>2, <2>0, <2>2, <2>3, <2>4 DEF Begin, ContextIsLocal
<1>3. ASSUME NEW r \in Requests, on[r] \in Connections, Release(r), UNCHANGED kept,
             UNCHANGED <<request, begun, verified>>,
             pc' = [pc EXCEPT ![r] = "done"]
               \/ (pc[r] = "working" /\ pc' = [pc EXCEPT ![r] = "open"])
      PROVE  ContextIsLocal'
  <2>1. /\ context'[on[r]] = NoTenant
        /\ \A d \in Connections : d # on[r] => context'[d] = context[d]
    BY <1>3 DEF Release, TypeOK, ContextIsLocal
  <2>2. on'[r] = NoConnection /\ \A s \in Requests : s # r => on'[s] = on[s]
    BY <1>3 DEF Release, TypeOK
  <2>3. \A s \in Requests : on'[s] # NoConnection =>
          on'[s] \in Pool(s) /\ context'[on'[s]] = ContextOf(s)
    BY <1>3, <2>1, <2>2 DEF ContextIsLocal, TypeOK
  <2>4. \A d \in Connections : (\A s \in Requests : on'[s] # d) => context'[d] = NoTenant
    BY <1>3, <2>1, <2>2 DEF ContextIsLocal
  <2>5. \A s \in Requests : mode[s] = "privileged" => Checked(s)'
    BY <1>3 DEF ContextIsLocal, TypeOK
  <2>6. QED
    BY <1>3, <2>3, <2>4, <2>5 DEF ContextIsLocal
<1>4. ASSUME NEW r \in Requests, Verify(r) PROVE ContextIsLocal'
  <2>1. on[r] \in Connections
    BY <1>4 DEF Verify, TypeOK
  <2>2. CASE Exempt(on[r])
    BY <1>4, <2>2 DEF Verify, Exempt, ContextIsLocal
  <2>3. CASE ~ Exempt(on[r])
    BY <1>3, <1>4, <2>1, <2>3 DEF Verify
  <2>4. QED
    BY <2>2, <2>3
<1>5. ASSUME NEW r \in Requests, Select(r) PROVE ContextIsLocal'
  BY <1>5 DEF Select, ContextIsLocal
<1>6. ASSUME NEW r \in Requests, NEW t \in Tenants, Insert(r, t) PROVE ContextIsLocal'
  BY <1>6 DEF Insert, ContextIsLocal
<1>7. ASSUME NEW r \in Requests, EndTransaction(r) PROVE ContextIsLocal'
  <2>1. on[r] \in Connections
    BY <1>7 DEF EndTransaction, TypeOK
  <2>2. QED
    BY <1>3, <1>7, <2>1 DEF EndTransaction
<1>8. ASSUME NEW r \in Requests, Close(r) PROVE ContextIsLocal'
  BY <1>8 DEF Close, ContextIsLocal, TypeOK
<1>9. CASE UNCHANGED vars
  BY <1>9 DEF ContextIsLocal
<1>10. QED
  BY <1>1, <1>2, <1>4, <1>5, <1>6, <1>7, <1>8, <1>9 DEF Next

-----------------------------------------------------------------------------
(* What a statement sees.                                                   *)

\* A session that is not trusted sees what its path names, and one that
\* get_privileged_session() let through sees everything.
LEMMA Sight ==
    ASSUME TypeOK, ContextIsLocal, NEW r \in Requests, pc[r] = "working"
    PROVE  /\ mode[r] = "tenant" => Visible(on[r]) = {path[r]} \ {NoTenant}
           /\ mode[r] = "untagged" => Visible(on[r]) = {}
           /\ mode[r] = "privileged" => Visible(on[r]) = Tenants
<1>1. on[r] \in Pool(r) /\ context[on[r]] = ContextOf(r)
  BY PoolAssumption DEF TypeOK, ContextIsLocal, Connections
<1>2. CASE mode[r] \in {"tenant", "untagged"}
  <2>1. ~ Exempt(on[r])
    BY <1>1, <1>2 DEF Exempt, Pool, Trusted, ContextIsLocal
  <2>2. QED
    BY <1>1, <1>2, <2>1 DEF Visible, ContextOf
<1>3. CASE mode[r] = "privileged"
  BY <1>1, <1>3 DEF Visible, Exempt, Pool, Trusted, ContextIsLocal, Checked
<1>4. QED
  BY <1>2, <1>3

\* With the worst statement the history stays in bounds (the policies of
\* 0008_rls).
LEMMA IsolationNext ==
    TypeOK /\ ContextIsLocal /\ TenantIsolation /\ [Next]_vars => TenantIsolation'
<1> SUFFICES ASSUME TypeOK, ContextIsLocal, TenantIsolation, [Next]_vars PROVE TenantIsolation'
  OBVIOUS
<1>1. ASSUME NEW r \in Requests, Select(r) PROVE TenantIsolation'
  <2> SUFFICES ASSUME NEW t \in Tenants, t \in Visible(on[r])
               PROVE  mode[r] \in Trusted \/ (mode[r] = "tenant" /\ t = path[r])
    BY <1>1 DEF Select, TenantIsolation, request, history
  <2>1. pc[r] = "working"
    BY <1>1 DEF Select
  <2>2. mode[r] \in Modes
    BY DEF TypeOK
  <2>3. QED
    BY <2>1, <2>2, Sight DEF Modes, Trusted
<1>2. ASSUME NEW r \in Requests, NEW t \in Tenants, Insert(r, t) PROVE TenantIsolation'
  <2>1. on[r] \in Pool(r) /\ context[on[r]] = ContextOf(r)
    BY <1>2, PoolAssumption DEF Insert, TypeOK, ContextIsLocal, Connections
  <2>2. mode[r] = "tenant" => ~ Exempt(on[r])
    BY <2>1 DEF Exempt, Pool, Trusted, ContextIsLocal
  <2>3. mode[r] = "tenant" => path[r] \in {NoTenant, t}
    BY <1>2, <2>1, <2>2 DEF Insert, MayWrite, ContextOf
  <2>4. QED
    BY <1>2, <2>3 DEF Insert, TenantIsolation, request
<1>3. CASE UNCHANGED <<request, history>>
  BY <1>3 DEF TenantIsolation, request, history
<1>4. ASSUME NEW r \in Requests,
             \/ Open(r) \/ (\E c \in Connections : Begin(r, c)) \/ Verify(r)
             \/ EndTransaction(r) \/ Close(r)
      PROVE  TenantIsolation'
  BY <1>3, <1>4 DEF Open, Begin, Verify, EndTransaction, Close
<1>5. CASE UNCHANGED vars
  BY <1>3, <1>5 DEF vars
<1>6. QED
  BY <1>1, <1>2, <1>4, <1>5 DEF Next

-----------------------------------------------------------------------------

\* The three parts hold together in every reachable state.
THEOREM Inductive == Spec => []IInv
<1>1. Init => IInv
  BY TypeInit, LocalInit DEF Init, IInv, TenantIsolation
<1>2. IInv /\ [Next]_vars => IInv'
  BY TypeNext, LocalNext, IsolationNext DEF IInv
<1>3. QED
  BY <1>1, <1>2, PTL DEF Spec

\* Requests, connections and the checked role keep their types, and no two
\* transactions share a connection (session.py.jinja).
THEOREM TypeCorrect == Spec => []TypeOK
<1>1. IInv => TypeOK
  BY DEF IInv
<1>2. QED
  BY Inductive, <1>1, PTL

\* However many organizations, requests and connections there are, and however
\* these are handed on: no request for an organization, and none without one,
\* reads or writes rows of another (rls.py, session.py.jinja, 0008_rls).
THEOREM Isolation == Spec => []TenantIsolation
<1>1. IInv => TenantIsolation
  BY DEF IInv
<1>2. QED
  BY Inductive, <1>1, PTL

\* A request goes on seeing what it is due after each of its commits, and a
\* privileged one sees all rows (session.py.jinja after_begin hook,
\* get_privileged_session).
THEOREM Sees == Spec => []SeesItsOwn
<1>1. IInv => SeesItsOwn
  <2> SUFFICES ASSUME IInv, NEW r \in Requests, pc[r] = "working"
               PROVE  /\ mode[r] = "tenant" /\ path[r] # NoTenant => path[r] \in Visible(on[r])
                      /\ mode[r] = "privileged" => Visible(on[r]) = Tenants
    BY DEF SeesItsOwn
  <2>1. QED
    BY Sight DEF IInv
<1>2. QED
  BY Inductive, <1>1, PTL
=============================================================================
