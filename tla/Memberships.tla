---------------------------- MODULE Memberships -----------------------------
(***************************************************************************)
(* The members of one organization and who may change them                 *)
(* (app/tenancy/router.py and dependencies.py, app/rbac/permissions.py).   *)
(* A call is authorised by its caller's membership as a dependency reads   *)
(* it, and changes the table some time later; both are reads and writes at *)
(* READ COMMITTED, and nothing checks the caller again.                    *)
(***************************************************************************)
EXTENDS Naturals

CONSTANTS People, Calls, Founder, NoRow, NoCall

\* A role is a free string: one that permissions.py does not list is "other".
Roles == {"owner", "admin", "member", "other"}

\* A row is known by the call that inserted it, the first by its founder.
Row == [role : Roles, id : Calls \cup {Founder}]

VARIABLES
    membership, \* the memberships table
    call,       \* what each call is about, once it is authorised
    stage,      \* where each call is
    orphaned,   \* history: calls under way when their caller was removed
    signedIn    \* the people whose access token is accepted

memberVars == <<membership, call, stage, orphaned>>

Request == [by : People, whom : People, role : Roles, row : Row \cup {NoRow}]

MembershipTypeOK ==
    /\ membership \in [People -> Row \cup {NoRow}]
    /\ call \in [Calls -> Request \cup {NoCall}]
    /\ stage \in [Calls -> {"idle", "adding", "removing", "deleting", "done"}]
    /\ orphaned \subseteq Calls

UnderWay == {c \in Calls : stage[c] \in {"adding", "removing", "deleting"}}

\* create_organization()
MembershipInit ==
    /\ membership = [p \in People |->
           IF p = Founder THEN [role |-> "owner", id |-> Founder] ELSE NoRow]
    /\ call = [c \in Calls |-> NoCall]
    /\ stage = [c \in Calls |-> "idle"]
    /\ orphaned = {}

-----------------------------------------------------------------------------
(* permissions.py                                                           *)

ROLE_RANK == [member |-> 1, admin |-> 2, owner |-> 3]

SCOPES_BY_ROLE ==
    [member |-> {"org:read"},
     admin |-> {"org:read", "members:write"},
     owner |-> {"org:read", "members:write", "org:admin"}]

Rank(role) == IF role \in DOMAIN ROLE_RANK THEN ROLE_RANK[role] ELSE 0

HasRole(p, minimum) == membership[p] # NoRow /\ Rank(membership[p].role) >= Rank(minimum)

\* Slip: any membership will do.
MembersWrite(p, scope) == membership[p] # NoRow

RoleGrantsScope(p, scope) ==
    /\ membership[p] # NoRow
    /\ membership[p].role \in DOMAIN SCOPES_BY_ROLE
    /\ scope \in SCOPES_BY_ROLE[membership[p].role]

-----------------------------------------------------------------------------

Begin(c, by, whom, role, to) ==
    /\ stage[c] = "idle"
    /\ by \in signedIn
    /\ stage' = [stage EXCEPT ![c] = to]
    /\ call' = [call EXCEPT ![c] = [by |-> by, whom |-> whom, role |-> role, row |-> NoRow]]
    /\ UNCHANGED <<membership, orphaned>>

\* add_member(): require_role(ADMIN), then the INSERT, whose UNIQUE constraint
\* is the 409.
AddAuthorised(c, by, whom, role) ==
    /\ HasRole(by, "admin")
    /\ Begin(c, by, whom, role, "adding")

\* Slip: a member who is added again is given the new role.
AddUpsert(c) ==
    /\ stage[c] = "adding"
    /\ stage' = [stage EXCEPT ![c] = "done"]
    /\ membership' = [membership EXCEPT ![call[c].whom] = [role |-> call[c].role, id |-> c]]
    /\ UNCHANGED <<call, orphaned>>

Add(c) ==
    /\ stage[c] = "adding"
    /\ stage' = [stage EXCEPT ![c] = "done"]
    /\ LET p == call[c].whom
       IN  membership' = IF membership[p] = NoRow
                         THEN [membership EXCEPT ![p] = [role |-> call[c].role, id |-> c]]
                         ELSE membership
    /\ UNCHANGED <<call, orphaned>>

\* remove_member(): require_scope("members:write"), the SELECT, and the DELETE
\* of the row it found, by primary key.
RemoveAuthorised(c, by, whom) ==
    /\ RoleGrantsScope(by, "members:write")
    /\ Begin(c, by, whom, "other", "removing")

RemoveFind(c) ==
    /\ stage[c] = "removing"
    /\ LET row == membership[call[c].whom]
       IN  /\ stage' = [stage EXCEPT ![c] = IF row = NoRow THEN "done" ELSE "deleting"]
           /\ call' = [call EXCEPT ![c].row = row]
    /\ UNCHANGED <<membership, orphaned>>

Remove(c) ==
    /\ stage[c] = "deleting"
    /\ stage' = [stage EXCEPT ![c] = "done"]
    /\ LET p == call[c].whom
       IN  IF membership[p] = call[c].row
           THEN /\ membership' = [membership EXCEPT ![p] = NoRow]
                /\ orphaned' = orphaned \cup {d \in UnderWay : call[d].by = p}
           ELSE UNCHANGED <<membership, orphaned>>
    /\ UNCHANGED call

MembershipNext ==
    \E c \in Calls :
        \/ \E by, whom \in People :
             \/ \E role \in Roles : AddAuthorised(c, by, whom, role)
             \/ RemoveAuthorised(c, by, whom)
        \/ Add(c) \/ RemoveFind(c) \/ Remove(c)

-----------------------------------------------------------------------------
(* Properties                                                               *)

Administrators == {p \in People : HasRole(p, "admin")}

\* A call that is changing the members is an administrator's, although nothing
\* asks again after the check: only the removal of its caller takes that from
\* under it, for adding a member who is there changes no role.
AuthorityHeld == \A c \in UnderWay \ orphaned : call[c].by \in Administrators

\* An authority that is gone stays gone: once no administrator is left and the
\* calls they had under way have ended, nobody joins or leaves any more.  The
\* two tables of permissions.py could each let somebody in.
Sealed ==
    [][(Administrators = {} /\ UnderWay = {}) => UNCHANGED memberVars]_memberVars
=============================================================================
