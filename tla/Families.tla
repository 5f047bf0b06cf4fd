------------------------------ MODULE Families ------------------------------
(***************************************************************************)
(* What rotating refresh tokens promise (app/users/sessions.py): a family  *)
(* of tokens begins once, at a login; at most one of its tokens can be     *)
(* rotated; the right to rotate passes to a token that never had it; and a *)
(* family that has lost it is dead for good.                               *)
(***************************************************************************)
CONSTANTS Family, Token

VARIABLES
    live,       \* the tokens of each family that can be rotated
    begun,      \* the families that ever began
    used        \* the tokens ever issued

Init ==
    /\ live = [f \in Family |-> {}]
    /\ begun = {}
    /\ used = {}

\* A login.
Begin(f, t) ==
    /\ f \notin begun
    /\ t \notin used
    /\ live' = [live EXCEPT ![f] = {t}]
    /\ begun' = begun \cup {f}
    /\ used' = used \cup {t}

\* A rotation.
Pass(f, t) ==
    /\ t \notin used
    /\ live[f] # {}
    /\ live' = [live EXCEPT ![f] = {t}]
    /\ used' = used \cup {t}
    /\ UNCHANGED begun

\* A logout, a logout of every session, a password reset, or a replay.
End(F) ==
    /\ live' = [f \in Family |-> IF f \in F THEN {} ELSE live[f]]
    /\ UNCHANGED <<begun, used>>

Next ==
    \/ \E f \in Family, t \in Token : Begin(f, t) \/ Pass(f, t)
    \/ \E F \in SUBSET Family : End(F)

Spec == Init /\ [][Next]_<<live, begun, used>>
=============================================================================
