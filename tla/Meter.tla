-------------------------------- MODULE Meter -------------------------------
(***************************************************************************)
(* What a token bucket promises (app/ratelimit/limiter.py): a level that   *)
(* every admitted request raises by Cost and that drains by Rate per tick  *)
(* at most; a request is admitted only if the level stays within Capacity. *)
(***************************************************************************)
EXTENDS Naturals

CONSTANTS Callers, Capacity, Cost, Rate

VARIABLES level, verdict

Init == level = 0 /\ verdict = [c \in Callers |-> "none"]

Admit(c) ==
    /\ level' \in level + Cost .. Capacity
    /\ verdict' = [verdict EXCEPT ![c] = "admitted"]

\* Refusing costs nothing, but the limiter may turn stricter at any hit.
Refuse(c) ==
    /\ level' \in level .. Capacity
    /\ verdict' = [verdict EXCEPT ![c] = "limited"]

\* A new call, or one that the limiter had no say in.
Forget(c) ==
    /\ verdict' = [verdict EXCEPT ![c] = "none"]
    /\ UNCHANGED level

Drain ==
    /\ level' < level
    /\ level' + Rate >= level
    /\ UNCHANGED verdict

Next == Drain \/ \E c \in Callers : Admit(c) \/ Refuse(c) \/ Forget(c)

Spec == Init /\ [][Next]_<<level, verdict>>
=============================================================================
