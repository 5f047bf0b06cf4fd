------------------------------ MODULE OnceOnly ------------------------------
(***************************************************************************)
(* What an idempotency key promises, without rows, clocks or transactions: *)
(* for each key at most one handler runs at a time, its final answer       *)
(* becomes the key's outcome, and a duplicate is told that outcome, whole, *)
(* if it carries the same request.  The promise lapses for a key whose     *)
(* request was still at work when its claim expired.                       *)
(***************************************************************************)

CONSTANTS Requests, Keys, None

VARIABLES
    req,        \* what each request carries: its key and its fingerprint
    running,    \* the requests whose handler runs
    outcome,    \* the request whose answer a key stands for, if any
    told,       \* the request whose answer a duplicate was given, if any
    lapsed      \* the keys nothing is promised about any more

vars == <<req, running, outcome, told, lapsed>>

Promised(r) == req[r].key \notin lapsed

Init ==
    /\ running = {}
    /\ outcome = [k \in Keys |-> None]
    /\ told = [r \in Requests |-> None]
    /\ lapsed = {}

\* A handler starts when no other runs for its key; what the key stood for is
\* forgotten.
Begin(r) ==
    /\ Promised(r)
    /\ \A q \in running : req[q].key # req[r].key
    /\ running' = running \cup {r}
    /\ outcome' = [outcome EXCEPT ![req[r].key] = None]
    /\ UNCHANGED <<req, told, lapsed>>

\* A handler's answer becomes the outcome of its key.
Settle(r) ==
    /\ r \in running
    /\ running' = running \ {r}
    /\ outcome' = [outcome EXCEPT ![req[r].key] = r]
    /\ UNCHANGED <<req, told, lapsed>>

\* A handler ends, or dies, without an answer to keep.
GiveUp(r) ==
    /\ r \in running
    /\ running' = running \ {r}
    /\ UNCHANGED <<req, outcome, told, lapsed>>

\* A duplicate is told what its key stands for.
Tell(r) ==
    LET by == outcome[req[r].key] IN
    /\ by # None
    /\ req[by] = req[r]
    /\ told' = [told EXCEPT ![r] = by]
    /\ UNCHANGED <<req, running, outcome, lapsed>>

\* Outcomes expire.
Forget ==
    /\ \E gone \in SUBSET Keys :
         outcome' = [k \in Keys |-> IF k \in gone THEN None ELSE outcome[k]]
    /\ UNCHANGED <<req, running, told, lapsed>>

\* The promise lapses for some keys, and with it all that was said of them.
Lapse ==
    /\ lapsed \subseteq lapsed'
    /\ lapsed' \subseteq Keys
    /\ running' = {r \in running : req[r].key \notin lapsed'}
    /\ outcome' = [k \in Keys |-> IF k \in lapsed' THEN None ELSE outcome[k]]
    /\ told' = [r \in Requests |-> IF req[r].key \in lapsed' THEN None ELSE told[r]]
    /\ UNCHANGED req

Next ==
    \/ \E r \in Requests : Begin(r) \/ Settle(r) \/ GiveUp(r) \/ Tell(r)
    \/ Forget
    \/ Lapse

Spec == Init /\ [][Next]_vars

=============================================================================
