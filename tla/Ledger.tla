------------------------------- MODULE Ledger -------------------------------
(***************************************************************************)
(* What prepaid wallets promise: an entry is posted once per key, changes  *)
(* the balance of its organization by its amount at the moment it appears, *)
(* and never takes a balance below zero.                                   *)
(***************************************************************************)
EXTENDS Integers

CONSTANT Orgs

VARIABLES balance, entries

Init ==
    /\ balance = [o \in Orgs |-> 0]
    /\ entries = {}

Post(e) ==
    /\ e.org \in Orgs
    /\ \A f \in entries : f.key # e.key
    /\ balance[e.org] + e.delta >= 0
    /\ balance' = [balance EXCEPT ![e.org] = @ + e.delta]
    /\ entries' = entries \cup {e}

\* The entry posted is the one that appears.
Next == \E e \in entries' \ entries : Post(e)

Spec == Init /\ [][Next]_<<balance, entries>>
=============================================================================
