------------------------------ MODULE MCOutbox ------------------------------
(* Model checking Outbox.                                                   *)
EXTENDS Outbox, TLC

Symmetry == Permutations(Endpoints) \cup Permutations(Relays)
=============================================================================
