-------------------------- MODULE MCAuthentication --------------------------
EXTENDS ApiKeys, TLC

Symmetry == Permutations(Refreshes) \cup Permutations(Bumps) \cup Permutations(Calls)
=============================================================================
