-------------------------- MODULE MCTenantContext --------------------------
(* Model checking TenantContext.                                            *)
EXTENDS TenantContext, TLC

Symmetry == Permutations(Requests) \cup Permutations(Tenants)
=============================================================================
