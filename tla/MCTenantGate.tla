----------------------------- MODULE MCTenantGate -----------------------------
(***************************************************************************)
(* An instance of TenantGate for TLC, with interchangeable signups.        *)
(***************************************************************************)
EXTENDS TenantGate, TLC

Symmetry == Permutations(Signups) \cup Permutations(Visitors)
=============================================================================
