--------------------------- MODULE MCConnectionPool ---------------------------
(***************************************************************************)
(* An instance of ConnectionPool for TLC, whose tenants and requests are    *)
(* interchangeable.                                                        *)
(***************************************************************************)
EXTENDS ApiProcess, TLC

Symmetry == Permutations(Tenants) \cup Permutations(Requests)
=============================================================================
