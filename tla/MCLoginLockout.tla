---------------------------- MODULE MCLoginLockout ----------------------------
(***************************************************************************)
(* An instance of the login guards and the tenant limiter for TLC, with    *)
(* interchangeable requests, calls and addresses.                          *)
(***************************************************************************)
EXTENDS TenantLimiter, TLC

Symmetry == Permutations(Requests) \cup Permutations(Calls) \cup Permutations(Ips)
=============================================================================
