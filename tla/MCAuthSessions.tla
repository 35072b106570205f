---------------------------- MODULE MCAuthSessions ----------------------------
(***************************************************************************)
(* Instances of AuthSessions for TLC. Token ids and requests are           *)
(* interchangeable.                                                        *)
(***************************************************************************)
EXTENDS AuthSessions, TLC

Symmetry == Permutations(Access) \cup Permutations(Refresh) \cup Permutations(Requests)
=============================================================================
