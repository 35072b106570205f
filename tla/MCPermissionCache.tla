-------------------------- MODULE MCPermissionCache --------------------------
(***************************************************************************)
(* Instances of PermissionCache for TLC. One of its runs checks liveness,  *)
(* so no symmetry is declared.                                             *)
(***************************************************************************)
EXTENDS PermissionCache
=============================================================================
