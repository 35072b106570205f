--------------------------- MODULE MCTenantRequests ---------------------------
(***************************************************************************)
(* An instance of TenantMembers, and with it of TenantRequests, for TLC.   *)
(***************************************************************************)
EXTENDS TenantMembers, TLC

\* Keys for everything, and for every action on files.
MCScopeSets == {{All}, {<<"files", "*">>}}

\* An admin's, a viewer's, and those of a token made while none could be read.
MCCallers ==
  {{<<"users", "write">>, <<"users", "delete">>, <<"roles", "manage">>}, {OtherPermission}, {}}
MCGrants == {{UploadFiles}, {OtherPermission}, {UploadFiles, OtherPermission}}

Symmetry == Permutations(Requests) \cup Permutations(Keys)
=============================================================================
