--------------------------------- MODULE Rbac ---------------------------------
(***************************************************************************)
(* The permission check of requirePermission (rbac.middleware.js) and      *)
(* hasPermission (PermissionEngine.js), and what the system roles of       *)
(* Role.model.js grant of the permissions that the modelled routes ask     *)
(* for. A permission "resource:action" is the pair of its parts.           *)
(***************************************************************************)
EXTENDS Naturals

All == <<"*", "*">>
UploadFiles == <<"files", "upload">>
ManageKeys == <<"apikeys", "manage">>
\* Stands for every permission that the modelled routes do not ask for.
OtherPermission == <<"search", "query">>

SystemRoles == {"owner", "admin", "member", "viewer"}

SYSTEM_ROLE_PERMISSIONS ==
  [owner |-> {All},
   admin |-> {UploadFiles, ManageKeys, OtherPermission},
   member |-> {UploadFiles, OtherPermission},
   viewer |-> {OtherPermission}]

hasPermission(permissions, required) ==
  permissions \cap {All, required, <<required[1], "*">>} # {}

\* An empty set is resolved again, for a user without the _id that
\* resolvePermissions asks for: a TypeError, and no access.
requirePermission(permissions, required) ==
  permissions # {} /\ hasPermission(permissions, required)

\* What those whom it does not let through fail with
refusal(permissions) ==
  IF permissions = {} THEN "TypeError" ELSE "PermissionDeniedError"
=============================================================================
