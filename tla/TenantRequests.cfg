SPECIFICATION MembersSpec
CONSTANTS
  Files = {f1}
  Keys = {k1, k2, k3}
  ScopeSets <- MCScopeSets
  Quota = 1
  Requests = {r1, r2}
  Roles = {"admin"}
  None = None
  Users = {u0, u1}
  Owner = u0
  Emails = {e0, e1}
  OwnerEmail = e0
  Assignable = {"member", "viewer"}
  CustomRoles = {c1, c2}
  Names = {"viewer", "auditor"}
  Grants <- MCGrants
  Callers <- MCCallers
  Kinds = {"files", "users", "roles"}
INVARIANTS TypeOK KeysBounded EmailsDistinct InternalErrorsExplained
PROPERTIES RevocationHolds DeletionHolds NoUpdateLost
SYMMETRY Symmetry
