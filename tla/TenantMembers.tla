----------------------------- MODULE TenantMembers -----------------------------
(***************************************************************************)
(* The users (user.routes.js) and the roles (role.routes.js) of the tenant *)
(* of TenantRequests: overlapping requests that find a document and save   *)
(* it later, the unique indexes of the two collections, deletion that only *)
(* hides, and what each request is answered with and leaves in the audit   *)
(* log.                                                                    *)
(*                                                                         *)
(* Users, roles, and the files and keys of TenantRequests are collections  *)
(* of their own, and no handler works on two of them: a behaviour has      *)
(* requests of one kind.                                                   *)
(***************************************************************************)
EXTENDS TenantRequests, Errors, AuditTrail

CONSTANTS
  Users,       \* users there may ever be, deleted ones included
  Owner,       \* the one that signed the tenant up
  Emails,
  OwnerEmail,
  Assignable,  \* roles a request assigns; admin, member and viewer are allowed
  CustomRoles, \* roles there may ever be besides the system's
  Names,       \* names that custom roles are asked for with
  Grants,      \* sets of permissions that roles are asked for with
  Callers,     \* permissions that the tokens and keys of callers carry
  Kinds        \* subset of {"files", "users", "roles"}

ASSUME MembersAssumption ==
  /\ Owner \in Users /\ OwnerEmail \in Emails /\ None \notin Emails
  /\ Assignable \subseteq {"admin", "member", "viewer"}
  /\ Kinds \subseteq {"files", "users", "roles"}
  /\ CustomRoles \cap SystemRoles = {} /\ None \notin Names \cup SystemRoles

VARIABLES
  kind,    \* of the requests of this behaviour
  user,    \* user -> its document
  role,    \* role -> its document
  work,    \* request -> where its handler stands
  fault    \* a call of the database was rejected, a save met a newer version, or
           \* a caller had no permission at all

memberVars == <<kind, user, role, work, fault, auditLog>>

\* hidden: deletedAt is set.
NoUser == [email |-> None, role |-> None, hidden |-> FALSE]
UserRecord ==
  [email : Emails \cup {None}, role : SystemRoles \cup {None}, hidden : BOOLEAN]

NoRole == [name |-> None, permissions |-> {}, isSystem |-> FALSE, hidden |-> FALSE]
RoleDocs == SystemRoles \cup CustomRoles
buildSystemRoles ==
  [c \in SystemRoles |-> [name |-> c, permissions |-> SYSTEM_ROLE_PERMISSIONS[c],
                          isSystem |-> TRUE, hidden |-> FALSE]]

RoleRecord ==
  [name : Names \cup SystemRoles \cup {None},
   permissions : Grants \cup {SYSTEM_ROLE_PERMISSIONS[c] : c \in SystemRoles} \cup {{}},
   isSystem : BOOLEAN, hidden : BOOLEAN]

UserOps == {"changeRole", "deleteUser", "restoreUser"}
RoleOps == {"updateRole", "deleteRole"}
Ops == UserOps \cup RoleOps \cup {"invite", "createRole"}

Waiting == [step |-> "idle"]
Answered == [step : {"answered"}, op : Ops, status : Nat]
UserCreation == [step : {"create"}, op : {"invite"}, doc : UserRecord]
RoleCreation == [step : {"create"}, op : {"createRole"}, doc : RoleRecord]
\* doc: as it was found; new: as the handler has changed it
UserSave ==
  [step : {"save"}, op : UserOps, target : Users, doc : UserRecord, new : UserRecord]
\* newest: no save has replaced the role's permissions since, which the
\* version that mongoose keeps in the document tells.
RoleSave ==
  [step : {"save"}, op : RoleOps, target : CustomRoles, doc : RoleRecord,
   new : RoleRecord, newest : BOOLEAN]

MembersTypeOK ==
  /\ kind \in {"files", "users", "roles"}
  /\ user \in [Users -> UserRecord] /\ role \in [RoleDocs -> RoleRecord]
  /\ work \in [Requests -> {Waiting} \cup Answered \cup UserCreation \cup RoleCreation
                             \cup UserSave \cup RoleSave]
  /\ fault \in BOOLEAN /\ auditLog \subseteq Severities

MembersInit ==
  /\ Init
  /\ kind \in Kinds
  /\ user = [u \in Users |->
       IF u = Owner THEN [email |-> OwnerEmail, role |-> "owner", hidden |-> FALSE] ELSE NoUser]
  /\ role = [c \in RoleDocs |-> IF c \in SystemRoles THEN buildSystemRoles[c] ELSE NoRole]
  /\ work = [r \in Requests |-> Waiting]
  /\ fault = FALSE
  /\ auditLog = {}

-----------------------------------------------------------------------------
(* Answers                                                                 *)

Reply(r, op, status) == work' = [work EXCEPT ![r] = [step |-> "answered", op |-> op, status |-> status]]
Fail(r, op, error) == Reply(r, op, errorMiddleware(error))

\* A call was executed; whether its answer arrives decides on the request's.
Outcome(lost, status) == IF lost THEN errorMiddleware("ConnectionLost") ELSE status

OpsOf == [users |-> UserOps \cup {"invite"}, roles |-> RoleOps \cup {"createRole"}, files |-> {}]

Asks(op) ==
  CASE op \in {"invite", "changeRole", "restoreUser"} -> <<"users", "write">>
    [] op = "deleteUser" -> <<"users", "delete">>
    [] OTHER -> <<"roles", "manage">>

\* requirePermission lets a request of the operation through.
Enters(r, op) ==
  /\ work[r] = Waiting
  /\ op \in OpsOf[kind]
  /\ \E caller \in Callers : requirePermission(caller, Asks(op))

\* The caller lacks the permission, or validation refuses what it sends.
Refuse(r, op) ==
  /\ work[r] = Waiting
  /\ op \in OpsOf[kind]
  /\ \/ \E caller \in Callers :
          /\ ~ requirePermission(caller, Asks(op))
          /\ Fail(r, op, refusal(caller))
          /\ fault' = (fault \/ caller = {})
     \/ /\ Enters(r, op) /\ op \in {"invite", "changeRole", "createRole"}
        /\ Fail(r, op, "ValidationError")
        /\ UNCHANGED fault
  /\ UNCHANGED <<kind, user, role, auditLog>>

-----------------------------------------------------------------------------
(* user.routes.js                                                          *)

\* What queries find: the hook of User.model.js leaves deleted users out.
Shown(u) == user[u].email # None /\ ~ user[u].hidden

\* Mutant of EmailFree: the index leaves deleted users out.
EmailFreeShown(email) == \A u \in Users : Shown(u) => user[u].email # email
\* The unique index takes the email, which deleted users keep.
EmailFree(email) == \A u \in Users : user[u].email # email

\* POST /, to the answer of findOne
Invite(r, email, newRole) ==
  /\ Enters(r, "invite")
  /\ IF \E u \in Users : Shown(u) /\ user[u].email = email
       THEN Fail(r, "invite", "DuplicateEmailError")
       ELSE work' = [work EXCEPT ![r] =
              [step |-> "create", op |-> "invite",
               doc |-> [email |-> email, role |-> newRole, hidden |-> FALSE]]]
  /\ UNCHANGED <<kind, user, role, fault, auditLog>>

\* User.create, and the answer
CreateUser(r, u, lost) ==
  /\ work[r].step = "create" /\ work[r].op = "invite"
  /\ user[u] = NoUser
  /\ IF EmailFree(work[r].doc.email)
       THEN /\ user' = [user EXCEPT ![u] = work[r].doc]
            /\ Reply(r, "invite", Outcome(lost, 201))
       ELSE /\ UNCHANGED user
            /\ Fail(r, "invite", IF lost THEN "ConnectionLost" ELSE "DuplicateKey")
  /\ fault' = (fault \/ lost)
  /\ UNCHANGED <<kind, role, auditLog>>

\* PATCH /:id/role, DELETE /:id and POST /:id/restore, to the answer of findOne
FindUser(r, op, u, newRole) ==
  /\ Enters(r, op) /\ op \in UserOps
  /\ IF Shown(u) \/ (op = "restoreUser" /\ user[u] # NoUser)
       THEN work' = [work EXCEPT ![r] =
              [step |-> "save", op |-> op, target |-> u, doc |-> user[u],
               new |-> CASE op = "changeRole"  -> [user[u] EXCEPT !.role = newRole]
                         [] op = "deleteUser"  -> [user[u] EXCEPT !.hidden = TRUE]
                         [] op = "restoreUser" -> [user[u] EXCEPT !.hidden = FALSE]]]
       ELSE Fail(r, op, "NotFoundError")
  /\ UNCHANGED <<kind, user, role, fault, auditLog>>

SaveUser(r, lost) ==
  /\ work[r].step = "save" /\ work[r].op \in UserOps
  /\ user' = [user EXCEPT ![work[r].target] = Saved(work[r].doc, work[r].new, @)]
  /\ Reply(r, work[r].op, Outcome(lost, 200))
  /\ fault' = (fault \/ lost)
  /\ UNCHANGED <<kind, role, auditLog>>

-----------------------------------------------------------------------------
(* role.routes.js                                                          *)

NameFree(name) == \A c \in RoleDocs : role[c].name # name

\* POST /, to the answer of findOne: Role.model.js has no hook, so deleted roles
\* are found as well.
AskRole(r, name, grants) ==
  /\ Enters(r, "createRole")
  /\ IF NameFree(name)
       THEN work' = [work EXCEPT ![r] =
              [step |-> "create", op |-> "createRole",
               doc |-> [NoRole EXCEPT !.name = name, !.permissions = grants]]]
       ELSE Fail(r, "createRole", "ValidationError")
  /\ UNCHANGED <<kind, user, role, fault, auditLog>>

\* Role.create against the unique index, and the answer
CreateRole(r, c, lost) ==
  /\ work[r].step = "create" /\ work[r].op = "createRole"
  /\ role[c] = NoRole
  /\ IF NameFree(work[r].doc.name)
       THEN /\ role' = [role EXCEPT ![c] = work[r].doc]
            /\ Reply(r, "createRole", Outcome(lost, 201))
       ELSE /\ UNCHANGED role
            /\ Fail(r, "createRole", IF lost THEN "ConnectionLost" ELSE "DuplicateKey")
  /\ fault' = (fault \/ lost)
  /\ UNCHANGED <<kind, user, auditLog>>

\* PATCH /:id and DELETE /:id, to the answer of findOne
FindRole(r, op, c, grants) ==
  /\ Enters(r, op) /\ op \in RoleOps
  /\ CASE role[c] = NoRole   -> Fail(r, op, "NotFoundError")
       [] role[c].isSystem   -> Fail(r, op, "ValidationError")
       [] OTHER -> work' = [work EXCEPT ![r] =
            [step |-> "save", op |-> op, target |-> c, doc |-> role[c], newest |-> TRUE,
             new |-> IF op = "updateRole" THEN [role[c] EXCEPT !.permissions = grants]
                                          ELSE [role[c] EXCEPT !.hidden = TRUE]]]
  /\ UNCHANGED <<kind, user, role, fault, auditLog>>

\* The array of permissions is replaced: save() then asks for the version that
\* was loaded, and raises it.
Replaces(r) == work[r].doc.permissions # work[r].new.permissions

\* Mutant of VersionFits: the schema has no version key.
VersionFitsAlways(r) == TRUE
VersionFits(r) == Replaces(r) => work[r].newest

\* The other copies of the document, when the version is raised
Outdates(r, q) ==
  /\ Replaces(r)
  /\ work[q].step = "save" /\ work[q].op \in RoleOps /\ work[q].target = work[r].target

SaveRole(r, lost) ==
  /\ work[r].step = "save" /\ work[r].op \in RoleOps
  /\ VersionFits(r)
  /\ role' = [role EXCEPT ![work[r].target] = Saved(work[r].doc, work[r].new, @)]
  /\ work' = [q \in Requests |->
       IF q = r THEN [step |-> "answered", op |-> work[r].op, status |-> Outcome(lost, 200)]
       ELSE IF Outdates(r, q) THEN [work[q] EXCEPT !.newest = FALSE] ELSE work[q]]
  /\ fault' = (fault \/ lost)
  /\ UNCHANGED <<kind, user, auditLog>>

\* A VersionError: errorMiddleware does not know it.
SaveOvertaken(r) ==
  /\ work[r].step = "save" /\ work[r].op \in RoleOps
  /\ ~ VersionFits(r)
  /\ Fail(r, work[r].op, "VersionError")
  /\ fault' = TRUE
  /\ UNCHANGED <<kind, user, role, auditLog>>

-----------------------------------------------------------------------------

\* A call of the database is rejected and nothing was executed.
RejectCall(r, op) ==
  /\ \/ Enters(r, op)
     \/ work[r].step \in {"create", "save"} /\ op = work[r].op
  /\ Fail(r, op, "ConnectionLost")
  /\ fault' = TRUE
  /\ UNCHANGED <<kind, user, role, auditLog>>

\* The response has been sent.
Finish(r) ==
  /\ work[r].step = "answered"
  /\ Audit(work[r].op, work[r].status)
  /\ work' = [work EXCEPT ![r] = Waiting]
  /\ UNCHANGED <<kind, user, role, fault>>

\* The process dies, with the handler or with the entry still to be inserted.
Crash(r) ==
  /\ work[r] # Waiting
  /\ work' = [work EXCEPT ![r] = Waiting]
  /\ UNCHANGED <<kind, user, role, fault, auditLog>>

UserStep(r) ==
  \/ \E email \in Emails, newRole \in Assignable : Invite(r, email, newRole)
  \/ \E op \in UserOps, u \in Users, newRole \in Assignable : FindUser(r, op, u, newRole)
  \/ \E lost \in BOOLEAN : SaveUser(r, lost) \/ \E u \in Users : CreateUser(r, u, lost)

RoleStep(r) ==
  \/ \E name \in Names, grants \in Grants : AskRole(r, name, grants)
  \/ \E op \in RoleOps, c \in RoleDocs, grants \in Grants : FindRole(r, op, c, grants)
  \/ \E lost \in BOOLEAN : SaveRole(r, lost) \/ \E c \in CustomRoles : CreateRole(r, c, lost)

OtherStep(r) ==
  \/ \E op \in Ops : Refuse(r, op) \/ RejectCall(r, op)
  \/ SaveOvertaken(r) \/ Finish(r) \/ Crash(r)

MemberStep == \E r \in Requests : UserStep(r) \/ RoleStep(r) \/ OtherStep(r)

MembersNext ==
  \/ kind = "files" /\ Next /\ UNCHANGED memberVars
  \/ kind # "files" /\ MemberStep /\ UNCHANGED vars

MembersSpec == MembersInit /\ [][MembersNext]_<<vars, memberVars>>

-----------------------------------------------------------------------------
(* Correctness.                                                            *)

\* No two users that can be seen share an email, whatever is invited, deleted,
\* invited anew and restored (POST / and POST /:id/restore of user.routes.js).
EmailsDistinct ==
  \A u, v \in Users : Shown(u) /\ Shown(v) /\ user[u].email = user[v].email => u = v

\* A role's permissions are replaced only by a request that had read those it
\* replaces: of two overlapping updates one fails (PATCH /:id of role.routes.js).
NoUpdateLost ==
  [][\A c \in CustomRoles :
       role'[c].permissions # role[c].permissions /\ role[c] # NoRole =>
         \E r \in Requests : /\ work[r].step = "save" /\ work[r].target = c
                             /\ work[r].doc.permissions = role[c].permissions
                             /\ work'[r] # work[r]]_<<vars, memberVars>>

\* A request is answered with 500 or more, and audited as critical, only after a
\* call was rejected, an update was overtaken, or somebody whose token or key
\* carries no permission asked for something: losing a race for an email or a
\* name, and lacking the permission, is the client's error (errorMiddleware,
\* auditMiddleware, requirePermission).
InternalErrorsExplained ==
  (\E r \in Requests : work[r].step = "answered" /\ work[r].status >= 500)
    \/ "critical" \in auditLog => fault
=============================================================================
