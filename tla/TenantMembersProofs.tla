-------------------------- MODULE TenantMembersProofs --------------------------
(***************************************************************************)
(* Users and roles of a tenant, for any numbers of documents and requests: *)
(* emails stay distinct, no replacement of a role's permissions is lost,   *)
(* and what TenantRequests promises holds beside them.                     *)
(***************************************************************************)
EXTENDS TenantMembers, TenantRequestsProofs

USE MembersAssumption

\* A behaviour of TenantMembers is one of TenantRequests, whose state the
\* requests on users and roles leave alone.
THEOREM MembersKeepTheRest == MembersSpec => Spec
<1>1. MembersInit => Init BY DEF MembersInit
<1>2. [MembersNext]_<<vars, memberVars>> => [Next]_vars BY DEF MembersNext
<1> QED BY <1>1, <1>2, PTL DEF MembersSpec, Spec

\* Beside users and roles, too, the quota of API keys is exceeded by fewer keys
\* than there are requests, and a revocation is final.
THEOREM RecordsHold == MembersSpec => []KeysBounded /\ RevocationHolds
BY MembersKeepTheRest, KeysStayBounded, RevocationsHold, PTL

-----------------------------------------------------------------------------
(* Types.                                                                  *)

Work == {Waiting} \cup Answered \cup UserCreation \cup RoleCreation \cup UserSave \cup RoleSave

\* Every status is a number.
LEMMA StatusType ==
  /\ \A error : errorMiddleware(error) \in Nat
  /\ \A lost \in BOOLEAN : Outcome(lost, 200) \in Nat /\ Outcome(lost, 201) \in Nat
<1>1. \A error \in DOMAIN AppErrors : AppErrors[error] \in Nat
  BY DEF AppErrors
<1>2. \A error \in DOMAIN LibraryErrors : LibraryErrors[error] \in Nat
  BY DEF LibraryErrors
<1>3. \A error : errorMiddleware(error) \in Nat
  BY <1>1, <1>2 DEF errorMiddleware
<1> QED BY <1>3 DEF Outcome

\* What each place in a handler says of the record.
LEMMA WorkAt ==
  ASSUME NEW w \in Work
  PROVE  /\ w.step = "create" /\ w.op = "invite" => w \in UserCreation
         /\ w.step = "create" /\ w.op = "createRole" => w \in RoleCreation
         /\ w.step = "save" /\ w.op \in UserOps => w \in UserSave
         /\ w.step = "save" /\ w.op \in RoleOps => w \in RoleSave
         /\ w.step = "answered" => w \in Answered
BY DEF Work, Waiting, Answered, UserCreation, RoleCreation, UserSave, RoleSave, UserOps, RoleOps
LEMMA SavedUser ==
  ASSUME NEW doc \in UserRecord, NEW new \in UserRecord, NEW stored \in UserRecord
  PROVE  /\ Saved(doc, new, stored) \in UserRecord
         /\ doc.email = new.email => Saved(doc, new, stored).email = stored.email
<1> DEFINE saved == Saved(doc, new, stored)
<1>1. DOMAIN stored = {"email", "role", "hidden"}
  BY DEF UserRecord
<1>2. saved = [email |-> saved.email, role |-> saved.role, hidden |-> saved.hidden]
  BY <1>1 DEF Saved
<1>3. /\ saved.email \in {stored.email, new.email} /\ saved.role \in {stored.role, new.role}
      /\ saved.hidden \in {stored.hidden, new.hidden}
      /\ doc.email = new.email => saved.email = stored.email
  BY <1>1 DEF Saved
<1>4. saved \in UserRecord
  BY <1>2, <1>3 DEF UserRecord
<1> QED BY <1>3, <1>4

LEMMA SavedRole ==
  ASSUME NEW doc \in RoleRecord, NEW new \in RoleRecord, NEW stored \in RoleRecord
  PROVE  /\ Saved(doc, new, stored) \in RoleRecord
         /\ doc.name = new.name => Saved(doc, new, stored).name = stored.name
         /\ doc.isSystem = new.isSystem => Saved(doc, new, stored).isSystem = stored.isSystem
         /\ Saved(doc, new, stored).permissions =
              IF doc.permissions = new.permissions THEN stored.permissions ELSE new.permissions
<1> DEFINE saved == Saved(doc, new, stored)
<1>1. DOMAIN stored = {"name", "permissions", "isSystem", "hidden"}
  BY DEF RoleRecord
<1>2. saved = [name |-> saved.name, permissions |-> saved.permissions,
               isSystem |-> saved.isSystem, hidden |-> saved.hidden]
  BY <1>1 DEF Saved
<1>3. /\ saved.name \in {stored.name, new.name}
      /\ saved.permissions \in {stored.permissions, new.permissions}
      /\ saved.isSystem \in {stored.isSystem, new.isSystem}
      /\ saved.hidden \in {stored.hidden, new.hidden}
  BY <1>1 DEF Saved
<1>4. saved \in RoleRecord
  BY <1>2, <1>3 DEF RoleRecord
<1> QED BY <1>1, <1>4 DEF Saved

LEMMA MembersTypeInit == MembersInit => MembersTypeOK
<1> SUFFICES ASSUME MembersInit PROVE MembersTypeOK
  OBVIOUS
<1>1. user \in [Users -> UserRecord]
  BY DEF MembersInit, UserRecord, NoUser, SystemRoles
<1>2. \A c \in SystemRoles : buildSystemRoles[c] \in RoleRecord
  BY DEF buildSystemRoles, RoleRecord
<1>3. NoRole \in RoleRecord
  BY DEF NoRole, RoleRecord
<1>4. role \in [RoleDocs -> RoleRecord]
  BY <1>2, <1>3 DEF MembersInit, RoleDocs
<1> QED BY <1>1, <1>4 DEF MembersInit, MembersTypeOK

\* The work of a request once its handler has answered
LEMMA ReplyType ==
  ASSUME MembersTypeOK, NEW r \in Requests, NEW op \in Ops, NEW status \in Nat,
         Reply(r, op, status)
  PROVE  work' \in [Requests -> Work]
BY DEF Reply, MembersTypeOK, Work, Answered

LEMMA FailType ==
  ASSUME MembersTypeOK, NEW r \in Requests, NEW op \in Ops, NEW error, Fail(r, op, error)
  PROVE  work' \in [Requests -> Work]
BY ReplyType, StatusType DEF Fail

\* A handler goes on to another place.
LEMMA MoveType ==
  ASSUME MembersTypeOK, NEW r \in Requests, NEW w \in Work, work' = [work EXCEPT ![r] = w]
  PROVE  work' \in [Requests -> Work]
BY DEF MembersTypeOK, Work

\* A request about a user keeps the types.
LEMMA UserStepType ==
  ASSUME MembersTypeOK, NEW r \in Requests, UserStep(r)
  PROVE  MembersTypeOK'
<1> USE DEF Ops
<1>0. /\ user \in [Users -> UserRecord] /\ role \in [RoleDocs -> RoleRecord]
      /\ work \in [Requests -> Work] /\ fault \in BOOLEAN
  BY DEF MembersTypeOK, Work
<1>1. ASSUME NEW email \in Emails, NEW newRole \in Assignable, Invite(r, email, newRole)
      PROVE  MembersTypeOK'
  <2> DEFINE w == [step |-> "create", op |-> "invite",
                   doc |-> [email |-> email, role |-> newRole, hidden |-> FALSE]]
  <2>1. w \in Work
    BY DEF Work, UserCreation, UserRecord, SystemRoles
  <2>2. work' \in [Requests -> Work]
    BY <1>1, <2>1, FailType, MoveType DEF Invite
  <2> QED BY <1>1, <2>2 DEF Invite, MembersTypeOK, Work
<1>2. ASSUME NEW op \in UserOps, NEW u \in Users, NEW newRole \in Assignable,
             FindUser(r, op, u, newRole)
      PROVE  MembersTypeOK'
  <2> DEFINE new == CASE op = "changeRole"  -> [user[u] EXCEPT !.role = newRole]
                      [] op = "deleteUser"  -> [user[u] EXCEPT !.hidden = TRUE]
                      [] op = "restoreUser" -> [user[u] EXCEPT !.hidden = FALSE]
             w == [step |-> "save", op |-> op, target |-> u, doc |-> user[u], new |-> new]
  <2>1. new \in UserRecord
    <3>1. user[u] \in UserRecord
      BY <1>0
    <3> QED BY <3>1 DEF UserRecord, UserOps, SystemRoles
  <2>2. w \in Work
    BY <1>0, <2>1 DEF Work, UserSave
  <2>3. Fail(r, op, "NotFoundError") \/ work' = [work EXCEPT ![r] = w]
    BY <1>2 DEF FindUser
  <2>4. work' \in [Requests -> Work]
    BY <2>2, <2>3, FailType, MoveType
  <2> QED BY <1>2, <2>4 DEF FindUser, MembersTypeOK, Work
<1>3. ASSUME NEW lost \in BOOLEAN, SaveUser(r, lost) PROVE MembersTypeOK'
  <2>1. work[r] \in UserSave
    BY <1>0, <1>3, WorkAt DEF SaveUser
  <2>2. /\ work[r].op \in UserOps /\ work[r].target \in Users
        /\ work[r].doc \in UserRecord /\ work[r].new \in UserRecord
    BY <2>1 DEF UserSave
  <2>3. Saved(work[r].doc, work[r].new, user[work[r].target]) \in UserRecord
    BY <1>0, <2>2, SavedUser
  <2>4. user' \in [Users -> UserRecord]
    BY <1>0, <1>3, <2>2, <2>3 DEF SaveUser
  <2>5. work' \in [Requests -> Work]
    BY <1>3, <2>2, ReplyType, StatusType DEF SaveUser
  <2> QED BY <1>0, <1>3, <2>4, <2>5 DEF SaveUser, MembersTypeOK, Work
<1>4. ASSUME NEW lost \in BOOLEAN, NEW u \in Users, CreateUser(r, u, lost) PROVE MembersTypeOK'
  <2>1. work[r].doc \in UserRecord
    <3>1. work[r] \in UserCreation
      BY <1>0, <1>4, WorkAt DEF CreateUser
    <3> QED BY <3>1 DEF UserCreation
  <2>2. user' \in [Users -> UserRecord]
    BY <1>0, <1>4, <2>1 DEF CreateUser
  <2>3. work' \in [Requests -> Work]
    BY <1>4, ReplyType, FailType, StatusType DEF CreateUser
  <2> QED BY <1>0, <1>4, <2>2, <2>3 DEF CreateUser, MembersTypeOK, Work
<1> QED BY <1>1, <1>2, <1>3, <1>4 DEF UserStep

\* A request about a role keeps the types. A save leaves other handlers where
\* they are, with a copy that may have become an old one.
LEMMA RoleStepType ==
  ASSUME MembersTypeOK, \A c \in SystemRoles : role[c].isSystem, NEW r \in Requests, RoleStep(r)
  PROVE  MembersTypeOK'
<1> USE DEF Ops
<1>0. /\ user \in [Users -> UserRecord] /\ role \in [RoleDocs -> RoleRecord]
      /\ work \in [Requests -> Work] /\ fault \in BOOLEAN
  BY DEF MembersTypeOK, Work
<1>1. ASSUME NEW name \in Names, NEW grants \in Grants, AskRole(r, name, grants)
      PROVE  MembersTypeOK'
  <2> DEFINE doc == [NoRole EXCEPT !.name = name, !.permissions = grants]
             w == [step |-> "create", op |-> "createRole", doc |-> doc]
  <2>1. doc \in RoleRecord
    BY DEF NoRole, RoleRecord
  <2>2. w \in Work
    BY <2>1 DEF Work, RoleCreation
  <2>3. work' \in [Requests -> Work]
    BY <1>1, <2>2, FailType, MoveType DEF AskRole
  <2> QED BY <1>1, <2>3 DEF AskRole, MembersTypeOK, Work
<1>2. ASSUME NEW op \in RoleOps, NEW c \in RoleDocs, NEW grants \in Grants,
             FindRole(r, op, c, grants)
      PROVE  MembersTypeOK'
  <2> DEFINE new == IF op = "updateRole" THEN [role[c] EXCEPT !.permissions = grants]
                                         ELSE [role[c] EXCEPT !.hidden = TRUE]
             w == [step |-> "save", op |-> op, target |-> c, doc |-> role[c], newest |-> TRUE,
                   new |-> new]
  <2>1. role[c] \in RoleRecord /\ new \in RoleRecord
    <3>1. role[c] \in RoleRecord
      BY <1>0
    <3> QED BY <3>1 DEF RoleRecord
  <2>2. \/ Fail(r, op, "NotFoundError") \/ Fail(r, op, "ValidationError")
        \/ c \in CustomRoles /\ work' = [work EXCEPT ![r] = w]
    BY <1>2 DEF FindRole, RoleDocs
  <2>3. c \in CustomRoles => w \in Work
    BY <2>1 DEF Work, RoleSave
  <2>4. work' \in [Requests -> Work]
    BY <2>2, <2>3, FailType, MoveType
  <2> QED BY <1>2, <2>4 DEF FindRole, MembersTypeOK, Work
<1>3. ASSUME NEW lost \in BOOLEAN, SaveRole(r, lost) PROVE MembersTypeOK'
  <2>1. work[r] \in RoleSave
    BY <1>0, <1>3, WorkAt DEF SaveRole
  <2>2. /\ work[r].op \in RoleOps /\ work[r].target \in RoleDocs
        /\ work[r].doc \in RoleRecord /\ work[r].new \in RoleRecord
    BY <2>1 DEF RoleSave, RoleDocs
  <2>3. Saved(work[r].doc, work[r].new, role[work[r].target]) \in RoleRecord
    BY <1>0, <2>2, SavedRole
  <2>4. role' \in [RoleDocs -> RoleRecord]
    BY <1>0, <1>3, <2>2, <2>3 DEF SaveRole
  <2>5. [step |-> "answered", op |-> work[r].op, status |-> Outcome(lost, 200)] \in Work
    BY <2>2, StatusType DEF Work, Answered
  <2>6. ASSUME NEW q \in Requests, Outdates(r, q)
        PROVE  [work[q] EXCEPT !.newest = FALSE] \in Work
    <3>1. work[q] \in RoleSave
      BY <1>0, <2>6, WorkAt DEF Outdates
    <3>2. [work[q] EXCEPT !.newest = FALSE] \in RoleSave
      BY <3>1 DEF RoleSave
    <3> QED BY <3>2 DEF Work
  <2>7. work' \in [Requests -> Work]
    BY <1>0, <1>3, <2>5, <2>6 DEF SaveRole
  <2> QED BY <1>0, <1>3, <2>4, <2>7 DEF SaveRole, MembersTypeOK, Work
<1>4. ASSUME NEW lost \in BOOLEAN, NEW c \in CustomRoles, CreateRole(r, c, lost)
      PROVE  MembersTypeOK'
  <2>1. work[r].doc \in RoleRecord
    <3>1. work[r] \in RoleCreation
      BY <1>0, <1>4, WorkAt DEF CreateRole
    <3> QED BY <3>1 DEF RoleCreation
  <2>2. role' \in [RoleDocs -> RoleRecord]
    BY <1>0, <1>4, <2>1 DEF CreateRole, RoleDocs
  <2>3. work' \in [Requests -> Work]
    BY <1>4, ReplyType, FailType, StatusType DEF CreateRole
  <2> QED BY <1>0, <1>4, <2>2, <2>3 DEF CreateRole, MembersTypeOK, Work
<1> QED BY <1>1, <1>2, <1>3, <1>4 DEF RoleStep

\* Refusals, faults and what follows an answer keep the types.
LEMMA OtherStepType ==
  ASSUME MembersTypeOK, NEW r \in Requests, OtherStep(r)
  PROVE  MembersTypeOK'
<1>0. work \in [Requests -> Work] /\ Waiting \in Work
  BY DEF MembersTypeOK, Work
<1>1. ASSUME NEW op \in Ops, Refuse(r, op) PROVE MembersTypeOK'
  <2>1. work' \in [Requests -> Work]
    BY <1>1, FailType DEF Refuse
  <2>2. fault' \in BOOLEAN
    BY <1>1 DEF Refuse, MembersTypeOK
  <2> QED BY <1>1, <2>1, <2>2 DEF Refuse, MembersTypeOK, Work
<1>2. ASSUME NEW op \in Ops, RejectCall(r, op) PROVE MembersTypeOK'
  <2>1. work' \in [Requests -> Work]
    BY <1>2, FailType DEF RejectCall
  <2> QED BY <1>2, <2>1 DEF RejectCall, MembersTypeOK, Work
<1>3. CASE SaveOvertaken(r)
  <2>1. work' \in [Requests -> Work]
    BY <1>3, FailType DEF SaveOvertaken, Ops
  <2> QED BY <1>3, <2>1 DEF SaveOvertaken, MembersTypeOK, Work
<1>4. CASE Finish(r)
  <2>1. work' \in [Requests -> Work]
    BY <1>0, <1>4, MoveType DEF Finish
  <2>2. auditLog' \subseteq Severities
    <3>1. Severity(work[r].status) \in Severities
      BY DEF Severity, Severities
    <3> QED BY <1>4, <3>1 DEF Finish, Audit, MembersTypeOK
  <2> QED BY <1>4, <2>1, <2>2 DEF Finish, MembersTypeOK, Work
<1>5. CASE Crash(r)
  <2>1. work' \in [Requests -> Work]
    BY <1>0, <1>5, MoveType DEF Crash
  <2> QED BY <1>5, <2>1 DEF Crash, MembersTypeOK, Work
<1> QED BY <1>1, <1>2, <1>3, <1>4, <1>5 DEF OtherStep

-----------------------------------------------------------------------------
(* Users                                                                   *)

\* No two users, deleted ones included, have the same email, and no save
\* changes one.
UsersInv ==
  /\ \A u, v \in Users : user[u].email # None /\ user[u].email = user[v].email => u = v
  /\ \A r \in Requests : work[r].step = "save" /\ work[r].op \in UserOps =>
       work[r].doc.email = work[r].new.email

\* A request that answers, or waits again, saves nothing any more.
LEMMA ReplyUsers ==
  ASSUME MembersTypeOK, UsersInv, NEW r \in Requests, UNCHANGED user,
         \/ \E op, status : Reply(r, op, status)
         \/ work' = [work EXCEPT ![r] = Waiting]
         \/ \E op, doc : work' = [work EXCEPT ![r] = [step |-> "create", op |-> op, doc |-> doc]]
  PROVE  UsersInv'
<1>1. work'[r].step # "save" /\ \A q \in Requests \ {r} : work'[q] = work[q]
  BY DEF Reply, MembersTypeOK, Waiting
<1> QED BY <1>1 DEF UsersInv

LEMMA UserStepUsers ==
  ASSUME MembersTypeOK, UsersInv, NEW r \in Requests, UserStep(r)
  PROVE  UsersInv'
<1>1. ASSUME NEW email \in Emails, NEW newRole \in Assignable, Invite(r, email, newRole)
      PROVE  UsersInv'
  BY <1>1, ReplyUsers DEF Invite, Fail
<1>2. ASSUME NEW op \in UserOps, NEW u \in Users, NEW newRole \in Assignable,
             FindUser(r, op, u, newRole)
      PROVE  UsersInv'
  <2> DEFINE new == CASE op = "changeRole"  -> [user[u] EXCEPT !.role = newRole]
                      [] op = "deleteUser"  -> [user[u] EXCEPT !.hidden = TRUE]
                      [] op = "restoreUser" -> [user[u] EXCEPT !.hidden = FALSE]
             w == [step |-> "save", op |-> op, target |-> u, doc |-> user[u], new |-> new]
  <2>1. new.email = user[u].email
    <3>1. user[u] \in UserRecord
      BY DEF MembersTypeOK
    <3> QED BY <3>1 DEF UserRecord, UserOps
  <2>2. CASE work' = [work EXCEPT ![r] = w]
    <3>1. work'[r] = w /\ \A q \in Requests \ {r} : work'[q] = work[q]
      BY <2>2 DEF MembersTypeOK
    <3> HIDE DEF new
    <3>2. work'[r].doc = user[u] /\ work'[r].new = new
      BY <3>1
    <3>3. UNCHANGED user
      BY <1>2 DEF FindUser
    <3>4. work'[r].doc.email = work'[r].new.email
      BY <2>1, <3>2
    <3> QED BY <3>1, <3>3, <3>4 DEF UsersInv
  <2>3. CASE Fail(r, op, "NotFoundError")
    BY <1>2, <2>3, ReplyUsers DEF FindUser, Fail
  <2>4. Fail(r, op, "NotFoundError") \/ work' = [work EXCEPT ![r] = w]
    BY <1>2 DEF FindUser
  <2> QED BY <2>2, <2>3, <2>4
<1>3. ASSUME NEW lost \in BOOLEAN, SaveUser(r, lost) PROVE UsersInv'
  <2>1. work[r] \in UserSave
    BY <1>3, WorkAt DEF SaveUser, MembersTypeOK, Work
  <2>2. /\ work[r].target \in Users /\ work[r].doc \in UserRecord
        /\ work[r].new \in UserRecord /\ work[r].doc.email = work[r].new.email
    BY <1>3, <2>1 DEF UserSave, UsersInv
  <2>3. Saved(work[r].doc, work[r].new, user[work[r].target]).email = user[work[r].target].email
    BY <2>2, SavedUser DEF MembersTypeOK
  <2>4. \A u \in Users : user'[u].email = user[u].email
    BY <1>3, <2>2, <2>3 DEF SaveUser, MembersTypeOK
  <2>5. work'[r].step = "answered" /\ \A q \in Requests \ {r} : work'[q] = work[q]
    BY <1>3 DEF SaveUser, Reply, MembersTypeOK
  <2> QED BY <2>4, <2>5 DEF UsersInv
<1>4. ASSUME NEW lost \in BOOLEAN, NEW u \in Users, CreateUser(r, u, lost) PROVE UsersInv'
  <2>1. work'[r].step = "answered" /\ \A q \in Requests \ {r} : work'[q] = work[q]
    BY <1>4 DEF CreateUser, Reply, Fail, MembersTypeOK
  <2>2. CASE UNCHANGED user
    BY <2>1, <2>2 DEF UsersInv
  <2>3. CASE EmailFree(work[r].doc.email) /\ user' = [user EXCEPT ![u] = work[r].doc]
    <3>1. /\ user'[u].email = work[r].doc.email
          /\ \A v \in Users \ {u} : user'[v] = user[v] /\ user[v].email # work[r].doc.email
      BY <2>3 DEF EmailFree, MembersTypeOK
    <3> QED BY <2>1, <3>1 DEF UsersInv
  <2> QED BY <1>4, <2>2, <2>3 DEF CreateUser
<1> QED BY <1>1, <1>2, <1>3, <1>4 DEF UserStep

LEMMA OtherStepUsers ==
  ASSUME MembersTypeOK, UsersInv, NEW r \in Requests, RoleStep(r) \/ OtherStep(r)
  PROVE  UsersInv'
<1>1. CASE OtherStep(r)
  BY <1>1, ReplyUsers
     DEF OtherStep, Refuse, RejectCall, SaveOvertaken, Finish, Crash, Fail
<1>2. ASSUME NEW name \in Names, NEW grants \in Grants, AskRole(r, name, grants)
      PROVE  UsersInv'
  BY <1>2, ReplyUsers DEF AskRole, Fail
<1>3. ASSUME NEW op \in RoleOps, NEW c \in RoleDocs, NEW grants \in Grants,
             FindRole(r, op, c, grants)
      PROVE  UsersInv'
  <2>1. \A q \in Requests \ {r} : work'[q] = work[q]
    BY <1>3 DEF FindRole, Fail, Reply, MembersTypeOK
  <2>2. work'[r].op = op
    BY <1>3 DEF FindRole, Fail, Reply, MembersTypeOK
  <2>3. op \notin UserOps
    BY DEF RoleOps, UserOps
  <2> QED BY <1>3, <2>1, <2>2, <2>3 DEF FindRole, UsersInv
<1>4. ASSUME NEW lost \in BOOLEAN, SaveRole(r, lost) PROVE UsersInv'
  <2>1. ASSUME NEW q \in Requests, work'[q].step = "save", work'[q].op \in UserOps
        PROVE  work'[q] = work[q]
    <3>1. q # r
      BY <1>4, <2>1 DEF SaveRole
    <3>2. CASE Outdates(r, q)
      <4>1. work[q] \in RoleSave
        BY <3>2, WorkAt DEF Outdates, MembersTypeOK, Work
      <4>2. work'[q].op \in RoleOps
        BY <1>4, <3>1, <3>2, <4>1 DEF SaveRole, RoleSave
      <4> QED BY <2>1, <4>2 DEF UserOps, RoleOps
    <3> QED BY <1>4, <3>1, <3>2 DEF SaveRole
  <2> QED BY <1>4, <2>1 DEF SaveRole, UsersInv
<1>5. ASSUME NEW lost \in BOOLEAN, NEW c \in CustomRoles, CreateRole(r, c, lost)
      PROVE  UsersInv'
  BY <1>5, ReplyUsers DEF CreateRole, Fail
<1> QED BY <1>1, <1>2, <1>3, <1>4, <1>5 DEF RoleStep

-----------------------------------------------------------------------------
(* Roles                                                                   *)

\* The roles of the system stay what they are, and roles that exist keep a name.
\* A copy that is the newest has the permissions that are stored.
RolesInv ==
  /\ \A c \in SystemRoles : role[c].isSystem
  /\ \A c \in RoleDocs : role[c] # NoRole => role[c].name # None
  /\ \A r \in Requests :
       /\ work[r].step = "create" /\ work[r].op = "createRole" => work[r].doc.name # None
       /\ work[r].step = "save" /\ work[r].op \in RoleOps =>
            /\ work[r].doc.name = work[r].new.name
            /\ role[work[r].target].name # None
            /\ work[r].newest => work[r].doc.permissions = role[work[r].target].permissions

\* A request that answers, waits again or works on a user has no copy of a role.
LEMMA ReplyRoles ==
  ASSUME MembersTypeOK, RolesInv, NEW r \in Requests, UNCHANGED role,
         \/ \E op, status : Reply(r, op, status)
         \/ work' = [work EXCEPT ![r] = Waiting]
         \/ \E doc : work' = [work EXCEPT ![r] = [step |-> "create", op |-> "invite", doc |-> doc]]
  PROVE  RolesInv'
<1>1. /\ work'[r].step # "save"
      /\ work'[r].step = "create" => work'[r].op = "invite"
      /\ \A q \in Requests \ {r} : work'[q] = work[q]
  BY DEF Reply, MembersTypeOK, Waiting
<1> QED BY <1>1 DEF RolesInv

LEMMA OtherStepRoles ==
  ASSUME MembersTypeOK, RolesInv, NEW r \in Requests, UserStep(r) \/ OtherStep(r)
  PROVE  RolesInv'
<1>1. CASE OtherStep(r)
  BY <1>1, ReplyRoles
     DEF OtherStep, Refuse, RejectCall, SaveOvertaken, Finish, Crash, Fail
<1>2. ASSUME NEW email \in Emails, NEW newRole \in Assignable, Invite(r, email, newRole)
      PROVE  RolesInv'
  BY <1>2, ReplyRoles DEF Invite, Fail
<1>3. ASSUME NEW op \in UserOps, NEW u \in Users, NEW newRole \in Assignable,
             FindUser(r, op, u, newRole)
      PROVE  RolesInv'
  <2>1. \A q \in Requests \ {r} : work'[q] = work[q]
    BY <1>3 DEF FindUser, Fail, Reply, MembersTypeOK
  <2>2. work'[r].op = op /\ work'[r].step # "create"
    BY <1>3 DEF FindUser, Fail, Reply, MembersTypeOK
  <2>3. op \notin RoleOps
    BY DEF RoleOps, UserOps
  <2> QED BY <1>3, <2>1, <2>2, <2>3 DEF FindUser, RolesInv
<1>4. ASSUME NEW lost \in BOOLEAN, SaveUser(r, lost) PROVE RolesInv'
  BY <1>4, ReplyRoles DEF SaveUser
<1>5. ASSUME NEW lost \in BOOLEAN, NEW u \in Users, CreateUser(r, u, lost) PROVE RolesInv'
  BY <1>5, ReplyRoles DEF CreateUser, Fail
<1> QED BY <1>1, <1>2, <1>3, <1>4, <1>5 DEF UserStep

LEMMA RoleStepRoles ==
  ASSUME MembersTypeOK, RolesInv, NEW r \in Requests, RoleStep(r)
  PROVE  RolesInv'
<1>0. role \in [RoleDocs -> RoleRecord] /\ work \in [Requests -> Work]
  BY DEF MembersTypeOK, Work
<1>1. ASSUME NEW name \in Names, NEW grants \in Grants, AskRole(r, name, grants)
      PROVE  RolesInv'
  <2> DEFINE doc == [NoRole EXCEPT !.name = name, !.permissions = grants]
             w == [step |-> "create", op |-> "createRole", doc |-> doc]
  <2>1. CASE work' = [work EXCEPT ![r] = w]
    <3>1. doc.name # None
      BY DEF NoRole
    <3>2. work'[r] = w /\ \A q \in Requests \ {r} : work'[q] = work[q]
      BY <1>0, <2>1
    <3>3. work'[r].step = "create" /\ work'[r].doc = doc
      BY <3>2
    <3>4. UNCHANGED role
      BY <1>1 DEF AskRole
    <3> HIDE DEF doc
    <3>5. work'[r].doc.name # None
      BY <3>1, <3>3
    <3> QED BY <3>2, <3>3, <3>4, <3>5 DEF RolesInv
  <2>2. CASE Fail(r, "createRole", "ValidationError")
    BY <1>1, <2>2, ReplyRoles DEF AskRole, Fail
  <2> QED BY <1>1, <2>1, <2>2 DEF AskRole
<1>2. ASSUME NEW op \in RoleOps, NEW c \in RoleDocs, NEW grants \in Grants,
             FindRole(r, op, c, grants)
      PROVE  RolesInv'
  <2> DEFINE new == IF op = "updateRole" THEN [role[c] EXCEPT !.permissions = grants]
                                         ELSE [role[c] EXCEPT !.hidden = TRUE]
             w == [step |-> "save", op |-> op, target |-> c, doc |-> role[c], newest |-> TRUE,
                   new |-> new]
  <2>1. \/ Fail(r, op, "NotFoundError") \/ Fail(r, op, "ValidationError")
        \/ role[c] # NoRole /\ work' = [work EXCEPT ![r] = w]
    BY <1>2 DEF FindRole
  <2>2. CASE role[c] # NoRole /\ work' = [work EXCEPT ![r] = w]
    <3>1. new.name = role[c].name
      <4>1. role[c] \in RoleRecord
        BY <1>0
      <4> QED BY <4>1 DEF RoleRecord
    <3>2. work'[r] = w /\ \A q \in Requests \ {r} : work'[q] = work[q]
      BY <1>0, <2>2
    <3> QED BY <1>2, <2>2, <3>1, <3>2 DEF FindRole, RolesInv
  <2>3. CASE Fail(r, op, "NotFoundError") \/ Fail(r, op, "ValidationError")
    BY <1>2, <2>3, ReplyRoles DEF FindRole, Fail
  <2> QED BY <2>1, <2>2, <2>3
<1>3. ASSUME NEW lost \in BOOLEAN, SaveRole(r, lost) PROVE RolesInv'
  <2> DEFINE t == work[r].target
  <2>1. /\ work[r] \in RoleSave /\ t \in CustomRoles /\ t \in RoleDocs \ SystemRoles
        /\ work[r].doc \in RoleRecord /\ work[r].new \in RoleRecord /\ role[t] \in RoleRecord
    BY <1>0, <1>3, WorkAt DEF SaveRole, RoleSave, RoleDocs
  <2>2. work[r].doc.name = work[r].new.name /\ role[t].name # None
    BY <1>3 DEF SaveRole, RolesInv
  <2>3. /\ \A c \in RoleDocs : role'[c].name = role[c].name
        /\ \A c \in RoleDocs \ {t} : role'[c] = role[c]
        /\ ~ Replaces(r) => role'[t].permissions = role[t].permissions
    BY <1>0, <1>3, <2>1, <2>2, SavedRole DEF SaveRole, Replaces
  <2>4. work'[r].step = "answered"
    BY <1>3 DEF SaveRole
  <2>5. ASSUME NEW q \in Requests \ {r}
        PROVE  /\ ~ Outdates(r, q) => work'[q] = work[q]
               /\ Outdates(r, q) =>
                    /\ work'[q].doc = work[q].doc /\ work'[q].new = work[q].new
                    /\ work'[q].target = work[q].target /\ work'[q].op = work[q].op
                    /\ work'[q].step = work[q].step /\ ~ work'[q].newest
    <3>1. CASE Outdates(r, q)
      <4>1. work[q] \in RoleSave
        BY <1>0, <3>1, WorkAt DEF Outdates
      <4>2. work'[q] = [work[q] EXCEPT !.newest = FALSE]
        BY <1>3, <3>1 DEF SaveRole
      <4> QED BY <3>1, <4>1, <4>2 DEF RoleSave
    <3>2. CASE ~ Outdates(r, q)
      BY <1>3, <3>2 DEF SaveRole
    <3> QED BY <3>1, <3>2
  <2>6. ASSUME NEW q \in Requests, work'[q].step = "save", work'[q].op \in RoleOps
        PROVE  /\ work'[q].doc.name = work'[q].new.name
               /\ role'[work'[q].target].name # None
               /\ work'[q].newest =>
                    work'[q].doc.permissions = role'[work'[q].target].permissions
    <3>1. q # r /\ work[q].step = "save" /\ work[q].op \in RoleOps
      BY <2>4, <2>5, <2>6
    <3>2. work[q].target \in RoleDocs
      BY <1>0, <3>1, WorkAt DEF RoleSave, RoleDocs
    <3>3. CASE Outdates(r, q)
      BY <2>3, <2>5, <3>1, <3>2, <3>3 DEF RolesInv
    <3>4. CASE ~ Outdates(r, q)
      <4>1. work'[q] = work[q] /\ (work[q].target = t => ~ Replaces(r))
        BY <2>5, <3>1, <3>4 DEF Outdates
      <4>2. role'[work[q].target].permissions = role[work[q].target].permissions
        BY <2>3, <3>2, <4>1
      <4> QED BY <2>3, <3>1, <3>2, <4>1, <4>2 DEF RolesInv
    <3> QED BY <3>3, <3>4
  <2>7. \A q \in Requests : work'[q].step = "create" => work'[q] = work[q]
    BY <2>4, <2>5 DEF Outdates
  <2>8. \A c \in SystemRoles : role'[c].isSystem
    BY <2>1, <2>3 DEF RolesInv, RoleDocs
  <2>9. \A c \in RoleDocs : role'[c].name # None \/ role'[c] = NoRole
    BY <2>2, <2>3 DEF RolesInv
  <2> QED BY <2>6, <2>7, <2>8, <2>9 DEF RolesInv
<1>4. ASSUME NEW lost \in BOOLEAN, NEW c \in CustomRoles, CreateRole(r, c, lost) PROVE RolesInv'
  <2>1. work'[r].step = "answered" /\ \A q \in Requests \ {r} : work'[q] = work[q]
    BY <1>4 DEF CreateRole, Reply, Fail, MembersTypeOK
  <2>2. CASE UNCHANGED role
    BY <2>1, <2>2 DEF RolesInv
  <2>3. CASE role' = [role EXCEPT ![c] = work[r].doc]
    <3>1. role'[c] = work[r].doc /\ \A d \in RoleDocs \ {c} : role'[d] = role[d]
      BY <1>0, <2>3 DEF RoleDocs
    <3>2. role[c].name = None /\ c \notin SystemRoles /\ work[r].doc.name # None
      BY <1>4 DEF CreateRole, NoRole, RolesInv
    <3>3. \A q \in Requests : work[q].step = "save" /\ work[q].op \in RoleOps =>
            work[q].target \in RoleDocs \ {c}
      BY <1>0, <3>2, WorkAt DEF RoleSave, RoleDocs, RolesInv
    <3> QED BY <2>1, <3>1, <3>2, <3>3 DEF RolesInv, RoleDocs
  <2> QED BY <1>4, <2>2, <2>3 DEF CreateRole
<1> QED BY <1>1, <1>2, <1>3, <1>4 DEF RoleStep

\* Permissions are replaced by a request whose copy is the newest.
LEMMA RoleStepKeepsUpdates ==
  ASSUME MembersTypeOK, RolesInv, NEW r \in Requests, RoleStep(r), NEW c \in CustomRoles,
         role'[c].permissions # role[c].permissions, role[c] # NoRole
  PROVE  /\ work[r].step = "save" /\ work[r].target = c
         /\ work[r].doc.permissions = role[c].permissions /\ work'[r] # work[r]
<1>0. role \in [RoleDocs -> RoleRecord] /\ work \in [Requests -> Work] /\ c \in RoleDocs
  BY DEF MembersTypeOK, Work, RoleDocs
<1>1. PICK lost \in BOOLEAN : SaveRole(r, lost)
  BY <1>0 DEF RoleStep, AskRole, FindRole, CreateRole
<1>2. /\ work[r].target \in RoleDocs /\ work[r].doc \in RoleRecord
      /\ work[r].new \in RoleRecord
  BY <1>0, <1>1, WorkAt DEF SaveRole, RoleSave, RoleDocs
<1>3. work[r].target = c
  BY <1>0, <1>1 DEF SaveRole
<1>4. Replaces(r)
  BY <1>0, <1>1, <1>2, <1>3, SavedRole DEF SaveRole, Replaces
<1>5. work[r].doc.permissions = role[c].permissions
  BY <1>1, <1>3, <1>4 DEF SaveRole, VersionFits, RolesInv
<1> QED BY <1>1, <1>3, <1>5 DEF SaveRole

-----------------------------------------------------------------------------
(* Answers                                                                 *)

\* What the handlers fail with by themselves is the client's error.
LEMMA ClientErrors ==
  /\ \A error \in {"PermissionDeniedError", "ValidationError", "DuplicateEmailError",
                   "NotFoundError", "DuplicateKey"} : errorMiddleware(error) < 500
  /\ Outcome(FALSE, 200) < 500 /\ Outcome(FALSE, 201) < 500
<1>1. /\ \A error \in DOMAIN AppErrors : error \notin DOMAIN LibraryErrors
      /\ {"PermissionDeniedError", "ValidationError", "DuplicateEmailError",
          "NotFoundError"} \subseteq DOMAIN AppErrors
      /\ "DuplicateKey" \in DOMAIN LibraryErrors
  BY DEF AppErrors, LibraryErrors
<1>2. /\ AppErrors["PermissionDeniedError"] = 403 /\ AppErrors["ValidationError"] = 400
      /\ AppErrors["DuplicateEmailError"] = 409 /\ AppErrors["NotFoundError"] = 404
      /\ LibraryErrors["DuplicateKey"] = 409
  BY DEF AppErrors, LibraryErrors
<1>3. \A error \in DOMAIN AppErrors : errorMiddleware(error) = AppErrors[error]
  BY <1>1 DEF errorMiddleware
<1>4. errorMiddleware("DuplicateKey") = LibraryErrors["DuplicateKey"]
  BY <1>1 DEF errorMiddleware
<1>5. Outcome(FALSE, 200) < 500 /\ Outcome(FALSE, 201) < 500
  BY DEF Outcome
<1>6. \A error \in {"PermissionDeniedError", "ValidationError", "DuplicateEmailError",
                    "NotFoundError", "DuplicateKey"} : errorMiddleware(error) < 500
  <2>1. /\ errorMiddleware("PermissionDeniedError") = 403
        /\ errorMiddleware("ValidationError") = 400
        /\ errorMiddleware("DuplicateEmailError") = 409
        /\ errorMiddleware("NotFoundError") = 404
        /\ errorMiddleware("DuplicateKey") = 409
    BY <1>1, <1>2, <1>3, <1>4
  <2> QED BY <2>1
<1> QED BY <1>5, <1>6

\* An answer that is not internal, or comes with a fault, is explained.
LEMMA ReplyExplained ==
  ASSUME MembersTypeOK, InternalErrorsExplained, NEW r \in Requests, NEW op, NEW status \in Nat,
         Reply(r, op, status), UNCHANGED auditLog, fault => fault', status < 500 \/ fault'
  PROVE  InternalErrorsExplained'
<1>1. work'[r].status = status /\ \A q \in Requests \ {r} : work'[q] = work[q]
  BY DEF Reply, MembersTypeOK
<1>2. fault \in BOOLEAN
  BY DEF MembersTypeOK
<1>3. CASE status < 500
  <2>1. ~ (work'[r].status >= 500)
    BY <1>1, <1>3
  <2> QED BY <1>1, <2>1 DEF InternalErrorsExplained
<1>4. CASE fault'
  BY <1>4 DEF InternalErrorsExplained
<1> QED BY <1>3, <1>4

\* Without an answer, nothing is to be explained.
LEMMA MoveExplained ==
  ASSUME MembersTypeOK, InternalErrorsExplained, NEW r \in Requests, NEW w,
         work' = [work EXCEPT ![r] = w], w.step # "answered", UNCHANGED <<fault, auditLog>>
  PROVE  InternalErrorsExplained'
<1>1. work'[r] = w /\ \A q \in Requests \ {r} : work'[q] = work[q]
  BY DEF MembersTypeOK
<1> QED BY <1>1 DEF InternalErrorsExplained

\* The same for a request that fails
LEMMA FailExplained ==
  ASSUME MembersTypeOK, InternalErrorsExplained, NEW r \in Requests, NEW op, NEW error,
         Fail(r, op, error), UNCHANGED auditLog, fault => fault',
         errorMiddleware(error) < 500 \/ fault'
  PROVE  InternalErrorsExplained'
BY ReplyExplained, StatusType DEF Fail

LEMMA UserStepExplained ==
  ASSUME MembersTypeOK, InternalErrorsExplained, NEW r \in Requests, UserStep(r)
  PROVE  InternalErrorsExplained'
<1>1. ASSUME NEW email \in Emails, NEW newRole \in Assignable, Invite(r, email, newRole)
      PROVE  InternalErrorsExplained'
  <2> DEFINE w == [step |-> "create", op |-> "invite",
                   doc |-> [email |-> email, role |-> newRole, hidden |-> FALSE]]
  <2>1. w.step # "answered"
    OBVIOUS
  <2>2. Fail(r, "invite", "DuplicateEmailError") \/ work' = [work EXCEPT ![r] = w]
    BY <1>1 DEF Invite
  <2>3. UNCHANGED <<fault, auditLog>>
    BY <1>1 DEF Invite
  <2> HIDE DEF w
  <2> QED BY <2>1, <2>2, <2>3, MoveExplained, FailExplained, ClientErrors
<1>2. ASSUME NEW op \in UserOps, NEW u \in Users, NEW newRole \in Assignable,
             FindUser(r, op, u, newRole)
      PROVE  InternalErrorsExplained'
  <2> DEFINE new == CASE op = "changeRole"  -> [user[u] EXCEPT !.role = newRole]
                      [] op = "deleteUser"  -> [user[u] EXCEPT !.hidden = TRUE]
                      [] op = "restoreUser" -> [user[u] EXCEPT !.hidden = FALSE]
             w == [step |-> "save", op |-> op, target |-> u, doc |-> user[u], new |-> new]
  <2>1. w.step # "answered"
    OBVIOUS
  <2>2. Fail(r, op, "NotFoundError") \/ work' = [work EXCEPT ![r] = w]
    BY <1>2 DEF FindUser
  <2>3. UNCHANGED <<fault, auditLog>>
    BY <1>2 DEF FindUser
  <2> HIDE DEF w
  <2> QED BY <2>1, <2>2, <2>3, MoveExplained, FailExplained, ClientErrors
<1>3. ASSUME NEW lost \in BOOLEAN, SaveUser(r, lost) PROVE InternalErrorsExplained'
  <2>1. CASE lost
    BY <1>3, <2>1, ReplyExplained, StatusType DEF SaveUser
  <2>2. CASE lost = FALSE
    <3>1. Reply(r, work[r].op, Outcome(FALSE, 200))
      BY <1>3, <2>2 DEF SaveUser
    <3>2. fault => fault'
      BY <1>3 DEF SaveUser
    <3>3. UNCHANGED auditLog
      BY <1>3 DEF SaveUser
    <3>4. Outcome(FALSE, 200) \in Nat
      BY StatusType
    <3> QED BY <3>1, <3>2, <3>3, <3>4, ReplyExplained, ClientErrors
  <2> QED BY <2>1, <2>2
<1>4. ASSUME NEW lost \in BOOLEAN, NEW u \in Users, CreateUser(r, u, lost)
      PROVE  InternalErrorsExplained'
  BY <1>4, ReplyExplained, FailExplained, StatusType, ClientErrors, ZenonT(60) DEF CreateUser
<1> QED BY <1>1, <1>2, <1>3, <1>4 DEF UserStep

LEMMA RoleStepExplained ==
  ASSUME MembersTypeOK, InternalErrorsExplained, NEW r \in Requests, RoleStep(r)
  PROVE  InternalErrorsExplained'
<1>1. ASSUME NEW name \in Names, NEW grants \in Grants, AskRole(r, name, grants)
      PROVE  InternalErrorsExplained'
  <2> DEFINE doc == [NoRole EXCEPT !.name = name, !.permissions = grants]
             w == [step |-> "create", op |-> "createRole", doc |-> doc]
  <2>1. w.step # "answered"
    OBVIOUS
  <2>2. Fail(r, "createRole", "ValidationError") \/ work' = [work EXCEPT ![r] = w]
    BY <1>1 DEF AskRole
  <2>3. UNCHANGED <<fault, auditLog>>
    BY <1>1 DEF AskRole
  <2> HIDE DEF w
  <2> QED BY <2>1, <2>2, <2>3, MoveExplained, FailExplained, ClientErrors
<1>2. ASSUME NEW op \in RoleOps, NEW c \in RoleDocs, NEW grants \in Grants,
             FindRole(r, op, c, grants)
      PROVE  InternalErrorsExplained'
  <2> DEFINE new == IF op = "updateRole" THEN [role[c] EXCEPT !.permissions = grants]
                                         ELSE [role[c] EXCEPT !.hidden = TRUE]
             w == [step |-> "save", op |-> op, target |-> c, doc |-> role[c], newest |-> TRUE,
                   new |-> new]
  <2>1. w.step # "answered"
    OBVIOUS
  <2>2. \/ Fail(r, op, "NotFoundError") \/ Fail(r, op, "ValidationError")
        \/ work' = [work EXCEPT ![r] = w]
    BY <1>2 DEF FindRole
  <2>3. UNCHANGED <<fault, auditLog>>
    BY <1>2 DEF FindRole
  <2> HIDE DEF w
  <2> QED BY <2>1, <2>2, <2>3, MoveExplained, FailExplained, ClientErrors
<1>3. ASSUME NEW lost \in BOOLEAN, SaveRole(r, lost) PROVE InternalErrorsExplained'
  <2>1. /\ work'[r].status = Outcome(lost, 200)
        /\ fault' = (fault \/ lost) /\ UNCHANGED auditLog
    BY <1>3 DEF SaveRole
  <2>2. \A q \in Requests \ {r} : work'[q].step = "answered" => work'[q] = work[q]
    <3>1. ASSUME NEW q \in Requests \ {r}, Outdates(r, q)
          PROVE  work'[q].step = "save"
      <4>1. work[q] \in RoleSave
        BY <3>1, WorkAt DEF Outdates, MembersTypeOK, Work
      <4> QED BY <1>3, <3>1, <4>1 DEF SaveRole, RoleSave
    <3> QED BY <1>3, <3>1 DEF SaveRole
  <2>3. CASE ~ lost
    <3>1. Outcome(lost, 200) \in Nat /\ Outcome(lost, 200) < 500
      <4>1. lost = FALSE
        BY <2>3
      <4> QED BY <4>1, ClientErrors, StatusType
    <3>2. ~ (work'[r].status >= 500)
      BY <2>1, <3>1
    <3> QED BY <2>1, <2>2, <3>2, ZenonT(60) DEF InternalErrorsExplained
  <2>4. CASE lost
    BY <2>1, <2>4 DEF InternalErrorsExplained
  <2> QED BY <2>3, <2>4
<1>4. ASSUME NEW lost \in BOOLEAN, NEW c \in CustomRoles, CreateRole(r, c, lost)
      PROVE  InternalErrorsExplained'
  BY <1>4, ReplyExplained, FailExplained, StatusType, ClientErrors, ZenonT(60) DEF CreateRole
<1> QED BY <1>1, <1>2, <1>3, <1>4 DEF RoleStep

LEMMA OtherStepExplained ==
  ASSUME MembersTypeOK, InternalErrorsExplained, NEW r \in Requests, OtherStep(r)
  PROVE  InternalErrorsExplained'
<1>1. ASSUME NEW op \in Ops, Refuse(r, op) PROVE InternalErrorsExplained'
  <2>1. UNCHANGED auditLog
    BY <1>1 DEF Refuse
  <2>2. ASSUME NEW caller \in Callers, Fail(r, op, refusal(caller)),
               fault' = (fault \/ caller = {})
        PROVE  InternalErrorsExplained'
    <3>1. fault => fault'
      BY <2>2
    <3>2. CASE caller = {}
      BY <2>1, <2>2, <3>1, <3>2, FailExplained
    <3>3. CASE caller # {}
      <4>1. refusal(caller) = "PermissionDeniedError"
        BY <3>3 DEF refusal
      <4> QED BY <2>1, <2>2, <3>1, <4>1, FailExplained, ClientErrors
    <3> QED BY <3>2, <3>3
  <2>3. CASE Fail(r, op, "ValidationError") /\ UNCHANGED fault
    BY <2>1, <2>3, FailExplained, ClientErrors
  <2> QED BY <1>1, <2>2, <2>3 DEF Refuse
<1>2. ASSUME NEW op \in Ops, RejectCall(r, op) PROVE InternalErrorsExplained'
  BY <1>2, FailExplained DEF RejectCall
<1>3. CASE SaveOvertaken(r)
  BY <1>3, FailExplained DEF SaveOvertaken
<1>4. CASE Finish(r)
  <2>1. /\ work[r] \in Answered
        /\ auditLog' = auditLog \/ auditLog' = auditLog \cup {Severity(work[r].status)}
    BY <1>4, WorkAt DEF Finish, Audit, MembersTypeOK, Work
  <2>2. work[r].status \in Nat
    BY <2>1 DEF Answered
  <2>3. "critical" \in auditLog' => "critical" \in auditLog \/ work[r].status >= 500
    BY <2>1, <2>2 DEF Severity
  <2>4. work'[r].step # "answered" /\ \A q \in Requests \ {r} : work'[q] = work[q]
    BY <1>4 DEF Finish, Waiting, MembersTypeOK
  <2> QED BY <1>4, <2>3, <2>4 DEF Finish, InternalErrorsExplained
<1>5. CASE Crash(r)
  <2>1. Waiting.step # "answered"
    BY DEF Waiting
  <2> QED BY <1>5, <2>1, MoveExplained DEF Crash
<1> QED BY <1>1, <1>2, <1>3, <1>4, <1>5 DEF OtherStep

-----------------------------------------------------------------------------
(* The inductive invariant.                                                *)

MembersInv == MembersTypeOK /\ UsersInv /\ RolesInv /\ InternalErrorsExplained

LEMMA MembersInvInit == MembersInit => MembersInv
<1> SUFFICES ASSUME MembersInit PROVE MembersInv
  OBVIOUS
<1>1. MembersTypeOK
  BY MembersTypeInit
<1>2. \A r \in Requests : work[r].step = "idle"
  BY DEF MembersInit, Waiting
<1>3. UsersInv
  BY <1>2 DEF MembersInit, UsersInv, NoUser
<1>4. RolesInv
  <2>1. \A c \in SystemRoles : role[c].isSystem /\ role[c].name = c
    BY DEF MembersInit, RoleDocs, buildSystemRoles
  <2>2. \A c \in RoleDocs \ SystemRoles : role[c] = NoRole
    BY DEF MembersInit
  <2> QED BY <1>2, <2>1, <2>2 DEF RolesInv
<1>5. InternalErrorsExplained
  BY <1>2 DEF MembersInit, InternalErrorsExplained
<1> QED BY <1>1, <1>3, <1>4, <1>5 DEF MembersInv

LEMMA MembersInvStep == MembersInv /\ [MembersNext]_<<vars, memberVars>> => MembersInv'
<1>1. ASSUME MembersInv, NEW r \in Requests, UserStep(r) PROVE MembersInv'
  BY <1>1, UserStepType, UserStepUsers, OtherStepRoles, UserStepExplained DEF MembersInv
<1>2. ASSUME MembersInv, NEW r \in Requests, RoleStep(r) PROVE MembersInv'
  <2>1. \A c \in SystemRoles : role[c].isSystem
    BY <1>2 DEF MembersInv, RolesInv
  <2> QED BY <1>2, <2>1, RoleStepType, OtherStepUsers, RoleStepRoles, RoleStepExplained
             DEF MembersInv
<1>3. ASSUME MembersInv, NEW r \in Requests, OtherStep(r) PROVE MembersInv'
  BY <1>3, OtherStepType, OtherStepUsers, OtherStepRoles, OtherStepExplained DEF MembersInv
<1>4. ASSUME MembersInv, UNCHANGED memberVars PROVE MembersInv'
  BY <1>4 DEF MembersInv, memberVars, MembersTypeOK, UsersInv, RolesInv, InternalErrorsExplained
<1>5. ASSUME MembersInv, [MembersNext]_<<vars, memberVars>> PROVE MembersInv'
  <2>1. (\E r \in Requests : UserStep(r) \/ RoleStep(r) \/ OtherStep(r)) \/ UNCHANGED memberVars
    BY <1>5 DEF MembersNext, MemberStep
  <2> QED BY <1>1, <1>2, <1>3, <1>4, <1>5, <2>1
<1> QED BY <1>5

LEMMA MembersInvariant == MembersSpec => []MembersInv
BY MembersInvInit, MembersInvStep, PTL DEF MembersSpec

\* Documents and handlers keep their types: a request that has found a role has
\* found a custom one, and every answer has a status.
THEOREM MembersTypeCorrect == MembersSpec => []MembersTypeOK
<1>1. MembersInv => MembersTypeOK BY DEF MembersInv
<1> QED BY <1>1, MembersInvariant, PTL

\* However many requests invite, delete and restore users at once, two users
\* that can be seen never share an email.
THEOREM EmailsStayDistinct == MembersSpec => []EmailsDistinct
<1>1. MembersInv => EmailsDistinct
  BY DEF MembersInv, UsersInv, EmailsDistinct, Shown
<1> QED BY <1>1, MembersInvariant, PTL

\* An answer of 500 or more, or a critical entry of the audit log, comes from a
\* rejected call or an overtaken update.
THEOREM InternalErrorsHaveCauses == MembersSpec => []InternalErrorsExplained
<1>1. MembersInv => InternalErrorsExplained BY DEF MembersInv
<1> QED BY <1>1, MembersInvariant, PTL

\* Permissions of a role are replaced only by a request that had read the ones
\* it replaces.
THEOREM UpdatesAreKept == MembersSpec => NoUpdateLost
<1> DEFINE
      Kept == \A c \in CustomRoles :
        role'[c].permissions # role[c].permissions /\ role[c] # NoRole =>
          \E r \in Requests : /\ work[r].step = "save" /\ work[r].target = c
                              /\ work[r].doc.permissions = role[c].permissions
                              /\ work'[r] # work[r]
<1>1. MembersInv /\ [MembersNext]_<<vars, memberVars>> => [Kept]_<<vars, memberVars>>
  <2>1. ASSUME MembersInv, NEW r \in Requests, RoleStep(r) PROVE Kept
    BY <2>1, RoleStepKeepsUpdates DEF MembersInv
  <2>2. ASSUME UNCHANGED role PROVE Kept
    BY <2>2
  <2>3. ASSUME NEW r \in Requests, UserStep(r) \/ OtherStep(r) PROVE UNCHANGED role
    BY <2>3 DEF UserStep, OtherStep, Invite, FindUser, SaveUser, CreateUser,
                Refuse, RejectCall, SaveOvertaken, Finish, Crash
  <2> HIDE DEF Kept
  <2> QED BY <2>1, <2>2, <2>3 DEF MembersNext, MemberStep, memberVars
<1> QED BY <1>1, MembersInvariant, PTL DEF MembersSpec, NoUpdateLost
=============================================================================
