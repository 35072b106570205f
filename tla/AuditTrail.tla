------------------------------ MODULE AuditTrail ------------------------------
(***************************************************************************)
(* What auditMiddleware (audit.middleware.js) records once a response has  *)
(* been sent. It looks the request's path up when the response finishes:   *)
(* the routers strip the prefixes of their mount points while they handle  *)
(* a request and put them back only when a handler passes it on. A handler *)
(* that answers leaves a path such as "/", which is none of the table's;   *)
(* a request that ends in errorMiddleware has its whole path again. So     *)
(* only failures are recorded, although the table means every such request.*)
(***************************************************************************)
EXTENDS Naturals

VARIABLE auditLog \* severities of the entries; the log only grows

\* The routes of AUDITABLE_ACTIONS that TenantMembers models, by operation.
AUDITABLE_ACTIONS ==
  {"invite", "deleteUser", "changeRole", "createRole", "updateRole", "deleteRole"}

resolveAction(op, status) == status >= 400 /\ op \in AUDITABLE_ACTIONS

Severities == {"critical", "warning", "info"}
Severity(status) ==
  CASE status >= 500 -> "critical" [] status \in 400..499 -> "warning" [] OTHER -> "info"

\* auditMiddleware, behind the response. A failing insertion is swallowed.
Audit(op, status) ==
  auditLog' \in {auditLog} \cup
    IF resolveAction(op, status) THEN {auditLog \cup {Severity(status)}} ELSE {}
=============================================================================
