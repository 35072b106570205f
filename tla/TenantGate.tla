------------------------------ MODULE TenantGate ------------------------------
(***************************************************************************)
(* tenantMiddleware in front of the tenants of TenantProvisioning: it      *)
(* lets a request in or refuses it by the status it finds, in a copy that  *)
(* Redis keeps under the slug or the id that the request came with, or in  *)
(* the database. Nothing invalidates the copies; they expire.              *)
(***************************************************************************)
EXTENDS TenantProvisioning

CONSTANTS
  Visitors, \* requests served at a time
  Keys,     \* what a request may name its tenant by: slug, id
  GateTTL   \* the copies' lifetime, 120 seconds in the code

ASSUME GateAssumption == GateTTL \in Nat \ {0}

VARIABLES
  copies,   \* tenant and key -> the status in the copy and the time it has left
  visit,    \* request -> the status findOne found, to be copied and judged
  quiet,    \* tenant -> time since its status last changed or an older one was under way
  misjudged \* tenants whose request was judged by an old status without excuse

gateVars == <<copies, visit, quiet, misjudged>>
vars == <<tenantVars, gateVars>>

NoCopy == [status |-> "none", ttl |-> 0]
Copy == [status : Statuses \ {"none"}, ttl : 1..GateTTL]
Away == [tenant |-> "none", key |-> "none", status |-> "none"]
Visit == [tenant : Signups, key : Keys, status : Statuses \ {"none"}]

TypeOK ==
  /\ ProvisioningTypeOK
  /\ copies \in [Signups \X Keys -> Copy \cup {NoCopy}]
  /\ visit \in [Visitors -> Visit \cup {Away}]
  /\ quiet \in [Signups -> 0..GateTTL]
  /\ misjudged \subseteq Signups

Init ==
  /\ ProvisioningInit
  /\ copies = [c \in Signups \X Keys |-> NoCopy]
  /\ visit = [v \in Visitors |-> Away]
  /\ quiet = [s \in Signups |-> 0]
  /\ misjudged = {}

-----------------------------------------------------------------------------

\* The switch of tenantMiddleware: active and trial pass.
LetsIn(found) == found = "active"

\* The verdict on a request for s, by the status it was given
Judge(s, found) ==
  misjudged' = IF LetsIn(found) # LetsIn(status[s]) /\ quiet[s] = GateTTL
               THEN misjudged \cup {s} ELSE misjudged

\* The copy in Redis decides.
Hit(s, k) ==
  /\ copies[<<s, k>>] # NoCopy
  /\ Judge(s, copies[<<s, k>>].status)
  /\ UNCHANGED <<tenantVars, copies, visit, quiet>>

\* cache.get misses, or Redis is down, and findOne finds the tenant. An
\* unknown slug or id answers 404 and leaves nothing.
Find(v, s, k) ==
  /\ visit[v] = Away
  /\ status[s] # "none"
  /\ visit' = [visit EXCEPT ![v] = [tenant |-> s, key |-> k, status |-> status[s]]]
  /\ UNCHANGED <<tenantVars, copies, quiet, misjudged>>

\* cache.set, unless Redis is down, and the switch
Pass(v) ==
  LET s == visit[v].tenant IN
  /\ visit[v] # Away
  /\ copies' \in {copies,
                  [copies EXCEPT ![<<s, visit[v].key>>] =
                     [status |-> visit[v].status, ttl |-> GateTTL]]}
  /\ Judge(s, visit[v].status)
  /\ visit' = [visit EXCEPT ![v] = Away]
  /\ UNCHANGED <<tenantVars, quiet>>

\* A step of the provisioner
Provisioned ==
  /\ ProvisioningNext
  /\ quiet' = [s \in Signups |-> IF status'[s] = status[s] THEN quiet[s] ELSE 0]
  /\ UNCHANGED <<copies, visit, misjudged>>

Outdated(s) ==
  \E v \in Visitors : visit[v] # Away /\ visit[v].tenant = s /\ visit[v].status # status[s]

\* Mutants of Aged: the copy has no expiry, or is kept past it.
AgedNever(copy) == copy
AgedPast(copy) == [copy EXCEPT !.ttl = @ - 1]
Aged(copy) == IF copy.ttl <= 1 THEN NoCopy ELSE [copy EXCEPT !.ttl = @ - 1]

Tick ==
  /\ copies' = [c \in Signups \X Keys |-> Aged(copies[c])]
  /\ quiet' = [s \in Signups |-> IF Outdated(s) \/ status[s] = "none" THEN 0
                                 ELSE IF quiet[s] = GateTTL THEN GateTTL ELSE quiet[s] + 1]
  /\ UNCHANGED <<tenantVars, visit, misjudged>>

Next ==
  \/ Provisioned \/ Tick
  \/ \E s \in Signups, k \in Keys : Hit(s, k) \/ \E v \in Visitors : Find(v, s, k)
  \/ \E v \in Visitors : Pass(v)

Spec == Init /\ [][Next]_vars

-----------------------------------------------------------------------------
(* Correctness.                                                            *)

\* A tenant that has been activated is let in at the latest when the copies made
\* while it was being provisioned have expired, for any overlap of requests with
\* the change (tenantMiddleware).
GateFollows == misjudged = {}
=============================================================================
