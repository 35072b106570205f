---------------------------- MODULE TenantRequests ----------------------------
(***************************************************************************)
(* Requests of one tenant, by users with a JWT or by holders of an API     *)
(* key, that pass authenticate and requirePermission and then work on file *)
(* records or on the API keys themselves. They interleave at every await,  *)
(* and the save of a key's use runs on behind the response.                *)
(*                                                                         *)
(* An API key has no user id, which File.create and ApiKey.create require: *)
(* it can confirm, delete and restore files and revoke keys, but creates   *)
(* nothing. Requests that only read (lists, downloads) are left out.       *)
(***************************************************************************)
EXTENDS FileRecords, ApiKeys, Rbac

CONSTANTS
  Requests, \* requests served at a time
  Roles,    \* roles of users with a valid access token
  None

ASSUME RequestsAssumption ==
  /\ IsFiniteSet(Keys) /\ IsFiniteSet(Requests)
  /\ Quota \in Nat \ {0}
  /\ Roles \subseteq SystemRoles
  /\ Keys \cap SystemRoles = {} /\ None \notin Keys \cup SystemRoles \cup Files

VARIABLES
  req,  \* request -> where its handler stands
  usage \* request -> the copy of the key whose use is still to be saved

vars == <<file, key, req, usage>>

Idle == [step |-> "idle", who |-> None, target |-> None, doc |-> None]
NoUsage == [key |-> None, doc |-> None]

Who == Roles \cup Keys
\* who is kept as long as it matters: a created record requires a user.
Serving ==
  [step : {"authenticated", "create"}, who : Who, target : {None}, doc : {None}]
    \cup [step : FileOps, who : {None}, target : Files, doc : FileRecord]
    \cup [step : {"revoke"}, who : {None}, target : Keys, doc : KeyRecord]

TypeOK ==
  /\ FilesTypeOK /\ KeysTypeOK
  /\ req \in [Requests -> Serving \cup {Idle}]
  /\ usage \in [Requests -> [key : Keys, doc : KeyRecord] \cup {NoUsage}]

Init ==
  /\ FilesInit /\ KeysInit
  /\ req = [r \in Requests |-> Idle]
  /\ usage = [r \in Requests |-> NoUsage]

-----------------------------------------------------------------------------

Permissions(who) ==
  IF who \in Keys THEN key[who].scopes ELSE SYSTEM_ROLE_PERMISSIONS[who]

\* The handler of a route that asks for the permission begins.
Begins(r, permission) ==
  /\ req[r].step = "authenticated"
  /\ requirePermission(Permissions(req[r].who), permission)

\* The document that the handler will change and save is loaded.
Loads(r, step, target, doc) ==
  req' = [req EXCEPT ![r] = [step |-> step, who |-> None, target |-> target, doc |-> doc]]
Answer(r) == req' = [req EXCEPT ![r] = Idle]

\* authenticateJwt; AuthSessions models what it checks.
AuthenticateUser(r, role) ==
  /\ req[r] = Idle
  /\ req' = [req EXCEPT ![r] = [Idle EXCEPT !.step = "authenticated", !.who = role]]
  /\ UNCHANGED <<file, key, usage>>

\* authenticateApiKey: recordUsage begins with the copy just loaded
AuthenticateKey(r, k) ==
  /\ req[r] = Idle /\ usage[r] = NoUsage
  /\ Authenticates(k)
  /\ req' = [req EXCEPT ![r] = [Idle EXCEPT !.step = "authenticated", !.who = k]]
  /\ usage' = [usage EXCEPT ![r] = [key |-> k, doc |-> key[k]]]
  /\ UNCHANGED <<file, key>>

RecordUsage(r) ==
  /\ usage[r] # NoUsage
  /\ SaveUsage(usage[r].key, usage[r].doc)
  /\ usage' = [usage EXCEPT ![r] = NoUsage]
  /\ UNCHANGED <<file, req>>

-----------------------------------------------------------------------------
(* file.routes.js                                                          *)

RequestUpload(r, f) ==
  /\ Begins(r, UploadFiles)
  /\ req[r].who \in Roles
  /\ CreateFile(f)
  /\ Answer(r)
  /\ UNCHANGED <<key, usage>>

LoadFile(r, op, f) ==
  /\ Begins(r, UploadFiles)
  /\ Finds(op, f)
  /\ Loads(r, op, f, file[f])
  /\ UNCHANGED <<file, key, usage>>

StoreFile(r) ==
  /\ req[r].step \in FileOps
  /\ SaveFile(req[r].step, req[r].target, req[r].doc)
  /\ Answer(r)
  /\ UNCHANGED <<key, usage>>

-----------------------------------------------------------------------------
(* apiKey.routes.js                                                        *)

CountKeys(r) ==
  /\ Begins(r, ManageKeys)
  /\ ~ QuotaReached
  /\ req' = [req EXCEPT ![r].step = "create"]
  /\ UNCHANGED <<file, key, usage>>

StoreKey(r, k, scopes) ==
  /\ req[r].step = "create"
  /\ req[r].who \in Roles
  /\ CreateKey(k, scopes)
  /\ Answer(r)
  /\ UNCHANGED <<file, usage>>

LoadKey(r, k) ==
  /\ Begins(r, ManageKeys)
  /\ KeyExists(k)
  /\ Loads(r, "revoke", k, key[k])
  /\ UNCHANGED <<file, key, usage>>

RevokeKey(r) ==
  /\ req[r].step = "revoke"
  /\ SaveRevoked(req[r].target, req[r].doc)
  /\ Answer(r)
  /\ UNCHANGED <<file, usage>>

-----------------------------------------------------------------------------

\* The request is refused at any point, a call rejects, or the process dies
\* with the request and the save behind it.
Abort(r) ==
  /\ req[r] # Idle \/ usage[r] # NoUsage
  /\ Answer(r)
  /\ usage' \in {usage, [usage EXCEPT ![r] = NoUsage]}
  /\ UNCHANGED <<file, key>>

ExpiryPasses(k) == Expires(k) /\ UNCHANGED <<file, req, usage>>

Next ==
  \/ \E r \in Requests :
       \/ \E role \in Roles : AuthenticateUser(r, role)
       \/ RecordUsage(r) \/ StoreFile(r) \/ CountKeys(r) \/ RevokeKey(r) \/ Abort(r)
       \/ \E f \in Files : RequestUpload(r, f) \/ \E op \in FileOps : LoadFile(r, op, f)
       \/ \E k \in Keys : \/ AuthenticateKey(r, k) \/ LoadKey(r, k)
                          \/ \E scopes \in ScopeSets : StoreKey(r, k, scopes)
  \/ \E k \in Keys : ExpiryPasses(k)

Spec == Init /\ [][Next]_vars

-----------------------------------------------------------------------------
(* Correctness.                                                            *)

Creating == {r \in Requests : req[r].step = "create" /\ req[r].who \in Roles}

\* A tenant's active keys exceed its plan's quota by at most the number of other
\* requests served at the time: each may have been counted out before the others
\* created their keys (POST of apiKey.routes.js).
KeysBounded ==
  Cardinality(ActiveKeys) + Cardinality(Creating) <= Quota + Cardinality(Requests) - 1

\* A revocation is final: neither the background save of a use that began
\* before it, nor another revocation, nor an expiry makes the key active again
\* (recordUsage, DELETE of apiKey.routes.js).
RevocationHolds ==
  [][\A k \in Keys : key[k].status = "revoked" => key'[k].status = "revoked"]_vars

\* A deleted file comes back by a restore that found it deleted and by nothing
\* else, such as a confirmation that overlapped with the deletion (confirm,
\* delete and restore of file.routes.js).
DeletionHolds ==
  [][\A f \in Files : file[f].hidden /\ ~ file'[f].hidden =>
       \E r \in Requests : /\ StoreFile(r)
                           /\ req[r].step = "restore" /\ req[r].target = f
                           /\ req[r].doc.hidden]_vars
=============================================================================
