------------------------- MODULE TenantRequestsProofs -------------------------
(***************************************************************************)
(* The quota of API keys, the finality of revocations and the way back of  *)
(* deleted files, for every number of requests, keys and files.            *)
(***************************************************************************)
EXTENDS TenantRequests, FiniteSetTheorems, TLAPS

USE RequestsAssumption

\* What a handler holds, by the place where it stands.
LEMMA AtWork ==
  ASSUME TypeOK, NEW r \in Requests
  PROVE  /\ req[r].step \in FileOps => req[r].target \in Files /\ req[r].doc \in FileRecord
         /\ req[r].step = "revoke" => req[r].target \in Keys /\ req[r].doc \in KeyRecord
         /\ req[r].step \in {"authenticated", "create"} => req[r].who \in Who
BY DEF TypeOK, Serving, Idle, FileOps

\* A saved document has each path from what is stored or from the new one.
LEMMA SavedFile ==
  ASSUME NEW op \in FileOps, NEW doc \in FileRecord, NEW stored \in FileRecord
  PROVE  Saved(doc, Changed(op, doc), stored) \in FileRecord
<1>1. Changed(op, doc) \in FileRecord
  BY DEF FileOps, Changed, FileRecord
<1>2. DOMAIN stored = {"status", "hidden"}
  BY DEF FileRecord
<1> DEFINE new == Saved(doc, Changed(op, doc), stored)
<1>3. new = [status |-> new.status, hidden |-> new.hidden]
  BY <1>2 DEF Saved
<1>4. new.status \in {"none", "pending", "uploaded", "deleted"} /\ new.hidden \in BOOLEAN
  BY <1>1, <1>2 DEF Saved, FileRecord
<1> QED BY <1>3, <1>4 DEF FileRecord

\* A revocation writes the status and nothing else.
LEMMA SavedKey ==
  ASSUME NEW doc \in KeyRecord, NEW stored \in KeyRecord
  PROVE  /\ Saved(doc, doc, stored) = stored
         /\ Saved(doc, [doc EXCEPT !.status = "revoked"], stored)
              = [stored EXCEPT !.status = IF doc.status = "revoked" THEN @ ELSE "revoked"]
         /\ Saved(doc, [doc EXCEPT !.status = "revoked"], stored) \in KeyRecord
<1>1. /\ Saved(doc, doc, stored) = stored
      /\ Saved(doc, [doc EXCEPT !.status = "revoked"], stored)
           = [stored EXCEPT !.status = IF doc.status = "revoked" THEN @ ELSE "revoked"]
  BY DEF Saved, KeyRecord
<1>2. [stored EXCEPT !.status = IF doc.status = "revoked" THEN @ ELSE "revoked"] \in KeyRecord
  BY DEF KeyRecord
<1> QED BY <1>1, <1>2

LEMMA RequestTypeInit == Init => TypeOK
<1>1. NoFile \in FileRecord /\ NoKey \in KeyRecord
  BY DEF NoFile, FileRecord, NoKey, KeyRecord
<1> QED BY <1>1 DEF Init, FilesInit, KeysInit, TypeOK, FilesTypeOK, KeysTypeOK

\* The actions of one request.
Acts(r) ==
  \/ \E role \in Roles : AuthenticateUser(r, role)
  \/ RecordUsage(r) \/ StoreFile(r) \/ CountKeys(r) \/ RevokeKey(r) \/ Abort(r)
  \/ \E f \in Files : RequestUpload(r, f) \/ \E op \in FileOps : LoadFile(r, op, f)
  \/ \E k \in Keys : \/ AuthenticateKey(r, k) \/ LoadKey(r, k)
                     \/ \E scopes \in ScopeSets : StoreKey(r, k, scopes)

LEMMA RequestTypeStep ==
  ASSUME TypeOK, NEW r \in Requests, Acts(r)
  PROVE  TypeOK'
<1>1. /\ file \in [Files -> FileRecord] /\ key \in [Keys -> KeyRecord]
      /\ req \in [Requests -> Serving \cup {Idle}]
      /\ usage \in [Requests -> [key : Keys, doc : KeyRecord] \cup {NoUsage}]
  BY DEF TypeOK, FilesTypeOK, KeysTypeOK
<1> USE DEF TypeOK, FilesTypeOK, KeysTypeOK
<1>2. Answer(r) => req' \in [Requests -> Serving \cup {Idle}]
  BY <1>1 DEF Answer
<1>3. ASSUME NEW role \in Roles, AuthenticateUser(r, role) PROVE TypeOK'
  <2>1. [Idle EXCEPT !.step = "authenticated", !.who = role] \in Serving
    BY DEF Idle, Serving, Who
  <2> QED BY <1>1, <1>3, <2>1 DEF AuthenticateUser
<1>4. CASE RecordUsage(r)
  <2>1. usage[r].key \in Keys /\ usage[r].doc \in KeyRecord
    BY <1>1, <1>4 DEF RecordUsage
  <2>2. key' = [key EXCEPT ![usage[r].key] = @]
    BY <1>1, <1>4, <2>1, SavedKey DEF RecordUsage, SaveUsage
  <2> QED BY <1>1, <1>4, <2>2 DEF RecordUsage
<1>5. CASE StoreFile(r)
  <2>1. req[r].step \in FileOps /\ req[r].target \in Files /\ req[r].doc \in FileRecord
    BY <1>5, AtWork DEF StoreFile
  <2>2. Saved(req[r].doc, Changed(req[r].step, req[r].doc), file[req[r].target]) \in FileRecord
    BY <1>1, <2>1, SavedFile
  <2>3. file' \in [Files -> FileRecord]
    BY <1>1, <1>5, <2>1, <2>2 DEF StoreFile, SaveFile
  <2> QED BY <1>1, <1>2, <1>5, <2>3 DEF StoreFile
<1>6. CASE CountKeys(r)
  <2>1. req[r] \in [step : {"authenticated", "create"}, who : Who, target : {None}, doc : {None}]
    BY <1>1, <1>6 DEF CountKeys, Begins, Serving, Idle, FileOps
  <2>2. [req[r] EXCEPT !.step = "create"] \in Serving
    BY <2>1 DEF Serving
  <2> QED BY <1>1, <1>6, <2>2 DEF CountKeys
<1>7. CASE RevokeKey(r)
  <2>1. req[r].target \in Keys /\ req[r].doc \in KeyRecord
    BY <1>7, AtWork DEF RevokeKey
  <2>2. Saved(req[r].doc, [req[r].doc EXCEPT !.status = "revoked"], key[req[r].target])
          \in KeyRecord
    <3>1. key[req[r].target] \in KeyRecord
      BY <1>1, <2>1
    <3> QED BY <2>1, <3>1, SavedKey
  <2>3. key' \in [Keys -> KeyRecord]
    BY <1>1, <1>7, <2>1, <2>2 DEF RevokeKey, SaveRevoked
  <2> QED BY <1>1, <1>2, <1>7, <2>3 DEF RevokeKey
<1>8. CASE Abort(r)
  BY <1>1, <1>2, <1>8 DEF Abort
<1>9. ASSUME NEW f \in Files, RequestUpload(r, f) PROVE TypeOK'
  <2>1. [file[f] EXCEPT !.status = "pending"] \in FileRecord
    BY <1>1 DEF FileRecord
  <2> QED BY <1>1, <1>2, <1>9, <2>1 DEF RequestUpload, CreateFile
<1>10. ASSUME NEW f \in Files, NEW op \in FileOps, LoadFile(r, op, f) PROVE TypeOK'
  <2>1. [step |-> op, who |-> None, target |-> f, doc |-> file[f]] \in Serving
    BY <1>1 DEF Serving
  <2> QED BY <1>1, <1>10, <2>1 DEF LoadFile, Loads
<1>11. ASSUME NEW k \in Keys, AuthenticateKey(r, k) PROVE TypeOK'
  <2>1. [Idle EXCEPT !.step = "authenticated", !.who = k] \in Serving
    BY DEF Idle, Serving, Who
  <2> QED BY <1>1, <1>11, <2>1 DEF AuthenticateKey
<1>12. ASSUME NEW k \in Keys, LoadKey(r, k) PROVE TypeOK'
  <2>1. [step |-> "revoke", who |-> None, target |-> k, doc |-> key[k]] \in Serving
    BY <1>1 DEF Serving
  <2> QED BY <1>1, <1>12, <2>1 DEF LoadKey, Loads
<1>13. ASSUME NEW k \in Keys, NEW scopes \in ScopeSets, StoreKey(r, k, scopes) PROVE TypeOK'
  <2>1. [status |-> "active", scopes |-> scopes, expired |-> FALSE] \in KeyRecord
    BY DEF KeyRecord
  <2> QED BY <1>1, <1>2, <1>13, <2>1 DEF StoreKey, CreateKey
<1> QED BY <1>3, <1>4, <1>5, <1>6, <1>7, <1>8, <1>9, <1>10, <1>11, <1>12, <1>13 DEF Acts

LEMMA ExpiryType == ASSUME TypeOK, NEW k \in Keys, ExpiryPasses(k) PROVE TypeOK'
<1>1. [key[k] EXCEPT !.expired = TRUE] \in KeyRecord
  BY ZenonT(60) DEF TypeOK, KeysTypeOK, KeyRecord
<1> QED BY <1>1 DEF ExpiryPasses, Expires, TypeOK, FilesTypeOK, KeysTypeOK

LEMMA ActsNext == Next <=> (\E r \in Requests : Acts(r)) \/ \E k \in Keys : ExpiryPasses(k)
BY DEF Next, Acts

\* Every reachable state is well typed.
THEOREM RequestTypeCorrect == Spec => []TypeOK
<1>1. ASSUME TypeOK, [Next]_vars PROVE TypeOK'
  <2>1. CASE UNCHANGED vars
    BY <1>1, <2>1 DEF vars, TypeOK, FilesTypeOK, KeysTypeOK
  <2> QED BY <1>1, <2>1, ActsNext, RequestTypeStep, ExpiryType
<1> QED BY <1>1, RequestTypeInit, PTL DEF Spec

-----------------------------------------------------------------------------

\* Actions that leave the keys' records as they are, or change no status.
LEMMA KeysUntouched ==
  ASSUME TypeOK, NEW r \in Requests, Acts(r)
  PROVE  \/ key' = key
         \/ \E k \in Keys, scopes \in ScopeSets : StoreKey(r, k, scopes)
         \/ RevokeKey(r)
<1>1. CASE RecordUsage(r)
  <2>1. /\ usage[r].key \in Keys /\ usage[r].doc \in KeyRecord
        /\ key \in [Keys -> KeyRecord]
    BY <1>1 DEF RecordUsage, TypeOK, KeysTypeOK
  <2>2. Saved(usage[r].doc, usage[r].doc, key[usage[r].key]) = key[usage[r].key]
    BY <2>1, SavedKey
  <2> QED BY <1>1, <2>1, <2>2 DEF RecordUsage, SaveUsage
<1> QED
  BY <1>1 DEF Acts, AuthenticateUser, StoreFile, CountKeys, Abort, RequestUpload, LoadFile,
              AuthenticateKey, LoadKey

\* What each kind of step may do to the status of a key.
LEMMA StatusStep ==
  ASSUME TypeOK, [Next]_vars, NEW k \in Keys
  PROVE  \/ key'[k].status = key[k].status
         \/ key'[k].status = "revoked"
         \/ /\ key[k].status = "none" /\ key'[k].status = "active"
            /\ \E r \in Requests, scopes \in ScopeSets : StoreKey(r, k, scopes)
<1>1. key \in [Keys -> KeyRecord]
  BY DEF TypeOK, KeysTypeOK
<1>2. ASSUME NEW j \in Keys, ExpiryPasses(j) PROVE key'[k].status = key[k].status
  <2>1. key[j] \in KeyRecord /\ key' = [key EXCEPT ![j].expired = TRUE]
    BY <1>1, <1>2 DEF ExpiryPasses, Expires
  <2>2. [key[j] EXCEPT !.expired = TRUE].status = key[j].status
    BY <2>1 DEF KeyRecord
  <2> QED BY <1>1, <2>1, <2>2
<1>3. ASSUME NEW r \in Requests, NEW j \in Keys, NEW scopes \in ScopeSets, StoreKey(r, j, scopes)
      PROVE  \/ key'[k].status = key[k].status
             \/ j = k /\ key[k].status = "none" /\ key'[k].status = "active"
  BY <1>1, <1>3 DEF StoreKey, CreateKey
<1>4. ASSUME NEW r \in Requests, RevokeKey(r)
      PROVE  key'[k].status = key[k].status \/ key'[k].status = "revoked"
  <2>1. /\ req[r].target \in Keys /\ req[r].doc \in KeyRecord
        /\ key' = [key EXCEPT ![req[r].target] =
                     Saved(req[r].doc, [req[r].doc EXCEPT !.status = "revoked"], @)]
    BY <1>4, AtWork DEF RevokeKey, SaveRevoked
  <2>2. CASE k # req[r].target
    BY <1>1, <2>1, <2>2
  <2>3. CASE k = req[r].target
    <3>1. key'[k] = [key[k] EXCEPT !.status =
                       IF req[r].doc.status = "revoked" THEN @ ELSE "revoked"]
      BY <1>1, <2>1, <2>3, SavedKey
    <3>2. key'[k].status = IF req[r].doc.status = "revoked" THEN key[k].status ELSE "revoked"
      BY <1>1, <3>1 DEF KeyRecord
    <3> QED BY <3>2
  <2> QED BY <2>2, <2>3
<1>5. CASE UNCHANGED vars
  BY <1>5 DEF vars
<1>6. ASSUME NEW r \in Requests, Acts(r)
      PROVE  \/ key'[k].status = key[k].status
             \/ key'[k].status = "revoked"
             \/ /\ key[k].status = "none" /\ key'[k].status = "active"
                /\ \E scopes \in ScopeSets : StoreKey(r, k, scopes)
  BY <1>3, <1>4, <1>6, KeysUntouched
<1> QED BY <1>2, <1>5, <1>6, ActsNext

\* No save of an older copy makes a revoked key active again, whatever overlaps
\* (recordUsage, DELETE of apiKey.routes.js).
THEOREM RevocationsHold == Spec => RevocationHolds
<1>1. ASSUME TypeOK, [Next]_vars, NEW k \in Keys, key[k].status = "revoked"
      PROVE  key'[k].status = "revoked"
  BY <1>1, StatusStep
<1>2. TypeOK /\ [Next]_vars =>
        [\A k \in Keys : key[k].status = "revoked" => key'[k].status = "revoked"]_vars
  BY <1>1
<1> QED BY <1>2, RequestTypeCorrect, PTL DEF Spec, RevocationHolds

-----------------------------------------------------------------------------

\* Only a restore that loaded the record as deleted makes a deleted file visible
\* again (confirm, delete and restore of file.routes.js).
THEOREM DeletionsHold == Spec => DeletionHolds
<1>1. ASSUME TypeOK, [Next]_vars, NEW f \in Files, file[f].hidden, ~ file'[f].hidden
      PROVE  \E r \in Requests : /\ StoreFile(r)
                                 /\ req[r].step = "restore" /\ req[r].target = f
                                 /\ req[r].doc.hidden
  <2>1. file \in [Files -> FileRecord] /\ file[f] \in FileRecord
    BY <1>1 DEF TypeOK, FilesTypeOK
  <2>2. file' # file
    BY <1>1
  <2>3. PICK r \in Requests : StoreFile(r) \/ \E g \in Files : RequestUpload(r, g)
    BY <1>1, <2>2, ActsNext DEF vars, Acts, ExpiryPasses, AuthenticateUser, RecordUsage, CountKeys,
         RevokeKey, Abort, LoadFile, AuthenticateKey, LoadKey, StoreKey
  <2>4. ASSUME NEW g \in Files, RequestUpload(r, g) PROVE FALSE
    <3>1. file' = [file EXCEPT ![g].status = "pending"] /\ file[g] \in FileRecord
      BY <2>1, <2>4 DEF RequestUpload, CreateFile
    <3>2. [file[g] EXCEPT !.status = "pending"].hidden = file[g].hidden
      BY <3>1 DEF FileRecord
    <3>3. file'[f].hidden = file[f].hidden
      BY <2>1, <3>1, <3>2
    <3> QED BY <1>1, <3>3
  <2>5. StoreFile(r)
    BY <2>3, <2>4
  <2>6. /\ req[r].step \in FileOps /\ req[r].target \in Files /\ req[r].doc \in FileRecord
        /\ file' = [file EXCEPT ![req[r].target] =
                       Saved(req[r].doc, Changed(req[r].step, req[r].doc), @)]
    BY <1>1, <2>5, AtWork DEF StoreFile, SaveFile
  <2>7. req[r].target = f
    BY <1>1, <2>1, <2>6
  <2>8. file'[f].hidden = IF Changed(req[r].step, req[r].doc).hidden = req[r].doc.hidden
                            THEN file[f].hidden ELSE Changed(req[r].step, req[r].doc).hidden
    BY <2>1, <2>6, <2>7 DEF Saved, FileRecord
  <2>9. Changed(req[r].step, req[r].doc).hidden # req[r].doc.hidden
        /\ ~ Changed(req[r].step, req[r].doc).hidden
    BY <1>1, <2>8
  <2>10. req[r].step = "restore" /\ req[r].doc.hidden
    <3>1. CASE req[r].step = "confirm"
      BY <2>6, <2>9, <3>1 DEF Changed, FileRecord
    <3>2. CASE req[r].step = "delete"
      BY <2>9, <3>2 DEF Changed
    <3>3. CASE req[r].step = "restore"
      BY <2>6, <2>9, <3>3 DEF Changed, FileRecord
    <3> QED BY <2>6, <3>1, <3>2, <3>3 DEF FileOps
  <2> QED BY <2>5, <2>7, <2>10
<1>2. TypeOK /\ [Next]_vars =>
        [\A f \in Files : file[f].hidden /\ ~ file'[f].hidden =>
           \E r \in Requests : /\ StoreFile(r)
                               /\ req[r].step = "restore" /\ req[r].target = f
                               /\ req[r].doc.hidden]_vars
  BY <1>1
<1> QED BY <1>2, RequestTypeCorrect, PTL DEF Spec, DeletionHolds
-----------------------------------------------------------------------------

LEMMA FiniteCounts ==
  /\ IsFiniteSet(ActiveKeys) /\ IsFiniteSet(Creating)
  /\ Cardinality(ActiveKeys) \in Nat /\ Cardinality(Creating) \in Nat
  /\ Cardinality(Requests) \in Nat
BY FS_Subset, FS_CardinalityType DEF ActiveKeys, Creating

\* The bound survives when neither set grows.
LEMMA BoundKept ==
  ASSUME KeysBounded, ActiveKeys' \subseteq ActiveKeys, Creating' \subseteq Creating
  PROVE  KeysBounded'
<1>1. Cardinality(ActiveKeys') <= Cardinality(ActiveKeys) /\ Cardinality(ActiveKeys') \in Nat
  BY FiniteCounts, FS_Subset, FS_CardinalityType
<1>2. Cardinality(Creating') <= Cardinality(Creating) /\ Cardinality(Creating') \in Nat
  BY FiniteCounts, FS_Subset, FS_CardinalityType
<1> QED BY <1>1, <1>2, FiniteCounts DEF KeysBounded

\* A request that has counted is one creator more, below the quota.
LEMMA BoundCounted ==
  ASSUME TypeOK, KeysBounded, NEW r \in Requests, CountKeys(r)
  PROVE  KeysBounded'
<1>1. ActiveKeys' = ActiveKeys /\ Cardinality(ActiveKeys) <= Quota - 1
  BY FiniteCounts DEF CountKeys, QuotaReached, ActiveKeys
<1>2. Creating' \subseteq Requests
  BY DEF Creating
<1>3. Cardinality(Creating') \in Nat /\ Cardinality(Creating') <= Cardinality(Requests)
  BY <1>2, FiniteCounts, FS_Subset, FS_CardinalityType
<1> QED BY <1>1, <1>3, FiniteCounts DEF KeysBounded

\* A creation turns a creator into a key.
LEMMA BoundCreated ==
  ASSUME TypeOK, KeysBounded, NEW r \in Requests, NEW k \in Keys, NEW scopes \in ScopeSets,
         StoreKey(r, k, scopes)
  PROVE  KeysBounded'
<1>1. ActiveKeys' \subseteq ActiveKeys \cup {k}
  BY DEF StoreKey, CreateKey, ActiveKeys, TypeOK, KeysTypeOK
<1>2. r \in Creating /\ Creating' \subseteq Creating \ {r}
  BY DEF StoreKey, Creating, Answer, TypeOK, Idle
<1>3. Cardinality(ActiveKeys') \in Nat /\ Cardinality(ActiveKeys') <= Cardinality(ActiveKeys) + 1
  <2>1. /\ IsFiniteSet(ActiveKeys \cup {k})
        /\ Cardinality(ActiveKeys \cup {k}) =
             IF k \in ActiveKeys THEN Cardinality(ActiveKeys) ELSE Cardinality(ActiveKeys) + 1
    BY FiniteCounts, FS_AddElement
  <2>2. /\ Cardinality(ActiveKeys') \in Nat
        /\ Cardinality(ActiveKeys') <= Cardinality(ActiveKeys \cup {k})
    BY <1>1, <2>1, FS_Subset, FS_CardinalityType
  <2> QED BY <2>1, <2>2, FiniteCounts
<1>4. Cardinality(Creating') \in Nat /\ Cardinality(Creating') <= Cardinality(Creating) - 1
  <2>1. IsFiniteSet(Creating \ {r}) /\ Cardinality(Creating \ {r}) = Cardinality(Creating) - 1
    BY <1>2, FiniteCounts, FS_RemoveElement
  <2> QED BY <1>2, <2>1, FS_Subset, FS_CardinalityType
<1> QED BY <1>3, <1>4, FiniteCounts DEF KeysBounded

\* Every other step leaves both sets alone or makes them smaller.
LEMMA BoundOther ==
  ASSUME TypeOK, [Next]_vars
  PROVE  \/ ActiveKeys' \subseteq ActiveKeys /\ Creating' \subseteq Creating
         \/ \E r \in Requests : CountKeys(r)
         \/ \E r \in Requests, k \in Keys, scopes \in ScopeSets : StoreKey(r, k, scopes)
<1>1. CASE \E r \in Requests, k \in Keys, scopes \in ScopeSets : StoreKey(r, k, scopes)
  BY <1>1
<1>2. CASE ~ \E r \in Requests, k \in Keys, scopes \in ScopeSets : StoreKey(r, k, scopes)
  <2>1. ActiveKeys' \subseteq ActiveKeys
    BY <1>2, StatusStep DEF ActiveKeys
  <2>2. ASSUME NEW r \in Requests, Acts(r), ~ CountKeys(r)
        PROVE  Creating' \subseteq Creating
    <3>1. CASE RecordUsage(r)
      BY <3>1 DEF RecordUsage, Creating
    <3>2. CASE \/ \E role \in Roles : AuthenticateUser(r, role)
               \/ \E k \in Keys : AuthenticateKey(r, k)
      <4>1. PICK w \in Who :
              req' = [req EXCEPT ![r] = [Idle EXCEPT !.step = "authenticated", !.who = w]]
        BY <3>2 DEF AuthenticateUser, AuthenticateKey, Who
      <4>2. req'[r].step = "authenticated" /\ \A q \in Requests \ {r} : req'[q] = req[q]
        BY <4>1 DEF TypeOK, Idle
      <4> QED BY <4>2 DEF Creating
    <3>3. CASE Answer(r)
      BY <3>3 DEF Answer, Creating, TypeOK, Idle
    <3>4. CASE \/ \E f \in Files, op \in FileOps : LoadFile(r, op, f)
               \/ \E k \in Keys : LoadKey(r, k)
      BY <3>4 DEF LoadFile, LoadKey, Loads, Creating, TypeOK, FileOps
    <3> QED
      BY <1>2, <2>2, <3>1, <3>2, <3>3, <3>4
         DEF Acts, StoreFile, RevokeKey, Abort, RequestUpload
  <2>3. ASSUME UNCHANGED vars \/ \E k \in Keys : ExpiryPasses(k)
        PROVE  Creating' \subseteq Creating
    BY <2>3 DEF vars, ExpiryPasses, Creating
  <2> QED BY <2>1, <2>2, <2>3, ActsNext
<1> QED BY <1>1, <1>2

\* However requests overlap, the active keys exceed the plan's quota by fewer
\* keys than there are requests (POST of apiKey.routes.js).
THEOREM KeysStayBounded == Spec => []KeysBounded
<1>1. Init => KeysBounded
  <2> SUFFICES ASSUME Init PROVE KeysBounded
    OBVIOUS
  <2>1. ActiveKeys = {} /\ Creating = {}
    BY DEF Init, KeysInit, NoKey, ActiveKeys, Creating, Idle
  <2>2. CASE Requests # {}
    <3>1. PICK r \in Requests : TRUE
      BY <2>2
    <3>2. /\ IsFiniteSet(Requests \ {r})
          /\ Cardinality(Requests \ {r}) = Cardinality(Requests) - 1
      BY <3>1, FS_RemoveElement
    <3>3. Cardinality(Requests \ {r}) \in Nat
      BY <3>2, FS_CardinalityType
    <3> QED BY <2>1, <3>2, <3>3, FiniteCounts, FS_EmptySet DEF KeysBounded
  <2>3. CASE Requests = {}
    BY <2>1, <2>3, FS_EmptySet DEF KeysBounded
  <2> QED BY <2>2, <2>3
<1>2. ASSUME TypeOK, KeysBounded, [Next]_vars PROVE KeysBounded'
  BY <1>2, BoundOther, BoundKept, BoundCounted, BoundCreated
<1> QED BY <1>1, <1>2, RequestTypeCorrect, PTL DEF Spec
=============================================================================
