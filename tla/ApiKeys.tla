-------------------------------- MODULE ApiKeys --------------------------------
(***************************************************************************)
(* The records of one tenant's API keys (ApiKey.model.js), the routes that *)
(* create and revoke them (apiKey.routes.js), and authenticateApiKey of    *)
(* auth.middleware.js, which saves the use of a key in the background.     *)
(***************************************************************************)
EXTENDS Documents, Integers, FiniteSets

CONSTANTS
  Keys,
  ScopeSets, \* the scopes a key may be created with
  Quota      \* plan.quotas.apiKeys

VARIABLE key

NoKey == [status |-> "none", scopes |-> {}, expired |-> FALSE]
KeyRecord == [status : {"none", "active", "revoked"}, scopes : ScopeSets \cup {{}},
              expired : BOOLEAN]

KeysTypeOK == key \in [Keys -> KeyRecord]
KeysInit == key = [k \in Keys |-> NoKey]

ActiveKeys == {k \in Keys : key[k].status = "active"}

\* Mutant of QuotaReached: one key more.
QuotaReachedLate == Cardinality(ActiveKeys) > Quota
\* countDocuments against the plan. Expired keys count.
QuotaReached == Cardinality(ActiveKeys) >= Quota

CreateKey(k, scopes) ==
  /\ key[k].status = "none"
  /\ key' = [key EXCEPT ![k] = [status |-> "active", scopes |-> scopes, expired |-> FALSE]]

\* findOne of an id, of an active or a revoked key
KeyExists(k) == key[k].status # "none"

SaveRevoked(k, doc) ==
  key' = [key EXCEPT ![k] = Saved(doc, [doc EXCEPT !.status = "revoked"], @)]

\* findOne({ keyHash, status: 'active' }), then expiresAt
Authenticates(k) == key[k].status = "active" /\ ~ key[k].expired

\* recordUsage: usageCount and lastUsedAt, which no code reads
SaveUsage(k, doc) == key' = [key EXCEPT ![k] = Saved(doc, doc, @)]

\* expiresAt passes
Expires(k) ==
  /\ key[k].status # "none" /\ ~ key[k].expired
  /\ key' = [key EXCEPT ![k].expired = TRUE]
=============================================================================
