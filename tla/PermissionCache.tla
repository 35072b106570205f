--------------------------- MODULE PermissionCache ---------------------------
(***************************************************************************)
(* The permissions of one user: the role in the database, the copy that    *)
(* PermissionEngine.js keeps in Redis through CacheService.wrap, and the   *)
(* copies that login and refresh sign into access tokens, while            *)
(* user.routes.js changes the role, deletes and restores the user and      *)
(* EventBus.js invalidates the cache behind the response.                  *)
(*                                                                         *)
(* A permission set is the role it comes from, or none: no route sets      *)
(* customRoleId or permissionOverrides, so the loader of wrap awaits       *)
(* nothing, but it answers [] in a process whose connection does not have  *)
(* the Role model yet. Requests of any API process interleave at every     *)
(* await. While Redis is down, get misses, and set and del are dropped     *)
(* without an error.                                                       *)
(***************************************************************************)
EXTENDS Integers, FiniteSets

CONSTANTS
  Roles,
  Requests, \* requests served at a time, by any process
  None,     \* nothing cached
  Blank,    \* the permission set []
  CacheTTL, \* 300 seconds in resolvePermissions
  Life      \* config.jwt.accessExpiry

ASSUME PermissionAssumption ==
  /\ None \notin Roles \cup {Blank} /\ Blank \notin Roles
  /\ CacheTTL \in Nat \ {0} /\ Life \in Nat \ {0}

VARIABLES
  role, deleted, \* the user document
  cache,         \* the key in Redis: a role, and the time it has left
  life,          \* permissions -> time left to the last token that carries them
  ready,         \* whether every API process has the Role model
  redisUp,
  req,           \* request -> where its handler stands
  lost,          \* an invalidation of the present role's change was dropped
  quiet          \* time since nothing but the caches can hold old permissions

vars == <<role, deleted, cache, life, ready, redisUp, req, lost, quiet>>

\* A copy may be hit until its last tick begins, by a request that then signs
\* a token.
Bound == CacheTTL - 1 + Life

Perms == Roles \cup {Blank}

NoEntry == [role |-> None, ttl |-> 0, wrong |-> FALSE]
\* wrong: not the user's role when it was set
Entry == [role : Perms, ttl : 1..CacheTTL, wrong : BOOLEAN]

Idle == [step |-> "idle", role |-> None, to |-> None]
\* role: of the user document as loaded; then the permissions resolved
Resolving == [step : {"get", "fill", "grant"}, role : Perms, to : {None}]
\* to: the role a PATCH asks for
Patching == [step : {"save", "emitted"}, role : Roles, to : Roles]

TypeOK ==
  /\ role \in Roles /\ deleted \in BOOLEAN
  /\ cache \in Entry \cup {NoEntry}
  /\ life \in [Perms -> 0..Life]
  /\ ready \in BOOLEAN /\ redisUp \in BOOLEAN
  /\ req \in [Requests -> Resolving \cup Patching \cup {Idle}]
  /\ lost \in BOOLEAN
  /\ quiet \in 0..Bound

Init ==
  /\ role \in Roles /\ deleted = FALSE
  /\ cache = NoEntry
  /\ life = [p \in Perms |-> 0]
  /\ ready = FALSE /\ redisUp = TRUE
  /\ req = [r \in Requests |-> Idle]
  /\ lost = FALSE /\ quiet = 0

Goto(r, next) == req' = [req EXCEPT ![r] = next]

-----------------------------------------------------------------------------
(* login and refresh: issueTokenPair, resolvePermissions, wrap.            *)

\* findByEmail or findById, and whatever the handler awaits before wrap
LoadUser(r) ==
  /\ req[r] = Idle
  /\ ~ deleted
  /\ Goto(r, [step |-> "get", role |-> role, to |-> None])
  /\ UNCHANGED <<role, deleted, cache, life, ready, redisUp, lost, quiet>>

\* _fetchPermissionsFromDB: db.model('Role') throws in a process that has
\* served no request behind requestScopeMiddleware, and the catch answers [].
Resolved(r) == {req[r].role} \cup (IF ready THEN {} ELSE {Blank})

\* wrap: get, whose hit is what the token will carry, or else the loader
Get(r) ==
  /\ req[r].step = "get"
  /\ IF redisUp /\ cache # NoEntry
     THEN Goto(r, [req[r] EXCEPT !.step = "grant", !.role = cache.role])
     ELSE \E p \in Resolved(r) : Goto(r, [req[r] EXCEPT !.step = "fill", !.role = p])
  /\ UNCHANGED <<role, deleted, cache, life, ready, redisUp, lost, quiet>>

\* wrap: set, with an expiry
Fill(r) ==
  /\ req[r].step = "fill"
  /\ cache' = IF redisUp
              THEN [role |-> req[r].role, ttl |-> CacheTTL,
                    wrong |-> req[r].role # role]
              ELSE cache
  /\ Goto(r, [req[r] EXCEPT !.step = "grant"])
  /\ UNCHANGED <<role, deleted, life, ready, redisUp, lost, quiet>>

\* issueAccessToken, and the response
Grant(r) ==
  /\ req[r].step = "grant"
  /\ life' = [life EXCEPT ![req[r].role] = Life]
  /\ Goto(r, Idle)
  /\ UNCHANGED <<role, deleted, cache, ready, redisUp, lost, quiet>>

-----------------------------------------------------------------------------
(* user.routes.js, and the handler of user.role_changed.                   *)

\* PATCH /users/:id/role: findOne
LoadTarget(r, to) ==
  /\ req[r] = Idle
  /\ ~ deleted
  /\ Goto(r, [step |-> "save", role |-> role, to |-> to])
  /\ UNCHANGED <<role, deleted, cache, life, ready, redisUp, lost, quiet>>

\* save(), which writes the role only if the loaded one is another, then emit
SaveRole(r) ==
  /\ req[r].step = "save"
  /\ role' = IF req[r].to = req[r].role THEN role ELSE req[r].to
  /\ lost' = (lost /\ role' = role)
  /\ quiet' = IF role' = role THEN quiet ELSE 0
  /\ Goto(r, [req[r] EXCEPT !.step = "emitted"])
  /\ UNCHANGED <<deleted, cache, life, ready, redisUp>>

\* Mutant of Invalidated: the handler is not registered.
InvalidatedNot == cache
Invalidated == IF redisUp THEN NoEntry ELSE cache

\* onUserRoleChanged, after the setImmediate of emit: invalidateCache. del
\* swallows its errors, so the retries of EventBus.on have nothing to retry.
Invalidate(r) ==
  /\ req[r].step = "emitted"
  /\ cache' = Invalidated
  /\ lost' = (lost \/ ~ redisUp)
  /\ Goto(r, Idle)
  /\ UNCHANGED <<role, deleted, life, ready, redisUp, quiet>>

\* DELETE /users/:id and POST /users/:id/restore; no handler listens to user.deleted
DeleteUser ==
  /\ ~ deleted
  /\ deleted' = TRUE /\ quiet' = 0
  /\ UNCHANGED <<role, cache, life, ready, redisUp, req, lost>>

RestoreUser ==
  /\ deleted
  /\ deleted' = FALSE
  /\ UNCHANGED <<role, cache, life, ready, redisUp, req, lost, quiet>>

-----------------------------------------------------------------------------
(* The surroundings.                                                       *)

\* The process serving r dies, or a database call of r rejects.
Abort(r) ==
  /\ req[r] # Idle
  /\ lost' = (lost \/ req[r].step = "emitted")
  /\ Goto(r, Idle)
  /\ UNCHANGED <<role, deleted, cache, life, ready, redisUp, quiet>>

\* requestScopeMiddleware or a signup gives the last process the model.
Register ==
  /\ ~ ready
  /\ ready' = TRUE
  /\ UNCHANGED <<role, deleted, cache, life, redisUp, req, lost, quiet>>

StartProcess ==
  /\ ready
  /\ ready' = FALSE
  /\ UNCHANGED <<role, deleted, cache, life, redisUp, req, lost, quiet>>

RedisDown ==
  /\ redisUp
  /\ redisUp' = FALSE
  /\ UNCHANGED <<role, deleted, cache, life, ready, req, lost, quiet>>

RedisBack ==
  /\ ~ redisUp
  /\ redisUp' = TRUE
  /\ UNCHANGED <<role, deleted, cache, life, ready, req, lost, quiet>>

Entitled(p) == p = Blank \/ (~ deleted /\ p = role)

\* A request under way may still issue or cache permissions the user has lost.
Late(r) == req[r].step \in {"get", "fill", "grant"} /\ ~ Entitled(req[r].role)

\* Mutants of Aged: the key was set without an expiry, or outlives it.
AgedNever(entry) == entry
AgedPast(entry) == [entry EXCEPT !.ttl = @ - 1]
Aged(entry) == IF entry.ttl <= 1 THEN NoEntry ELSE [entry EXCEPT !.ttl = @ - 1]

\* Time passes for the key in Redis and for the tokens.
Tick ==
  /\ cache' = Aged(cache)
  /\ life' = [p \in Perms |-> IF life[p] = 0 THEN 0 ELSE life[p] - 1]
  /\ quiet' = IF \E r \in Requests : Late(r) THEN 0
              ELSE IF quiet = Bound THEN Bound ELSE quiet + 1
  /\ UNCHANGED <<role, deleted, ready, redisUp, req, lost>>

Step(r) == Get(r) \/ Fill(r) \/ Grant(r) \/ SaveRole(r) \/ Invalidate(r)

Next ==
  \/ \E r \in Requests :
       LoadUser(r) \/ Step(r) \/ Abort(r) \/ \E to \in Roles : LoadTarget(r, to)
  \/ DeleteUser \/ RestoreUser \/ Register \/ StartProcess
  \/ RedisDown \/ RedisBack \/ Tick

Spec == Init /\ [][Next]_vars

\* Awaited calls return, and time passes.
FairSpec == Spec /\ WF_vars(Tick) /\ \A r \in Requests : WF_vars(Step(r))

-----------------------------------------------------------------------------
(* Correctness.                                                            *)

Honoured(p) == life[p] > 0

\* The rights a user has lost end: however role changes, deletions, lost
\* invalidations, outages, crashes and stale fills interleave, no token with
\* permissions the user no longer has lives longer than the lifetimes of the
\* cached copy and of a token after the last request that began before the
\* change (resolvePermissions, wrap, issueAccessToken).
OldRightsEnd ==
  quiet = Bound => \A p \in Perms : Honoured(p) => Entitled(p)

\* "Invalidate permission cache so next request gets fresh permissions": once
\* its handlers have run, the cache disagrees with the user's role only if an
\* invalidation was dropped (Redis down, process died) or the copy was wrong
\* when it was set, by a request that overlapped with the change or a process
\* without the Role model (onUserRoleChanged, invalidateCache).
InvalidationWorks ==
  cache # NoEntry /\ cache.role # role =>
    \/ lost \/ cache.wrong
    \/ \E r \in Requests : req[r].step = "emitted"

\* A user left alone, and processes that have all started up, end up with the
\* present role's permissions, and no others, in every token, whatever was lost
\* or left blank before (wrap, issueAccessToken).
SettlesOnRole ==
  \A p \in Roles :
    <>[](ready /\ ~ deleted /\ role = p) => <>[](\A q \in Perms \ {p} : ~ Honoured(q))

\* "Resolve the complete permission set for a user": once every process has the
\* Role model, a login or a refresh gives its token the permissions of a role.
\* It may give none: a process that had just started cached [] for everyone
\* (resolvePermissions, _fetchPermissionsFromDB).
GrantsComplete ==
  \A r \in Requests : ready /\ req[r].step = "grant" => req[r].role # Blank
=============================================================================
