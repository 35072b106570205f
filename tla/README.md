# TenantCore: TLA+ specifications, model checking and proofs

This directory specifies the parts of TenantCore whose correctness depends on
the order in which things happen: requests of several API processes that
interleave at every `await`, worker processes that share Redis queues, caches
that outlive what they copy, and failures between two commands that belong
together. Each specification is translated from the source; `PROJECT.json`
("map") names, for every definition, the lines it stands for.

Paths below are relative to `src/`; `A/` stands for `apps/api/src/`.

To repeat the checks: `tlc -config X.cfg MCModule.tla` for each run of the table
in section 4, and `tlapm XProofs.tla` for each proof module.

---

## 1. Inventory of the system

TenantCore is a multi-tenant backend in JavaScript: a stateless Express API that
may run as several processes, a worker process that may also run several times,
MongoDB for records, Redis for caches, sessions, queues, limits and locks.
JavaScript runs one turn at a time, so within a process everything between two
`await`s is atomic; Redis and MongoDB run one command at a time.

| Component (source) | State | Operations | What is hard | What makes it correct |
|---|---|---|---|---|
| Job queue (`packages/queue-engine/src/Queue.js`) | Redis ZSETs waiting, active, delayed, dlq; a hash per job | add, dequeue with promotion of delayed jobs, complete, fail, retryDLQ | the operations are several commands long and many processes call them | no job vanishes, one taker, exactly maxAttempts tries, every job settles |
| Worker (`packages/queue-engine/src/Worker.js`) | _running, _activeJobs, the poll under way | poll loop, process with timeout, stop | stop during a poll, errors in the middle of a batch | never more than `concurrency` jobs |
| Worker process, cron (`apps/workers/src/index.js`) | a Redis lock per cron job | start, signals, scheduleWithLock | several instances with clocks of their own, locks that run out or are deleted by others, commands sent again after a lost reply | handlers of a tick do not overlap, no tick is skipped by all |
| Token store, JWT service, auth controller and middleware (`A/services/auth`, `A/controllers/auth.controller.js`, `A/middleware/auth.middleware.js`) | refresh keys and blacklist keys in Redis, claims in the tokens | login, refresh with rotation, logout, authenticate | overlapping refreshes, Redis outages, whole-second expiry | logged-out and rotated tokens are dead, sessions survive |
| User lockout (`A/models/tenant/User.model.js`) | failedLoginAttempts, lockedUntil | incrementFailedLogin, resetFailedLogin | read, await, write back | a bounded number of guesses, locks hold |
| Permission engine and cache (`A/services/rbac/PermissionEngine.js`, `A/services/cache/CacheService.js`, `A/core/EventBus.js`, `A/api/v1/routes/user.routes.js`) | the role in MongoDB, a copy in Redis, copies in tokens | resolve, wrap, change role, invalidate, delete, restore | invalidation behind the response, fills that overlap with it, lost deletes | lost rights end, the cache follows the role |
| Tenant provisioner (`A/services/tenant/TenantProvisioner.js`) | the tenant record, its roles, owner, configuration, bucket | provision in seven steps | overlapping signups, a failure half-way | distinct slugs, an active tenant is complete |
| Tenant middleware (`A/middleware/tenant.middleware.js`) | copies of the record in Redis | resolve, judge by status | nothing invalidates the copies | the gate follows the status |
| Tenant connection pool (`A/db/ConnectionPool.js`, `A/db/tenant.js`) | Map of connections with lastUsed | getConnection, evict, release, health check, closeAll | capacity check before an await, entry set after it | bounded, keeps busy connections, leaks none but orphans |
| API process (`apps/api/server.js`) | the HTTP server, the pool, the WebSocket clients | bootstrap, signals, drain, closeAll, forced exit | handlers that outlive their clients, clients that never leave | exit(0) leaves no client without its answer and no connection open |
| Rate limiter (`A/middleware/rateLimit.middleware.js`) | counters in Redis | INCR, EXPIRE | a crash or a lost reply between the two, a client that has ended | limits hold in any window, and end |
| Redis clients (`A/services/redis.js`) | status, attempts to reconnect | commands, retryStrategy | no offline queue, an end that is final | |
| User and role routes (`A/api/v1/routes/user.routes.js`, `role.routes.js`) | users and roles of a tenant | invite, change role, delete, restore; create, update, delete | look up, await, save; indexes that see what queries do not | distinct emails, no lost update |
| Errors, audit log (`A/core/errors.js`, `A/middleware/error.middleware.js`, `audit.middleware.js`) | the log | errorMiddleware, auditMiddleware | insertion behind the response, errors of libraries | 5xx only for faults and for callers without any permission |
| API keys (`A/api/v1/routes/apiKey.routes.js`, `A/models/master/ApiKey.model.js`, `A/middleware/auth.middleware.js`) | key records | create, revoke, authenticate, record a use behind the response, expire | count before create, saves of copies loaded earlier | the plan's quota, a revocation is final |
| File routes (`A/api/v1/routes/file.routes.js`, `A/models/tenant/File.model.js`) | status and deletedAt of each file record | upload URL, confirm, delete, restore | overlapping saves mix path by path | a deleted file stays deleted until it is restored |
| RBAC middleware (`A/middleware/rbac.middleware.js`) | none | requirePermission | | the permissions of the role or the key decide |
| Admin routes (`A/api/admin/index.js`) | none of their own | suspend, restore, listings | their handlers are never reached: see section 6 | |
| Quota engine, object storage, policy engine, DSL, job processors, realtime messages, notifications, webhooks, export, search, schemas, passwords, logging, infrastructure | see PROJECT.json "components" | | single reads and writes, pure functions or stubs | |

**Interactions.** A request passes the tenant middleware (cached tenant record),
the request scope (registers the models on the connection), the rate limiter,
`authenticate` (JWT and blacklist), the RBAC check of the permissions *in the
token*, and its handler. Login and refresh call the permission engine, whose
result is signed into the access token. User routes emit `user.role_changed` on
the in-process EventBus, whose handler deletes the cached permissions after the
response. The provisioner calls every model, MinIO and the token store. Workers
share nothing with the API but MongoDB and Redis. Cron handlers run under a Redis
lock. API processes share only MongoDB, Redis and MinIO.

The hazards this gives rise to are listed one by one, with their lines, in
PROJECT.json "hazards".

---

## 2. Modules

| Module | What it is |
|---|---|
| `JobQueue` | One queue, its workers and retryDLQ callers, Redis command by Redis command |
| `JobLedger` | What a queue promises about each job, without queues or workers |
| `JobQueueLedger` | The refinement mapping from JobQueue to JobLedger |
| `AuthSessions` | Login, refresh, logout and authenticate against Redis, with a clock and outages |
| `CronFleet` | One cron job of several instances under its Redis lock; its handler feeds the queue of JobQueue |
| `ConnectionPool` | getConnection and eviction for overlapping requests |
| `ApiProcess` | bootstrap, drain and shutdown of an API process; composes ConnectionPool |
| `LoginLockout` | The lockout counter of one account under overlapping logins |
| `RedisClient` | The connection of a process's Redis client and its retry strategy |
| `LoginGuards` | The login limiter in front of LoginLockout, on a RedisClient |
| `TenantLimiter` | The budget of a tenant per window, beside LoginGuards on the same client |
| `PermissionCache` | Role, cached permissions, permissions in tokens, invalidation |
| `TenantProvisioning` | provision for overlapping signups |
| `TenantGate` | tenantMiddleware and its cached statuses; composes TenantProvisioning |
| `TenantRequests` | Requests by users and API keys on files and keys; composes FileRecords, ApiKeys, Documents and Rbac |
| `TenantMembers` | Requests on users and roles, their answers and their audit entries; composes TenantRequests, Errors and AuditTrail |
| `Errors` | What an error is answered with |
| `AuditTrail` | Which requests leave an entry, and of which severity |
| `FileRecords`, `ApiKeys` | The records and what the routes do to them |
| `Documents` | mongoose's `save()` |
| `Rbac` | The permission check, the system roles |
| `MCxxx` | Instances for TLC: symmetry sets and the values a .cfg cannot write |
| `JobQueueProofs` | Theorems about the queue, its ledger and the cron fleet |
| `AuthSessionsProofs`, `ConnectionPoolProofs`, `PermissionCacheProofs` | Theorems about sessions, the pool and its process, permissions |
| `LoginGuardsProofs` | Theorems about the lockout and both limiters |
| `TenantGateProofs`, `TenantRequestsProofs`, `TenantMembersProofs` | Theorems about provisioning and the gate, records, members |

### JobQueue

`zset` holds the members of the four ZSETs and, as `due`, those of delayed whose
`runAt` has passed; `score` the scores in waiting; `hash` what the job hashes say.
`proc` is a worker's `_poll` (`step`, `left`, `promo` for the ids that
`_promoteDelayed` has read, `batch` for the promises it awaits), its `_activeJobs`
(`tracked`) and what `stop()` waits for; `run` is one `_process` call per slot;
`retry` one `retryDLQ` call per caller. Each action is the code from one `await` to
the next. `Scan` and `Promote` are apart because the ids are read by one command and
moved by another; `FailRead` … `FailMove` are the five commands of `fail()`;
`Complete` is one pipeline. A failing pipeline is silent in ioredis (`exec()`
resolves) and any other failing command rejects: `PollError`, `PromoteError`,
`ProcessError`, `RetryError`. The client sends a command again whose reply was lost
with the connection. For the script of `dequeue` that is `PopUnanswered`: the script
pops once more, and what it popped first stays in active. The other commands of
`_poll`, `fail`, `complete` and `retryDLQ` may be repeated without harm while one
process works on the queue. Between processes a repeated zadd may put a job back;
that is followed for `add`, in CronFleet, and left out for the other commands. When
the hgetall of `dequeue` fails, the script before
it has already moved the job: that is the second disjunct of `PollError`. `Pop`
joins the script, its hgetall and the start of `_process`, since between them nobody
else can touch the job and nothing of `proc` changes; what a failure or a crash in
between does is in `PollError` and `Crash`.

`abandoned` is a history variable: the jobs that an execution or a retry dropped
because a command failed or a process died. The code has no recovery for them
(nothing reads the active ZSET back), so the properties say that *only* those
are lost.

### CronFleet

`tick` numbers the ticks of the schedule, `fired` holds the instances whose clock
has passed the present one, so that instances fire a tick in any order and with
any delay; `lock` is the Redis key, `handler` where each instance's scheduled
function stands. The DEL does not ask whose lock it deletes, as in the code.
The Redis client of the process has the defaults of ioredis, and so a command whose
reply is lost is sent again: `FireUnanswered` for the SET, after which the instance
finds its own key and skips the tick; `UnlockUnanswered` for the DEL, which is then
executed again, at any time before the next tick; `HandleUnanswered` and
`HandleAgain` for the pipeline of `add`, whose job, in `adding`, may have been popped
by then (`putBack` keeps the jobs that the repetition changed). `event` is the
history of the tick: somebody tried it, it was `served` (a job was added) or
`dropped` (the instance that took the lock went down, failed, or never learnt that
it has the lock), the lock ran out under a handler (`outlived`), a DEL had to be sent
again (`resent`). Handlers end, and locks of an earlier tick run out, before the next
tick: every job registered has an interval
of an hour or more and a lock that lives shorter. `Polling` instances
run JobQueue's polls; the others only fire.

### AuthSessions

JWTs are the ids in their `jti`. The clock runs in ticks, `Ticks` to a second,
because `exp` and the blacklist TTL are whole seconds and the keys expire
between them. `req` holds where a handler stands; every await is a step. While
Redis is down a read of TokenStore answers null or false, a store or a
blacklisting is dropped in silence, and the DEL of a rotation rejects, executed or
not. `loggedOut`, `rotations` and `lateUses` are histories, and so is `hit`: the
sessions that a fault cost their token (an outage around the DEL and the SET of a
rotation, a failing lookup after it). Refresh tokens (7 days) do not expire.

### ConnectionPool

`pool` is the Map, `state` the readyState of every connection ever opened, `req` the
requests in `getConnection` or using what it returned. `Miss` is everything up to
the await, eviction included; `Opened` is what follows it. `asked`, and the `since`
of a request, are histories for the eviction property.

ApiProcess puts the process around it. `phase` is where bootstrap or shutdown
stands, `sockets` the open WebSocket connections, `gone` the requests whose client
has hung up while the handler awaits its connection: `server.close` waits for
connections, not for handlers. `CloseAll` starts all closes, `Clear` empties the Map
once they have settled; what a late handler opens meanwhile is in `late`, what an
entry gave up without closing it in `orphans` (both histories). A second signal runs
the same callback again, which finds nothing left to do, and is left out.

### LoginLockout

A request loads the document, awaits the comparison, changes its copy and saves
it; `Saved` is what mongoose's `save()` does, a `$set` of the changed paths
without a condition. `guesses` counts wrong passwords since the last lock or
success.

LoginGuards puts `loginRateLimit` in front of it. `counter` is the Redis key of an
address, `gate` where a request stands in the middleware: INCR and EXPIRE are two
steps. `IncrUnanswered` is the INCR whose reply is lost with the connection and
which ioredis sends again; a command of a client that is not ready is rejected, and
the limiter answers 500. `recent` (how many were let in during the last `i` ticks,
for each `i` up to Window) and `lost` (counters that never got their EXPIRE) are
histories. Counter values above the limit are one value (`Incremented`), because the
code does not tell them apart.
TenantLimiter has the other limiter, with a key per window, and a behaviour has
traffic of one of the two: they share no key and no request. There, no INCR is under
way past the window after its own (a guard of `FrontTick`): a command is answered or
rejected within seconds.

### PermissionCache

One user. A permission set is the role it comes from, or `Blank` for `[]`:
`customRoleId` and `permissionOverrides` are set by no route, so the loader
awaits nothing. `db.model('Role')` throws in a process that has not yet
registered the model (`ready`), and the catch answers `[]`, which `wrap` caches.
`life` abstracts the tokens to the time left to the last one of each permission
set. `quiet` measures time since a loss of rights or the last request that
overlapped with it; `lost` records that an invalidation was dropped.

### TenantProvisioning and TenantGate

A slug is the suffix that `_generateSlug` tries; each step of `provision` is an
action; `Reject` is a failing await or a dead process. The only statuses are
provisioning and active: the admin routes that would set others are not reached
(section 6). A restarted provisioning is another signup. TenantGate puts the
middleware in front: `copies` are the cached statuses under the slug or the id,
`visit` a request between `findOne` and `cache.set`, `misjudged` the tenants judged by
an old status after `GateTTL` of quiet.

### TenantRequests

`file` and `key` are the records in MongoDB, reduced to the paths that decide
something; `req` is where a request's handler stands and the document it has
loaded; `usage` is the copy of a key whose `recordUsage()` is still to be saved
behind the response. Loading and saving are apart, because every handler awaits
the one before the other. `Documents!Saved` is the `$set` of the changed paths:
overlapping saves of different paths mix. A request by an API key has no user
id, and `uploadedBy` and `createdBy` are required, so `File.create` and
`ApiKey.create` reject it (`who \in Roles` in `RequestUpload` and `StoreKey`).
Plans with an infinite quota never reach it and are left out: `Quota` is a number.

### TenantMembers

`user` and `role` are the documents, `work` where each request's handler stands. As
before, finding and saving are apart. Queries for users leave deleted ones out, the
unique index does not; roles have no such hook. The array of a role's permissions is
replaced as a whole, for which mongoose's `save()` asks for the version it loaded;
`newest` says whether that version is still stored. `status` is what
`errorMiddleware` makes of the error, `Finish` the audit entry behind the response,
of which the severity is kept. A caller is the set of permissions in its token or
key. The empty set is a caller like the others: `requirePermission` then asks the
permission engine, which needs an `_id` that the user of the context does not have,
and the TypeError is a 500 (`Rbac!refusal`). `fault` is one flag for everything a 5xx
can be excused by: a rejected call, a save that met a newer version, a caller without
any permission. No handler works on
two of the collections, so a behaviour has requests of one kind (`Kinds`): files and
keys, users, or roles. The number of states is then the sum over the kinds.

---

## 3. Properties

* `Accounted`: a job that was added is in a queue, in hand, completed, or was
  dropped by a recorded fault.
* `OneOwner`: a job is in one place at a time (one worker process).
* `HashAgrees`: the hash tells the truth about the ZSETs, and exactly maxAttempts
  failures precede the dlq.
* `FleetWithinConcurrency`: a worker never runs more than `concurrency` jobs, unless an
  `add` sent again has put back a job.
* `EverySettles`: every waiting job is eventually completed, buried or dropped.
* `ImplementsLedger`: one worker process and its retries implement JobLedger.
* `LoggedOutIsRefused`: a token whose blacklisting was taken passes later only
  when it expires on the way.
* `SessionSurvives`: a session that no fault has hit keeps a refresh token that
  works, however refreshes overlap. `RotatedIsDead`: rotation revives no token.
* `PoolBounded`: the pool exceeds maxConnections by at most the number of other
  requests. `BusyTenantsKept`: a connection in use is evicted only when
  maxConnections other tenants have asked since. `OnlyOrphansLeak`: an open
  connection belongs to an entry, or an entry gave it up. `GracefulExit`: exit(0)
  leaves no client without its answer, and open only what is an orphan or came late.
* `HandlersApart`: two instances run the handler of one tick at once only if a lock
  ran out under a handler or a DEL was sent again. `TickServed`: a tick that somebody
  tries is skipped by all only if the instance that took the lock went down, failed
  to add the job, or lost the reply to its SET.
* `GuessesBounded`: overlapping logins get at most a computed number of guesses.
  `LockHolds`: only a right password that saw an expired lock lifts a lock in force.
  `LoginsLimited`: no Window ticks let in more than twice the limit from one
  address. `CountersEnd`: a counter that never ends takes a fault. `WindowBudgets`:
  the windows of a tenant keep to their budgets and do not charge each other.
* `OldRightsEnd`: lost rights live at most one cache lifetime and one token
  lifetime. `InvalidationWorks`: the cache is wrong only for one of the named
  reasons. `SettlesOnRole`: a user left alone ends up with the present role's rights
  only.
* `SlugsDistinct`, `ActiveIsComplete`: see section 1. `GateFollows`: after GateTTL
  of quiet the gate judges by the present status.
* `KeysBounded`: a tenant's active API keys exceed its plan's quota by at most the
  number of other requests. `RevocationHolds`: no save of an older copy makes a
  revoked key active again. `DeletionHolds`: a deleted file becomes visible only by
  a restore that found it deleted.
* `EmailsDistinct`: no two users that can be seen share an email. `NoUpdateLost`: a
  role's permissions are replaced only by a request that had read the replaced ones.
  `InternalErrorsExplained`: 5xx answers and critical audit entries take a fault or a
  caller without any permission; a lost race, or one missing permission, is the
  client's error.

Each module has one type invariant besides. For every property of a passing
run, PROJECT.json "mutants" names a plausible bug of the code that violates it.
The mutated operators stand beside the originals and are used by nothing.

---

## 4. Runs

| Run | Bounds | What it shows |
|---|---|---|
| `JobQueueSingle` | 2 jobs of different priority, 1 worker with 2 slots, 1 retrier, 2 attempts, one exit, one failing command, one retry | TypeOK, OneOwner, HashAgrees, ImplementsLedger through stops, crashes, restarts and errors |
| `JobQueueBound` | 2 ticks of a cron job, 3 instances of which one polls, 3 jobs, 3 slots, concurrency 2, one failing or unanswered command, one exit, within `Focus` (below) | FleetWithinConcurrency, though a rejected dequeue makes `_poll` forget its batch; HandlersApart, TickServed |
| `JobQueueFleet` | 1 job, 2 workers, 1 retrier, one stop or crash, one retry, fair | Accounted and EverySettles with two processes that promote from stale reads |
| `JobQueueDouble` | 1 job, 2 workers, no fault | *violation* of MovedAtomically |
| `AuthSessions` | 1 user, 3 access and 3 refresh tokens, 2 requests, 2 ticks to a second, one outage, one failing lookup | LoggedOutIsRefused, SessionSurvives, RotatedIsDead |
| `AuthLogout` | 1 request, no fault | *violation* of LogoutEndsSession |
| `ConnectionPool` | 3 tenants, 3 connections, 2 requests, capacity 2, one drop, one WebSocket client, start and shutdown | PoolBounded, BusyTenantsKept, GracefulExit, OnlyOrphansLeak |
| `LoginLockout` | 3 requests, lock after 2 for 2 ticks, 4 ticks; limiter of 3 in 3 ticks, one address, one attempt to reconnect; or 2 calls, 1 in a window of 2 ticks | GuessesBounded, LockHolds, LoginsLimited, CountersEnd, WindowBudgets |
| `PermissionCache` | 2 roles, 2 requests, cache lifetime 2, token lifetime 1, fair | OldRightsEnd, InvalidationWorks, SettlesOnRole; outages, crashes, deletions unbounded |
| `PermissionStart` | 1 request, no fault | *violation* of GrantsComplete |
| `TenantGate` | 2 signups of one name, 1 suffix, 1 visitor, copies of lifetime 2 | SlugsDistinct, ActiveIsComplete, GateFollows |
| `TenantRequests` | 2 requests; 1 file, 3 keys, quota 1, an admin, keys with all scopes and with `files:*`; or 2 users, 2 emails; or 2 custom roles, 2 names of which one is a system role's, 3 sets of permissions; callers with an admin's permissions, a viewer's and none | KeysBounded, RevocationHolds, DeletionHolds, EmailsDistinct, NoUpdateLost, InternalErrorsExplained |

**Why the bounds are enough to meet the interesting cases.** The queue's races are
between two actors and one job (promotion, pop, retry), so two workers and one job
meet them all; two jobs are needed for order, replaced promises and a batch of two,
three jobs to overfill a concurrency of two. Two attempts make both outcomes of `fail`
happen. Two requests overlap in every pair of places. Three tokens of each kind allow
two overlapping refreshes of one token and a login besides. Two ticks to a second make
every rounding happen. Two requests on a pool of two reach its overshoot, and three
tenants give an evicted one two successors; a shutdown meets every pair of places of
the two, and one WebSocket client is enough to hold it up. With three overlapping
logins the bound is reached exactly. Four ticks hold the end of one limiter window of
three and the start of the next, and with three requests under way at once the fourth
and later ones are refused or meet the boundary. One attempt to reconnect ends the
client as five do. Three instances meet every order of firing, deleting and expiring,
a lock of a second that the first deletes included, for which a third is waiting; the
second tick shows what a crash in the first leaves behind. Two users and two emails
are enough for an email to be freed by a deletion, asked for anew and claimed back by
a restore; two updates of one role overlap with its deletion and with a creation of
the same name. One lost invalidation followed by a second change needs two requests.
One visitor suffices for a stale copy: the copies, not the visitors, carry the status
on. Two requests on one file overlap in every pair of operations; with a quota of one
and two requests three keys are enough to exceed the bound by one. Budgets (`Budget`,
`MaxOutages`, `MaxDbErrors`, `MaxDrops`), clocks (`MaxTime`, `MaxTicks`) and supplies
(`MaxConns`, tokens, jobs, users, custom roles) are bounds of the model only.

**Where the run of the fleet is cut** (`Focus` of MCCronFleet). The instance that
polls may work on the queue only when all instances have fired the tick, while the
others are up, run no handler and do not have the lock, and while at most one of the
two faults has happened; its own handler runs beside its polls. The schedule itself,
with all its faults and locks, is followed without such limits while the queue is at
rest. Nothing is followed after an `add` sent again has put back a job, for then
`FleetWithinConcurrency` promises nothing. The theorems know no such limits.

**Deadlock** is checked except where a finite clock or supply of ids ends the
run; each such .cfg says so.

**Fairness.** `JobQueue!Fairness`: timers fire and awaited commands return while
the process lives; a processor settles or is timed out (`_timeout` in
`Worker.js`); `stop()` leads to `process.exit`; a process that ended is started
again (`restart: unless-stopped`, docker-compose.yml:63). Nothing obliges anyone to
add, stop, crash or retry. The fairness is weak: each of these stays enabled
until it happens. `PermissionCache!FairSpec`: awaited calls return and time
passes; no fairness on requests, deletions, restarts or on Redis coming back.

---

## 5. Proofs

The proofs hold for every value of the constants that the named assumptions admit:
any number of jobs, workers, slots, retriers, instances, tenants, signups, visitors,
tokens and requests, any limits, windows and lifetimes, any number of addresses,
users and roles. `PoolAssumption`, `LockoutAssumption` and `RequestsAssumption` ask
for finite sets of requests (and tenants, and keys), `JobQueueAssumption` for
finitely many slots; `ApiAssumption` says that "no exit code" is no exit code,
`CallsAssumption` that a window of a tenant has a length; the other assumptions are
about types. The clocks and budgets of the models are constants too, so the theorems
cover every bound. Three theorems about the queue have a hypothesis of their own
(`OneWorker` and `OneRetrier`), one about cron has `OnePoller`, and one about the
lockout has two requests; why is said with them.

**The queue and its workers** (`JobQueueProofs`)

* **`TypeCorrect`.** Inductive as it stands, like `PermissionTypeCorrect` and
  `RequestTypeCorrect` below.
* **`NoJobVanishes` (`Accounted`).** Inductive together with TypeOK. Each step
  touches one job only, that of its actor, and lets go of it only by completing
  it, moving it to a queue or dropping it in a recorded fault. The lemmas
  `InHand` and `HeldKept` say that a step of one slot changes what that slot
  holds and nothing else; note that two slots *may* hold the same job, so the
  argument never assumes one owner.
* **`OwnersAreSingle` (`OneOwner`), `HashesAgree` (`HashAgrees`).** For one worker
  process and one retryDLQ call at a time. Neither is inductive. `SoloInv` is: `Placed`
  says for each job where it may be and what its hash then says; `Recorded` what
  `fail()` has written by the command it is at, `Reviving` the same for `retryDLQ`;
  and the ids that a promotion has read are still due (`promo` is part of `due`). Two
  workers break the last part, as the run `JobQueueDouble` shows, and two retryDLQ
  calls break `Reviving`: both find the job by its zscore, and the second puts it
  back into waiting after the first has and a worker has popped it. The hypotheses
  exclude these two races and nothing else: crashes, stops and restarts of the
  process, failing commands and concurrent slots are all included.
* **`LedgerIsKept` (`ImplementsLedger`).** The refinement of JobLedger, from the same
  invariant. `Facts` gives the row of the ledger for each place a job can be in;
  `RowSame` says when a row stays; and each action then moves one row (`LedgerMoves`),
  loses some (`LedgerLoses`) or none. Between the hset of the attempts and the last
  command of `fail()` the stored count is one ahead of the ledger's; that `Recorded`
  knows `tries` to be the stored count there makes burial exact.
* **`ConcurrencyIsKept` (`FleetWithinConcurrency`).** For one polling instance among
  any number (`OnePoller`), and as long as no `add` sent again has put back a job,
  from `SoloInv` and `RoomInv`: `_activeJobs` has exactly the busy slots, and the
  iterations left of the loop of `_poll` fit beside them. The first half fails when
  one job is in two slots, because `_activeJobs` is keyed by the job: this is why the
  proof needs `SoloInv`, and with it one poller.
* **`HandlersStayApart` (`HandlersApart`), `TicksAreServed` (`TickServed`).** For any
  number of instances. `CronInv`: whoever is in the handler owns the lock, unless one
  ran out under a handler or a DEL was sent again (`Holding`); a lock that is taken,
  or a tick that was tried, is served, was dropped, or has an instance about to add
  the job (`OnItsWay`).

**Sessions** (`AuthSessionsProofs`)

* **`AuthTypeCorrect`, `LoggedOutStaysRefused`, `SessionsSurvive`, `RotatedStaysDead`.**
  One invariant: a refresh token that is being handed out is in nobody else's hands
  (`RequestOK`), so that only a delivered key is ever deleted and a store never
  brings a deleted one back; what was issued keeps its claims; and the key of a
  blacklisted token outlives the token (`Covered`). The last needs arithmetic about
  ticks and whole seconds: the TTL is set in seconds and runs out between two.

**The pool and its process** (`ConnectionPoolProofs`, all for ApiProcess)

* **`PoolTypeCorrect`, `PoolStaysBounded` (`PoolBounded`).** Inductive with TypeOK. A
  miss that finds a free place raises the sum by one, and then at most every *other*
  request is opening; a miss that evicts keeps it.
* **`OrphansAreKnown` (`OnlyOrphansLeak`).** With TypeOK: a connection leaves its
  entry only by being closed or recorded.
* **`ExitsAreGraceful` (`GracefulExit`).** `ExitPrepared`: from the first close of the
  pool on, nobody but handlers without a client is left, and what is open is known.
* **`BusyStayServed` (`BusyTenantsKept`).** `FairPool`: no two entries share a
  connection, and an entry in use was last used no earlier than its request began
  (`OwnEntries`), and times agree (`InTime`). Evicting the least recently used of a
  full pool then means that all others have been asked for since; the rest counts
  them.

**The login and its guards** (`LoginGuardsProofs`)

* **`LoginTypeCorrect`.** With `LocksAreShort`, below.
* **`LocksHold` (`LockHolds`).** An action property, from the invariant
  `LocksAreShort`: no lock, in the database or in a loaded copy, reaches further
  than LockFor from now. Without it, a failure that locks again could set an
  earlier time than the lock it replaces.
* **`GuessesStayBounded` (`GuessesBounded`).** For two requests and every Limit. A
  request stands at the count it has loaded or would load (`Place`). A wrong password
  that does not lock moves its request one place up, and those that have loaded
  nothing with it, up or down: the pair of places, lower one first, grows in
  lexicographic order, so `guesses` is at most the number of pairs below it
  (`Behind`), and there are `Limit * (Limit + 1) / 2` in all. The general count is a
  sum over any number of requests, by induction, and is not proved; the run checks
  three.
* **`GuardsKeepTheLockout`, `FrontKeepsTheGuards`, `GuardedLocksHold`.** Every step of
  LoginGuards is one of LoginLockout or leaves the account alone (`GuardedStep`), and
  every step of TenantLimiter is one of LoginGuards: what is proved of the account
  holds behind any guard of this shape.
* **`CountersEndSafe` (`CountersEnd`).** Inductive with the types of the limiter. A
  counter has no expiry from its first INCR to its EXPIRE; the request between the
  two is at "expire", or it left by a step that records the fault.
* **`LoginsStayLimited` (`LoginsLimited`).** `WindowKept` follows the fixed window: what
  was let in since its EXPIRE is at most what its key has charged, and what the last
  Window ticks let in before that is one window's. `ExpireOnce`: a key gets its
  expiry once, so that a window is never prolonged.
* **`WindowBudgetsHold` (`WindowBudgets`).** `CallsInv`: the key of a window counts
  every call that goes through in it and no other, because a call is charged to the
  window it came in and the key outlives the calls of its window.

**Permissions** (`PermissionCacheProofs`)

* **`InvalidationsWork` (`InvalidationWorks`), `PermissionTypeCorrect`.** Inductive
  together.
* **`LostRightsEnd` (`OldRightsEnd`).** `OldRightsEnd` speaks only of the moment
  when quiet reaches its bound and is far from inductive. The invariant follows
  the lost right along its way: while a request that has loaded it has not set the
  cache, quiet is 0 (`LateLoads`); the copy it sets has no more time left than
  CacheTTL less quiet (`LateCopy`), so whoever hits it does so while quiet is below
  CacheTTL (`LateGrants`), and the token it then signs has no more time left than
  Bound less quiet (`LateTokens`).

**Provisioning and the gate** (`TenantGateProofs`)

* **`SlugsStayDistinct`, `ActiveStaysComplete`.** `ProvisioningInv`:
  nothing of a tenant exists before its record does, and what has been set up grows
  with the steps of `provision` (`SetUpBefore`), so that whoever activates finds it
  all. Slugs are distinct by the unique index alone, not by the probe.
* **`GateKeepsUp` (`GateFollows`), `GateTypeCorrect`.** While a request that has found
  an older status is under way, `quiet` is 0 (`LateVisits`); the copy it sets has no
  more time left than GateTTL less `quiet` (`LateCopies`).

**Records and members** (`TenantRequestsProofs`, `TenantMembersProofs`)

* **`RequestTypeCorrect`.** Inductive as it stands.
* **`KeysStayBounded` (`KeysBounded`).** Inductive with TypeOK, and needs the
  requests between the count and the creation: a count finds fewer keys than the
  quota, however many requests are creating by then; a creation turns one of them
  into a key.
* **`RevocationsHold` (`RevocationHolds`), `DeletionsHold` (`DeletionHolds`).**
  Action properties, from TypeOK and what `Saved` leaves alone: the save of a use
  changes nothing (`SavedKey`), and only a restore can change `deletedAt` back.
* **`MembersKeepTheRest`.** Every behaviour of TenantMembers is one of
  TenantRequests (its requests on users and roles stutter there), so what is proved
  of the one holds of the other, as `RecordsHold` says of two properties.
* **`EmailsStayDistinct` (`EmailsDistinct`).** The property speaks of the users that
  can be seen and is not inductive: a restore would break it. The invariant
  `UsersInv` says more, that *all* users have distinct emails, and that no copy
  about to be saved changes one.
* **`UpdatesAreKept` (`NoUpdateLost`).** From `RolesInv`: a copy that is the newest
  has the permissions that are stored. A save that replaces them makes every other
  copy of the role an old one; a creation cannot meet a copy, because a role that
  exists keeps a name and a free place has none.
* **`InternalErrorsHaveCauses` (`InternalErrorsExplained`)**,
  **`MembersTypeCorrect`.** Inductive with the two above; the first needs that each
  error a handler raises by itself is one that `errorMiddleware` knows
  (`ClientErrors`), the refusal of a caller without any permission excepted, the
  second that the system's roles stay what they are, for a custom role only is ever
  saved.

**Model-checked only**: liveness under fairness (`EverySettles`, `SettlesOnRole`),
which is out of the prover's reach; and `GuessesBounded` for more than two requests.
Every other property of a passing run is stated by a theorem.

---

## 6. Where the code and its documentation disagree

Shown by a run:

* **`JobQueueDouble`.** Queue.js documents that a job "moves from waiting → active
  atomically". `_promoteDelayed` reads the due ids in one command and moves them
  in another, so two workers may both promote a job: it is popped, and then
  put back into waiting beside its active entry, and runs twice.
* **`AuthLogout`.** Logout promises to invalidate the tokens. It deletes the
  refresh key named after the `jti` of the *access* token, which no refresh token
  has: the session's refresh token stays usable.
* **`PermissionStart`.** "Resolve the complete permission set for a user": an API
  process that has not served a scoped request has no Role model; the error is
  answered with `[]`, which is cached for 300 seconds for all processes.

Read in the source, and part of the models where they are modelled:

* Queue: promotion and retryDLQ give score 0, so the priority is lost; the active
  ZSET is for "timeout detection" but never read; a timed-out processor runs on
  beside the retry of its job; `stop()` misses a job that a poll under way pops.
* Cron: the lock is to "prevent duplicate execution"
  (`apps/workers/src/index.js:67`). The handler takes milliseconds and deletes its
  lock at once, so an instance whose clock is a little behind finds none and runs
  the same tick again. The DEL does not ask whose lock it is; one that is sent again
  after a lost reply may delete another instance's. A SET that is sent again finds the
  instance's own key, and then nobody runs the tick. A SET that rejects is
  outside the try: that instance skips the tick. An `add` that is sent again may put a
  job back that is already running, and the script of `dequeue` that is sent again
  leaves the job it popped first in active, in nobody's hands.
* Auth: two overlapping refreshes of a token both succeed; an outage between DEL
  and SET costs the session its token (`hit`); a
  logout during an outage answers 200 and the token works again afterwards.
* Limits: the limiter is documented as a sliding window that is "more accurate than
  fixed windows" (rateLimit.middleware.js:9–15) and is a fixed one: twice the limit
  passes across a boundary. A lost EXPIRE, or an INCR that ioredis sends twice,
  leaves a counter that never ends, and its address limited for ever. The status of
  the client is read before the INCR, so a connection lost in between is a 500 where
  the code means to let the request through.
* Redis: "operations fail with a warning instead of crashing the server" and startup
  does not throw (redis.js:8–11). The client ends for good after five attempts, some
  seven seconds, until the process is started again; the login limiter then answers
  every login with 500; and bootstrap exits with 1 when its ping finds the client
  not ready.
* Pool: an entry that is not connected is dropped without being closed, and of two
  overlapping openings one is orphaned. "Close all connections"
  (ConnectionPool.js:142) closes neither.
* Shutdown: `server.close` waits for WebSocket clients, whom nobody tells to leave:
  with one that stays, the forced exit after 30 seconds closes nothing. It does not
  wait for handlers whose client has hung up.
* Permissions: the retries of `EventBus.on` never fire for an invalidation,
  because `del` swallows its error; permissions are in the JWT, so "next request"
  is the next refresh; nothing listens to `user.deleted`.
* Tenants: "if provisioning fails at step 8, restarting continues from step 8"
  (TenantProvisioner.js:28), but nothing reads the progress or the recorded error. A
  second signup finds the slug taken, takes the next and starts from the first step; the
  tenant of the first stays `provisioning`, with its slug, for ever. A lost slug race
  answers 409 and does not try the next suffix.
* Admin: `requireSuperAdmin` (rbac.middleware.js:136) reads a `req.context` that
  nothing sets for admin routes. Every request of an authenticated caller ends in a
  TypeError and a 500, so no tenant can be suspended or restored.
* Permission check: a caller whose token or key carries `[]`, such as a token issued
  after the error of `PermissionStart`, is not denied with 403. The check resolves its
  permissions anew for a user without `_id`, and the TypeError is a 500, audited as
  critical.
* Files and keys: a deletion and a confirmation that overlap leave a hidden file
  with status `uploaded`, and two restores that overlap with a deletion leave a
  listed file with status `deleted`, which can be neither downloaded nor confirmed
  (TLC finds both; no doc says what should happen). A restore takes any status, so a
  file that was never uploaded becomes `uploaded`. An API key with `files:upload` is
  let into `POST /files/upload-url` and rejected by the model there.
* Users and roles: the email of a deleted user can never be invited again, only
  restored: findOne does not see it, the index does, and the answer is 409. Deleted
  roles are still found and changed, and keep their names. Of two overlapping
  updates of a role the second is answered 500, because `errorMiddleware` does not
  know mongoose's VersionError. The route that changes roles takes the owner's, too.
* Audit: "Logs every significant request" (audit.middleware.js:8). The path is read
  when the response has finished, and a router leaves it stripped when its handler
  answers; only requests that end in `errorMiddleware` match the table, so failures
  are recorded and successes are not. (This follows from how Express mounts
  routers.) Auth routes have no context and are never recorded.
* Not modelled: `QuotaEngine.enforce`, which has no caller, throws from 99.5 % of the
  limit on, because it rounds, while `check` allows whatever is below it. The policy
  engine says "Users can only delete themselves or (if admin)" and denies a member who
  deletes himself. `can.assert` of PermissionDSL.js requires `./core/errors`, which
  does not exist. `release` of the pool deletes the entry of its tenant after it has
  awaited the close, even if that is a newer one.

---

## 7. Not modelled, and why

PROJECT.json "components" gives the reason for each part. In short: pure functions
(policy engine, DSL, encryption), single reads and writes (notification, search and
audit routes), stubs (processors, exports), formatting and configuration. Of
modelled components these parts are left out: heartbeats and statistics of workers,
a processor that runs on after its timeout, `release` and `healthCheck` of the pool
(without callers), `signup` and `me` of the auth controller, listings, what an audit
entry holds besides its severity, the signup and password-reset limiters (the
login's with other constants), and the isolated and dedicated database strategies,
which no route sets.

Abstractions: tokens, jobs, slugs and permission sets are names; a clock tick
stands for any time; MongoDB and Redis commands are atomic, and Redis
evicts no key (docker-compose.yml:158 would let it, at 512 MB); a read whose result
decides nothing is left out.

---

## 8. Plan

Done, in this order: the job queue and its ledger; sessions; pool; lockout;
permissions; provisioning and the gate; files and API keys; the first proofs; the
limiters on a Redis client that ends; the cron fleet on the queue; the API process
around its pool; users, roles, errors and the audit log, with their proofs.

Then the proofs of provisioning and the gate, sessions, the API process and its
pool, both limiters, the one-worker queue with its refinement, and the cron lock.

Next:

1. Proofs: `GuessesBounded` for three requests; which parts of `SoloInv` survive a
   second worker (what a stale promotion can and cannot disturb).
2. `signup` of the auth controller, as the composition of TenantProvisioning and
   AuthSessions: the first session of a tenant whose activation may fail.
3. The processor that runs on after its timeout, beside the retry of its job.
