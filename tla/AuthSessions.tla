----------------------------- MODULE AuthSessions -----------------------------
(***************************************************************************)
(* Sessions of the API: login, refresh and logout of auth.controller.js,   *)
(* the Redis keys of TokenStore.js behind them, and authenticateJwt of     *)
(* auth.middleware.js. Requests interleave at every await. While Redis is  *)
(* down a TokenStore read answers null or false, a store or a blacklisting *)
(* is dropped without an error, and a delete rejects.                      *)
(*                                                                         *)
(* JWTs are the ids they carry in `jti`. Time is counted in ticks, several *)
(* to a second: exp and TTLs are whole seconds. Refresh tokens (7 days) do *)
(* not expire here.                                                        *)
(***************************************************************************)
EXTENDS Integers, FiniteSets

CONSTANTS
  Users,
  Access,     \* jtis of access tokens
  Refresh,    \* jtis of refresh tokens
  Requests,   \* requests the API serves at a time
  None,       \* no token
  Ticks,      \* ticks to a second
  AccessTTL,  \* config.jwt.accessExpiry in seconds
  MaxTime,    \* bound: the last tick
  MaxOutages, \* bound: times Redis goes down
  MaxDbErrors \* bound: failed permission lookups after a rotation

ASSUME AuthAssumption ==
  /\ None \notin Access \cup Refresh
  /\ Access \cap Refresh = {}
  /\ Ticks \in Nat \ {0} /\ AccessTTL \in Nat \ {0}
  /\ MaxTime \in Nat /\ MaxOutages \in Nat /\ MaxDbErrors \in Nat

VARIABLES
  now,        \* the clock, in ticks
  redisUp,    \* whether the client's status is 'ready'
  refreshKeys,\* jtis whose refresh key is in Redis
  blacklist,  \* jti -> tick at which its blacklist key expires (0: none)
  active,     \* users with status active and not deleted
  issued,     \* jti -> the JWT's claims, once issued
  delivered,  \* tokens a response has carried to the client
  req,        \* request -> where its handler stands
  loggedOut,  \* access tokens blacklisted in Redis whose logout has answered
  rotations,  \* refresh jti -> how often it was exchanged for a new one
  hit,        \* sessions that a fault cost the token they were being given
  lateUses,   \* tokens that Redis let pass in a request begun after their logout
  outages, dbErrors

vars == <<now, redisUp, refreshKeys, blacklist, active, issued, delivered, req,
          loggedOut, rotations, hit, lateUses, outages, dbErrors>>
clock == <<now, redisUp, active, outages>>
ghosts == <<loggedOut, rotations, hit, lateUses>>

Second(t) == t \div Ticks

NotIssued == [user |-> None, login |-> None, exp |-> 0]
\* user: claim sub; login: the refresh jti its session began with; exp: seconds
Claims == [user : Users, login : Refresh, exp : Nat]

Idle == [step |-> "idle", token |-> None, fresh |-> None, noted |-> FALSE]
\* noted, in check: the token's logout had answered before; in drop: Redis took
\* the blacklist key
Steps == {"login", "user", "delete", "store", "grant", "check", "logout", "drop"}
Serving == [step : Steps, token : Access \cup Refresh, fresh : Refresh \cup {None},
            noted : BOOLEAN]

TypeOK ==
  /\ now \in 0..MaxTime /\ redisUp \in BOOLEAN
  /\ refreshKeys \subseteq Refresh
  /\ blacklist \in [Access -> Nat]
  /\ active \subseteq Users
  /\ issued \in [Access \cup Refresh -> Claims \cup {NotIssued}]
  /\ delivered \subseteq Access \cup Refresh
  /\ req \in [Requests -> Serving \cup {Idle}]
  /\ loggedOut \subseteq Access /\ lateUses \subseteq Access
  /\ rotations \in [Refresh -> Nat] /\ hit \subseteq Refresh
  /\ outages \in 0..MaxOutages /\ dbErrors \in 0..MaxDbErrors

Init ==
  /\ now = 0 /\ redisUp = TRUE /\ refreshKeys = {}
  /\ blacklist = [a \in Access |-> 0]
  /\ active = Users
  /\ issued = [t \in Access \cup Refresh |-> NotIssued]
  /\ delivered = {}
  /\ req = [r \in Requests |-> Idle]
  /\ loggedOut = {} /\ lateUses = {} /\ rotations = [f \in Refresh |-> 0]
  /\ hit = {}
  /\ outages = 0 /\ dbErrors = 0

-----------------------------------------------------------------------------
(* JwtService.                                                             *)

Unused(t) == issued[t] = NotIssued
Expired(a) == Second(now) >= issued[a].exp

\* Mutant of AccessClaims: the lifetime is subtracted.
ClaimsInThePast(user, login) ==
  [user |-> user, login |-> login, exp |-> Second(now) - AccessTTL]
AccessClaims(user, login) ==
  [user |-> user, login |-> login, exp |-> Second(now) + AccessTTL]

\* Mutant of remainingTTL: the second that has begun is counted as gone.
remainingTTLRoundedUp(a) ==
  LET left == issued[a].exp - Second(now) - 1 IN IF left > 0 THEN left ELSE 0
remainingTTL(a) ==
  LET left == issued[a].exp - Second(now) IN IF left > 0 THEN left ELSE 0

Blacklisted(a) == now < blacklist[a]

\* storeRefreshToken swallows its error: the token is sent all the same.
MissedBy(session) == hit' = IF redisUp THEN hit ELSE hit \cup {session}

-----------------------------------------------------------------------------

Goto(r, next) == req' = [req EXCEPT ![r] = next]
Answer(r) == Goto(r, Idle)

\* login, from the password check to issueTokenPair's await of the store: both
\* JWTs are signed in one turn. A refresh token belongs to the session it opens.
Login(r, u, a, f) ==
  /\ req[r] = Idle
  /\ u \in active
  /\ Unused(a) /\ Unused(f)
  /\ issued' = [issued EXCEPT ![a] = AccessClaims(u, f),
                              ![f] = [user |-> u, login |-> f, exp |-> 0]]
  /\ Goto(r, [step |-> "login", token |-> a, fresh |-> f, noted |-> FALSE])
  /\ UNCHANGED <<clock, refreshKeys, blacklist, delivered, ghosts, dbErrors>>

\* storeRefreshToken, then the response
LoginStore(r) ==
  /\ req[r].step = "login"
  /\ refreshKeys' = IF redisUp THEN refreshKeys \cup {req[r].fresh} ELSE refreshKeys
  /\ delivered' = delivered \cup {req[r].token, req[r].fresh}
  /\ MissedBy(req[r].fresh)
  /\ Answer(r)
  /\ UNCHANGED <<clock, blacklist, issued, loggedOut, rotations, lateUses, dbErrors>>

\* refresh: verifyRefreshToken and getRefreshToken. A miss answers 401 and
\* changes nothing.
RefreshGet(r, f) ==
  /\ req[r] = Idle
  /\ f \in delivered
  /\ redisUp /\ f \in refreshKeys
  /\ Goto(r, [step |-> "user", token |-> f, fresh |-> None, noted |-> FALSE])
  /\ UNCHANGED <<clock, refreshKeys, blacklist, issued, delivered, ghosts, dbErrors>>

\* Tenant.findById, User.findById, isActive
RefreshUser(r) ==
  /\ req[r].step = "user"
  /\ IF issued[req[r].token].user \in active
     THEN Goto(r, [req[r] EXCEPT !.step = "delete"])
     ELSE Answer(r)
  /\ UNCHANGED <<clock, refreshKeys, blacklist, issued, delivered, ghosts, dbErrors>>

\* rotateRefreshToken: DEL of the old key, whose count nobody looks at. When the
\* connection is lost it rejects, executed or not.
RefreshDelete(r) ==
  /\ req[r].step = "delete"
  /\ refreshKeys' \in {refreshKeys \ {req[r].token}} \cup (IF redisUp THEN {} ELSE {refreshKeys})
  /\ IF redisUp
     THEN Goto(r, [req[r] EXCEPT !.step = "store"]) /\ UNCHANGED hit
     ELSE /\ hit' = IF refreshKeys' = refreshKeys THEN hit
                     ELSE hit \cup {issued[req[r].token].login}
          /\ Answer(r)
  /\ UNCHANGED <<clock, blacklist, issued, delivered, loggedOut, rotations, lateUses, dbErrors>>

\* Mutants of Stored: the new key is set under the old jti; or not at all.
StoredUnderOld(r, g) == refreshKeys \cup {req[r].token}
StoredNot(r, g) == refreshKeys
Stored(r, g) == refreshKeys \cup {g}

\* rotateRefreshToken: sign the new refresh token and SET its key
RefreshStore(r, g) ==
  /\ req[r].step = "store"
  /\ Unused(g)
  /\ issued' = [issued EXCEPT ![g] = issued[req[r].token]]
  /\ refreshKeys' = IF redisUp THEN Stored(r, g) ELSE refreshKeys
  /\ rotations' = [rotations EXCEPT ![req[r].token] = @ + 1]
  /\ MissedBy(issued[req[r].token].login)
  /\ Goto(r, [req[r] EXCEPT !.step = "grant", !.fresh = g])
  /\ UNCHANGED <<clock, blacklist, delivered, loggedOut, lateUses, dbErrors>>

\* resolvePermissions, issueAccessToken and the response
RefreshGrant(r, a) ==
  /\ req[r].step = "grant"
  /\ Unused(a)
  /\ issued' = [issued EXCEPT ![a] =
       AccessClaims(issued[req[r].fresh].user, issued[req[r].fresh].login)]
  /\ delivered' = delivered \cup {a, req[r].fresh}
  /\ Answer(r)
  /\ UNCHANGED <<clock, refreshKeys, blacklist, ghosts, dbErrors>>

\* resolvePermissions rejects: 500, and the new refresh token is not sent
RefreshGrantFails(r) ==
  /\ req[r].step = "grant"
  /\ dbErrors < MaxDbErrors
  /\ dbErrors' = dbErrors + 1
  /\ hit' = hit \cup {issued[req[r].fresh].login}
  /\ Answer(r)
  /\ UNCHANGED <<clock, refreshKeys, blacklist, issued, delivered, loggedOut, rotations, lateUses>>

\* authenticateJwt: verifyAccessToken
AuthVerify(r, a) ==
  /\ req[r] = Idle
  /\ a \in delivered
  /\ ~ Expired(a)
  /\ Goto(r, [step |-> "check", token |-> a, fresh |-> None, noted |-> a \in loggedOut])
  /\ UNCHANGED <<clock, refreshKeys, blacklist, issued, delivered, ghosts, dbErrors>>

Accepts(a) == ~ redisUp \/ ~ Blacklisted(a)

\* authenticateJwt: isBlacklisted, then the handler, logout or another one
AuthCheck(r) ==
  /\ req[r].step = "check"
  /\ lateUses' = IF Accepts(req[r].token) /\ req[r].noted /\ redisUp
                 THEN lateUses \cup {req[r].token} ELSE lateUses
  /\ \/ Answer(r)
     \/ Accepts(req[r].token) /\ Goto(r, [req[r] EXCEPT !.step = "logout", !.noted = FALSE])
  /\ UNCHANGED <<clock, refreshKeys, blacklist, issued, delivered, loggedOut,
                 rotations, hit, dbErrors>>

\* logout, behind authenticate: blacklistAccessToken swallows every error
LogoutBlacklist(r) ==
  LET a == req[r].token IN
  /\ req[r].step = "logout"
  /\ blacklist' = IF redisUp /\ remainingTTL(a) > 0
                  THEN [blacklist EXCEPT ![a] = now + Ticks * remainingTTL(a)]
                  ELSE blacklist
  /\ Goto(r, [req[r] EXCEPT !.step = "drop", !.noted = redisUp])
  /\ UNCHANGED <<clock, refreshKeys, issued, delivered, ghosts, dbErrors>>

\* logout: deleteRefreshToken of the access token's jti, whose errors are
\* swallowed, and the response
LogoutDrop(r) ==
  /\ req[r].step = "drop"
  /\ refreshKeys' = IF redisUp THEN refreshKeys \ {req[r].token} ELSE refreshKeys
  /\ loggedOut' = IF req[r].noted THEN loggedOut \cup {req[r].token} ELSE loggedOut
  /\ Answer(r)
  /\ UNCHANGED <<clock, blacklist, issued, delivered, rotations, hit, lateUses, dbErrors>>

-----------------------------------------------------------------------------
(* The surroundings.                                                       *)

still == <<refreshKeys, blacklist, issued, delivered, req, ghosts, dbErrors>>

Tick == now < MaxTime /\ now' = now + 1 /\ UNCHANGED <<redisUp, active, outages, still>>

Deactivate(u) ==
  u \in active /\ active' = active \ {u} /\ UNCHANGED <<now, redisUp, outages, still>>

RedisDown ==
  /\ redisUp /\ outages < MaxOutages
  /\ redisUp' = FALSE /\ outages' = outages + 1
  /\ UNCHANGED <<now, active, still>>

RedisBack == ~ redisUp /\ redisUp' = TRUE /\ UNCHANGED <<now, active, outages, still>>

Next ==
  \/ \E r \in Requests :
       \/ \E u \in Users, a \in Access, f \in Refresh : Login(r, u, a, f)
       \/ LoginStore(r)
       \/ \E f \in Refresh : RefreshGet(r, f) \/ RefreshStore(r, f)
       \/ RefreshUser(r) \/ RefreshDelete(r) \/ RefreshGrantFails(r)
       \/ \E a \in Access :
            RefreshGrant(r, a) \/ AuthVerify(r, a)
       \/ LogoutBlacklist(r) \/ LogoutDrop(r) \/ AuthCheck(r)
  \/ \E u \in Users : Deactivate(u)
  \/ Tick \/ RedisDown \/ RedisBack

Spec == Init /\ [][Next]_vars

-----------------------------------------------------------------------------
(* Correctness.                                                            *)

\* Sessions whose client has had a refresh token
Sessions == {issued[f].login : f \in delivered \cap Refresh}
LiveTokens(s) == {f \in refreshKeys \cap delivered : issued[f].login = s}
Rotating(s) ==
  \E r \in Requests : req[r].step \in {"login", "store", "grant"}
                      /\ issued[req[r].token].login = s

\* "Blacklist an access token so it cannot be used after logout": once Redis has
\* taken the blacklisting and the logout has answered, a later request passes a
\* Redis that is up only if the token expires on the way, for any interleaving
\* of the requests with the clock, outages in between, and any rounding of the
\* TTL (blacklistAccessToken, isBlacklisted, remainingTTL). A Redis that is down
\* lets everything pass, and a blacklisting it misses is dropped.
LoggedOutIsRefused == \A a \in lateUses : Expired(a)

\* "Atomically: delete old, issue new": a session that is not in the middle of a
\* rotation has a refresh token that is in Redis and in its client's hands,
\* however many refreshes of one token overlap. Redis going down, or a failing
\* permission lookup, costs the session its token if it happens between the two
\* commands, or after them and before the answer, and costs no other session
\* anything (storeRefreshToken, rotateRefreshToken, refresh).
SessionSurvives ==
  \A s \in Sessions \ hit : ~ Rotating(s) => LiveTokens(s) # {}

\* A rotated refresh token is gone for good: no interleaving of refreshes
\* brings its key back (rotateRefreshToken, storeRefreshToken).
RotatedIsDead ==
  \A f \in Refresh : rotations[f] > 0 => f \notin refreshKeys

\* "POST /logout - Invalidate tokens": once a logout has answered, the session
\* has no refresh token left (logout). It has: the key that logout deletes is
\* named after the jti of the access token.
LogoutEndsSession ==
  \A a \in loggedOut : ~ Rotating(issued[a].login) => LiveTokens(issued[a].login) = {}
=============================================================================
