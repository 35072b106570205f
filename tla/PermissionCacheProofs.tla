------------------------ MODULE PermissionCacheProofs ------------------------
(***************************************************************************)
(* OldRightsEnd and InvalidationWorks for any set of roles and requests and *)
(* any lifetimes.                                                          *)
(*                                                                         *)
(* The inductive invariant follows a lost right along its way: a request   *)
(* that has loaded it keeps quiet at 0 until it has set the cache; from    *)
(* then on the time the copy has left, and after it the time the last      *)
(* token has left, shrinks at least as fast as quiet grows.                *)
(***************************************************************************)
EXTENDS PermissionCache, TLAPS

USE PermissionAssumption DEF PermissionAssumption

\* A right that the user has lost and that is still on its way
LateLoads == \A r \in Requests : Late(r) /\ req[r].step # "grant" => quiet = 0
LateGrants == \A r \in Requests : Late(r) => quiet <= CacheTTL - 1
LateCopy == cache # NoEntry /\ ~ Entitled(cache.role) => cache.ttl + quiet <= CacheTTL
LateTokens == \A p \in Perms : Honoured(p) /\ ~ Entitled(p) => life[p] + quiet <= Bound

RightsInv == TypeOK /\ LateLoads /\ LateGrants /\ LateCopy /\ LateTokens

LEMMA BoundIsNat == Bound \in Nat /\ Bound >= Life /\ CacheTTL - 1 \in Nat
BY DEF Bound

LEMMA RightsInit == Init => RightsInv
<1> SUFFICES ASSUME Init PROVE RightsInv
  OBVIOUS
<1>0. 0 \in 0..Life /\ 0 \in 0..Bound
  BY BoundIsNat
<1>1. TypeOK
  <2>1. life \in [Perms -> 0..Life]
    BY <1>0 DEF Init
  <2>2. req \in [Requests -> Resolving \cup Patching \cup {Idle}]
    BY DEF Init
  <2> QED BY <1>0, <2>1, <2>2 DEF Init, TypeOK
<1>2. LateLoads /\ LateGrants
  BY DEF Init, LateLoads, LateGrants, Late, Entitled, Idle
<1>3. LateCopy /\ LateTokens
  BY DEF Init, LateCopy, LateTokens, Honoured
<1> QED BY <1>1, <1>2, <1>3 DEF RightsInv

\* The type invariant alone is inductive.
LEMMA RightsType == ASSUME TypeOK, [Next]_vars PROVE TypeOK'
<1> USE BoundIsNat DEF TypeOK
<1>0. None \notin Perms /\ NoEntry \notin Entry
  BY DEF NoEntry, Entry, Perms
<1>1. CASE UNCHANGED vars
  BY <1>1 DEF vars
<1>2. ASSUME NEW r \in Requests, LoadUser(r) PROVE TypeOK'
  <2>1. [step |-> "get", role |-> role, to |-> None] \in Resolving
    BY DEF Resolving, Perms
  <2> QED BY <1>2, <2>1 DEF LoadUser, Goto
<1>3. ASSUME NEW r \in Requests, Get(r) PROVE TypeOK'
  <2>0. req[r].step = "get"
    BY <1>3 DEF Get
  <2>1. req[r] \in Resolving
    BY <2>0 DEF Patching, Idle
  <2>2. (cache # NoEntry => cache.role \in Perms) /\ Resolved(r) \subseteq Perms
    BY <2>1 DEF Entry, Resolving, Resolved, Perms
  <2>3. /\ \A p \in Resolved(r) : [req[r] EXCEPT !.step = "fill", !.role = p] \in Resolving
        /\ cache # NoEntry => [req[r] EXCEPT !.step = "grant", !.role = cache.role] \in Resolving
    BY <2>1, <2>2 DEF Resolving
  <2> QED BY <1>3, <2>3 DEF Get, Goto
<1>4. ASSUME NEW r \in Requests, Fill(r) PROVE TypeOK'
  <2>1. req[r] \in Resolving
    BY <1>4 DEF Fill, Patching, Idle
  <2>2. [req[r] EXCEPT !.step = "grant"] \in Resolving
    BY <2>1 DEF Resolving
  <2>3. [role |-> req[r].role, ttl |-> CacheTTL, wrong |-> req[r].role # role] \in Entry
    BY <2>1 DEF Resolving, Entry
  <2> QED BY <1>4, <2>2, <2>3 DEF Fill, Goto
<1>5. ASSUME NEW r \in Requests, Grant(r) PROVE TypeOK'
  <2>1. Life \in 0..Life
    OBVIOUS
  <2>2. life' \in [Perms -> 0..Life]
    BY <1>5, <2>1 DEF Grant
  <2>3. req' \in [Requests -> Resolving \cup Patching \cup {Idle}]
    BY <1>5 DEF Grant, Goto
  <2> QED BY <1>5, <2>2, <2>3 DEF Grant
<1>6. ASSUME NEW r \in Requests, NEW to \in Roles, LoadTarget(r, to) PROVE TypeOK'
  <2>1. [step |-> "save", role |-> role, to |-> to] \in Patching
    BY DEF Patching
  <2> QED BY <1>6, <2>1 DEF LoadTarget, Goto
<1>7. ASSUME NEW r \in Requests, SaveRole(r) PROVE TypeOK'
  <2>1. req[r] \in Patching
    BY <1>7 DEF SaveRole, Resolving, Idle
  <2>2. req[r].to \in Roles /\ [req[r] EXCEPT !.step = "emitted"] \in Patching
    BY <2>1 DEF Patching
  <2> QED BY <1>7, <2>2 DEF SaveRole, Goto
<1>8. ASSUME NEW r \in Requests, Invalidate(r) PROVE TypeOK'
  BY <1>8 DEF Invalidate, Invalidated, Goto
<1>9. ASSUME NEW r \in Requests, Abort(r) PROVE TypeOK'
  BY <1>9 DEF Abort, Goto
<1>10. CASE DeleteUser \/ RestoreUser \/ Register \/ StartProcess \/ RedisDown \/ RedisBack
  <2>1. 0 \in 0..Bound
    OBVIOUS
  <2> QED BY <1>10, <2>1 DEF DeleteUser, RestoreUser, Register, StartProcess, RedisDown, RedisBack
<1>11. CASE Tick
  <2>1. cache' \in Entry \cup {NoEntry}
    <3>1. CASE cache = NoEntry
      BY <1>11, <3>1 DEF Tick, Aged, NoEntry
    <3>2. CASE cache \in Entry /\ cache.ttl <= 1
      BY <1>11, <3>2 DEF Tick, Aged
    <3>3. CASE cache \in Entry /\ ~ (cache.ttl <= 1)
      BY <1>11, <3>3 DEF Tick, Aged, Entry
    <3> QED BY <3>1, <3>2, <3>3
  <2>2. life' \in [Perms -> 0..Life]
    BY <1>11 DEF Tick
  <2>3. quiet' \in 0..Bound
    BY <1>11 DEF Tick
  <2> QED BY <1>11, <2>1, <2>2, <2>3 DEF Tick
<1> QED BY <1>1, <1>2, <1>3, <1>4, <1>5, <1>6, <1>7, <1>8, <1>9, <1>10, <1>11 DEF Next, Step

LEMMA RightsStep == ASSUME RightsInv, [Next]_vars PROVE RightsInv'
<1> USE BoundIsNat DEF RightsInv
<1>0. TypeOK /\ TypeOK'
  BY RightsType
<1>t. /\ quiet \in Nat /\ quiet' \in Nat /\ Life \in Nat /\ CacheTTL \in Nat
      /\ \A p \in Perms : life[p] \in 0..Life /\ life'[p] \in 0..Life
      /\ cache # NoEntry => cache.ttl \in 1..CacheTTL /\ cache.role \in Perms
      /\ cache' # NoEntry => cache'.ttl \in 1..CacheTTL /\ cache'.role \in Perms
  BY <1>0 DEF TypeOK, Entry
\* Most steps change neither the user nor the copies, and bring no late request.
<1>s. ASSUME UNCHANGED <<role, deleted, quiet>>,
             NEW r \in Requests, Goto(r, Idle) \/ ~ Late(r)' \/ UNCHANGED req,
             \A q \in Requests \ {r} : req'[q] = req[q]
      PROVE  LateLoads' /\ LateGrants'
  <2>1. ASSUME NEW q \in Requests, Late(q)'
        PROVE  Late(q) /\ req'[q] = req[q]
    BY <1>s, <2>1, <1>0 DEF Late, Entitled, Goto, Idle, TypeOK
  <2> QED BY <1>s, <2>1 DEF LateLoads, LateGrants
<1>1. CASE UNCHANGED vars
  BY <1>1, <1>0 DEF vars, LateLoads, LateGrants, LateCopy, LateTokens, Late, Entitled, Honoured
<1>2. ASSUME NEW r \in Requests, LoadUser(r) PROVE RightsInv'
  <2>1. ~ Late(r)' /\ \A q \in Requests \ {r} : req'[q] = req[q]
    BY <1>2, <1>0 DEF LoadUser, Goto, Late, Entitled, TypeOK
  <2>2. LateLoads' /\ LateGrants'
    BY <1>2, <2>1, <1>s DEF LoadUser
  <2>3. LateCopy' /\ LateTokens'
    BY <1>2 DEF LoadUser, LateCopy, LateTokens, Entitled, Honoured
  <2> QED BY <1>0, <2>2, <2>3
<1>3. ASSUME NEW r \in Requests, Get(r) PROVE RightsInv'
  <2>1. /\ \A q \in Requests \ {r} : req'[q] = req[q]
        /\ \/ \E p \in Resolved(r) : req'[r] = [req[r] EXCEPT !.step = "fill", !.role = p]
           \/ (cache # NoEntry /\ req'[r] = [req[r] EXCEPT !.step = "grant", !.role = cache.role])
    <3>1. \/ \E p \in Resolved(r) :
                req' = [req EXCEPT ![r] = [req[r] EXCEPT !.step = "fill", !.role = p]]
          \/ /\ cache # NoEntry
             /\ req' = [req EXCEPT ![r] = [req[r] EXCEPT !.step = "grant", !.role = cache.role]]
      BY <1>3 DEF Get, Goto
    <3> QED BY <3>1, <1>0 DEF TypeOK
  <2>0. req[r].step = "get"
    BY <1>3 DEF Get
  <2>2. req[r] \in Resolving
    BY <2>0, <1>0 DEF TypeOK, Patching, Idle
  <2>3. UNCHANGED <<role, deleted, quiet, cache, life>>
    BY <1>3 DEF Get
  <2>4. ASSUME NEW p \in Resolved(r), req'[r] = [req[r] EXCEPT !.step = "fill", !.role = p]
        PROVE  LateLoads' /\ LateGrants'
    <3>1. req'[r].step = "fill" /\ req'[r].role \in {req[r].role, Blank}
      BY <2>2, <2>4 DEF Resolving, Resolved
    <3>2. Late(r)' => Late(r) /\ req[r].step # "grant"
      BY <2>0, <2>3, <3>1 DEF Late, Entitled
    <3>3. \A q \in Requests \ {r} : Late(q)' => Late(q)
      BY <2>1, <2>3 DEF Late, Entitled
    <3> QED BY <2>1, <2>3, <3>1, <3>2, <3>3, <1>t DEF LateLoads, LateGrants
  <2>5. ASSUME cache # NoEntry /\ req'[r] = [req[r] EXCEPT !.step = "grant", !.role = cache.role]
        PROVE  LateLoads' /\ LateGrants'
    <3>1. req'[r].step = "grant" /\ req'[r].role = cache.role
      BY <2>2, <2>5 DEF Resolving
    <3>2. Late(r)' => quiet' <= CacheTTL - 1
      <4> SUFFICES ASSUME Late(r)' PROVE quiet <= CacheTTL - 1
        BY <2>3
      <4>1. ~ Entitled(cache.role)
        BY <2>3, <3>1 DEF Late, Entitled
      <4>2. cache.ttl + quiet <= CacheTTL
        BY <2>5, <4>1 DEF LateCopy
      <4> QED BY <2>5, <4>2, <1>t
    <3>3. \A q \in Requests \ {r} : Late(q)' => Late(q)
      BY <2>1, <2>3 DEF Late, Entitled
    <3> QED BY <2>1, <2>3, <3>1, <3>2, <3>3 DEF LateLoads, LateGrants
  <2>6. LateLoads' /\ LateGrants'
    BY <2>1, <2>4, <2>5
  <2>7. LateCopy' /\ LateTokens'
    BY <2>3 DEF LateCopy, LateTokens, Entitled, Honoured
  <2> QED BY <1>0, <2>6, <2>7
<1>4. ASSUME NEW r \in Requests, Fill(r) PROVE RightsInv'
  <2>1. req[r] \in Resolving
    BY <1>4, <1>0 DEF Fill, TypeOK, Patching, Idle
  <2>2. /\ \A q \in Requests \ {r} : req'[q] = req[q]
        /\ req'[r].step = "grant" /\ req'[r].role = req[r].role
    BY <1>4, <1>0, <2>1 DEF Fill, Goto, TypeOK, Resolving
  <2>3. UNCHANGED <<role, deleted, quiet, life>>
    BY <1>4 DEF Fill
  <2>4. Late(r)' => Late(r)
    BY <1>4, <2>2, <2>3 DEF Late, Entitled, Fill
  <2>5. LateLoads' /\ LateGrants'
    BY <2>2, <2>3, <2>4 DEF LateLoads, LateGrants, Late, Entitled
  <2>6. LateCopy'
    <3>1. CASE cache' = cache
      BY <2>3, <3>1 DEF LateCopy, Entitled
    <3>2. CASE cache'.role = req[r].role /\ cache'.ttl = CacheTTL
      <4> SUFFICES ASSUME ~ Entitled(cache.role)' PROVE CacheTTL + quiet <= CacheTTL
        BY <2>3, <3>2 DEF LateCopy
      <4>1. Late(r) /\ req[r].step # "grant"
        BY <1>4, <2>3, <3>2 DEF Fill, Late, Entitled
      <4> QED BY <4>1, <1>t DEF LateLoads
    <3> QED BY <1>4, <3>1, <3>2 DEF Fill
  <2>7. LateTokens'
    BY <2>3 DEF LateTokens, Entitled, Honoured
  <2> QED BY <1>0, <2>5, <2>6, <2>7
<1>5. ASSUME NEW r \in Requests, Grant(r) PROVE RightsInv'
  <2>1. req[r] \in Resolving
    BY <1>5, <1>0 DEF Grant, TypeOK, Patching, Idle
  <2>2. req[r].role \in Perms /\ (~ Entitled(req[r].role) => Late(r))
    BY <1>5, <2>1 DEF Resolving, Late, Entitled, Grant
  <2>3. LateLoads' /\ LateGrants'
    BY <1>5, <1>0, <1>s DEF Grant, Goto, TypeOK
  <2>4. LateCopy'
    BY <1>5 DEF Grant, LateCopy, Entitled
  <2>5. ASSUME NEW p \in Perms, Honoured(p)', ~ Entitled(p)'
        PROVE  life'[p] + quiet' <= Bound
    <3>1. UNCHANGED <<role, deleted, quiet>> /\ life' = [life EXCEPT ![req[r].role] = Life]
      BY <1>5 DEF Grant
    <3>2. CASE p = req[r].role
      <4>1. quiet <= CacheTTL - 1
        BY <2>2, <2>5, <3>1, <3>2 DEF LateGrants, Entitled
      <4>2. life'[p] = Life
        BY <1>0, <3>1, <3>2 DEF TypeOK
      <4> QED BY <4>1, <4>2, <3>1, <1>t DEF Bound
    <3>3. CASE p # req[r].role
      <4>1. life'[p] = life[p]
        BY <1>0, <3>1, <3>3 DEF TypeOK
      <4> QED BY <4>1, <3>1, <2>5 DEF LateTokens, Honoured, Entitled
    <3> QED BY <3>2, <3>3
  <2> QED BY <1>0, <2>3, <2>4, <2>5 DEF LateTokens
<1>6. ASSUME NEW r \in Requests, NEW to \in Roles, LoadTarget(r, to) PROVE RightsInv'
  <2>1. ~ Late(r)' /\ \A q \in Requests \ {r} : req'[q] = req[q]
    BY <1>6, <1>0 DEF LoadTarget, Goto, Late, Entitled, TypeOK
  <2>2. LateLoads' /\ LateGrants'
    BY <1>6, <2>1, <1>s DEF LoadTarget
  <2>3. LateCopy' /\ LateTokens'
    BY <1>6 DEF LoadTarget, LateCopy, LateTokens, Entitled, Honoured
  <2> QED BY <1>0, <2>2, <2>3
\* Whatever the user has lost was lost now: every copy is within its lifetime.
<1>q. ASSUME quiet' = 0 PROVE LateLoads' /\ LateGrants' /\ LateCopy' /\ LateTokens'
  BY <1>q, <1>t DEF LateLoads, LateGrants, LateCopy, LateTokens
<1>7. ASSUME NEW r \in Requests, SaveRole(r) PROVE RightsInv'
  <2>1. CASE role' = role
    <3>1. ~ Late(r)' /\ \A q \in Requests \ {r} : req'[q] = req[q]
      BY <1>7, <1>0 DEF SaveRole, Goto, Late, Entitled, TypeOK, Patching, Resolving, Idle
    <3>2. UNCHANGED <<role, deleted, quiet, cache, life>>
      BY <1>7, <2>1 DEF SaveRole
    <3>3. LateLoads' /\ LateGrants'
      BY <3>1, <3>2, <1>s
    <3>4. LateCopy' /\ LateTokens'
      BY <3>2 DEF LateCopy, LateTokens, Entitled, Honoured
    <3> QED BY <1>0, <3>3, <3>4
  <2>2. CASE role' # role
    BY <1>7, <2>2, <1>0, <1>q DEF SaveRole
  <2> QED BY <2>1, <2>2
<1>8. ASSUME NEW r \in Requests, Invalidate(r) PROVE RightsInv'
  <2>1. LateLoads' /\ LateGrants'
    BY <1>8, <1>0, <1>s DEF Invalidate, Goto, TypeOK
  <2>2. LateCopy' /\ LateTokens'
    BY <1>8 DEF Invalidate, Invalidated, LateCopy, LateTokens, Entitled, Honoured
  <2> QED BY <1>0, <2>1, <2>2
<1>9. ASSUME NEW r \in Requests, Abort(r) PROVE RightsInv'
  <2>1. LateLoads' /\ LateGrants'
    BY <1>9, <1>0, <1>s DEF Abort, Goto, TypeOK
  <2>2. LateCopy' /\ LateTokens'
    BY <1>9 DEF Abort, LateCopy, LateTokens, Entitled, Honoured
  <2> QED BY <1>0, <2>1, <2>2
<1>10. CASE DeleteUser
  BY <1>10, <1>0, <1>q DEF DeleteUser
<1>11. CASE RestoreUser \/ Register \/ StartProcess \/ RedisDown \/ RedisBack
  BY <1>11, <1>0 DEF RestoreUser, Register, StartProcess, RedisDown, RedisBack, LateLoads,
     LateGrants, LateCopy, LateTokens, Late, Entitled, Honoured
<1>12. CASE Tick
  <2>1. CASE \E r \in Requests : Late(r)
    BY <1>12, <2>1, <1>0, <1>q DEF Tick
  <2>2. CASE ~ \E r \in Requests : Late(r)
    <3>1. quiet' <= quiet + 1
      BY <1>12, <2>2, <1>t DEF Tick
    <3>2. LateLoads' /\ LateGrants'
      BY <1>12, <2>2 DEF Tick, LateLoads, LateGrants, Late, Entitled
    <3>3. LateCopy'
      <4> SUFFICES ASSUME cache' # NoEntry, ~ Entitled(cache.role)'
                   PROVE  cache'.ttl + quiet' <= CacheTTL
        BY DEF LateCopy
      <4>1. cache' = [cache EXCEPT !.ttl = @ - 1] /\ cache # NoEntry
        BY <1>12 DEF Tick, Aged, NoEntry
      <4>2. cache'.ttl = cache.ttl - 1 /\ cache'.role = cache.role
        BY <4>1, <1>0 DEF TypeOK, Entry
      <4>3. cache.ttl + quiet <= CacheTTL
        BY <1>12, <4>1, <4>2 DEF Tick, LateCopy, Entitled
      <4> QED BY <3>1, <4>1, <4>2, <4>3, <1>t
    <3>4. ASSUME NEW p \in Perms, Honoured(p)', ~ Entitled(p)'
          PROVE  life'[p] + quiet' <= Bound
      <4>1. life'[p] = life[p] - 1 /\ Honoured(p) /\ ~ Entitled(p)
        BY <1>12, <3>4, <1>t DEF Tick, Honoured, Entitled
      <4>2. life[p] + quiet <= Bound
        BY <4>1 DEF LateTokens
      <4> QED BY <3>1, <4>1, <4>2, <1>t
    <3> QED BY <1>0, <3>2, <3>3, <3>4 DEF LateTokens
  <2> QED BY <2>1, <2>2
<1> QED BY <1>1, <1>2, <1>3, <1>4, <1>5, <1>6, <1>7, <1>8, <1>9, <1>10, <1>11, <1>12
        DEF Next, Step

\* Every reachable state is well typed (wrap, resolvePermissions).
THEOREM PermissionTypeCorrect == Spec => []TypeOK
<1>1. Init => TypeOK
  BY RightsInit DEF RightsInv
<1> QED BY <1>1, RightsType, PTL DEF Spec

\* No token outlives a lost right by more than the lifetimes of the cached
\* copy and of a token after the last request that overlapped with the loss
\* (resolvePermissions, wrap, issueAccessToken).
THEOREM LostRightsEnd == Spec => []OldRightsEnd
<1>1. RightsInv => OldRightsEnd
  <2> SUFFICES ASSUME RightsInv, quiet = Bound, NEW p \in Perms, Honoured(p), ~ Entitled(p)
               PROVE  FALSE
    BY DEF OldRightsEnd
  <2>1. life[p] + Bound <= Bound
    BY DEF RightsInv, LateTokens
  <2> QED BY <2>1, BoundIsNat DEF Honoured, RightsInv, TypeOK
<1> QED BY <1>1, RightsInit, RightsStep, PTL DEF Spec

-----------------------------------------------------------------------------

\* Every step that sets the key, changes the role or ends a change accounts for
\* a copy that then disagrees with the user.
LEMMA InvalidationStep ==
  ASSUME TypeOK, InvalidationWorks, [Next]_vars
  PROVE  InvalidationWorks'
<1> DEFINE Emitted(r) == req[r].step = "emitted"
<1>1. CASE UNCHANGED <<role, cache, lost, req>>
  BY <1>1 DEF InvalidationWorks
<1>2. ASSUME NEW r \in Requests, UNCHANGED <<role, cache, lost>>, ~ Emitted(r),
             NEW next, Goto(r, next)
      PROVE  InvalidationWorks'
  <2>1. \A q \in Requests : Emitted(q) => q # r /\ req'[q] = req[q]
    BY <1>2 DEF Goto, TypeOK
  <2> QED BY <1>2, <2>1 DEF InvalidationWorks
<1>3. ASSUME NEW r \in Requests, LoadUser(r) \/ Get(r) \/ Grant(r) \/ \E to \in Roles : LoadTarget(r, to)
      PROVE  InvalidationWorks'
  <2>0. req[r] = Idle => ~ Emitted(r)
    BY DEF Idle
  <2>1. UNCHANGED <<role, cache, lost>> /\ ~ Emitted(r)
    BY <1>3, <2>0 DEF LoadUser, Get, Grant, LoadTarget
  <2>2. \A q \in Requests : Emitted(q) => q # r /\ req'[q] = req[q]
    BY <1>3, <2>1 DEF LoadUser, Get, Grant, LoadTarget, Goto, TypeOK
  <2> QED BY <2>1, <2>2 DEF InvalidationWorks
<1>4. ASSUME NEW r \in Requests, Fill(r) PROVE InvalidationWorks'
  <2>1. CASE redisUp
    BY <1>4, <2>1 DEF Fill, InvalidationWorks
  <2>2. CASE ~ redisUp
    BY <1>4, <2>2, <1>2 DEF Fill
  <2> QED BY <2>1, <2>2
<1>5. ASSUME NEW r \in Requests, SaveRole(r) PROVE InvalidationWorks'
  <2>1. req[r] \in Patching
    BY <1>5 DEF SaveRole, TypeOK, Resolving, Idle
  <2>2. Emitted(r)'
    BY <1>5, <2>1 DEF SaveRole, Goto, TypeOK, Patching
  <2> QED BY <2>2 DEF InvalidationWorks
<1>6. ASSUME NEW r \in Requests, Invalidate(r) PROVE InvalidationWorks'
  BY <1>6 DEF Invalidate, Invalidated, InvalidationWorks
<1>7. ASSUME NEW r \in Requests, Abort(r) PROVE InvalidationWorks'
  <2>1. CASE Emitted(r)
    BY <1>7, <2>1 DEF Abort, InvalidationWorks
  <2>2. CASE ~ Emitted(r)
    <3>1. lost' = lost
      BY <1>7, <2>2 DEF Abort, TypeOK
    <3> QED BY <1>7, <2>2, <3>1, <1>2 DEF Abort
  <2> QED BY <2>1, <2>2
<1>8. CASE Tick
  <2>1. cache' # NoEntry => cache # NoEntry /\ cache'.role = cache.role /\ cache'.wrong = cache.wrong
    <3>1. CASE cache = NoEntry
      BY <1>8, <3>1 DEF Tick, Aged, NoEntry
    <3>2. CASE cache \in Entry
      <4>1. CASE cache.ttl <= 1
        BY <1>8, <4>1 DEF Tick, Aged
      <4>2. CASE ~ (cache.ttl <= 1)
        <5>1. cache' = [cache EXCEPT !.ttl = @ - 1]
          BY <1>8, <4>2 DEF Tick, Aged
        <5>2. cache'.role = cache.role /\ cache'.wrong = cache.wrong
          BY <3>2, <5>1 DEF Entry
        <5>3. cache # NoEntry
          BY <3>2 DEF Entry, NoEntry
        <5> QED BY <5>2, <5>3
      <4> QED BY <4>1, <4>2
    <3> QED BY <3>1, <3>2 DEF TypeOK
  <2> QED BY <1>8, <2>1 DEF Tick, InvalidationWorks
<1>9. CASE DeleteUser \/ RestoreUser \/ Register \/ StartProcess \/ RedisDown \/ RedisBack
  BY <1>1, <1>9 DEF DeleteUser, RestoreUser, Register, StartProcess, RedisDown, RedisBack
<1> QED BY <1>1, <1>3, <1>4, <1>5, <1>6, <1>7, <1>8, <1>9 DEF Next, Step, vars

\* A cached set that disagrees with the user's role has an explanation: an
\* invalidation under way or lost, or a stale fill (onUserRoleChanged, wrap).
THEOREM InvalidationsWork == Spec => []InvalidationWorks
<1>1. Init => InvalidationWorks
  BY DEF Init, InvalidationWorks
<1>2. Init => TypeOK
  BY RightsInit DEF RightsInv
<1>3. ASSUME TypeOK /\ InvalidationWorks, [Next]_vars PROVE (TypeOK /\ InvalidationWorks)'
  BY <1>3, RightsType, InvalidationStep
<1> QED BY <1>1, <1>2, <1>3, PTL DEF Spec
=============================================================================
