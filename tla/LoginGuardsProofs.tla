--------------------------- MODULE LoginGuardsProofs ---------------------------
(***************************************************************************)
(* The lockout of an account, the limiter in front of the login and the    *)
(* limiter of a tenant, for any number of requests, calls and addresses.   *)
(***************************************************************************)
EXTENDS TenantLimiter, FiniteSetTheorems, TLAPS

USE LockoutAssumption DEF LockoutAssumption

-----------------------------------------------------------------------------
(* The lockout on its own: no lock reaches further than LockFor from now,  *)
(* and a request under way saw no lock, or one that is over.               *)

LocksAreShort ==
  /\ lockedUntil <= now + LockFor
  /\ \A r \in Requests : req[r].lockedUntil <= now

LockInv == TypeOK /\ LocksAreShort

LEMMA LockInvInit == Init => LockInv
<1> SUFFICES ASSUME Init PROVE LockInv
  OBVIOUS
<1>1. TypeOK
  BY DEF Init, TypeOK
<1>2. LocksAreShort
  BY DEF Init, LocksAreShort, Idle
<1> QED BY <1>1, <1>2 DEF LockInv

LEMMA LockInvStep ==
  ASSUME LockInv, [Next]_vars
  PROVE  LockInv'
<1> USE DEF LockInv
<1>1. CASE UNCHANGED vars
  BY <1>1 DEF vars, TypeOK, LocksAreShort
<1>2. CASE Tick
  <2>1. TypeOK'
    BY <1>2 DEF Tick, TypeOK
  <2>2. \A r \in Requests : req[r].lockedUntil \in Nat
    BY DEF TypeOK, Loaded, Idle
  <2>3. LocksAreShort'
    BY <1>2, <2>2 DEF Tick, LocksAreShort, TypeOK
  <2> QED BY <2>1, <2>3
<1>3. ASSUME NEW r \in Requests, Load(r) PROVE LockInv'
  <2>1. [step |-> "compare", attempts |-> attempts, lockedUntil |-> lockedUntil] \in Loaded
    BY DEF TypeOK, Loaded
  <2>2. TypeOK'
    BY <1>3, <2>1 DEF Load, TypeOK
  <2>3. lockedUntil <= now
    BY <1>3 DEF Load, isLocked, TypeOK
  <2>4. LocksAreShort'
    BY <1>3, <2>3 DEF Load, LocksAreShort, TypeOK
  <2> QED BY <2>2, <2>4
<1>4. ASSUME NEW r \in Requests, Wrong(r) \/ Right(r) PROVE LockInv'
  <2>1. req[r] \in Loaded
    BY <1>4 DEF Wrong, Right, TypeOK, Idle
  <2>2. req[r].attempts \in Nat /\ req[r].lockedUntil \in Nat
    BY <2>1 DEF Loaded
  <2>3. TypeOK'
    BY <1>4, <2>2 DEF Wrong, Right, Saved, TypeOK
  <2>4. lockedUntil' <= now' + LockFor
    BY <1>4 DEF Wrong, Right, Saved, LocksAreShort, TypeOK
  <2>5. \A q \in Requests : req'[q] = req[q] \/ req'[q] = Idle
    BY <1>4 DEF Wrong, Right, TypeOK
  <2>6. \A q \in Requests : req'[q].lockedUntil <= now'
    BY <1>4, <2>5 DEF Wrong, Right, LocksAreShort, TypeOK, Idle
  <2> QED BY <2>3, <2>4, <2>6 DEF LocksAreShort
<1> QED BY <1>1, <1>2, <1>3, <1>4 DEF Next

\* Every reachable state is well typed, no lock is longer than LockFor, and
\* no request under way has seen a lock that is still in force (login).
LEMMA LockInvariance == Spec => []LockInv
BY LockInvInit, LockInvStep, PTL DEF Spec

\* A lock in force is lifted only by a right password whose request loaded the
\* account when an older lock had run out (resetFailedLogin).
THEOREM LocksHold == Spec => LockHolds
<1>1. ASSUME LockInv, [Next]_vars
      PROVE  [isLocked /\ lockedUntil' < lockedUntil =>
                \E r \in Requests : Right(r) /\ req[r].lockedUntil \in 1..now]_vars
  <2> SUFFICES ASSUME lockedUntil' < lockedUntil
               PROVE  \E r \in Requests : Right(r) /\ req[r].lockedUntil \in 1..now
    OBVIOUS
  <2>1. ~ UNCHANGED vars /\ ~ Tick /\ \A r \in Requests : ~ Load(r)
    BY <1>1 DEF vars, Tick, Load, LockInv, TypeOK
  <2>2. \A r \in Requests : ~ Wrong(r)
    BY <1>1 DEF Wrong, LockInv, TypeOK, LocksAreShort
  <2>3. PICK r \in Requests : Right(r)
    BY <1>1, <2>1, <2>2 DEF Next
  <2>4. req[r] \in Loaded
    BY <1>1, <2>3 DEF Right, LockInv, TypeOK, Idle
  <2>5. req[r].lockedUntil \in Nat /\ req[r].lockedUntil <= now
    BY <1>1, <2>4 DEF Loaded, LockInv, LocksAreShort
  <2>6. req[r].lockedUntil # 0
    BY <1>1, <2>3 DEF Right, Saved, LockInv, TypeOK
  <2>7. req[r].lockedUntil \in 1..now
    BY <1>1, <2>5, <2>6 DEF LockInv, TypeOK
  <2> QED BY <2>3, <2>7
<1> QED BY <1>1, LockInvariance, PTL DEF Spec, LockHolds

-----------------------------------------------------------------------------
(* The limiter in front of the login.                                      *)

Gates == {Outside} \cup [step : {"incr", "expire", "passed"}, ip : Ips]

LimiterTypeOK ==
  /\ counter \in [Ips -> [count : Nat, expiry : Nat]]
  /\ gate \in [Requests -> Gates]
  /\ lost \in SUBSET Ips
  /\ now \in Nat

-----------------------------------------------------------------------------

\* Every step of the guarded login is a step of the lockout or leaves the
\* account alone (login behind loginRateLimit).
LEMMA GuardedStep == ASSUME [GuardNext]_guardVars PROVE [Next]_vars
<1>1. CASE UNCHANGED guardVars BY <1>1 DEF guardVars, vars
<1>2. CASE LoginStep
  <2>1. PICK r \in Requests :
          \/ \E ip \in Ips : Arrive(r, ip)
          \/ Incr(r) \/ IncrUnanswered(r) \/ Expire(r) \/ LimiterFails(r) \/ Dies(r)
          \/ GuardedLoad(r) \/ TurnedAway(r) \/ Compared(r)
    BY <1>2 DEF LoginStep
  <2>2. CASE GuardedLoad(r) BY <2>2 DEF GuardedLoad, Next
  <2>3. CASE Compared(r) BY <2>3 DEF Compared, Next
  <2>4. CASE \E ip \in Ips : Arrive(r, ip) BY <2>4 DEF Arrive
  <2>5. CASE Incr(r) \/ IncrUnanswered(r) \/ Expire(r) BY <2>5 DEF Incr, IncrUnanswered, Expire
  <2>6. CASE LimiterFails(r) \/ Dies(r) \/ TurnedAway(r) BY <2>6 DEF LimiterFails, Dies, TurnedAway
  <2> QED BY <2>1, <2>2, <2>3, <2>4, <2>5, <2>6
<1>3. CASE ClientStep BY <1>3 DEF ClientStep
<1>4. CASE GuardTick BY <1>4 DEF GuardTick, Next
<1> QED BY <1>1, <1>2, <1>3, <1>4 DEF GuardNext

\* The guarded login implements the lockout on its own (login behind
\* loginRateLimit).
THEOREM GuardsKeepTheLockout == GuardSpec => Spec
<1>1. GuardInit => Init BY DEF GuardInit
<1>2. [GuardNext]_guardVars => [Next]_vars BY GuardedStep
<1> QED BY <1>1, <1>2, PTL DEF GuardSpec, Spec

\* Behind the limiter, too, a lock in force is lifted only by a login with the
\* right password that loaded the account when an older lock had run out.
THEOREM GuardedLocksHold == GuardSpec => LockHolds
BY GuardsKeepTheLockout, LocksHold, PTL

\* One behaviour of the two limiters is one of the login's guards, whose state
\* the calls of the tenant leave alone (tenantRateLimit).
THEOREM FrontKeepsTheGuards == FrontSpec => GuardSpec
<1>1. FrontInit => GuardInit BY DEF FrontInit
<1>2. [FrontNext]_frontVars => [GuardNext]_guardVars
  BY DEF FrontNext, frontVars, FrontTick, GuardNext
<1> QED BY <1>1, <1>2, PTL DEF FrontSpec, GuardSpec

\* The account, the clock and the requests that have loaded it keep their
\* types (login, User.model.js).
THEOREM LoginTypeCorrect == FrontSpec => []TypeOK
<1>1. LockInv => TypeOK BY DEF LockInv
<1> QED BY <1>1, LockInvariance, GuardsKeepTheLockout, FrontKeepsTheGuards, PTL

-----------------------------------------------------------------------------
(* Wrong passwords that overlapping logins let by. A request stands at the *)
(* count it has loaded, or would load now, counts of Limit and more being  *)
(* one. A wrong password that does not lock moves its request one place    *)
(* up, and all that have loaded nothing with it. With two requests the     *)
(* pair of places, the lower one first, so grows in lexicographic order:   *)
(* Ahead is twice the number of pairs below <<m, n>>.                      *)

Place(r) == LET n == IF req[r] = Idle THEN attempts ELSE req[r].attempts
            IN  IF n > Limit THEN Limit ELSE n

Ahead(m, n) == 2 * m * Limit - m * (m - 1) + 2 * (n - m)

Behind(g, m, n) ==
  /\ n < Limit => 2 * g <= Ahead(m, n)
  /\ m < Limit /\ n = Limit => 2 * g + 2 <= Ahead(m, n)
  /\ m = Limit => g = 0

PairInv(r, q) ==
  /\ Place(r) <= Place(q) => Behind(guesses, Place(r), Place(q))
  /\ Place(q) <= Place(r) => Behind(guesses, Place(q), Place(r))

LEMMA AheadGrows ==
  ASSUME NEW m \in Nat, NEW n \in Nat, m <= n, n <= Limit
  PROVE  /\ Ahead(m, n) \in Int /\ Ahead(m, n) >= 2 * (n - m)
         /\ m < Limit => Ahead(m, n) >= 2 * n
         /\ Ahead(m, n + 1) = Ahead(m, n) + 2
         /\ m < n => Ahead(m + 1, n) = Ahead(m, n) + 2 * (Limit - m - 1)
         /\ m < n => Ahead(m + 1, m + 1) = Ahead(m, Limit)
<1>1. m * (m - 1) = m * m - m /\ (m + 1) * m = m * m + m /\ m * m \in Nat
  OBVIOUS
<1>2. 2 * m * Limit = 2 * (m * Limit) /\ 2 * (m + 1) * Limit = 2 * (m * Limit) + 2 * Limit /\ m * Limit \in Nat
  OBVIOUS
<1>3. m * m <= m * Limit
  OBVIOUS
<1>4. (m + 1) * ((m + 1) - 1) = m * m + m
  BY <1>1
<1>5. Ahead(m, n) = 2 * (m * Limit) - m * m + m + 2 * (n - m)
  BY <1>1, <1>2 DEF Ahead
<1>6. Ahead(m, n + 1) = 2 * (m * Limit) - m * m + m + 2 * ((n + 1) - m)
  BY <1>1, <1>2 DEF Ahead
<1>7. Ahead(m + 1, n) = 2 * (m * Limit) + 2 * Limit - (m * m + m) + 2 * (n - (m + 1))
  BY <1>2, <1>4 DEF Ahead
<1>8. Ahead(m + 1, m + 1) = 2 * (m * Limit) + 2 * Limit - (m * m + m)
  BY <1>2, <1>4 DEF Ahead
<1>9. Ahead(m, Limit) = 2 * (m * Limit) - m * m + m + 2 * (Limit - m)
  BY <1>1, <1>2 DEF Ahead
<1>10. Ahead(m, n) >= 2 * (n - m) /\ Ahead(m, n) \in Int
  BY <1>1, <1>2, <1>3, <1>5
<1>11. m < Limit => Ahead(m, n) >= 2 * n
  <2> SUFFICES ASSUME m < Limit PROVE Ahead(m, n) >= 2 * n
    OBVIOUS
  <2>1. m * (m + 1) <= m * Limit
    OBVIOUS
  <2>2. m * (m + 1) = m * m + m
    OBVIOUS
  <2> QED BY <1>1, <1>2, <1>5, <2>1, <2>2
<1> QED BY <1>1, <1>2, <1>5, <1>6, <1>7, <1>8, <1>9, <1>10, <1>11

LEMMA AheadTogether ==
  ASSUME NEW m \in Nat, NEW n \in Nat, m <= n, n <= Limit
  PROVE  Ahead(m, n) <= Ahead(n, n)
<1>1. PICK d \in Nat : n = m + d
  <2>1. n - m \in Nat /\ n = m + (n - m)
    OBVIOUS
  <2> QED BY <2>1
<1>2. Ahead(m, n) = 2 * (m * Limit) - m * m + m + 2 * d
  BY <1>1 DEF Ahead
<1>3. Ahead(n, n) = 2 * (m * Limit) + 2 * (d * Limit) - m * m - 2 * (m * d) - d * d + m + d
  <2>1. n * Limit = m * Limit + d * Limit
    BY <1>1
  <2>2. n * (n - 1) = m * m + 2 * (m * d) + d * d - m - d
    BY <1>1
  <2>3. 2 * n * Limit = 2 * (n * Limit)
    OBVIOUS
  <2>4. n - n = 0
    OBVIOUS
  <2>5. m * Limit \in Int /\ d * Limit \in Int /\ m * m \in Int /\ m * d \in Int /\ d * d \in Int
    OBVIOUS
  <2> QED BY <2>1, <2>2, <2>3, <2>4, <2>5 DEF Ahead
<1>4. d * (2 * Limit - 2 * m - d - 1) = 2 * (d * Limit) - 2 * (m * d) - d * d - d
  OBVIOUS
<1>5. d * (2 * Limit - 2 * m - d - 1) >= 0
  <2>1. CASE d = 0
    BY <2>1
  <2>2. CASE d > 0
    BY <1>1, <2>2
  <2> QED BY <2>1, <2>2
<1>6. /\ d * Limit \in Int /\ m * d \in Int /\ d * d \in Int /\ m * Limit \in Int /\ m * m \in Int
  OBVIOUS
<1> QED BY <1>2, <1>3, <1>4, <1>5, <1>6

\* The places after a wrong password at v that does not lock, the other request
\* being at p and having loaded nothing, or something else
LEMMA Moved ==
  ASSUME NEW v \in Nat, v + 1 < Limit, NEW p \in Nat, p <= Limit, NEW g \in Nat,
         v <= p => Behind(g, v, p), p <= v => Behind(g, p, v)
  PROVE  /\ Behind(g + 1, v + 1, v + 1)
         /\ v + 1 <= p => Behind(g + 1, v + 1, p)
         /\ p <= v + 1 => Behind(g + 1, p, v + 1)
<1>1. CASE v < p
  <2>1. Ahead(v, p) \in Int /\ Ahead(v + 1, p) = Ahead(v, p) + 2 * (Limit - v - 1)
        /\ Ahead(v + 1, v + 1) = Ahead(v, Limit)
    BY <1>1, AheadGrows
  <2>2. Ahead(v, Limit) \in Int /\ Ahead(v + 1, p) \in Int /\ Ahead(v + 1, v + 1) \in Int
    BY <1>1, AheadGrows
  <2>3. p < Limit => 2 * g <= Ahead(v, p)
    BY <1>1 DEF Behind
  <2>4. p = Limit => 2 * g + 2 <= Ahead(v, p)
    BY <1>1 DEF Behind
  <2>5. p < Limit => Ahead(v, Limit) >= Ahead(v, p) + 2
    <3>1. Ahead(v, p) = 2 * v * Limit - v * (v - 1) + 2 * (p - v)
          /\ Ahead(v, Limit) = 2 * v * Limit - v * (v - 1) + 2 * (Limit - v)
      BY DEF Ahead
    <3>2. 2 * v * Limit - v * (v - 1) \in Int
      OBVIOUS
    <3> QED BY <3>1, <3>2
  <2>6. Behind(g + 1, v + 1, v + 1)
    BY <2>1, <2>2, <2>3, <2>4, <2>5 DEF Behind
  <2>7. Behind(g + 1, v + 1, p)
    BY <2>1, <2>2, <2>3, <2>4 DEF Behind
  <2> QED BY <1>1, <2>6, <2>7
<1>2. CASE p <= v
  <2>1. 2 * g <= Ahead(p, v)
    BY <1>2 DEF Behind
  <2>2. Ahead(p, v + 1) = Ahead(p, v) + 2 /\ Ahead(p, v) \in Int
    BY <1>2, AheadGrows
  <2>3. Ahead(p, v + 1) <= Ahead(v + 1, v + 1) /\ Ahead(v + 1, v + 1) \in Int /\ Ahead(p, v + 1) \in Int
    BY <1>2, AheadTogether, AheadGrows
  <2> QED BY <1>2, <2>1, <2>2, <2>3 DEF Behind
<1> QED BY <1>1, <1>2

LEMMA PlaceType ==
  /\ TypeOK => \A r \in Requests : Place(r) \in Nat /\ Place(r) <= Limit
  /\ (TypeOK => \A r \in Requests : Place(r) \in Nat /\ Place(r) <= Limit)'
<1>1. ASSUME TypeOK, NEW r \in Requests PROVE Place(r) \in Nat /\ Place(r) <= Limit
  <2>1. req[r].attempts \in Nat /\ attempts \in Nat
    BY <1>1 DEF TypeOK, Loaded, Idle
  <2> QED BY <2>1 DEF Place
<1>2. TypeOK => \A r \in Requests : Place(r) \in Nat /\ Place(r) <= Limit
  BY <1>1
<1> QED BY <1>2, PTL

\* With nothing counted there is nothing to exceed.
LEMMA PairFresh ==
  /\ TypeOK /\ guesses = 0 => \A r, q \in Requests : PairInv(r, q)
  /\ (TypeOK /\ guesses = 0 => \A r, q \in Requests : PairInv(r, q))'
<1>1. ASSUME NEW m \in Nat, NEW n \in Nat, m <= n, n <= Limit PROVE Behind(0, m, n)
  <2>1. Ahead(m, n) \in Int /\ Ahead(m, n) >= 2 * (n - m) /\ (m < Limit => Ahead(m, n) >= 2 * n)
    BY <1>1, AheadGrows
  <2> QED BY <1>1, <2>1 DEF Behind
<1>2. TypeOK /\ guesses = 0 => \A r, q \in Requests : PairInv(r, q)
  BY <1>1, PlaceType DEF PairInv
<1> QED BY <1>2, PTL

\* A step that moves no request
LEMMA PairSame ==
  ASSUME NEW r \in Requests, NEW q \in Requests, PairInv(r, q), guesses' = guesses,
         Place(r)' = Place(r), Place(q)' = Place(q)
  PROVE  PairInv(r, q)'
BY DEF PairInv

\* The two requests: r, whose password is wrong, and q
LEMMA PairWrong ==
  ASSUME TypeOK, TypeOK', NEW r \in Requests, NEW q \in Requests, r # q, PairInv(r, q), Wrong(r)
  PROVE  PairInv(r, q)'
<1>1. req[r] \in Loaded /\ req[r].attempts \in Nat /\ req[r] # Idle
  BY DEF Wrong, TypeOK, Loaded, Idle
<1>2. CASE Locks(r)
  BY <1>2, PairFresh DEF Wrong
<1>3. CASE ~ Locks(r)
  <2> DEFINE v == req[r].attempts
             p == Place(q)
  <2>1. v + 1 < Limit /\ attempts' = v + 1 /\ guesses' = guesses + 1
    BY <1>1, <1>3 DEF Wrong, Locks
  <2>2. Place(r) = v
    BY <1>1, <2>1 DEF Place
  <2>3. Place(r)' = v + 1
    BY <1>1, <2>1 DEF Wrong, Place, TypeOK
  <2>4. Place(q)' = v + 1 \/ Place(q)' = p
    BY <1>1, <2>1 DEF Wrong, Place, TypeOK
  <2>5. /\ v <= p => Behind(guesses, v, p)
        /\ p <= v => Behind(guesses, p, v)
    BY <2>2 DEF PairInv
  <2>6. p \in Nat /\ p <= Limit /\ guesses \in Nat
    BY PlaceType DEF TypeOK
  <2>7. /\ Behind(guesses + 1, v + 1, v + 1)
        /\ v + 1 <= p => Behind(guesses + 1, v + 1, p)
        /\ p <= v + 1 => Behind(guesses + 1, p, v + 1)
    BY <1>1, <2>1, <2>5, <2>6, Moved
  <2> QED BY <2>1, <2>3, <2>4, <2>7 DEF PairInv
<1> QED BY <1>2, <1>3

LEMMA PairStep ==
  ASSUME TypeOK, TypeOK', NEW r \in Requests, NEW q \in Requests, r # q, Requests = {r, q},
         PairInv(r, q), [Next]_vars
  PROVE  PairInv(r, q)'
<1>1. CASE Tick \/ UNCHANGED vars
  BY <1>1, PairSame DEF Tick, vars, Place
<1>2. ASSUME NEW u \in Requests, Load(u) PROVE PairInv(r, q)'
  <2>1. \A o \in Requests : Place(o)' = Place(o)
    BY <1>2 DEF Load, Place, TypeOK, Idle
  <2> QED BY <1>2, <2>1, PairSame DEF Load
<1>3. ASSUME NEW u \in Requests, Wrong(u) PROVE PairInv(r, q)'
  <2>1. PairInv(q, r) /\ (PairInv(q, r)' => PairInv(r, q)')
    BY DEF PairInv
  <2> QED BY <1>3, <2>1, PairWrong
<1>4. ASSUME NEW u \in Requests, Right(u) PROVE PairInv(r, q)'
  BY <1>4, PairFresh DEF Right
<1> QED BY <1>1, <1>2, <1>3, <1>4 DEF Next

LEMMA HalfOf ==
  ASSUME NEW g \in Nat, NEW x \in Nat, 2 * g + 2 <= x
  PROVE  g < x \div 2
OBVIOUS

\* There are Limit * (Limit + 1) / 2 pairs in all.
LEMMA PairsInAll ==
  ASSUME NEW g \in Nat, NEW m \in Nat, NEW n \in Nat, m <= n, n <= Limit, Behind(g, m, n)
  PROVE  2 * g + 2 <= Limit * (Limit + 1)
<1>0. Limit * (Limit + 1) = Limit * Limit + Limit /\ Limit * Limit \in Nat /\ Limit * Limit >= Limit
      /\ Limit \in Nat /\ Limit >= 1
  OBVIOUS
<1>1. CASE m = Limit
  BY <1>0, <1>1 DEF Behind
<1>2. CASE m < Limit
  <2>1. Ahead(m, n) <= Ahead(n, n) /\ Ahead(m, n) \in Int /\ Ahead(n, n) \in Int
    BY AheadTogether, AheadGrows
  <2>2. Ahead(n, n) = 2 * (n * Limit) - n * n + n /\ n * Limit \in Int /\ n * n \in Int
    BY DEF Ahead
  <2>3. (Limit - n) * (Limit - n) = Limit * Limit - 2 * (n * Limit) + n * n
    OBVIOUS
  <2>4. CASE n < Limit
    <3>1. (Limit - n) * (Limit - n) >= 1
      BY <2>4
    <3>2. 2 * g <= Ahead(m, n)
      BY <2>4 DEF Behind
    <3>3. Ahead(n, n) + 2 <= Limit * Limit + Limit
      BY <1>0, <2>2, <2>3, <2>4, <3>1
    <3> QED BY <1>0, <2>1, <3>2, <3>3
  <2>5. CASE n = Limit
    <3>1. 2 * g + 2 <= Ahead(m, n)
      BY <1>2, <2>5 DEF Behind
    <3> QED BY <1>0, <2>1, <2>2, <2>5, <3>1
  <2> QED BY <2>4, <2>5
<1> QED BY <1>1, <1>2

\* Two overlapping logins let fewer than Limit * (Limit + 1) / 2 wrong passwords
\* by before the account is locked, whatever they overwrite of each other's
\* counts, for any Limit (incrementFailedLogin, User.model.js).
THEOREM GuessesStayBounded ==
  ASSUME NEW r \in Requests, NEW q \in Requests, r # q, Requests = {r, q}
  PROVE  FrontSpec => []GuessesBounded
<1>1. Init => TypeOK /\ PairInv(r, q)
  BY LockInvInit, PairFresh DEF LockInv, Init
<1>2. TypeOK /\ TypeOK' /\ PairInv(r, q) /\ [Next]_vars => PairInv(r, q)'
  BY PairStep
<1>3. TypeOK /\ PairInv(r, q) => GuessesBounded
  <2> SUFFICES ASSUME TypeOK, PairInv(r, q) PROVE guesses < (Limit * (Limit + 1)) \div 2
    <3>1. Cardinality({r}) = 1 /\ IsFiniteSet({r}) /\ q \notin {r}
      BY FS_Singleton
    <3>2. Cardinality({r} \cup {q}) = 2
      BY <3>1, FS_AddElement
    <3>3. {r} \cup {q} = Requests
      OBVIOUS
    <3>4. Cardinality(Requests) = 2
      BY <3>2, <3>3
    <3> QED BY <3>4 DEF GuessesBounded, Multisets
  <2>1. guesses \in Nat /\ Limit * (Limit + 1) \in Nat
    BY DEF TypeOK
  <2>2. ASSUME NEW m \in Nat, NEW n \in Nat, m <= n, n <= Limit, Behind(guesses, m, n)
        PROVE  2 * guesses + 2 <= Limit * (Limit + 1)
    BY <2>1, <2>2, PairsInAll
  <2>3. 2 * guesses + 2 <= Limit * (Limit + 1)
    <3>1. /\ Place(r) \in Nat /\ Place(r) <= Limit
          /\ Place(q) \in Nat /\ Place(q) <= Limit
      BY PlaceType
    <3> QED BY <2>2, <3>1 DEF PairInv
  <2> QED BY <2>1, <2>3, HalfOf
<1>4. Spec => []GuessesBounded
  BY <1>1, <1>2, <1>3, LockInvariance, PTL DEF Spec, LockInv
<1> QED BY <1>4, GuardsKeepTheLockout, FrontKeepsTheGuards, PTL

-----------------------------------------------------------------------------

LimiterInv == LimiterTypeOK /\ CountersEnd

\* The first INCR of a window makes its counter from nothing, and the request
\* that sent it goes for the EXPIRE (createEndpointLimiter).
LEMMA CountedKeepsInv ==
  ASSUME LimiterInv, NEW r \in Requests, Incr(r)
  PROVE  LimiterInv'
<1> DEFINE ip == gate[r].ip
           n == Incremented(counter[ip].count, MaxLogins)
<1>1. /\ ip \in Ips /\ gate[r] = At("incr", ip)
      /\ counter[ip].count \in Nat
  BY DEF Incr, LimiterInv, LimiterTypeOK, Gates, Outside, At
<1>2. n \in Nat /\ (counter[ip].count = 0 => n = 1)
  BY <1>1, LimiterAssumption DEF Incremented
<1>3. /\ counter' = [counter EXCEPT ![ip].count = n]
      /\ UNCHANGED <<lost, now>>
  BY DEF Incr, Counted, vars
<1>4. PICK g \in {At("expire", ip), Outside, At("passed", ip)} :
         /\ gate' = [gate EXCEPT ![r] = g]
         /\ n = 1 => g = At("expire", ip)
  BY <1>2 DEF Incr, Counted, FirstOfWindow
<1>5. g \in Gates
  BY <1>1 DEF Gates, At
<1>6. LimiterTypeOK'
  <2>1. counter' \in [Ips -> [count : Nat, expiry : Nat]]
    BY <1>1, <1>2, <1>3 DEF LimiterInv, LimiterTypeOK
  <2>2. gate' \in [Requests -> Gates]
    BY <1>4, <1>5 DEF LimiterInv, LimiterTypeOK
  <2> QED BY <2>1, <2>2, <1>3 DEF LimiterInv, LimiterTypeOK
<1>7. CountersEnd'
  <2> SUFFICES ASSUME NEW j \in Ips, counter'[j].count > 0, counter'[j].expiry = 0, j \notin lost
               PROVE  \E q \in Requests : gate'[q] = At("expire", j)
    BY <1>3 DEF CountersEnd
  <2>1. counter'[j].expiry = counter[j].expiry /\ (j # ip => counter'[j] = counter[j])
    BY <1>1, <1>3 DEF LimiterInv, LimiterTypeOK
  <2>2. CASE counter[j].count > 0
    <3>1. PICK q \in Requests : gate[q] = At("expire", j)
      BY <2>1, <2>2 DEF LimiterInv, CountersEnd
    <3>2. q # r
      BY <3>1, <1>1 DEF At
    <3> QED BY <3>1, <3>2, <1>4 DEF LimiterInv, LimiterTypeOK
  <2>3. CASE counter[j].count = 0
    <3>1. j = ip
      BY <2>1, <2>3
    <3>2. gate'[r] = At("expire", ip)
      BY <3>1, <2>3, <1>2, <1>4 DEF LimiterInv, LimiterTypeOK
    <3> QED BY <3>1, <3>2
  <2>4. counter[j].count \in Nat
    BY DEF LimiterInv, LimiterTypeOK
  <2> QED BY <2>2, <2>3, <2>4
<1> QED BY <1>6, <1>7 DEF LimiterInv

\* An INCR whose reply is lost is sent again: a counter it made has lost its
\* EXPIRE (createEndpointLimiter on a client that resends).
LEMMA UnansweredKeepsInv ==
  ASSUME LimiterInv, NEW r \in Requests, IncrUnanswered(r)
  PROVE  LimiterInv'
<1> DEFINE ip == gate[r].ip
           n == Incremented(counter[ip].count, MaxLogins)
<1>1. /\ ip \in Ips /\ gate[r] = At("incr", ip)
      /\ counter[ip] \in [count : Nat, expiry : Nat]
  BY DEF IncrUnanswered, LimiterInv, LimiterTypeOK, Gates, Outside, At
<1>2. n \in Nat
  BY <1>1, LimiterAssumption DEF Incremented
<1>3. /\ counter' = [counter EXCEPT ![ip].count = n]
      /\ lost' = IF counter[ip] = NoKey THEN lost \cup {ip} ELSE lost
      /\ gate' = gate /\ now' = now
  <2>1. counter' = [counter EXCEPT ![ip].count = n]
    BY DEF IncrUnanswered
  <2>2. lost' = IF counter[ip] = NoKey THEN lost \cup {ip} ELSE lost
    BY DEF IncrUnanswered
  <2>3. gate' = gate /\ now' = now
    BY DEF IncrUnanswered, vars
  <2> QED BY <2>1, <2>2, <2>3
<1>4. LimiterTypeOK'
  BY <1>1, <1>2, <1>3 DEF LimiterInv, LimiterTypeOK
<1>5. CountersEnd'
  <2> SUFFICES ASSUME NEW j \in Ips, counter'[j].count > 0, counter'[j].expiry = 0, j \notin lost'
               PROVE  \E q \in Requests : gate[q] = At("expire", j)
    BY <1>3 DEF CountersEnd
  <2>1. counter'[j].expiry = counter[j].expiry /\ (j # ip => counter'[j] = counter[j]) /\ j \notin lost
    BY <1>1, <1>3 DEF LimiterInv, LimiterTypeOK
  <2>2. counter[j].count > 0
    <3>1. CASE j = ip
      <4>1. counter[ip] # NoKey /\ counter[ip].expiry = 0
        BY <3>1, <2>1, <1>3
      <4>2. counter[ip].count # 0
        BY <4>1, <1>1 DEF NoKey
      <4> QED BY <3>1, <4>2, <1>1
    <3> QED BY <3>1, <2>1
  <2> QED BY <2>1, <2>2 DEF LimiterInv, CountersEnd
<1> QED BY <1>4, <1>5 DEF LimiterInv

\* No other step makes a counter (the rest of createEndpointLimiter and the
\* login).
LEMMA OthersKeepInv ==
  ASSUME LimiterInv, NEW r \in Requests,
         \/ \E ip \in Ips : Arrive(r, ip)
         \/ Expire(r) \/ LimiterFails(r) \/ Dies(r)
         \/ GuardedLoad(r) \/ TurnedAway(r) \/ Compared(r)
  PROVE  LimiterInv'
<1> USE DEF LimiterInv, LimiterTypeOK
<1>1. CASE \E ip \in Ips : Arrive(r, ip)
  <2>1. PICK ip \in Ips : Arrive(r, ip)
    BY <1>1
  <2>2. \A j \in Ips : gate[r] # At("expire", j)
    BY <2>1 DEF Arrive, Outside, At
  <2>3. LimiterTypeOK'
    BY <2>1 DEF Arrive, Gates, At, vars
  <2>4. CountersEnd'
    BY <2>1, <2>2 DEF Arrive, CountersEnd
  <2> QED BY <2>3, <2>4
<1>2. CASE Expire(r)
  <2>1. gate[r].ip \in Ips /\ gate[r] = At("expire", gate[r].ip)
    BY <1>2 DEF Expire, Gates, Outside, At
  <2>2. LimiterTypeOK'
    BY <1>2, <2>1, LimiterAssumption DEF Expire, Gates, At, vars
  <2>3. CountersEnd'
    BY <1>2, <2>1, LimiterAssumption DEF Expire, CountersEnd, At, vars
  <2> QED BY <2>2, <2>3
<1>3. CASE LimiterFails(r) \/ Dies(r)
  <2>1. gate[r].ip \in Ips /\ (gate[r].step = "expire" => gate[r] = At("expire", gate[r].ip))
    BY <1>3 DEF LimiterFails, Dies, Gates, Outside, At
  <2>2. gate' = [gate EXCEPT ![r] = Outside]
    BY <1>3 DEF LimiterFails, Dies, LetInOnError
  <2>3. /\ counter' = counter /\ now' = now
        /\ lost' = IF gate[r].step = "expire" THEN lost \cup {gate[r].ip} ELSE lost
    BY <1>3 DEF LimiterFails, Dies, vars
  <2>4. LimiterTypeOK'
    BY <2>1, <2>2, <2>3 DEF Gates
  <2>5. CountersEnd'
    BY <2>1, <2>2, <2>3 DEF CountersEnd, At
  <2> QED BY <2>4, <2>5
<1>4. CASE GuardedLoad(r) \/ TurnedAway(r) \/ Compared(r)
  <2>1. /\ UNCHANGED <<counter, lost, now>>
        /\ \/ gate' = gate
           \/ gate[r].step = "passed" /\ gate' = [gate EXCEPT ![r] = Outside]
    BY <1>4 DEF GuardedLoad, Load, TurnedAway, Compared, Wrong, Right, limiterVars, vars
  <2>2. LimiterTypeOK'
    BY <2>1 DEF Gates
  <2>3. CountersEnd'
    BY <2>1 DEF CountersEnd, At
  <2> QED BY <2>2, <2>3
<1> QED BY <1>1, <1>2, <1>3, <1>4

LEMMA TickKeepsInv == ASSUME LimiterInv, GuardTick PROVE LimiterInv'
<1> USE DEF LimiterInv, LimiterTypeOK
<1>1. /\ counter' = [ip \in Ips |-> IF Expired(counter[ip], now') THEN NoKey ELSE counter[ip]]
      /\ gate' = gate /\ lost' = lost /\ now' = now + 1
  BY DEF GuardTick, Tick
<1>2. LimiterTypeOK'
  BY <1>1 DEF NoKey
<1>3. CountersEnd'
  BY <1>1 DEF CountersEnd, NoKey
<1> QED BY <1>2, <1>3

LEMMA LimiterInvStep == ASSUME LimiterInv, [GuardNext]_guardVars PROVE LimiterInv'
<1>1. CASE UNCHANGED guardVars
  BY <1>1 DEF guardVars, limiterVars, vars, LimiterInv, LimiterTypeOK, CountersEnd
<1>2. CASE LoginStep
  BY <1>2, CountedKeepsInv, UnansweredKeepsInv, OthersKeepInv DEF LoginStep
<1>3. CASE ClientStep
  BY <1>3 DEF ClientStep, limiterVars, vars, LimiterInv, LimiterTypeOK, CountersEnd
<1>4. CASE GuardTick
  BY <1>4, TickKeepsInv
<1> QED BY <1>1, <1>2, <1>3, <1>4 DEF GuardNext

LEMMA LimiterInvInit == GuardInit => LimiterInv
BY DEF GuardInit, Init, LimiterInit, LimiterInv, LimiterTypeOK, CountersEnd, NoKey, Gates

\* A counter without an expiry, which would keep its address out for ever,
\* takes a fault: for any limit, window and number of requests
\* (createEndpointLimiter).
THEOREM CountersEndSafe == GuardSpec => []CountersEnd
<1>1. LimiterInv => CountersEnd BY DEF LimiterInv
<1> QED BY <1>1, LimiterInvInit, LimiterInvStep, PTL DEF GuardSpec

-----------------------------------------------------------------------------
(* How many logins the fixed windows let in.                               *)

\* The requests that the present window of an address has let in, at most
Charged(key) == IF key.count > MaxLogins THEN MaxLogins ELSE key.count

\* Of a key and what was let in by time t: the present window lasts at least
\* Window ticks from its EXPIRE, and lets in no more than it has charged; all
\* that was let in before it by the last Window ticks is from one window.
WindowKept(key, letIn, t) ==
  /\ key.count = 0 => key.expiry = 0
  /\ letIn[1] <= Charged(key)
  /\ letIn[Window] <= MaxLogins + Charged(key)
  /\ \A i \in 2..Window : letIn[i - 1] <= letIn[i]
  /\ key.expiry # 0 =>
       /\ t < key.expiry /\ key.expiry <= t + Window
       /\ \A i \in 1..Window : i <= Window - (key.expiry - t) + 1 => letIn[i] <= Charged(key)

\* One request at most is about to give a key its expiry, and the key has none.
ExpireOnce ==
  \A r \in Requests, ip \in Ips : gate[r] = At("expire", ip) =>
    /\ counter[ip].count > 0 /\ counter[ip].expiry = 0
    /\ \A q \in Requests : gate[q] = At("expire", ip) => q = r

LetInInv ==
  /\ recent \in [Ips -> [1..Window -> Nat]]
  /\ \A ip \in Ips : WindowKept(counter[ip], recent[ip], now)
  /\ ExpireOnce

Keys == [count : Nat, expiry : Nat]

\* A request more is counted and, within the limit, let in.
LEMMA WindowKeptByCount ==
  ASSUME NEW key \in Keys, NEW letIn \in [1..Window -> Nat], NEW t \in Nat,
         WindowKept(key, letIn, t), NEW new \in Keys,
         new.count = Incremented(key.count, MaxLogins), new.expiry = key.expiry
  PROVE  /\ WindowKept(new, letIn, t)
         /\ new.count <= MaxLogins => WindowKept(new, [i \in 1..Window |-> letIn[i] + 1], t)
<1> USE LimiterAssumption DEF LimiterAssumption, Keys
<1>1. /\ new.count > 0 /\ Charged(key) \in Nat /\ Charged(new) \in Nat
      /\ Charged(key) <= Charged(new)
      /\ new.count <= MaxLogins => Charged(new) = Charged(key) + 1
  BY DEF Incremented, Charged
<1>2. \A i \in 1..Window : letIn[i] \in Nat
  OBVIOUS
<1> HIDE DEF Keys
<1>3. WindowKept(new, letIn, t)
  BY <1>1, <1>2 DEF WindowKept
<1>4. ASSUME new.count <= MaxLogins
      PROVE  WindowKept(new, [i \in 1..Window |-> letIn[i] + 1], t)
  <2> DEFINE more == [i \in 1..Window |-> letIn[i] + 1]
  <2>1. \A i \in 1..Window : more[i] = letIn[i] + 1
    OBVIOUS
  <2>2. /\ Charged(new) = Charged(key) + 1
        /\ 1 \in 1..Window /\ Window \in 1..Window
        /\ \A i \in 2..Window : i \in 1..Window /\ i - 1 \in 1..Window
    BY <1>1, <1>4
  <2> HIDE DEF more
  <2>3. new.count = 0 => new.expiry = 0
    BY <1>1
  <2>4. more[1] <= Charged(new)
    BY <1>1, <1>2, <2>1, <2>2 DEF WindowKept
  <2>5. more[Window] <= MaxLogins + Charged(new)
    <3>1. letIn[Window] <= MaxLogins + Charged(key) BY DEF WindowKept
    <3> QED BY <1>1, <1>2, <2>1, <2>2, <3>1
  <2>6. \A i \in 2..Window : more[i - 1] <= more[i]
    <3>1. \A i \in 2..Window : letIn[i - 1] <= letIn[i] BY DEF WindowKept
    <3> QED BY <1>2, <2>1, <2>2, <3>1
  <2>7. ASSUME new.expiry # 0
        PROVE  /\ t < new.expiry /\ new.expiry <= t + Window
               /\ \A i \in 1..Window :
                    i <= Window - (new.expiry - t) + 1 => more[i] <= Charged(new)
    <3>1. /\ t < new.expiry /\ new.expiry <= t + Window
          /\ \A i \in 1..Window :
               i <= Window - (new.expiry - t) + 1 => letIn[i] <= Charged(key)
      BY <2>7 DEF WindowKept
    <3> QED BY <1>1, <1>2, <2>1, <2>2, <3>1, SMTT(30)
  <2>8. WindowKept(new, more, t)
    BY <2>3, <2>4, <2>5, <2>6, <2>7 DEF WindowKept
  <2> QED BY <2>8 DEF more
<1> QED BY <1>3, <1>4

\* The key that a request made gets its expiry.
LEMMA WindowKeptByExpire ==
  ASSUME NEW key \in Keys, NEW letIn \in [1..Window -> Nat], NEW t \in Nat,
         WindowKept(key, letIn, t), key.count > 0, NEW new \in Keys,
         new.count = key.count, new.expiry = t + Window
  PROVE  WindowKept(new, letIn, t)
BY LimiterAssumption DEF WindowKept, Charged, Keys

\* A tick later the key has less time left, or the window is over.
LEMMA WindowKeptByTick ==
  ASSUME NEW key \in Keys, NEW letIn \in [1..Window -> Nat], NEW t \in Nat,
         WindowKept(key, letIn, t),
         NEW later \in [1..Window -> Nat], later[1] = 0,
         \A i \in 2..Window : later[i] = letIn[i - 1]
  PROVE  WindowKept(IF Expired(key, t + 1) THEN NoKey ELSE key, later, t + 1)
<1> USE LimiterAssumption DEF LimiterAssumption
<1>1. /\ Charged(key) \in Nat /\ Charged(key) <= MaxLogins /\ key.expiry \in Nat
      /\ \A i \in 1..Window : letIn[i] \in Nat
  BY DEF Charged, Keys
<1>2. \A i \in 2..Window : later[i - 1] <= later[i]
  <2> SUFFICES ASSUME NEW i \in 2..Window PROVE later[i - 1] <= later[i]
    OBVIOUS
  <2>1. CASE i = 2
    BY <1>1, <2>1
  <2>2. CASE i # 2
    BY <1>1, <2>2 DEF WindowKept
  <2> QED BY <2>1, <2>2
<1>3. later[Window] <= letIn[Window]
  BY <1>1 DEF WindowKept
<1>4. CASE Expired(key, t + 1)
  <2>1. key.expiry = t + 1
    BY <1>1, <1>4 DEF Expired, WindowKept
  <2>2. later[Window] <= MaxLogins
    BY <1>1, <2>1 DEF WindowKept
  <2> QED BY <1>2, <1>4, <2>2 DEF WindowKept, NoKey, Charged
<1>5. CASE ~ Expired(key, t + 1)
  <2>1. later[1] <= Charged(key) /\ later[Window] <= MaxLogins + Charged(key)
    BY <1>1, <1>3 DEF WindowKept
  <2>2. ASSUME key.expiry # 0
        PROVE  /\ t + 1 < key.expiry /\ key.expiry <= t + 1 + Window
               /\ \A i \in 1..Window : i <= Window - (key.expiry - (t + 1)) + 1 =>
                    later[i] <= Charged(key)
    <3>1. t + 1 < key.expiry /\ key.expiry <= t + 1 + Window
      BY <1>1, <1>5, <2>2 DEF WindowKept, Expired
    <3>2. ASSUME NEW i \in 1..Window, i <= Window - (key.expiry - (t + 1)) + 1
          PROVE  later[i] <= Charged(key)
      <4>1. CASE i = 1
        BY <2>1, <4>1
      <4>2. CASE i # 1
        <5>1. i \in 2..Window /\ i - 1 \in 1..Window
          BY <4>2
        <5>2. i - 1 <= Window - (key.expiry - t) + 1
          <6>1. i \in Int /\ t \in Int /\ Window \in Int /\ key.expiry \in Int
            BY <1>1
          <6> QED BY <3>2, <6>1, SMTT(30)
        <5>3. letIn[i - 1] <= Charged(key)
          BY <2>2, <5>1, <5>2 DEF WindowKept
        <5> QED BY <5>1, <5>3
      <4> QED BY <4>1, <4>2
    <3> QED BY <3>1, <3>2
  <2> QED BY <1>2, <1>5, <2>1, <2>2 DEF WindowKept
<1> QED BY <1>4, <1>5

LEMMA LetInInvInit == GuardInit => LetInInv
<1> SUFFICES ASSUME GuardInit PROVE LetInInv
  OBVIOUS
<1>1. recent \in [Ips -> [1..Window -> Nat]]
  BY DEF GuardInit, LimiterInit
<1>2. \A ip \in Ips : WindowKept(counter[ip], recent[ip], now)
  BY LimiterAssumption DEF GuardInit, LimiterInit, WindowKept, Charged, NoKey
<1>3. ExpireOnce
  BY DEF GuardInit, LimiterInit, ExpireOnce, Outside, At
<1> QED BY <1>1, <1>2, <1>3 DEF LetInInv

\* INCR, with or without its reply
LEMMA CountedLetsIn ==
  ASSUME LimiterInv, LetInInv, NEW r \in Requests, Incr(r) \/ IncrUnanswered(r)
  PROVE  LetInInv'
<1> DEFINE ip == gate[r].ip
           n == Incremented(counter[ip].count, MaxLogins)
           more == [i \in 1..Window |-> recent[ip][i] + 1]
<1>1. /\ ip \in Ips /\ gate[r] = At("incr", ip)
      /\ counter \in [Ips -> Keys] /\ now \in Nat
      /\ recent \in [Ips -> [1..Window -> Nat]]
  BY DEF Incr, IncrUnanswered, LimiterInv, LimiterTypeOK, LetInInv, Gates, Outside, At, Keys
<1>2. n \in Nat /\ n > 0 /\ (n = 1 => counter[ip].count = 0)
  BY <1>1, LimiterAssumption, SMTT(30) DEF Incremented, Keys
<1>3. /\ counter' = [counter EXCEPT ![ip].count = n]
      /\ now' = now
  BY DEF Incr, IncrUnanswered, Counted, vars
<1>4. \/ recent' = recent
      \/ n <= MaxLogins /\ recent' = [recent EXCEPT ![ip] = more]
  BY DEF Incr, IncrUnanswered, Counted, LetIn
<1>5. \/ gate' = gate
      \/ \E g : gate' = [gate EXCEPT ![r] = g] /\ (\A j : g = At("expire", j) => j = ip /\ n = 1)
  <2>1. CASE Incr(r)
    BY <2>1 DEF Incr, Counted, FirstOfWindow, At, Outside
  <2>2. CASE IncrUnanswered(r)
    BY <2>2 DEF IncrUnanswered
  <2> QED BY <2>1, <2>2
<1>6. counter'[ip] \in Keys /\ counter'[ip].count = n /\ counter'[ip].expiry = counter[ip].expiry
  BY <1>1, <1>2, <1>3 DEF Keys
<1>7. \A j \in Ips \ {ip} : counter'[j] = counter[j] /\ recent'[j] = recent[j]
  BY <1>1, <1>3, <1>4
<1> HIDE DEF n, ip
<1>8. recent' \in [Ips -> [1..Window -> Nat]]
  <2>1. more \in [1..Window -> Nat]
    <3>1. recent[ip] \in [1..Window -> Nat]
      BY <1>1
    <3>2. \A i \in 1..Window : recent[ip][i] \in Nat
      BY <3>1
    <3> QED BY <3>2
  <2> HIDE DEF more
  <2> QED BY <1>1, <1>4, <2>1
<1>9. ASSUME NEW j \in Ips PROVE WindowKept(counter'[j], recent'[j], now')
  <2>1. CASE j # ip
    BY <1>3, <1>7, <2>1 DEF LetInInv
  <2>2. CASE j = ip
    <3>1. WindowKept(counter[ip], recent[ip], now) /\ counter[ip] \in Keys
          /\ recent[ip] \in [1..Window -> Nat]
      BY <1>1 DEF LetInInv
    <3>2. n = Incremented(counter[ip].count, MaxLogins)
      BY DEF n
    <3>3. /\ WindowKept(counter'[ip], recent[ip], now)
          /\ n <= MaxLogins => WindowKept(counter'[ip], more, now)
      BY <1>1, <1>6, <3>1, <3>2, WindowKeptByCount
    <3>4. recent'[ip] = recent[ip] \/ (n <= MaxLogins /\ recent'[ip] = more)
      BY <1>1, <1>4
    <3> QED BY <1>3, <2>2, <3>3, <3>4
  <2> QED BY <2>1, <2>2
<1>10. ExpireOnce'
  <2> SUFFICES ASSUME NEW q \in Requests, NEW j \in Ips, gate'[q] = At("expire", j)
               PROVE  /\ counter'[j].count > 0 /\ counter'[j].expiry = 0
                      /\ \A p \in Requests : gate'[p] = At("expire", j) => p = q
    BY DEF ExpireOnce
  <2>1. CASE \E p \in Requests : gate[p] = At("expire", j)
    <3>1. PICK p \in Requests : gate[p] = At("expire", j)
      BY <2>1
    <3>2. counter[j].count > 0 /\ counter[j].expiry = 0
      BY <3>1 DEF LetInInv, ExpireOnce
    <3>3. \A x \in Requests : gate'[x] = At("expire", j) => gate[x] = At("expire", j)
      BY <1>2, <1>5, <3>2 DEF LimiterInv, LimiterTypeOK
    <3>4. counter'[j].count > 0 /\ counter'[j].expiry = 0
      BY <1>2, <1>6, <1>7, <3>2
    <3> QED BY <3>3, <3>4 DEF LetInInv, ExpireOnce
  <2>2. CASE \A p \in Requests : gate[p] # At("expire", j)
    <3>1. q = r /\ j = ip /\ n = 1 /\ \A p \in Requests : gate'[p] = At("expire", j) => p = r
      BY <1>5, <2>2 DEF LimiterInv, LimiterTypeOK
    <3>2. counter[ip].expiry = 0
      BY <1>1, <1>2, <3>1 DEF LetInInv, WindowKept
    <3> QED BY <1>2, <1>6, <3>1, <3>2
  <2> QED BY <2>1, <2>2
<1> QED BY <1>8, <1>9, <1>10 DEF LetInInv

\* A request comes, or is given its expiry, or leaves the limiter: nobody is
\* let in.
LEMMA OthersLetNobodyIn ==
  ASSUME LimiterInv, LetInInv, NEW r \in Requests,
         \/ \E ip \in Ips : Arrive(r, ip)
         \/ Expire(r) \/ LimiterFails(r) \/ Dies(r)
         \/ GuardedLoad(r) \/ TurnedAway(r) \/ Compared(r)
  PROVE  LetInInv'
<1>1. UNCHANGED <<recent, now>>
  BY DEF Arrive, Expire, LimiterFails, LetInOnError, Dies, GuardedLoad, Load, TurnedAway,
         Compared, Wrong, Right, limiterVars, vars
<1>2. \/ gate' = gate
      \/ \E g : gate' = [gate EXCEPT ![r] = g] /\ \A j : g # At("expire", j)
  BY DEF Arrive, Expire, LimiterFails, LetInOnError, Dies, GuardedLoad, TurnedAway,
         Compared, limiterVars, At, Outside
<1>3. \A q \in Requests, j \in Ips : gate'[q] = At("expire", j) => gate[q] = At("expire", j)
  BY <1>2 DEF LimiterInv, LimiterTypeOK
<1>4. CASE Expire(r)
  <2> DEFINE ip == gate[r].ip
  <2>1. ip \in Ips /\ gate[r] = At("expire", ip) /\ gate'[r] = At("passed", ip)
    BY <1>4 DEF Expire, LimiterInv, LimiterTypeOK, Gates, Outside, At
  <2>2. /\ counter' = [counter EXCEPT ![ip].expiry = now + Window]
        /\ counter \in [Ips -> Keys] /\ now \in Nat
    BY <1>4 DEF Expire, LimiterInv, LimiterTypeOK, Keys
  <2>3. /\ counter'[ip] \in Keys /\ counter'[ip].count = counter[ip].count
        /\ counter'[ip].expiry = now + Window
        /\ \A j \in Ips \ {ip} : counter'[j] = counter[j]
    BY <2>1, <2>2, LimiterAssumption DEF Keys
  <2>4. counter[ip] \in Keys /\ counter[ip].count > 0
    BY <2>1, <2>2 DEF LetInInv, ExpireOnce
  <2> HIDE DEF ip
  <2>5. WindowKept(counter'[ip], recent[ip], now)
    BY <2>1, <2>2, <2>3, <2>4, WindowKeptByExpire DEF LetInInv
  <2>6. \A j \in Ips : WindowKept(counter'[j], recent[j], now)
    BY <2>3, <2>5 DEF LetInInv
  <2>7. ExpireOnce'
    <3> SUFFICES ASSUME NEW q \in Requests, NEW j \in Ips, gate'[q] = At("expire", j)
                 PROVE  /\ counter'[j].count > 0 /\ counter'[j].expiry = 0
                        /\ \A p \in Requests : gate'[p] = At("expire", j) => p = q
      BY DEF ExpireOnce
    <3>1. q # r
      BY <2>1 DEF At
    <3>2. j # ip
      BY <1>3, <2>1, <3>1 DEF LetInInv, ExpireOnce
    <3> QED BY <1>3, <2>3, <3>2 DEF LetInInv, ExpireOnce
  <2> QED BY <1>1, <2>6, <2>7 DEF LetInInv
<1>5. CASE ~ Expire(r)
  <2>1. counter' = counter
    BY <1>5 DEF Arrive, LimiterFails, Dies, GuardedLoad, TurnedAway, Compared, limiterVars
  <2>2. ExpireOnce'
    BY <1>3, <2>1 DEF LetInInv, ExpireOnce
  <2> QED BY <1>1, <2>1, <2>2 DEF LetInInv
<1> QED BY <1>4, <1>5

LEMMA TickLetsNobodyIn ==
  ASSUME LimiterInv, LetInInv, GuardTick
  PROVE  LetInInv'
<1> DEFINE later == [ip \in Ips |-> [i \in 1..Window |-> IF i = 1 THEN 0 ELSE recent[ip][i - 1]]]
<1>1. /\ counter' = [ip \in Ips |-> IF Expired(counter[ip], now + 1) THEN NoKey ELSE counter[ip]]
      /\ gate' = gate /\ recent' = later /\ now' = now + 1
      /\ now \in Nat
  BY DEF GuardTick, Tick, LimiterInv, LimiterTypeOK
<1>2. \A ip \in Ips : counter[ip] \in Keys /\ recent[ip] \in [1..Window -> Nat]
  BY DEF LimiterInv, LimiterTypeOK, LetInInv, Keys
<1>3. ASSUME NEW ip \in Ips
      PROVE  /\ later[ip] \in [1..Window -> Nat] /\ later[ip][1] = 0
             /\ \A i \in 2..Window : later[ip][i] = recent[ip][i - 1]
  BY <1>2, LimiterAssumption
<1>4. later \in [Ips -> [1..Window -> Nat]]
  BY <1>3
<1> HIDE DEF later
<1>5. \A ip \in Ips : WindowKept(counter'[ip], later[ip], now + 1)
  BY <1>1, <1>2, <1>3, WindowKeptByTick, ZenonT(60) DEF LetInInv
<1>6. ExpireOnce'
  BY <1>1 DEF LetInInv, ExpireOnce, Expired
<1> QED BY <1>1, <1>4, <1>5, <1>6 DEF LetInInv

LEMMA LetInInvStep ==
  ASSUME LimiterInv, LetInInv, [GuardNext]_guardVars
  PROVE  LetInInv'
<1>1. CASE UNCHANGED <<counter, gate, recent, now>>
  BY <1>1 DEF LetInInv, ExpireOnce
<1>2. CASE LoginStep
  BY <1>2, CountedLetsIn, OthersLetNobodyIn DEF LoginStep
<1>3. CASE GuardTick
  BY <1>3, TickLetsNobodyIn
<1> QED BY <1>1, <1>2, <1>3 DEF GuardNext, ClientStep, guardVars, limiterVars, vars

\* In any Window ticks the limiter lets in at most twice its limit from one
\* address, whatever the limit, the window, the requests and the faults
\* (createEndpointLimiter).
THEOREM LoginsStayLimited == GuardSpec => []LoginsLimited
<1>1. LimiterInv /\ LetInInv => LoginsLimited
  <2> SUFFICES ASSUME LimiterInv, LetInInv, NEW ip \in Ips
               PROVE  recent[ip][Window] <= 2 * MaxLogins
    BY DEF LoginsLimited
  <2>1. /\ recent[ip][Window] \in Nat
        /\ Charged(counter[ip]) <= MaxLogins /\ Charged(counter[ip]) \in Nat
    BY LimiterAssumption DEF LimiterInv, LimiterTypeOK, LetInInv, Charged
  <2> QED BY <2>1, LimiterAssumption DEF LetInInv, WindowKept
<1> QED BY <1>1, LimiterInvInit, LimiterInvStep, LetInInvInit, LetInInvStep, PTL DEF GuardSpec

-----------------------------------------------------------------------------
(* The budget of a tenant.                                                 *)

CallsTypeOK ==
  /\ now \in 1..(MaxTime + 1)
  /\ budget \in [Windows -> Keys]
  /\ call \in [Calls -> {NoCall} \cup [step : {"incr", "refused"}, window : Windows, sentIn : Windows]]
  /\ through \in [Windows -> Nat]
  /\ sent \in [Windows -> Nat]

\* A call that is about to be counted is charged to the window it came in, and
\* comes before the key of that window can expire.
ChargedInTime ==
  \A c \in Calls : call[c].step = "incr" =>
    /\ call[c].window = call[c].sentIn
    /\ call[c].sentIn <= now /\ now < call[c].sentIn + 2 * CallWindow

\* The key of a window counts what goes through in it, and counts no call of
\* another one; it outlives the calls of its window.
KeysCount ==
  \A w \in Windows :
    /\ budget[w].expiry # 0 => w + 2 * CallWindow <= budget[w].expiry
    /\ now < w + 2 * CallWindow => through[w] <= budget[w].count
    /\ through[w] <= PerWindow
    /\ budget[w].count <= sent[w]

CallsInv ==
  /\ CallsTypeOK /\ ChargedInTime /\ KeysCount
  /\ \A c \in Calls : call[c].step = "refused" => sent[call[c].sentIn] > PerWindow

LEMMA Quotient ==
  ASSUME NEW t \in Nat, NEW d \in Nat \ {0}
  PROVE  t \div d \in Nat /\ t = d * (t \div d) + (t % d)
OBVIOUS

LEMMA MultipleOf == ASSUME NEW k \in Nat, NEW d \in Nat \ {0} PROVE (d * k) % d = 0
OBVIOUS

LEMMA RoundedDown ==
  ASSUME NEW t \in Nat, NEW d \in Nat \ {0}
  PROVE  (t - (t % d)) % d = 0
<1>1. PICK k \in Nat : t - (t % d) = d * k
  BY Quotient, SMTT(30)
<1> QED BY <1>1, MultipleOf

LEMMA WindowsStart ==
  ASSUME NEW t \in 1..(MaxTime + 1)
  PROVE  /\ windowStart(t) = t - (t % CallWindow) /\ windowStart(t) \in Windows
         /\ windowStart(t) <= t /\ t < windowStart(t) + 2 * CallWindow
<1> USE CallsAssumption
<1>1. t \in Nat /\ CallWindow \in Nat \ {0} /\ t % CallWindow \in 0..(CallWindow - 1)
  OBVIOUS
<1>2. t % CallWindow <= t
  BY <1>1
<1>3. (t - (t % CallWindow)) % CallWindow = 0
  BY <1>1, RoundedDown
<1> QED BY <1>1, <1>2, <1>3 DEF windowStart, Windows

LEMMA CallsInvInit == FrontInit => CallsInv
BY CallsAssumption DEF FrontInit, GuardInit, Init, CallsInv, CallsTypeOK, ChargedInTime, KeysCount, Keys,
       NoKey, NoCall, Windows

LEMMA IncrementedGrows ==
  ASSUME NEW m \in Nat, NEW n \in Nat, m <= n
  PROVE  /\ Incremented(m, PerWindow) \in Nat /\ m <= Incremented(m, PerWindow)
         /\ Incremented(m, PerWindow) <= Incremented(n, PerWindow)
BY CallsAssumption DEF Incremented

LEMMA CallStepInv ==
  ASSUME CallsInv, NEW c \in Calls,
         EnterCall(c) \/ IncrCall(c) \/ CallFails(c) \/ Refuse(c), UNCHANGED now
  PROVE  CallsInv'
<1> USE DEF CallsInv, CallsTypeOK
<1>1. CASE EnterCall(c)
  <2> DEFINE w == windowStart(now)
             new == [step |-> "incr", window |-> w, sentIn |-> WindowNow]
  <2>1. WindowNow = w /\ w \in Windows /\ w <= now /\ now < w + 2 * CallWindow
    BY WindowsStart DEF WindowNow
  <2> HIDE DEF w
  <2>2. /\ call' = [call EXCEPT ![c] = new]
        /\ UNCHANGED <<budget, through, sent>>
    BY <1>1 DEF EnterCall, w
  <2>3. new \in [step : {"incr", "refused"}, window : Windows, sentIn : Windows]
    BY <2>1
  <2>4. CallsTypeOK'
    BY <2>2, <2>3
  <2>5. ChargedInTime'
    BY <2>1, <2>2 DEF ChargedInTime
  <2>6. KeysCount'
    BY <2>2 DEF KeysCount
  <2> QED BY <2>2, <2>4, <2>5, <2>6
<1>2. CASE IncrCall(c)
  <2> DEFINE w == call[c].window
             n == Incremented(budget[w].count, PerWindow)
  <2>1. /\ w \in Windows /\ call[c].sentIn = w /\ w <= now /\ now < w + 2 * CallWindow
        /\ call[c] \in [step : {"incr", "refused"}, window : Windows, sentIn : Windows]
    BY <1>2 DEF IncrCall, ChargedInTime, NoCall
  <2> HIDE DEF w
  <2>2. /\ budget[w] \in Keys /\ budget[w].count \in Nat /\ sent[w] \in Nat /\ through[w] \in Nat
        /\ w \in Nat /\ now \in Nat
    BY <2>1 DEF Keys, Windows
  <2>3. /\ n \in Nat /\ budget[w].count <= n /\ n <= Incremented(sent[w], PerWindow)
        /\ Incremented(sent[w], PerWindow) \in Nat
    BY <2>1, <2>2, IncrementedGrows DEF KeysCount
  <2>4. PICK expires \in BOOLEAN :
          budget' = [budget EXCEPT ![w] =
            [count |-> n, expiry |-> IF expires THEN now + 2 * CallWindow ELSE @.expiry]]
    BY <1>2 DEF IncrCall, w
  <2>5. sent' = [sent EXCEPT ![w] = Incremented(sent[w], PerWindow)]
    BY <1>2, <2>1 DEF IncrCall, w
  <2>6. \/ n > PerWindow /\ call' = [call EXCEPT ![c].step = "refused"] /\ through' = through
        \/ n <= PerWindow /\ n = budget[w].count + 1
           /\ call' = [call EXCEPT ![c] = NoCall] /\ through' = [through EXCEPT ![w] = @ + 1]
    BY <1>2, <2>1, <2>2, CallsAssumption DEF IncrCall, w, Incremented
  <2> HIDE DEF n
  <2>7. /\ budget'[w] \in Keys /\ budget'[w].count = n
        /\ budget'[w].expiry # 0 => w + 2 * CallWindow <= budget'[w].expiry
        /\ sent'[w] = Incremented(sent[w], PerWindow)
        /\ \A v \in Windows \ {w} : budget'[v] = budget[v] /\ sent'[v] = sent[v]
    BY <2>1, <2>2, <2>3, <2>4, <2>5, CallsAssumption DEF KeysCount, Keys
  <2>8. /\ through' \in [Windows -> Nat] /\ through'[w] <= PerWindow /\ through'[w] <= n
        /\ \A v \in Windows \ {w} : through'[v] = through[v]
    BY <2>1, <2>2, <2>3, <2>6, CallsAssumption DEF KeysCount
  <2>9. CallsTypeOK'
    <3>1. budget' \in [Windows -> Keys]
      BY <2>1, <2>4, <2>7
    <3>2. sent' \in [Windows -> Nat]
      BY <2>1, <2>3, <2>5
    <3>3. call' \in [Calls -> {NoCall} \cup [step : {"incr", "refused"}, window : Windows, sentIn : Windows]]
      BY <2>1, <2>6
    <3> QED BY <2>8, <3>1, <3>2, <3>3
  <2>10. ChargedInTime'
    BY <2>1, <2>6 DEF ChargedInTime, NoCall
  <2>11. KeysCount'
    BY <2>3, <2>7, <2>8 DEF KeysCount
  <2>12. \A d \in Calls : call'[d].step = "refused" => sent'[call'[d].sentIn] > PerWindow
    <3> SUFFICES ASSUME NEW d \in Calls, call'[d].step = "refused"
                 PROVE  sent'[call'[d].sentIn] > PerWindow
      OBVIOUS
    <3>1. CASE d = c
      <4>1. n > PerWindow /\ call'[d].sentIn = w
        BY <2>1, <2>6, <3>1 DEF NoCall
      <4> QED BY <2>3, <2>7, <4>1, CallsAssumption
    <3>2. CASE d # c
      <4>1. call'[d] = call[d] /\ call[d].sentIn \in Windows /\ sent[call[d].sentIn] > PerWindow
        BY <2>6, <3>2 DEF NoCall
      <4>2. sent[w] <= sent'[w]
        BY <2>2, <2>7, IncrementedGrows
      <4> QED BY <2>2, <2>3, <2>7, <4>1, <4>2, CallsAssumption
    <3> QED BY <3>1, <3>2
  <2> QED BY <2>9, <2>10, <2>11, <2>12
<1>3. CASE CallFails(c)
  <2> DEFINE w == call[c].window
  <2>1. /\ w \in Windows /\ call[c].sentIn = w
        /\ call' = [call EXCEPT ![c] = NoCall] /\ through' = through
    BY <1>3 DEF CallFails, ChargedInTime, NoCall
  <2> HIDE DEF w
  <2>2. /\ budget[w] \in Keys /\ budget[w].count \in Nat /\ sent[w] \in Nat /\ through[w] \in Nat
        /\ budget[w].count <= sent[w]
    BY <2>1 DEF Keys, KeysCount
  <2>3. PICK m \in Nat, n \in Nat :
          /\ budget' = [budget EXCEPT ![w].count = m] /\ sent' = [sent EXCEPT ![w] = n]
          /\ budget[w].count <= m /\ sent[w] <= n /\ m <= n
    <3>1. PICK executed \in BOOLEAN :
            /\ budget' = [budget EXCEPT ![w].count = IF executed THEN Incremented(@, PerWindow) ELSE @]
            /\ sent' = [sent EXCEPT ![w] = IF executed THEN Incremented(@, PerWindow) ELSE @]
      BY <1>3, <2>1 DEF CallFails, w
    <3> DEFINE by(x) == IF executed THEN Incremented(x, PerWindow) ELSE x
    <3>2. /\ budget' = [budget EXCEPT ![w].count = by(budget[w].count)]
          /\ sent' = [sent EXCEPT ![w] = by(sent[w])]
      BY <2>1, <3>1
    <3>3. /\ by(budget[w].count) \in Nat /\ by(sent[w]) \in Nat
          /\ budget[w].count <= by(budget[w].count) /\ sent[w] <= by(sent[w])
          /\ by(budget[w].count) <= by(sent[w])
      BY <2>2, IncrementedGrows
    <3> HIDE DEF by
    <3> QED BY <3>2, <3>3
  <2>4. /\ budget'[w] \in Keys /\ budget'[w].count = m /\ budget'[w].expiry = budget[w].expiry
        /\ sent'[w] = n
        /\ \A v \in Windows \ {w} : budget'[v] = budget[v] /\ sent'[v] = sent[v]
    BY <2>1, <2>2, <2>3 DEF Keys
  <2>5. CallsTypeOK'
    BY <2>1, <2>3, <2>4
  <2>6. ChargedInTime'
    BY <2>1 DEF ChargedInTime, NoCall
  <2>7. KeysCount'
    <3> SUFFICES ASSUME NEW v \in Windows
                 PROVE  /\ budget'[v].expiry # 0 => v + 2 * CallWindow <= budget'[v].expiry
                        /\ now < v + 2 * CallWindow => through[v] <= budget'[v].count
                        /\ through[v] <= PerWindow
                        /\ budget'[v].count <= sent'[v]
      BY <2>1 DEF KeysCount
    <3>1. CASE v = w
      BY <2>1, <2>2, <2>3, <2>4, <3>1 DEF KeysCount
    <3>2. CASE v # w
      BY <2>4, <3>2 DEF KeysCount
    <3> QED BY <3>1, <3>2
  <2>8. \A d \in Calls : call'[d].step = "refused" => sent'[call'[d].sentIn] > PerWindow
    <3> SUFFICES ASSUME NEW d \in Calls, call'[d].step = "refused"
                 PROVE  sent'[call'[d].sentIn] > PerWindow
      OBVIOUS
    <3>1. call'[d] = call[d] /\ call[d].sentIn \in Windows /\ sent[call[d].sentIn] > PerWindow
      BY <2>1 DEF NoCall
    <3> QED BY <2>2, <2>3, <2>4, <3>1, CallsAssumption
  <2> QED BY <2>5, <2>6, <2>7, <2>8
<1>4. CASE Refuse(c)
  <2>1. call' = [call EXCEPT ![c] = NoCall] /\ UNCHANGED <<budget, through, sent>>
    BY <1>4 DEF Refuse
  <2>2. CallsTypeOK' /\ ChargedInTime' /\ KeysCount'
    BY <2>1 DEF ChargedInTime, KeysCount, NoCall
  <2> QED BY <2>1, <2>2 DEF NoCall
<1> QED BY <1>1, <1>2, <1>3, <1>4

\* A key that expires belongs to a window whose calls are all answered.
LEMMA FrontTickInv ==
  ASSUME CallsInv, FrontTick
  PROVE  CallsInv'
<1> USE DEF CallsInv, CallsTypeOK
<1>1. /\ now' = now + 1 /\ now' \in 1..(MaxTime + 1)
      /\ UNCHANGED <<call, through, sent>>
      /\ budget' = [w \in Windows |-> IF Expired(budget[w], now') THEN NoKey ELSE budget[w]]
  BY DEF FrontTick, GuardTick, Tick
<1>2. CallsTypeOK'
  BY <1>1 DEF NoKey, Keys
<1>3. ChargedInTime'
  <2> SUFFICES ASSUME NEW c \in Calls, call[c].step = "incr"
               PROVE  /\ call[c].window = call[c].sentIn
                      /\ call[c].sentIn <= now' /\ now' < call[c].sentIn + 2 * CallWindow
    BY <1>1 DEF ChargedInTime
  <2>1. call[c].sentIn \in Nat
    BY DEF NoCall, Windows
  <2> QED BY <1>1, <2>1 DEF FrontTick, ChargedInTime
<1>4. KeysCount'
  <2> SUFFICES ASSUME NEW w \in Windows
               PROVE  /\ budget'[w].expiry # 0 => w + 2 * CallWindow <= budget'[w].expiry
                      /\ now' < w + 2 * CallWindow => through[w] <= budget'[w].count
                      /\ through[w] <= PerWindow
                      /\ budget'[w].count <= sent[w]
    BY <1>1 DEF KeysCount
  <2>1. w \in Nat /\ budget[w].expiry \in Nat /\ budget[w].count \in Nat /\ sent[w] \in Nat
    BY DEF Windows, Keys
  <2>2. CASE Expired(budget[w], now')
    BY <1>1, <2>1, <2>2, CallsAssumption DEF KeysCount, Expired, NoKey
  <2>3. CASE ~ Expired(budget[w], now')
    BY <1>1, <2>1, <2>3, CallsAssumption DEF KeysCount
  <2> QED BY <2>2, <2>3
<1> QED BY <1>1, <1>2, <1>3, <1>4

LEMMA LoginsTakeNoTime == LoginStep => UNCHANGED now
BY DEF LoginStep, Arrive, Incr, IncrUnanswered, Expire, LimiterFails, Dies, GuardedLoad, Load, TurnedAway,
       Compared, Wrong, Right, vars

LEMMA CallsInvStep == ASSUME CallsInv, [FrontNext]_frontVars PROVE CallsInv'
<1>1. CASE FrontTick BY <1>1, FrontTickInv
<1>2. CASE CallStep /\ UNCHANGED guardVars
  <2>1. UNCHANGED now BY <1>2 DEF guardVars, vars
  <2> QED BY <1>2, <2>1, CallStepInv DEF CallStep
<1>3. CASE UNCHANGED <<now, callVars>>
  BY <1>3 DEF callVars, CallsInv, CallsTypeOK, ChargedInTime, KeysCount
<1>4. ClientStep \/ UNCHANGED guardVars => UNCHANGED now
  BY DEF ClientStep, guardVars, vars
<1> QED BY <1>1, <1>2, <1>3, <1>4, LoginsTakeNoTime DEF FrontNext, frontVars

\* No more than the budget of a window goes through in it, and no call is
\* refused before its own window's budget is used up, for any number of calls,
\* any budget and any length of a window (tenantRateLimit).
THEOREM WindowBudgetsHold == FrontSpec => []WindowBudgets
<1>1. CallsInv => WindowBudgets BY DEF CallsInv, KeysCount, WindowBudgets
<1> QED BY <1>1, CallsInvInit, CallsInvStep, PTL DEF FrontSpec

\* The two limiters on one Redis client keep what each keeps alone.
THEOREM FrontIsGuarded == FrontSpec => LockHolds /\ []CountersEnd /\ []LoginsLimited
BY FrontKeepsTheGuards, GuardedLocksHold, CountersEndSafe, LoginsStayLimited, PTL
=============================================================================
