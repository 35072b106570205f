-------------------------- MODULE AuthSessionsProofs --------------------------
(***************************************************************************)
(* Sessions, rotations and logouts for any numbers of users, tokens and    *)
(* requests, any lifetime of a token and any number of ticks to a second.  *)
(*                                                                         *)
(* Three facts carry the proof: a refresh token that is being handed out   *)
(* is in nobody else's hands, so that only a key that was delivered is     *)
(* ever deleted; what has been issued keeps its claims; and the key of a   *)
(* blacklisted token outlives the token.                                   *)
(***************************************************************************)
EXTENDS AuthSessions, TLAPS

USE AuthAssumption DEF AuthAssumption

HandingOut == {"login", "grant"}
Presented == {"user", "delete", "store", "grant"}
Moving == {"login", "store", "grant"}

\* The blacklist key of a stays at least as long as a is valid.
Covered(a) == Ticks * issued[a].exp <= blacklist[a] \/ Expired(a)

\* What a handler relies on at each of its steps
RequestOK(r) ==
  /\ req[r].step = "login" =>
       /\ req[r].token \in Access /\ ~ Unused(req[r].token)
       /\ issued[req[r].token].login = req[r].fresh
       /\ issued[req[r].fresh].login = req[r].fresh
  /\ req[r].step \in Presented => req[r].token \in Refresh \cap delivered
  /\ req[r].step \in {"check", "logout", "drop"} =>
       req[r].token \in Access /\ ~ Unused(req[r].token)
  /\ req[r].step \in HandingOut =>
       /\ req[r].fresh \in Refresh \ delivered /\ ~ Unused(req[r].fresh)
       /\ \A q \in Requests :
            req[q].step \in HandingOut /\ req[q].fresh = req[r].fresh => q = r
  /\ req[r].step = "store" => req[r].token \notin refreshKeys
  /\ req[r].step = "grant" =>
       /\ issued[req[r].fresh].login = issued[req[r].token].login
       /\ req[r].fresh \in refreshKeys \/ issued[req[r].token].login \in hit
  /\ req[r].step = "drop" /\ req[r].noted => Covered(req[r].token)
  /\ req[r].step = "check" /\ req[r].noted => req[r].token \in loggedOut

TokensOK ==
  /\ \A t \in delivered : ~ Unused(t)
  /\ \A f \in Refresh : rotations[f] > 0 => f \in delivered
  /\ RotatedIsDead
LogoutsOK ==
  /\ \A a \in loggedOut : ~ Unused(a) /\ Covered(a)
  /\ \A a \in lateUses : ~ Unused(a) /\ Expired(a)

IInv ==
  /\ TypeOK /\ TokensOK /\ LogoutsOK /\ SessionSurvives
  /\ \A r \in Requests : RequestOK(r)

-----------------------------------------------------------------------------
(* Seconds and ticks.                                                      *)

LEMMA Quotient ==
  ASSUME NEW t \in Nat, NEW d \in Nat \ {0}
  PROVE  t \div d \in Nat /\ d * (t \div d) <= t /\ t < d * ((t \div d) + 1)
OBVIOUS

LEMMA SecondReached ==
  ASSUME NEW t \in Nat, NEW d \in Nat \ {0}, NEW e \in Nat, d * e <= t
  PROVE  e <= t \div d
<1>1. t \div d \in Nat /\ t < d * ((t \div d) + 1)
  BY Quotient
<1>2. ASSUME NEW k \in Nat, t < d * (k + 1) PROVE e <= k
  <2>1. CASE e >= k + 1
    BY <1>2, <2>1
  <2> QED BY <2>1
<1> QED BY <1>1, <1>2

LEMMA SecondsGrow ==
  ASSUME NEW t \in Nat, NEW d \in Nat \ {0}
  PROVE  t \div d <= (t + 1) \div d
<1>1. d * (t \div d) <= t + 1 /\ t \div d \in Nat
  BY Quotient
<1> QED BY <1>1, SecondReached

\* The whole seconds that are left, counted from within a second, reach the
\* second of the expiry (remainingTTL).
LEMMA KeyLongEnough ==
  ASSUME NEW t \in Nat, NEW d \in Nat \ {0}, NEW e \in Nat
  PROVE  d * e <= t + d * (e - (t \div d))
<1>1. t \div d \in Nat /\ d * (t \div d) <= t
  BY Quotient
<1>2. ASSUME NEW k \in Nat, d * k <= t PROVE d * e <= t + d * (e - k)
  <2>1. d * (e - k) = d * e - d * k /\ d * e \in Int /\ d * k \in Int
    OBVIOUS
  <2> QED BY <1>2, <2>1
<1> QED BY <1>1, <1>2

LEMMA IssuedTypes ==
  ASSUME TypeOK, NEW t \in Access \cup Refresh
  PROVE  /\ issued[t].exp \in Nat
         /\ ~ Unused(t) => issued[t] \in Claims
         /\ Second(now) \in Nat /\ now \in Nat
<1>1. issued[t] \in Claims \cup {NotIssued} /\ now \in Nat
  BY DEF TypeOK
<1>2. Second(now) \in Nat
  BY <1>1, Quotient DEF Second
<1> QED BY <1>1, <1>2 DEF Claims, NotIssued, Unused

\* A covered token that is on the blacklist no more has expired.
LEMMA CoveredExpires ==
  ASSUME TypeOK, NEW a \in Access, Covered(a), ~ Blacklisted(a)
  PROVE  Expired(a)
<1>1. issued[a].exp \in Nat /\ now \in Nat /\ blacklist[a] \in Nat /\ Second(now) \in Nat
  BY IssuedTypes DEF TypeOK
<1>2. CASE Ticks * issued[a].exp <= blacklist[a]
  <2>1. Ticks * issued[a].exp <= now
    BY <1>1, <1>2 DEF Blacklisted
  <2> QED BY <1>1, <2>1, SecondReached DEF Expired, Second
<1> QED BY <1>2 DEF Covered

-----------------------------------------------------------------------------
(* What a step leaves alone.                                               *)

IssuedKept == \A t \in Access \cup Refresh : ~ Unused(t) => issued'[t] = issued[t]
CoveredKept == \A a \in Access : ~ Unused(a) /\ Covered(a) => Covered(a)'

\* A handler keeps what it relies on in the steps of the others.
LEMMA OthersOK ==
  ASSUME IInv, NEW q \in Requests, req'[q] = req[q], IssuedKept, CoveredKept,
         delivered \subseteq delivered', hit \subseteq hit', loggedOut \subseteq loggedOut',
         req[q].step \in HandingOut =>
           /\ req[q].fresh \notin delivered'
           /\ \A p \in Requests :
                req'[p].step \in HandingOut /\ req'[p].fresh = req[q].fresh => p = q,
         req[q].step = "store" => req[q].token \notin refreshKeys',
         req[q].step = "grant" /\ req[q].fresh \in refreshKeys => req[q].fresh \in refreshKeys'
  PROVE  RequestOK(q)'
<1>1. RequestOK(q)
  BY DEF IInv
<1>2. req[q].step \in Presented =>
        ~ Unused(req[q].token) /\ req[q].token \in Refresh \cap delivered
  BY <1>1 DEF IInv, TokensOK, RequestOK
<1>3. req[q].step \in HandingOut => ~ Unused(req[q].fresh) /\ req[q].fresh \in Refresh
  BY <1>1 DEF RequestOK
<1>4. NotIssued \notin Claims
  BY DEF NotIssued, Claims
<1>5. \A t \in Access \cup Refresh : ~ Unused(t) => ~ Unused(t)'
  BY DEF IssuedKept, Unused
<1> QED BY <1>1, <1>2, <1>3, <1>5 DEF RequestOK, IssuedKept, CoveredKept, HandingOut, Presented

\* What has been delivered and exchanged stays so when neither grows.
LEMMA TokensKept ==
  ASSUME IInv, IssuedKept, UNCHANGED <<delivered, rotations>>, refreshKeys' \subseteq refreshKeys
  PROVE  TokensOK'
BY DEF IInv, TypeOK, TokensOK, RotatedIsDead, IssuedKept, Unused

LEMMA LogoutsKept ==
  ASSUME IInv, IssuedKept, CoveredKept, now <= now', now' \in Nat, Second(now) <= Second(now'),
         UNCHANGED <<loggedOut, lateUses>>
  PROVE  LogoutsOK'
<1>1. \A a \in Access : ~ Unused(a) /\ Expired(a) => Expired(a)'
  <2> SUFFICES ASSUME NEW a \in Access, ~ Unused(a), Expired(a) PROVE Expired(a)'
    OBVIOUS
  <2>1. issued'[a] = issued[a] /\ issued[a].exp \in Nat /\ Second(now) \in Nat
    BY IssuedTypes DEF IInv, IssuedKept
  <2>2. Second(now') \in Nat
    BY Quotient DEF Second
  <2>3. issued[a].exp <= Second(now)
    BY DEF Expired
  <2>4. issued[a].exp <= Second(now')
    BY <2>1, <2>2, <2>3
  <2> QED BY <2>1, <2>4 DEF Expired
<1>2. \A a \in Access : ~ Unused(a) => ~ Unused(a)'
  BY DEF IssuedKept, Unused
<1> QED BY <1>1, <1>2 DEF IInv, TypeOK, LogoutsOK, CoveredKept

\* Sessions survive a step that takes no refresh token away and ends no
\* handing out.
LEMMA SessionsKept ==
  ASSUME IInv, IssuedKept, UNCHANGED delivered, hit \subseteq hit',
         refreshKeys \cap Refresh \subseteq refreshKeys',
         \A r \in Requests : req[r].step \in Moving =>
           req'[r].step \in Moving /\ req'[r].token = req[r].token
  PROVE  SessionSurvives'
<1> SUFFICES ASSUME NEW s \in Sessions' \ hit', ~ Rotating(s)' PROVE LiveTokens(s)' # {}
  BY DEF SessionSurvives
<1>1. \A f \in delivered : ~ Unused(f) /\ issued'[f] = issued[f]
  BY DEF IInv, TokensOK, IssuedKept, TypeOK
<1>2. s \in Sessions \ hit
  BY <1>1 DEF Sessions
<1>3. ~ Rotating(s)
  <2> SUFFICES ASSUME NEW r \in Requests, req[r].step \in Moving, issued[req[r].token].login = s
               PROVE  FALSE
    BY DEF Rotating, Moving
  <2>1. ~ Unused(req[r].token) /\ req[r].token \in Access \cup Refresh
    BY <1>1 DEF IInv, RequestOK, Moving, Presented
  <2>2. req'[r].step \in Moving /\ issued'[req'[r].token].login = s
    BY <2>1 DEF IssuedKept
  <2> QED BY <2>2 DEF Rotating, Moving
<1>4. PICK f \in refreshKeys \cap delivered : issued[f].login = s
  BY <1>2, <1>3 DEF IInv, SessionSurvives, LiveTokens
<1>5. f \in Refresh
  BY <1>4 DEF IInv, TypeOK
<1> QED BY <1>1, <1>4, <1>5 DEF LiveTokens

-----------------------------------------------------------------------------
(* The steps.                                                              *)

LEMMA InitInv == Init => IInv
<1> SUFFICES ASSUME Init PROVE IInv
  OBVIOUS
<1> USE DEF Init
<1>1. TypeOK
  BY DEF TypeOK
<1>2. TokensOK /\ LogoutsOK /\ SessionSurvives
  BY DEF TokensOK, RotatedIsDead, LogoutsOK, SessionSurvives, Sessions
<1>3. \A r \in Requests : RequestOK(r)
  BY DEF RequestOK, Idle, HandingOut, Presented
<1> QED BY <1>1, <1>2, <1>3 DEF IInv

\* A step of one handler that leaves keys, tokens and their claims alone
LEMMA QuietStep ==
  ASSUME IInv, NEW r \in Requests, NEW next \in Serving \cup {Idle},
         req' = [req EXCEPT ![r] = next],
         next.step \notin HandingOut, req[r].step \notin Moving, RequestOK(r)',
         UNCHANGED <<now, redisUp, active, outages, issued, delivered, rotations, hit, dbErrors>>,
         refreshKeys' \in SUBSET refreshKeys, refreshKeys \cap Refresh \subseteq refreshKeys',
         blacklist' \in [Access -> Nat], CoveredKept, loggedOut \subseteq loggedOut',
         loggedOut' \subseteq Access, lateUses' \subseteq Access, LogoutsOK'
  PROVE  IInv'
<1>1. IssuedKept
  BY DEF IssuedKept
<1>2. req[r] \in Serving \cup {Idle} /\ req'[r] = next /\ \A q \in Requests \ {r} : req'[q] = req[q]
  BY DEF IInv, TypeOK
<1>3. TypeOK'
  BY DEF IInv, TypeOK
<1>4. TokensOK'
  BY <1>1, TokensKept
<1>5. SessionSurvives'
  BY <1>1, <1>2, SessionsKept
<1>6. ASSUME NEW q \in Requests \ {r} PROVE RequestOK(q)'
  <2>1. RequestOK(q) /\ req'[q] = req[q]
    BY <1>2 DEF IInv
  <2>2. req[q].step \in HandingOut =>
          /\ req[q].fresh \notin delivered'
          /\ \A p \in Requests :
               req'[p].step \in HandingOut /\ req'[p].fresh = req[q].fresh => p = q
    BY <1>2, <2>1 DEF RequestOK
  <2>3. req[q].step = "store" => req[q].token \notin refreshKeys'
    BY <2>1 DEF RequestOK
  <2>4. req[q].step = "grant" /\ req[q].fresh \in refreshKeys => req[q].fresh \in refreshKeys'
    BY <2>1 DEF RequestOK, HandingOut
  <2> QED BY <1>1, <2>1, <2>2, <2>3, <2>4, OthersOK
<1> QED BY <1>3, <1>4, <1>5, <1>6 DEF IInv

LEMMA RequestTypes ==
  ASSUME IInv, NEW r \in Requests, req[r].step # "idle"
  PROVE  /\ req[r] \in Serving /\ RequestOK(r)
         /\ req[r].step \in Steps /\ req[r].token \in Access \cup Refresh
         /\ req[r].fresh \in Refresh \cup {None} /\ req[r].noted \in BOOLEAN
BY DEF IInv, TypeOK, Idle, Serving

LEMMA CoveredUnchanged == ASSUME UNCHANGED <<now, blacklist, issued>> PROVE CoveredKept
BY DEF CoveredKept, Covered, Expired, Second

LEMMA LogoutsUnchanged ==
  ASSUME IInv, UNCHANGED <<now, blacklist, issued, loggedOut, lateUses>>
  PROVE  LogoutsOK'
BY DEF IInv, LogoutsOK, Covered, Expired, Second, Unused

LEMMA RefreshGetInv ==
  ASSUME IInv, NEW r \in Requests, NEW f \in Refresh, RefreshGet(r, f)
  PROVE  IInv'
<1> DEFINE next == [step |-> "user", token |-> f, fresh |-> None, noted |-> FALSE]
<1>1. /\ req' = [req EXCEPT ![r] = next] /\ req[r].step = "idle" /\ f \in delivered
      /\ UNCHANGED <<clock, refreshKeys, blacklist, issued, delivered, ghosts, dbErrors>>
  BY DEF RefreshGet, Goto, Idle
<1>2. next \in Serving /\ next.step = "user" /\ next.token = f
  BY DEF Serving, Steps
<1> HIDE DEF next
<1>3. req'[r] = next
  BY <1>1 DEF IInv, TypeOK
<1>4. RequestOK(r)'
  BY <1>1, <1>2, <1>3 DEF RequestOK, HandingOut, Presented
<1>5. CoveredKept /\ LogoutsOK'
  BY <1>1, CoveredUnchanged, LogoutsUnchanged DEF clock, ghosts
<1> QED BY <1>1, <1>2, <1>4, <1>5, QuietStep
        DEF IInv, TypeOK, clock, ghosts, HandingOut, Moving

LEMMA RefreshUserInv ==
  ASSUME IInv, NEW r \in Requests, RefreshUser(r)
  PROVE  IInv'
<1>1. PICK next \in {Idle, [req[r] EXCEPT !.step = "delete"]} :
        /\ req' = [req EXCEPT ![r] = next] /\ req[r].step = "user"
        /\ UNCHANGED <<clock, refreshKeys, blacklist, issued, delivered, ghosts, dbErrors>>
  BY DEF RefreshUser, Goto, Answer
<1>2. req[r] \in Serving /\ req[r].token \in Refresh \cap delivered
  BY <1>1, RequestTypes DEF RequestOK, Presented
<1>3. next \in Serving \cup {Idle} /\ next.step \in {"idle", "delete"}
      /\ (next.step = "delete" => next.token = req[r].token)
  BY <1>1, <1>2 DEF Serving, Steps, Idle
<1>4. req'[r] = next
  BY <1>1 DEF IInv, TypeOK
<1>5. RequestOK(r)'
  BY <1>1, <1>2, <1>3, <1>4 DEF RequestOK, HandingOut, Presented
<1>6. CoveredKept /\ LogoutsOK'
  BY <1>1, CoveredUnchanged, LogoutsUnchanged DEF clock, ghosts
<1> HIDE DEF Idle
<1> QED BY <1>1, <1>3, <1>5, <1>6, QuietStep DEF IInv, TypeOK, clock, ghosts, HandingOut, Moving

LEMMA AuthVerifyInv ==
  ASSUME IInv, NEW r \in Requests, NEW a \in Access, AuthVerify(r, a)
  PROVE  IInv'
<1> DEFINE next == [step |-> "check", token |-> a, fresh |-> None, noted |-> a \in loggedOut]
<1>1. /\ req' = [req EXCEPT ![r] = next] /\ req[r].step = "idle" /\ a \in delivered
      /\ UNCHANGED <<clock, refreshKeys, blacklist, issued, delivered, ghosts, dbErrors>>
  BY DEF AuthVerify, Goto, Idle
<1>2. next \in Serving /\ next.step = "check" /\ next.token = a /\ (next.noted => a \in loggedOut)
  <2>1. (a \in loggedOut) \in BOOLEAN
    OBVIOUS
  <2> QED BY <2>1 DEF Serving, Steps
<1> HIDE DEF next
<1>3. req'[r] = next
  BY <1>1 DEF IInv, TypeOK
<1>4. ~ Unused(a)'
  BY <1>1 DEF IInv, TokensOK, Unused
<1>5. RequestOK(r)'
  BY <1>1, <1>2, <1>3, <1>4 DEF RequestOK, Unused, HandingOut, Presented, ghosts
<1>6. CoveredKept /\ LogoutsOK'
  BY <1>1, CoveredUnchanged, LogoutsUnchanged DEF clock, ghosts
<1> QED BY <1>1, <1>2, <1>5, <1>6, QuietStep
        DEF IInv, TypeOK, clock, ghosts, HandingOut, Moving

\* A token that Redis lets pass after its logout has expired.
LEMMA AuthCheckInv ==
  ASSUME IInv, NEW r \in Requests, AuthCheck(r)
  PROVE  IInv'
<1>1. PICK next \in {Idle, [req[r] EXCEPT !.step = "logout", !.noted = FALSE]} :
        /\ req' = [req EXCEPT ![r] = next] /\ req[r].step = "check"
        /\ UNCHANGED <<clock, refreshKeys, blacklist, issued, delivered, loggedOut, rotations, hit, dbErrors>>
  BY DEF AuthCheck, Goto, Answer
<1>2. req[r] \in Serving /\ req[r].token \in Access /\ ~ Unused(req[r].token)
      /\ (req[r].noted => req[r].token \in loggedOut)
  BY <1>1, RequestTypes DEF RequestOK
<1>3. next \in Serving \cup {Idle} /\ next.step \in {"idle", "logout"}
      /\ (next.step = "logout" => next.token = req[r].token)
  <2>1. CASE next = Idle
    BY <2>1 DEF Idle
  <2>2. CASE next = [req[r] EXCEPT !.step = "logout", !.noted = FALSE]
    BY <1>2, <2>2 DEF Serving, Steps
  <2> QED BY <1>1, <2>1, <2>2
<1>4. req'[r] = next
  BY <1>1 DEF IInv, TypeOK
<1>5. RequestOK(r)'
  BY <1>1, <1>2, <1>3, <1>4 DEF RequestOK, HandingOut, Presented, Unused
<1>6. CoveredKept
  BY <1>1, CoveredUnchanged DEF clock
<1>7. lateUses' = lateUses \/ (Expired(req[r].token) /\ lateUses' = lateUses \cup {req[r].token})
  <2> SUFFICES ASSUME Accepts(req[r].token), req[r].noted, redisUp PROVE Expired(req[r].token)
    BY DEF AuthCheck
  <2>1. Covered(req[r].token) /\ ~ Blacklisted(req[r].token)
    BY <1>2 DEF IInv, LogoutsOK, Accepts
  <2> QED BY <1>2, <2>1, CoveredExpires DEF IInv
<1>8. LogoutsOK'
  BY <1>1, <1>2, <1>7 DEF IInv, LogoutsOK, Covered, Expired, Second, Unused, clock
<1>9. lateUses' \subseteq Access
  BY <1>2, <1>7 DEF IInv, TypeOK
<1> HIDE DEF Idle
<1> QED BY <1>1, <1>3, <1>5, <1>6, <1>8, <1>9, QuietStep DEF IInv, TypeOK, clock, HandingOut, Moving

\* The key that logout sets covers the token, however late in a second it is.
LEMMA LogoutBlacklistInv ==
  ASSUME IInv, NEW r \in Requests, LogoutBlacklist(r)
  PROVE  IInv'
<1>1. PICK a \in Access : a = req[r].token /\ ~ Unused(a)
  BY RequestTypes DEF LogoutBlacklist, RequestOK
<1>2. /\ req[r].step = "logout" /\ req[r] \in Serving
      /\ blacklist' = IF redisUp /\ remainingTTL(a) > 0
                      THEN [blacklist EXCEPT ![a] = now + Ticks * remainingTTL(a)] ELSE blacklist
      /\ UNCHANGED <<clock, refreshKeys, issued, delivered, ghosts, dbErrors>>
  BY <1>1, RequestTypes DEF LogoutBlacklist
<1>3. PICK next \in Serving :
        /\ req' = [req EXCEPT ![r] = next]
        /\ next.step = "drop" /\ next.token = a /\ next.noted = redisUp
  <2>1. [req[r] EXCEPT !.step = "drop", !.noted = redisUp] \in Serving
    BY <1>2 DEF Serving, Steps, IInv, TypeOK
  <2> QED BY <1>1, <1>2, <2>1 DEF LogoutBlacklist, Goto, Serving
<1>4. req'[r] = next
  BY <1>3 DEF IInv, TypeOK
<1>5. /\ issued[a].exp \in Nat /\ now \in Nat /\ Second(now) \in Nat
      /\ blacklist \in [Access -> Nat]
  BY IssuedTypes DEF IInv, TypeOK
<1>6. /\ blacklist' \in [Access -> Nat]
      /\ \A x \in Access \ {a} : blacklist'[x] = blacklist[x]
      /\ blacklist' = blacklist \/ Ticks * issued[a].exp <= blacklist'[a]
      /\ redisUp => Covered(a)'
  <2>1. CASE redisUp /\ remainingTTL(a) > 0
    <3> DEFINE end == now + Ticks * remainingTTL(a)
    <3>1. remainingTTL(a) = issued[a].exp - Second(now) /\ remainingTTL(a) \in Nat
      BY <1>5, <2>1 DEF remainingTTL
    <3>2. end \in Nat
      BY <1>5, <3>1
    <3>3. Ticks * issued[a].exp <= end
      BY <1>5, <3>1, KeyLongEnough DEF Second
    <3> HIDE DEF end
    <3>4. blacklist' = [blacklist EXCEPT ![a] = end]
      BY <1>2, <2>1 DEF end
    <3>5. /\ blacklist' \in [Access -> Nat] /\ blacklist'[a] = end
          /\ \A x \in Access \ {a} : blacklist'[x] = blacklist[x]
      BY <1>5, <3>2, <3>4
    <3>6. issued' = issued
      BY <1>2
    <3>7. Covered(a)'
      BY <3>3, <3>5, <3>6 DEF Covered
    <3> QED BY <3>3, <3>5, <3>7
  <2>2. CASE ~ (redisUp /\ remainingTTL(a) > 0)
    <3>1. blacklist' = blacklist /\ (redisUp => Expired(a))
      BY <1>2, <1>5, <2>2 DEF remainingTTL, Expired
    <3>2. redisUp => Covered(a)'
      BY <1>2, <3>1 DEF Covered, Expired, Second, clock
    <3> QED BY <1>5, <3>1, <3>2
  <2> QED BY <2>1, <2>2
<1>7. CoveredKept
  BY <1>2, <1>6 DEF CoveredKept, Covered, Expired, Second, clock
<1>8. LogoutsOK'
  BY <1>2, <1>7, LogoutsKept, IssuedTypes, <1>5 DEF IssuedKept, clock, ghosts
<1>9. RequestOK(r)'
  <2>1. req'[r].step = "drop" /\ req'[r].token = a /\ req'[r].noted = redisUp
    BY <1>3, <1>4
  <2>2. ~ Unused(a)'
    BY <1>1, <1>2 DEF Unused
  <2> QED BY <1>6, <2>1, <2>2 DEF RequestOK, HandingOut, Presented
<1> QED BY <1>2, <1>3, <1>6, <1>7, <1>8, <1>9, QuietStep
        DEF IInv, TypeOK, clock, ghosts, HandingOut, Moving

LEMMA LogoutDropInv ==
  ASSUME IInv, NEW r \in Requests, LogoutDrop(r)
  PROVE  IInv'
<1>1. /\ req' = [req EXCEPT ![r] = Idle] /\ req[r].step = "drop"
      /\ refreshKeys' \in {refreshKeys, refreshKeys \ {req[r].token}}
      /\ loggedOut' = IF req[r].noted THEN loggedOut \cup {req[r].token} ELSE loggedOut
      /\ UNCHANGED <<clock, blacklist, issued, delivered, rotations, hit, lateUses, dbErrors>>
  BY DEF LogoutDrop, Answer, Goto
<1>2. /\ req[r].token \in Access /\ ~ Unused(req[r].token)
      /\ req[r].noted => Covered(req[r].token)
  BY <1>1, RequestTypes DEF RequestOK
<1>3. req'[r] = Idle /\ Idle.step = "idle"
  BY <1>1 DEF IInv, TypeOK, Idle
<1>4. RequestOK(r)'
  BY <1>3 DEF RequestOK, HandingOut, Presented
<1>5. CoveredKept
  BY <1>1, CoveredUnchanged DEF clock
<1>6. LogoutsOK'
  BY <1>1, <1>2 DEF IInv, LogoutsOK, Covered, Expired, Second, Unused, clock
<1> HIDE DEF Idle
<1> QED BY <1>1, <1>2, <1>3, <1>4, <1>5, <1>6, QuietStep
        DEF IInv, TypeOK, clock, HandingOut, Moving

\* The clock, the users and Redis
LEMMA SurroundingsInv ==
  ASSUME IInv, Tick \/ RedisDown \/ RedisBack \/ \E u \in Users : Deactivate(u)
  PROVE  IInv'
<1>1. /\ UNCHANGED still
      /\ now' \in 0..MaxTime /\ redisUp' \in BOOLEAN /\ active' \subseteq Users
      /\ outages' \in 0..MaxOutages
      /\ now' \in {now, now + 1}
  <2>1. CASE Tick
    <3>1. now \in 0..MaxTime /\ now < MaxTime /\ now' = now + 1
      BY <2>1 DEF Tick, IInv, TypeOK
    <3>2. now' \in 0..MaxTime
      BY <3>1
    <3> QED BY <2>1, <3>1, <3>2 DEF Tick, IInv, TypeOK
  <2>2. CASE RedisDown
    <3>1. outages \in 0..MaxOutages /\ outages < MaxOutages /\ outages' = outages + 1
      BY <2>2 DEF RedisDown, IInv, TypeOK
    <3>2. outages' \in 0..MaxOutages
      BY <3>1
    <3> QED BY <2>2, <3>2 DEF RedisDown, IInv, TypeOK
  <2>3. CASE RedisBack BY <2>3 DEF RedisBack, IInv, TypeOK
  <2>4. CASE \E u \in Users : Deactivate(u) BY <2>4 DEF Deactivate, IInv, TypeOK
  <2> QED BY <2>1, <2>2, <2>3, <2>4
<1>2. UNCHANGED <<refreshKeys, blacklist, issued, delivered, req, loggedOut, rotations, hit,
                  lateUses, dbErrors>>
  BY <1>1 DEF still, ghosts
<1>3. TypeOK'
  BY <1>1, <1>2 DEF IInv, TypeOK
<1>4. now \in Nat /\ now <= now' /\ Second(now) <= Second(now')
  <2>1. now \in Nat
    BY DEF IInv, TypeOK
  <2>2. Second(now) \in Nat /\ Second(now) <= Second(now + 1)
    BY <2>1, SecondsGrow, Quotient DEF Second
  <2> QED BY <1>1, <2>1, <2>2
<1>5. IssuedKept
  BY <1>2 DEF IssuedKept
<1>6. CoveredKept
  <2> SUFFICES ASSUME NEW a \in Access, Covered(a) PROVE Covered(a)'
    BY DEF CoveredKept
  <2>1. Expired(a) => Expired(a)'
    <3>1. issued[a].exp \in Nat /\ Second(now) \in Nat
      BY IssuedTypes DEF IInv
    <3>2. now' \in Nat
      BY <1>1
    <3>3. Second(now') \in Nat
      BY <3>2, Quotient DEF Second
    <3> QED BY <1>2, <1>4, <3>1, <3>3 DEF Expired
  <2> QED BY <1>2, <2>1 DEF Covered
<1>7. TokensOK' /\ LogoutsOK' /\ SessionSurvives'
  <2>1. TokensOK'
    BY <1>2, <1>5, TokensKept
  <2>2. LogoutsOK'
    BY <1>1, <1>2, <1>4, <1>5, <1>6, LogoutsKept
  <2>3. SessionSurvives'
    BY <1>2, <1>5, SessionsKept
  <2> QED BY <2>1, <2>2, <2>3
<1>8. ASSUME NEW q \in Requests PROVE RequestOK(q)'
  BY <1>2, <1>5, <1>6, OthersOK DEF IInv, RequestOK, HandingOut
<1> QED BY <1>3, <1>7, <1>8 DEF IInv

\* Signing the two tokens of a session: neither is in anybody's hands.
LEMMA LoginInv ==
  ASSUME IInv, NEW r \in Requests, NEW u \in Users, NEW a \in Access, NEW f \in Refresh,
         Login(r, u, a, f)
  PROVE  IInv'
<1>1. PICK claims \in Claims : claims.login = f /\ claims = AccessClaims(u, f)
  <2>1. Second(now) \in Nat
    BY IssuedTypes DEF IInv
  <2>2. Second(now) + AccessTTL \in Nat
    BY <2>1
  <2> QED BY <2>2 DEF AccessClaims, Claims
<1>2. PICK opened \in Claims : opened.login = f /\ opened = [user |-> u, login |-> f, exp |-> 0]
  BY DEF Claims
<1>3. PICK next \in Serving : /\ req' = [req EXCEPT ![r] = next]
                              /\ next.step = "login" /\ next.token = a /\ next.fresh = f
  <2>1. [step |-> "login", token |-> a, fresh |-> f, noted |-> FALSE] \in Serving
    BY DEF Serving, Steps
  <2> QED BY <2>1 DEF Login, Goto
<1>4. /\ req[r].step = "idle" /\ Unused(a) /\ Unused(f) /\ a # f
      /\ issued' = [issued EXCEPT ![a] = claims, ![f] = opened]
      /\ UNCHANGED <<clock, refreshKeys, blacklist, delivered, ghosts, dbErrors>>
  BY <1>1, <1>2 DEF Login, Idle
<1>5. /\ issued \in [Access \cup Refresh -> Claims \cup {NotIssued}]
      /\ issued' \in [Access \cup Refresh -> Claims \cup {NotIssued}]
      /\ issued'[a] = claims /\ issued'[f] = opened
      /\ \A t \in (Access \cup Refresh) \ {a, f} : issued'[t] = issued[t]
  BY <1>4 DEF IInv, TypeOK
<1>6. IssuedKept
  BY <1>4, <1>5 DEF IssuedKept
<1>7. CoveredKept
  BY <1>4, <1>6 DEF CoveredKept, IssuedKept, Covered, Expired, Second, clock
<1>8. req'[r] = next /\ \A q \in Requests \ {r} : req'[q] = req[q]
  BY <1>3 DEF IInv, TypeOK
<1>9. TypeOK'
  BY <1>3, <1>4, <1>5 DEF IInv, TypeOK, clock, ghosts
<1>10. TokensOK'
  BY <1>4, <1>6, TokensKept DEF ghosts
<1>11. LogoutsOK'
  BY <1>4, <1>6, <1>7, LogoutsKept, IssuedTypes DEF IInv, clock, ghosts
<1>12. SessionSurvives'
  BY <1>4, <1>6, <1>8, SessionsKept DEF Moving, ghosts
<1>13. \A q \in Requests \ {r} : req[q].step \in HandingOut => req[q].fresh # f
  BY <1>4 DEF IInv, RequestOK
<1>14. f \notin delivered
  BY <1>4 DEF IInv, TokensOK
<1>15. RequestOK(r)'
  <2>1. ~ Unused(a)' /\ ~ Unused(f)'
    BY <1>5 DEF Unused, NotIssued, Claims
  <2> QED BY <1>1, <1>2, <1>3, <1>4, <1>5, <1>8, <1>13, <1>14, <2>1 DEF RequestOK, HandingOut, Presented
<1>16. ASSUME NEW q \in Requests \ {r} PROVE RequestOK(q)'
  <2>1. req'[q] = req[q] /\ RequestOK(q)
    BY <1>8 DEF IInv
  <2>2. req[q].step \in HandingOut =>
          /\ req[q].fresh \notin delivered'
          /\ \A p \in Requests :
               req'[p].step \in HandingOut /\ req'[p].fresh = req[q].fresh => p = q
    BY <1>3, <1>4, <1>8, <1>13, <2>1 DEF RequestOK
  <2>3. req[q].step = "store" => req[q].token \notin refreshKeys'
    BY <1>4, <2>1 DEF RequestOK
  <2> QED BY <1>4, <1>6, <1>7, <2>1, <2>2, <2>3, OthersOK DEF ghosts
<1> QED BY <1>9, <1>10, <1>11, <1>12, <1>15, <1>16 DEF IInv

\* The key is set, or its session is hit, and the tokens are delivered.
LEMMA LoginStoreInv ==
  ASSUME IInv, NEW r \in Requests, LoginStore(r)
  PROVE  IInv'
<1>1. PICK f \in Refresh, a \in Access : f = req[r].fresh /\ a = req[r].token
  BY RequestTypes DEF LoginStore, RequestOK, HandingOut
<1>2. /\ req' = [req EXCEPT ![r] = Idle] /\ req[r].step = "login"
      /\ refreshKeys' = IF redisUp THEN refreshKeys \cup {f} ELSE refreshKeys
      /\ delivered' = delivered \cup {a, f}
      /\ hit' = IF redisUp THEN hit ELSE hit \cup {f}
      /\ UNCHANGED <<clock, blacklist, issued, loggedOut, rotations, lateUses, dbErrors>>
  BY <1>1 DEF LoginStore, Answer, Goto, MissedBy
<1>3. /\ f \notin delivered /\ ~ Unused(f) /\ ~ Unused(a)
      /\ issued[a].login = f /\ issued[f].login = f
      /\ \A q \in Requests : req[q].step \in HandingOut /\ req[q].fresh = f => q = r
  BY <1>1, <1>2, RequestTypes DEF RequestOK, HandingOut
<1>4. IssuedKept /\ CoveredKept
  BY <1>2, CoveredUnchanged DEF IssuedKept, clock
<1>5. req'[r].step = "idle" /\ \A q \in Requests \ {r} : req'[q] = req[q]
  BY <1>2 DEF IInv, TypeOK, Idle
<1>6. TypeOK'
  BY <1>2 DEF IInv, TypeOK, clock
<1>7. TokensOK'
  <2>1. rotations[f] = 0
    BY <1>3 DEF IInv, TokensOK, TypeOK
  <2> QED BY <1>2, <1>3, <2>1 DEF IInv, TokensOK, RotatedIsDead, Unused, TypeOK
<1>8. LogoutsOK'
  BY <1>2, LogoutsUnchanged DEF clock
<1>9. SessionSurvives'
  <2> SUFFICES ASSUME NEW s \in Sessions' \ hit', ~ Rotating(s)' PROVE LiveTokens(s)' # {}
    BY DEF SessionSurvives
  <2>1. CASE s = f
    BY <1>2, <1>3, <2>1 DEF LiveTokens
  <2>2. CASE s # f
    <3>1. s \in Sessions \ hit
      BY <1>2, <1>3, <2>2 DEF Sessions
    <3>2. ~ Rotating(s)
      <4> SUFFICES ASSUME NEW q \in Requests, req[q].step \in Moving, issued[req[q].token].login = s
                   PROVE  FALSE
        BY DEF Rotating, Moving
      <4>1. q # r
        BY <1>1, <1>3, <2>2
      <4> QED BY <1>2, <1>5, <4>1 DEF Rotating, Moving
    <3>3. PICK g \in refreshKeys \cap delivered : issued[g].login = s
      BY <3>1, <3>2 DEF IInv, SessionSurvives, LiveTokens
    <3> QED BY <1>2, <3>3 DEF LiveTokens
  <2> QED BY <2>1, <2>2
<1>10. RequestOK(r)'
  BY <1>5 DEF RequestOK, HandingOut, Presented
<1>11. ASSUME NEW q \in Requests \ {r} PROVE RequestOK(q)'
  <2>1. req'[q] = req[q] /\ RequestOK(q)
    BY <1>5 DEF IInv
  <2>2. req[q].step \in HandingOut =>
          /\ req[q].fresh \notin delivered'
          /\ \A p \in Requests :
               req'[p].step \in HandingOut /\ req'[p].fresh = req[q].fresh => p = q
    BY <1>2, <1>3, <1>5, <2>1 DEF RequestOK, HandingOut
  <2>3. req[q].step = "store" => req[q].token \notin refreshKeys'
    BY <1>2, <1>3, <2>1 DEF RequestOK, Presented
  <2> QED BY <1>2, <1>4, <2>1, <2>2, <2>3, OthersOK
<1> QED BY <1>6, <1>7, <1>8, <1>9, <1>10, <1>11 DEF IInv

\* DEL: the session is moving, or hit; no other token's key is touched.
LEMMA RefreshDeleteInv ==
  ASSUME IInv, NEW r \in Requests, RefreshDelete(r)
  PROVE  IInv'
<1>1. PICK f \in Refresh \cap delivered : f = req[r].token
  BY RequestTypes DEF RefreshDelete, RequestOK, Presented
<1>2. /\ req[r].step = "delete" /\ req[r] \in Serving
      /\ refreshKeys' = refreshKeys \ {f} \/ (refreshKeys' = refreshKeys /\ ~ redisUp)
      /\ UNCHANGED <<clock, blacklist, issued, delivered, loggedOut, rotations, lateUses, dbErrors>>
  BY <1>1, RequestTypes DEF RefreshDelete
<1>3. PICK next \in Serving \cup {Idle} :
        /\ req' = [req EXCEPT ![r] = next]
        /\ \/ /\ redisUp /\ next \in Serving /\ next.step = "store" /\ next.token = f
              /\ refreshKeys' = refreshKeys \ {f} /\ hit' = hit
           \/ /\ next.step = "idle"
              /\ \/ refreshKeys' = refreshKeys /\ hit' = hit
                 \/ hit' = hit \cup {issued[f].login}
  <2>1. CASE redisUp
    <3>1. [req[r] EXCEPT !.step = "store"] \in Serving
      BY <1>2 DEF Serving, Steps
    <3> QED BY <1>1, <1>2, <2>1, <3>1 DEF RefreshDelete, Goto, Serving
  <2>2. CASE ~ redisUp
    <3>1. Idle.step = "idle"
      BY DEF Idle
    <3>2. req' = [req EXCEPT ![r] = Idle]
      BY <2>2 DEF RefreshDelete, Goto, Answer
    <3>3. hit' = IF refreshKeys' = refreshKeys THEN hit ELSE hit \cup {issued[f].login}
      BY <1>1, <2>2 DEF RefreshDelete
    <3> HIDE DEF Idle
    <3> QED BY <3>1, <3>2, <3>3
  <2> QED BY <2>1, <2>2
<1>4. IssuedKept /\ CoveredKept
  BY <1>2, CoveredUnchanged DEF IssuedKept, clock
<1>5. req'[r] = next /\ \A q \in Requests \ {r} : req'[q] = req[q]
  BY <1>3 DEF IInv, TypeOK
<1>6. ~ Unused(f) /\ issued[f].login \in Refresh
  BY <1>1, IssuedTypes DEF IInv, TokensOK, Claims
<1>7. TypeOK'
  BY <1>2, <1>3, <1>6 DEF IInv, TypeOK, clock
<1>8. TokensOK'
  BY <1>2, <1>4, TokensKept
<1>9. LogoutsOK'
  BY <1>2, LogoutsUnchanged DEF clock
<1>10. SessionSurvives'
  <2> SUFFICES ASSUME NEW s \in Sessions' \ hit', ~ Rotating(s)' PROVE LiveTokens(s)' # {}
    BY DEF SessionSurvives
  <2>1. s \in Sessions \ hit
    BY <1>2, <1>3 DEF Sessions
  <2>2. refreshKeys' = refreshKeys \/ s # issued[f].login
    <3> SUFFICES ASSUME next.step = "store", s = issued[f].login, next.token = f PROVE FALSE
      BY <1>2, <1>3
    <3> QED BY <1>2, <1>5 DEF Rotating
  <2>3. ~ Rotating(s)
    <3> SUFFICES ASSUME NEW q \in Requests, req[q].step \in Moving, issued[req[q].token].login = s
                 PROVE  FALSE
      BY DEF Rotating, Moving
    <3>1. q # r
      BY <1>2 DEF Moving
    <3> QED BY <1>2, <1>5, <3>1 DEF Rotating, Moving
  <2>4. PICK g \in refreshKeys \cap delivered : issued[g].login = s
    BY <2>1, <2>3 DEF IInv, SessionSurvives, LiveTokens
  <2> QED BY <1>2, <2>2, <2>4 DEF LiveTokens
<1>11. RequestOK(r)'
  <2>1. CASE next.step = "idle"
    BY <1>5, <2>1 DEF RequestOK, HandingOut, Presented
  <2>2. CASE next.step = "store" /\ next.token = f /\ refreshKeys' = refreshKeys \ {f}
    BY <1>1, <1>2, <1>5, <2>2 DEF RequestOK, HandingOut, Presented
  <2> QED BY <1>3, <2>1, <2>2
<1>12. ASSUME NEW q \in Requests \ {r} PROVE RequestOK(q)'
  <2>1. req'[q] = req[q] /\ RequestOK(q)
    BY <1>5 DEF IInv
  <2>2. req[q].step \in HandingOut =>
          /\ req[q].fresh \notin delivered'
          /\ \A p \in Requests :
               req'[p].step \in HandingOut /\ req'[p].fresh = req[q].fresh => p = q
    BY <1>2, <1>3, <1>5, <2>1 DEF RequestOK, HandingOut
  <2>3. req[q].step = "store" => req[q].token \notin refreshKeys'
    BY <1>2, <2>1 DEF RequestOK
  <2>4. req[q].step = "grant" /\ req[q].fresh \in refreshKeys => req[q].fresh \in refreshKeys'
    BY <1>1, <1>2, <2>1 DEF RequestOK, HandingOut
  <2>5. hit \subseteq hit'
    BY <1>3
  <2> QED BY <1>2, <1>4, <2>1, <2>2, <2>3, <2>4, <2>5, OthersOK
<1> QED BY <1>7, <1>8, <1>9, <1>10, <1>11, <1>12 DEF IInv

\* SET of a new key: it is nobody's, and the old one's is gone.
LEMMA RefreshStoreInv ==
  ASSUME IInv, NEW r \in Requests, NEW g \in Refresh, RefreshStore(r, g)
  PROVE  IInv'
<1>1. PICK f \in Refresh \cap delivered : f = req[r].token
  BY RequestTypes DEF RefreshStore, RequestOK, Presented
<1>2. /\ req[r].step = "store" /\ req[r] \in Serving /\ Unused(g) /\ f \notin refreshKeys
      /\ issued' = [issued EXCEPT ![g] = issued[f]]
      /\ refreshKeys' = IF redisUp THEN refreshKeys \cup {g} ELSE refreshKeys
      /\ rotations' = [rotations EXCEPT ![f] = @ + 1]
      /\ hit' = IF redisUp THEN hit ELSE hit \cup {issued[f].login}
      /\ UNCHANGED <<clock, blacklist, delivered, loggedOut, lateUses, dbErrors>>
  BY <1>1, RequestTypes DEF RefreshStore, RequestOK, Stored, MissedBy
<1>3. PICK next \in Serving :
        /\ req' = [req EXCEPT ![r] = next]
        /\ next.step = "grant" /\ next.token = f /\ next.fresh = g
  <2>1. [req[r] EXCEPT !.step = "grant", !.fresh = g] \in Serving
    BY <1>2 DEF Serving, Steps
  <2> QED BY <1>1, <1>2, <2>1 DEF RefreshStore, Goto, Serving
<1>4. req'[r] = next /\ \A q \in Requests \ {r} : req'[q] = req[q]
  BY <1>3 DEF IInv, TypeOK
<1>5. ~ Unused(f) /\ issued[f] \in Claims /\ issued[f].login \in Refresh /\ f # g
  BY <1>1, <1>2, IssuedTypes DEF IInv, TokensOK, Claims
<1>6. /\ issued' \in [Access \cup Refresh -> Claims \cup {NotIssued}]
      /\ issued'[g] = issued[f]
      /\ \A t \in (Access \cup Refresh) \ {g} : issued'[t] = issued[t]
  BY <1>2, <1>5 DEF IInv, TypeOK
<1>7. IssuedKept
  BY <1>2, <1>6 DEF IssuedKept
<1>8. CoveredKept
  BY <1>2, <1>7 DEF CoveredKept, IssuedKept, Covered, Expired, Second, clock
<1>9. rotations' \in [Refresh -> Nat] /\ \A t \in Refresh \ {f} : rotations'[t] = rotations[t]
  BY <1>2 DEF IInv, TypeOK
<1>10. TypeOK'
  BY <1>2, <1>3, <1>5, <1>6, <1>9 DEF IInv, TypeOK, clock
<1>11. g \notin delivered /\ rotations[g] = 0
  BY <1>2 DEF IInv, TokensOK, TypeOK
<1>12. TokensOK'
  <2>1. \A t \in delivered : ~ Unused(t)'
    BY <1>5, <1>6, <1>11 DEF IInv, TypeOK, TokensOK, Unused
  <2>2. \A t \in Refresh : rotations'[t] > 0 => t \in delivered /\ t \notin refreshKeys'
    BY <1>1, <1>2, <1>5, <1>9, <1>11 DEF IInv, TypeOK, TokensOK, RotatedIsDead
  <2> QED BY <1>2, <2>1, <2>2 DEF TokensOK, RotatedIsDead
<1>13. LogoutsOK'
  BY <1>2, <1>7, <1>8, LogoutsKept, IssuedTypes DEF IInv, clock
<1>14. SessionSurvives'
  <2>1. hit \subseteq hit' /\ refreshKeys \cap Refresh \subseteq refreshKeys'
    BY <1>2
  <2>2. \A q \in Requests : req[q].step \in Moving =>
          req'[q].step \in Moving /\ req'[q].token = req[q].token
    BY <1>1, <1>3, <1>4 DEF Moving
  <2> QED BY <1>2, <1>7, <2>1, <2>2, SessionsKept
<1>15. \A q \in Requests \ {r} : req[q].step \in HandingOut => req[q].fresh # g
  BY <1>2 DEF IInv, RequestOK
<1>16. RequestOK(r)'
  <2>1. ~ Unused(g)' /\ (g \in refreshKeys' \/ issued'[f].login \in hit')
    BY <1>2, <1>5, <1>6 DEF Unused, NotIssued, Claims
  <2> QED BY <1>1, <1>2, <1>3, <1>4, <1>5, <1>6, <1>11, <1>15, <2>1 DEF RequestOK, HandingOut, Presented
<1>17. ASSUME NEW q \in Requests \ {r} PROVE RequestOK(q)'
  <2>1. req'[q] = req[q] /\ RequestOK(q)
    BY <1>4 DEF IInv
  <2>2. req[q].step \in HandingOut =>
          /\ req[q].fresh \notin delivered'
          /\ \A p \in Requests :
               req'[p].step \in HandingOut /\ req'[p].fresh = req[q].fresh => p = q
    BY <1>2, <1>3, <1>4, <1>15, <2>1 DEF RequestOK, HandingOut
  <2>3. req[q].step = "store" => req[q].token \notin refreshKeys'
    BY <1>2, <1>11, <2>1 DEF RequestOK, Presented
  <2>4. hit \subseteq hit' /\ refreshKeys \subseteq refreshKeys'
    BY <1>2
  <2> QED BY <1>2, <1>7, <1>8, <2>1, <2>2, <2>3, <2>4, OthersOK
<1> QED BY <1>10, <1>12, <1>13, <1>14, <1>16, <1>17 DEF IInv

\* The answer of refresh: the key of the token it carries is in Redis, or its
\* session is hit.
LEMMA RefreshGrantInv ==
  ASSUME IInv, NEW r \in Requests, NEW a \in Access, RefreshGrant(r, a)
  PROVE  IInv'
<1>1. PICK f \in Refresh, t \in Refresh \cap delivered : f = req[r].fresh /\ t = req[r].token
  BY RequestTypes DEF RefreshGrant, RequestOK, HandingOut, Presented
<1>2. /\ req[r].step = "grant" /\ f \notin delivered /\ ~ Unused(f)
      /\ issued[f].login = issued[t].login
      /\ f \in refreshKeys \/ issued[t].login \in hit
      /\ \A q \in Requests : req[q].step \in HandingOut /\ req[q].fresh = f => q = r
  BY <1>1, RequestTypes DEF RefreshGrant, RequestOK, HandingOut
<1>3. issued[f] \in Claims
  BY <1>2, IssuedTypes DEF IInv
<1>4. PICK claims \in Claims : claims = AccessClaims(issued[f].user, issued[f].login)
  <2>1. Second(now) \in Nat
    BY IssuedTypes DEF IInv
  <2>2. Second(now) + AccessTTL \in Nat
    BY <2>1
  <2> QED BY <1>3, <2>2 DEF AccessClaims, Claims
<1>5. /\ Unused(a) /\ a # f
      /\ issued' = [issued EXCEPT ![a] = claims]
      /\ delivered' = delivered \cup {a, f}
      /\ req' = [req EXCEPT ![r] = Idle]
      /\ UNCHANGED <<clock, refreshKeys, blacklist, ghosts, dbErrors>>
  BY <1>1, <1>4 DEF RefreshGrant, Answer, Goto
<1>6. /\ issued' \in [Access \cup Refresh -> Claims \cup {NotIssued}]
      /\ issued'[a] = claims
      /\ \A x \in (Access \cup Refresh) \ {a} : issued'[x] = issued[x]
  BY <1>5 DEF IInv, TypeOK
<1>7. IssuedKept
  BY <1>5, <1>6 DEF IssuedKept
<1>8. CoveredKept
  BY <1>5, <1>7 DEF CoveredKept, IssuedKept, Covered, Expired, Second, clock
<1>9. req'[r].step = "idle" /\ \A q \in Requests \ {r} : req'[q] = req[q]
  BY <1>5 DEF IInv, TypeOK, Idle
<1>10. TypeOK'
  BY <1>5, <1>6 DEF IInv, TypeOK, clock, ghosts
<1>11. TokensOK'
  <2>1. \A x \in delivered' : ~ Unused(x)'
    BY <1>2, <1>5, <1>6 DEF IInv, TypeOK, TokensOK, Unused, NotIssued, Claims
  <2> QED BY <1>5, <2>1 DEF IInv, TokensOK, RotatedIsDead, ghosts
<1>12. LogoutsOK'
  BY <1>5, <1>7, <1>8, LogoutsKept, IssuedTypes DEF IInv, clock, ghosts
<1>13. SessionSurvives'
  <2> SUFFICES ASSUME NEW s \in Sessions' \ hit', ~ Rotating(s)' PROVE LiveTokens(s)' # {}
    BY DEF SessionSurvives
  <2>1. \A x \in delivered \cup {f} : issued'[x] = issued[x]
    BY <1>2, <1>7 DEF IInv, TokensOK, TypeOK, IssuedKept
  <2>2. s \in Sessions \ hit
    BY <1>1, <1>2, <1>5, <2>1 DEF Sessions, ghosts
  <2>3. CASE s = issued[f].login
    BY <1>2, <1>5, <2>1, <2>2, <2>3 DEF LiveTokens, ghosts
  <2>4. CASE s # issued[f].login
    <3>1. ~ Rotating(s)
      <4> SUFFICES ASSUME NEW q \in Requests, req[q].step \in Moving, issued[req[q].token].login = s
                   PROVE  FALSE
        BY DEF Rotating, Moving
      <4>1. q # r
        BY <1>1, <1>2, <2>4
      <4>2. req[q].token \in Access \cup Refresh /\ ~ Unused(req[q].token)
        BY DEF IInv, TypeOK, TokensOK, RequestOK, Moving, Presented
      <4>3. issued'[req[q].token] = issued[req[q].token]
        BY <1>7, <4>2 DEF IssuedKept
      <4> QED BY <1>9, <4>1, <4>3 DEF Rotating, Moving
    <3>2. PICK g \in refreshKeys \cap delivered : issued[g].login = s
      BY <2>2, <3>1 DEF IInv, SessionSurvives, LiveTokens
    <3> QED BY <1>5, <2>1, <3>2 DEF LiveTokens
  <2> QED BY <2>3, <2>4
<1>14. RequestOK(r)'
  BY <1>9 DEF RequestOK, HandingOut, Presented
<1>15. ASSUME NEW q \in Requests \ {r} PROVE RequestOK(q)'
  <2>1. req'[q] = req[q] /\ RequestOK(q)
    BY <1>9 DEF IInv
  <2>2. req[q].step \in HandingOut =>
          /\ req[q].fresh \notin delivered'
          /\ \A p \in Requests :
               req'[p].step \in HandingOut /\ req'[p].fresh = req[q].fresh => p = q
    BY <1>2, <1>5, <1>9, <2>1 DEF RequestOK, HandingOut
  <2>3. req[q].step = "store" => req[q].token \notin refreshKeys'
    BY <1>5, <2>1 DEF RequestOK
  <2> QED BY <1>5, <1>7, <1>8, <2>1, <2>2, <2>3, OthersOK DEF ghosts
<1> QED BY <1>10, <1>11, <1>12, <1>13, <1>14, <1>15 DEF IInv

LEMMA RefreshGrantFailsInv ==
  ASSUME IInv, NEW r \in Requests, RefreshGrantFails(r)
  PROVE  IInv'
<1>1. PICK t \in Refresh \cap delivered, s \in Refresh :
        t = req[r].token /\ s = issued[req[r].fresh].login /\ s = issued[t].login
  <2>1. RequestOK(r) /\ req[r].step = "grant"
    BY RequestTypes DEF RefreshGrantFails
  <2>2. issued[req[r].fresh] \in Claims
    BY <2>1, IssuedTypes DEF IInv, RequestOK, HandingOut
  <2> QED BY <2>1, <2>2 DEF RequestOK, HandingOut, Presented, Claims
<1>2. /\ req[r].step = "grant" /\ req' = [req EXCEPT ![r] = Idle]
      /\ hit' = hit \cup {s} /\ dbErrors < MaxDbErrors /\ dbErrors' = dbErrors + 1
      /\ UNCHANGED <<clock, refreshKeys, blacklist, issued, delivered, loggedOut, rotations, lateUses>>
  BY <1>1 DEF RefreshGrantFails, Answer, Goto
<1>3. IssuedKept /\ CoveredKept
  BY <1>2, CoveredUnchanged DEF IssuedKept, clock
<1>4. req'[r].step = "idle" /\ \A q \in Requests \ {r} : req'[q] = req[q]
  BY <1>2 DEF IInv, TypeOK, Idle
<1>5. TypeOK'
  <2>1. dbErrors' \in 0..MaxDbErrors
    BY <1>2 DEF IInv, TypeOK
  <2> QED BY <1>1, <1>2, <2>1 DEF IInv, TypeOK, clock
<1>6. TokensOK' /\ LogoutsOK'
  BY <1>2, <1>3, TokensKept, LogoutsUnchanged DEF clock
<1>7. SessionSurvives'
  <2> SUFFICES ASSUME NEW x \in Sessions' \ hit', ~ Rotating(x)' PROVE LiveTokens(x)' # {}
    BY DEF SessionSurvives
  <2>1. x \in Sessions \ hit /\ x # s
    BY <1>2 DEF Sessions
  <2>2. ~ Rotating(x)
    BY <1>1, <1>2, <1>4, <2>1 DEF Rotating
  <2> QED BY <1>2, <2>1, <2>2 DEF IInv, SessionSurvives, LiveTokens
<1>8. RequestOK(r)'
  BY <1>4 DEF RequestOK, HandingOut, Presented
<1>9. ASSUME NEW q \in Requests \ {r} PROVE RequestOK(q)'
  <2>1. req'[q] = req[q] /\ RequestOK(q)
    BY <1>4 DEF IInv
  <2>2. req[q].step \in HandingOut =>
          /\ req[q].fresh \notin delivered'
          /\ \A p \in Requests :
               req'[p].step \in HandingOut /\ req'[p].fresh = req[q].fresh => p = q
    BY <1>2, <1>4, <2>1 DEF RequestOK, HandingOut
  <2>3. req[q].step = "store" => req[q].token \notin refreshKeys'
    BY <1>2, <2>1 DEF RequestOK
  <2>4. hit \subseteq hit'
    BY <1>2
  <2> QED BY <1>2, <1>3, <2>1, <2>2, <2>3, <2>4, OthersOK
<1> QED BY <1>5, <1>6, <1>7, <1>8, <1>9 DEF IInv

-----------------------------------------------------------------------------
(* The theorems.                                                           *)

LEMMA Stuttering == ASSUME IInv, UNCHANGED vars PROVE IInv'
<1>1. UNCHANGED <<now, redisUp, refreshKeys, blacklist, active, issued, delivered, req,
                  loggedOut, rotations, hit, lateUses, outages, dbErrors>>
  BY DEF vars
<1>2. IssuedKept /\ CoveredKept
  BY <1>1, CoveredUnchanged DEF IssuedKept
<1>3. TypeOK' /\ TokensOK' /\ LogoutsOK' /\ SessionSurvives'
  BY <1>1, <1>2, TokensKept, LogoutsUnchanged, SessionsKept DEF IInv, TypeOK
<1>4. \A q \in Requests : RequestOK(q)'
  BY <1>1, <1>2, OthersOK DEF IInv, RequestOK, HandingOut
<1> QED BY <1>3, <1>4 DEF IInv

LEMMA Invariance == Spec => []IInv
<1>1. IInv /\ [Next]_vars => IInv'
  <2> SUFFICES ASSUME IInv, [Next]_vars PROVE IInv'
    OBVIOUS
  <2>1. ASSUME NEW r \in Requests,
               \/ LoginStore(r) \/ RefreshUser(r) \/ RefreshDelete(r) \/ RefreshGrantFails(r)
               \/ LogoutBlacklist(r) \/ LogoutDrop(r) \/ AuthCheck(r)
        PROVE  IInv'
    BY <2>1, LoginStoreInv, RefreshUserInv, RefreshDeleteInv, RefreshGrantFailsInv,
       LogoutBlacklistInv, LogoutDropInv, AuthCheckInv
  <2>2. ASSUME NEW r \in Requests,
               \/ \E u \in Users, a \in Access, f \in Refresh : Login(r, u, a, f)
               \/ \E f \in Refresh : RefreshGet(r, f) \/ RefreshStore(r, f)
               \/ \E a \in Access : RefreshGrant(r, a) \/ AuthVerify(r, a)
        PROVE  IInv'
    BY <2>2, LoginInv, RefreshGetInv, RefreshStoreInv, RefreshGrantInv, AuthVerifyInv
  <2>3. CASE Tick \/ RedisDown \/ RedisBack \/ \E u \in Users : Deactivate(u)
    BY <2>3, SurroundingsInv
  <2>4. CASE UNCHANGED vars
    BY <2>4, Stuttering
  <2> QED BY <2>1, <2>2, <2>3, <2>4 DEF Next
<1> QED BY <1>1, InitInv, PTL DEF Spec

\* Tokens, keys and handlers keep their types.
THEOREM AuthTypeCorrect == Spec => []TypeOK
<1>1. IInv => TypeOK BY DEF IInv
<1> QED BY <1>1, Invariance, PTL

\* Once Redis has taken the blacklisting and the logout has answered, a later
\* request passes a Redis that is up only if the token expires on the way,
\* however the requests interleave with the clock (blacklistAccessToken,
\* isBlacklisted, remainingTTL).
THEOREM LoggedOutStaysRefused == Spec => []LoggedOutIsRefused
<1>1. IInv => LoggedOutIsRefused BY DEF IInv, LogoutsOK, LoggedOutIsRefused
<1> QED BY <1>1, Invariance, PTL

\* A session that is not in the middle of a rotation, and that no fault has
\* hit, has a refresh token in Redis and in its client's hands, however many
\* refreshes of one token overlap (rotateRefreshToken).
THEOREM SessionsSurvive == Spec => []SessionSurvives
<1>1. IInv => SessionSurvives BY DEF IInv
<1> QED BY <1>1, Invariance, PTL

\* No interleaving of refreshes brings the key of a rotated token back
\* (rotateRefreshToken, storeRefreshToken).
THEOREM RotatedStaysDead == Spec => []RotatedIsDead
<1>1. IInv => RotatedIsDead BY DEF IInv, TokensOK
<1> QED BY <1>1, Invariance, PTL
=============================================================================
