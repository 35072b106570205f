------------------------------ MODULE LoginGuards ------------------------------
(***************************************************************************)
(* The two guards in front of a password: loginRateLimit of                *)
(* rateLimit.middleware.js, which counts the requests of an IP address in  *)
(* Redis, and behind it the login of LoginLockout.                         *)
(*                                                                         *)
(* The counter is an INCR and, for the first request, an EXPIRE: two       *)
(* commands. A command the client cannot send is rejected and the request  *)
(* answers 500; one whose reply is lost with the connection is sent again  *)
(* when the client is back, so that an INCR may count twice.               *)
(***************************************************************************)
EXTENDS LoginLockout, RedisClient

CONSTANTS
  Ips,
  MaxLogins, \* SPECIAL_RATE_LIMITS.login.requests, 5 in the code
  Window     \* SPECIAL_RATE_LIMITS.login.window, 15 minutes in the code

ASSUME LimiterAssumption == MaxLogins \in Nat \ {0} /\ Window \in Nat \ {0}

VARIABLES
  counter, \* ip -> the key ratelimit:login:<ip>: its value, 0 when there is none, and its expiry
  gate,    \* request -> where it stands in the middleware
  lost,    \* ips whose present counter never got its EXPIRE: a failure or an INCR sent twice
  recent   \* ip -> i -> requests let in during the last i ticks, for each i up to Window

limiterVars == <<counter, gate, lost, recent>>
guardVars == <<vars, clientVars, limiterVars>>

NoKey == [count |-> 0, expiry |-> 0]
Outside == [step |-> "outside"]
At(step, ip) == [step |-> step, ip |-> ip]

LimiterInit ==
  /\ counter = [ip \in Ips |-> NoKey]
  /\ gate = [r \in Requests |-> Outside]
  /\ lost = {}
  /\ recent = [ip \in Ips |-> [i \in 1..Window |-> 0]]

GuardInit == Init /\ ClientInit /\ LimiterInit

-----------------------------------------------------------------------------

\* What INCR makes of a counter. The code tells 1, the numbers up to the limit
\* and those above it apart: larger ones are one.
Incremented(n, max) == IF n > max THEN n ELSE n + 1

\* Mutant of FirstOfWindow: compared with the value before the INCR.
FirstOfWindowLate(n) == n = 0
FirstOfWindow(n) == n = 1

\* Mutant of LetInOnError: the request goes on when Redis does not answer.
LetInOnErrorOpen == TRUE
LetInOnError == FALSE

LetIn(ip) == recent' = [recent EXCEPT ![ip] = [i \in 1..Window |-> @[i] + 1]]

Arrive(r, ip) ==
  /\ gate[r] = Outside /\ req[r] = Idle
  /\ gate' = [gate EXCEPT ![r] = At("incr", ip)]
  /\ UNCHANGED <<counter, lost, recent, clientVars, vars>>

\* The reply of INCR: EXPIRE for the first request of a window, then 429 or on
\* to the handler.
Counted(r, ip, n) ==
  /\ counter' = [counter EXCEPT ![ip].count = n]
  /\ CASE FirstOfWindow(n) -> gate' = [gate EXCEPT ![r] = At("expire", ip)]
       [] ~ FirstOfWindow(n) /\ n > MaxLogins -> gate' = [gate EXCEPT ![r] = Outside]
       [] OTHER -> gate' = [gate EXCEPT ![r] = At("passed", ip)]
  /\ IF n <= MaxLogins THEN LetIn(ip) ELSE UNCHANGED recent

Incr(r) ==
  /\ gate[r].step = "incr" /\ ready
  /\ Counted(r, gate[r].ip, Incremented(counter[gate[r].ip].count, MaxLogins))
  /\ UNCHANGED <<lost, clientVars, vars>>

\* The connection is lost between the execution of the INCR and its reply.
IncrUnanswered(r) ==
  /\ gate[r].step = "incr" /\ Drop
  /\ LET ip == gate[r].ip
         n == Incremented(counter[ip].count, MaxLogins) IN
       /\ counter' = [counter EXCEPT ![ip].count = n]
       /\ lost' = IF counter[ip] = NoKey THEN lost \cup {ip} ELSE lost
  /\ UNCHANGED <<gate, recent, vars>>

\* EXPIRE is answered; with max requests or fewer counted the handler is next.
Expire(r) ==
  /\ gate[r].step = "expire" /\ ready
  /\ LET ip == gate[r].ip IN
       /\ counter' = [counter EXCEPT ![ip].expiry = now + Window]
       /\ gate' = [gate EXCEPT ![r] = At("passed", ip)]
  /\ UNCHANGED <<lost, recent, clientVars, vars>>

\* Redis rejects the command: 500, and the handler is not called.
LimiterFails(r) ==
  /\ gate[r].step \in {"incr", "expire"} /\ ~ ready
  /\ LET ip == gate[r].ip IN
       /\ lost' = IF gate[r].step = "expire" THEN lost \cup {ip} ELSE lost
       /\ gate' = [gate EXCEPT ![r] = IF LetInOnError THEN At("passed", ip) ELSE Outside]
       /\ IF LetInOnError /\ gate[r].step = "incr" THEN LetIn(ip) ELSE UNCHANGED recent
  /\ UNCHANGED <<counter, clientVars, vars>>

\* The process dies with the request, whose EXPIRE is not sent.
Dies(r) ==
  /\ gate[r].step = "expire"
  /\ lost' = lost \cup {gate[r].ip}
  /\ gate' = [gate EXCEPT ![r] = Outside]
  /\ UNCHANGED <<counter, recent, clientVars, vars>>

\* The handler: the account is loaded, or is locked and the answer is 403.
GuardedLoad(r) ==
  /\ gate[r].step = "passed" /\ Load(r)
  /\ gate' = [gate EXCEPT ![r] = Outside]
  /\ UNCHANGED <<counter, lost, recent, clientVars>>

TurnedAway(r) ==
  /\ gate[r].step = "passed" /\ isLocked
  /\ gate' = [gate EXCEPT ![r] = Outside]
  /\ UNCHANGED <<counter, lost, recent, clientVars, vars>>

Compared(r) == (Wrong(r) \/ Right(r)) /\ UNCHANGED <<limiterVars, clientVars>>

LoginStep ==
  \E r \in Requests :
    \/ \E ip \in Ips : Arrive(r, ip)
    \/ Incr(r) \/ IncrUnanswered(r) \/ Expire(r) \/ LimiterFails(r) \/ Dies(r)
    \/ GuardedLoad(r) \/ TurnedAway(r) \/ Compared(r)

ClientStep == ClientNext /\ UNCHANGED <<vars, limiterVars>>

Expired(key, time) == key.expiry # 0 /\ key.expiry <= time

\* The clock: counters whose time has come are gone.
GuardTick ==
  /\ Tick
  /\ counter' = [ip \in Ips |-> IF Expired(counter[ip], now') THEN NoKey ELSE counter[ip]]
  /\ lost' = lost
  /\ recent' = [ip \in Ips |-> [i \in 1..Window |-> IF i = 1 THEN 0 ELSE recent[ip][i - 1]]]
  /\ UNCHANGED <<gate, clientVars>>

GuardNext == LoginStep \/ ClientStep \/ GuardTick

GuardSpec == GuardInit /\ [][GuardNext]_guardVars

-----------------------------------------------------------------------------
(* Correctness.                                                            *)

\* The limiter counts in fixed windows: in any Window ticks it lets in at most
\* twice its limit from one address, at the end of one window and the start of
\* the next, and never more, however Redis fails meanwhile: it lets nobody in
\* without a count (createEndpointLimiter).
LoginsLimited == \A ip \in Ips : recent[ip][Window] <= 2 * MaxLogins

\* A counter without an expiry keeps its address out for ever, once the limit
\* is reached. That takes a fault: otherwise the request that made it is about
\* to send the EXPIRE (createEndpointLimiter).
CountersEnd ==
  \A ip \in Ips :
    counter[ip].count > 0 /\ counter[ip].expiry = 0 =>
      ip \in lost \/ \E r \in Requests : gate[r] = At("expire", ip)
=============================================================================
