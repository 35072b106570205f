----------------------------- MODULE TenantLimiter -----------------------------
(***************************************************************************)
(* tenantRateLimit of rateLimit.middleware.js: the budget of one tenant,   *)
(* counted under a key of its own for every window, beside the login       *)
(* limiter on the same Redis client. Unlike that one it lets requests      *)
(* through when the client is not ready, and needs no EXPIRE to end a      *)
(* window.                                                                 *)
(*                                                                         *)
(* The two limiters share the client and the clock, no key and no request: *)
(* a behaviour has either logins or calls.                                 *)
(***************************************************************************)
EXTENDS LoginGuards

CONSTANTS
  Calls,      \* requests of the tenant under way at once
  PerWindow,  \* requestsPerMinute of its plan
  CallWindow, \* window of its plan, 60 seconds in the code
  Traffic     \* subset of {"logins", "calls"}

ASSUME CallsAssumption == CallWindow \in Nat \ {0} /\ PerWindow \in Nat

VARIABLES
  traffic, \* what this behaviour has
  budget,  \* window start -> the key ratelimit:tenant:<id>:<start>
  call,    \* call -> where it stands in the middleware
  through, \* window start -> calls counted in it and let through
  sent     \* window start -> INCRs executed at a time of that window

callVars == <<traffic, budget, call, through, sent>>
frontVars == <<guardVars, callVars>>

\* Mutant of windowStart: one key for all windows.
windowStartFixed(time) == 0
windowStart(time) == time - (time % CallWindow)

\* The windows there are, whatever keys the code uses
Windows == {w \in 0..(MaxTime + 1) : w % CallWindow = 0}
WindowNow == now - (now % CallWindow)

NoCall == [step |-> "idle"]

FrontInit ==
  /\ GuardInit
  /\ traffic \in Traffic
  /\ budget = [w \in Windows |-> NoKey]
  /\ call = [c \in Calls |-> NoCall]
  /\ through = [w \in Windows |-> 0]
  /\ sent = [w \in Windows |-> 0]

-----------------------------------------------------------------------------

\* The client is ready: the window is chosen and its key incremented. A call
\* that finds the client in any other status goes through, counted nowhere.
EnterCall(c) ==
  /\ call[c] = NoCall /\ ready
  /\ call' = [call EXCEPT ![c] = [step |-> "incr", window |-> windowStart(now), sentIn |-> WindowNow]]
  /\ UNCHANGED <<traffic, budget, through, sent>>

\* INCR, and for the first call of a window EXPIRE, which nothing waits for:
\* the next window has another key. More than the budget: 429.
IncrCall(c) ==
  /\ call[c].step = "incr" /\ ready
  /\ LET w == call[c].window
         n == Incremented(budget[w].count, PerWindow) IN
       /\ \E expires \in IF n = 1 THEN BOOLEAN ELSE {FALSE} :
            budget' = [budget EXCEPT ![w] =
              [count |-> n, expiry |-> IF expires THEN now + 2 * CallWindow ELSE @.expiry]]
       /\ sent' = [sent EXCEPT ![call[c].sentIn] = Incremented(@, PerWindow)]
       /\ IF n > PerWindow
            THEN call' = [call EXCEPT ![c].step = "refused"] /\ UNCHANGED through
            ELSE /\ call' = [call EXCEPT ![c] = NoCall]
                 /\ through' = [through EXCEPT ![call[c].sentIn] = @ + 1]
  /\ UNCHANGED traffic

\* The client lost its connection after the status was read: 500, with or
\* without the INCR executed.
CallFails(c) ==
  /\ call[c].step = "incr" /\ ~ ready
  /\ \E executed \in BOOLEAN :
       LET by(n) == IF executed THEN Incremented(n, PerWindow) ELSE n IN
         /\ budget' = [budget EXCEPT ![call[c].window].count = by(@)]
         /\ sent' = [sent EXCEPT ![call[c].sentIn] = by(@)]
  /\ call' = [call EXCEPT ![c] = NoCall]
  /\ UNCHANGED <<traffic, through>>

\* The answer 429 is sent.
Refuse(c) ==
  /\ call[c].step = "refused"
  /\ call' = [call EXCEPT ![c] = NoCall]
  /\ UNCHANGED <<traffic, budget, through, sent>>

CallStep == \E c \in Calls : EnterCall(c) \/ IncrCall(c) \/ CallFails(c) \/ Refuse(c)

\* A command is answered, or rejected when the client gives up, within seconds:
\* no INCR is under way longer than to the end of the window after its own.
FrontTick ==
  /\ GuardTick
  /\ \A c \in Calls : call[c].step = "incr" => now' < call[c].sentIn + 2 * CallWindow
  /\ budget' = [w \in Windows |-> IF Expired(budget[w], now') THEN NoKey ELSE budget[w]]
  /\ UNCHANGED <<traffic, call, through, sent>>

FrontNext ==
  \/ traffic = "logins" /\ LoginStep /\ UNCHANGED callVars
  \/ traffic = "calls" /\ CallStep /\ UNCHANGED guardVars
  \/ ClientStep /\ UNCHANGED callVars
  \/ FrontTick

FrontSpec == FrontInit /\ [][FrontNext]_frontVars

-----------------------------------------------------------------------------
(* Correctness.                                                            *)

\* No more than the budget of a window goes through counted in it, and a call
\* is refused only when its own window's budget is used up: nothing a window
\* leaves behind, its key without an expiry included, is charged to the next
\* (tenantRateLimit).
WindowBudgets ==
  /\ \A w \in Windows : through[w] <= PerWindow
  /\ \A c \in Calls : call[c].step = "refused" => sent[call[c].sentIn] > PerWindow
=============================================================================
