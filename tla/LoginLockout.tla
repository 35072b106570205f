----------------------------- MODULE LoginLockout -----------------------------
(***************************************************************************)
(* The lockout of one account: login of auth.controller.js with            *)
(* incrementFailedLogin and resetFailedLogin of User.model.js, for         *)
(* overlapping login requests.                                             *)
(*                                                                         *)
(* Each request loads the user document, awaits the password comparison,   *)
(* changes its own copy and saves it. save() of mongoose sends a $set of   *)
(* the paths whose value differs from the one loaded, and no condition on  *)
(* the document's state.                                                   *)
(***************************************************************************)
EXTENDS Integers, FiniteSets

CONSTANTS
  Requests,
  Limit,   \* failures that lock the account, 5 in the code
  LockFor, \* length of a lock, 15 minutes in the code
  MaxTime  \* bound: the last tick of the clock

ASSUME LockoutAssumption ==
  /\ IsFiniteSet(Requests)
  /\ Limit \in Nat \ {0} /\ LockFor \in Nat \ {0} /\ MaxTime \in Nat

VARIABLES
  now,
  attempts,    \* failedLoginAttempts in the database
  lockedUntil, \* lockedUntil in the database, 0 for null
  req,         \* request -> idle, or the document it has loaded
  guesses      \* wrong passwords compared since a lock, a success or the start

vars == <<now, attempts, lockedUntil, req, guesses>>

Idle == [step |-> "idle", attempts |-> 0, lockedUntil |-> 0]
Loaded == [step : {"compare"}, attempts : Nat, lockedUntil : Nat]

TypeOK ==
  /\ now \in 1..(MaxTime + 1)
  /\ attempts \in Nat /\ lockedUntil \in Nat /\ guesses \in Nat
  /\ req \in [Requests -> Loaded \cup {Idle}]

Init ==
  /\ now = 1 /\ attempts = 0 /\ lockedUntil = 0 /\ guesses = 0
  /\ req = [r \in Requests |-> Idle]

-----------------------------------------------------------------------------

isLocked == lockedUntil > now

\* findByEmail and the checks before the comparison. A locked account answers
\* 403 and changes nothing.
Load(r) ==
  /\ req[r] = Idle
  /\ ~ isLocked
  /\ req' = [req EXCEPT ![r] = [step |-> "compare", attempts |-> attempts,
                                lockedUntil |-> lockedUntil]]
  /\ UNCHANGED <<now, attempts, lockedUntil, guesses>>

\* Mutant of Locks: it takes one failure more.
LocksLate(r) == req[r].attempts + 1 > Limit
Locks(r) == req[r].attempts + 1 >= Limit

\* The password is wrong: incrementFailedLogin
Wrong(r) ==
  /\ req[r].step = "compare"
  /\ attempts' = req[r].attempts + 1
  /\ IF Locks(r) THEN lockedUntil' = now + LockFor /\ guesses' = 0
                 ELSE guesses' = guesses + 1 /\ UNCHANGED lockedUntil
  /\ req' = [req EXCEPT ![r] = Idle]
  /\ UNCHANGED now

\* Mutants of Saved: the count goes below zero; save writes every path, changed or not.
SavedBelow(loaded, new, stored) == IF new = loaded THEN stored ELSE new - 1
SavedAlways(loaded, new, stored) == new
\* What the database holds after save() of a copy that was loaded with one
\* value and now has another.
Saved(loaded, new, stored) == IF new = loaded THEN stored ELSE new

\* The password is right: resetFailedLogin
Right(r) ==
  /\ req[r].step = "compare"
  /\ attempts' = Saved(req[r].attempts, 0, attempts)
  /\ lockedUntil' = Saved(req[r].lockedUntil, 0, lockedUntil)
  /\ guesses' = 0
  /\ req' = [req EXCEPT ![r] = Idle]
  /\ UNCHANGED now

Tick == now <= MaxTime /\ now' = now + 1 /\ UNCHANGED <<attempts, lockedUntil, req, guesses>>

Next == Tick \/ \E r \in Requests : Load(r) \/ Wrong(r) \/ Right(r)

Spec == Init /\ [][Next]_vars

-----------------------------------------------------------------------------
(* Correctness.                                                            *)

\* The number of multisets of k elements out of n, for at most 3 elements
Multisets(n, k) ==
  CASE k = 0 -> 1
    [] k = 1 -> n
    [] k = 2 -> (n * (n + 1)) \div 2
    [] k = 3 -> (n * (n + 1) * (n + 2)) \div 6

\* Overlapping logins overwrite each other's counts, so that more than Limit
\* wrong passwords may go by before the account is locked, but not without
\* end: one request at a time has Limit tries, two have at most
\* Limit * (Limit + 1) / 2, and so on (incrementFailedLogin).
GuessesBounded == guesses < Multisets(Limit, Cardinality(Requests))

\* A lock in force is lifted by nothing but a login with the right password
\* that loaded the account when an older lock had run out: a successful login
\* that saw no lock leaves alone the one that failures set meanwhile
\* (resetFailedLogin).
LockHolds ==
  [][isLocked /\ lockedUntil' < lockedUntil =>
       \E r \in Requests : Right(r) /\ req[r].lockedUntil \in 1..now]_vars
=============================================================================
