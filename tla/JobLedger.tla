------------------------------ MODULE JobLedger ------------------------------
(***************************************************************************)
(* What a job queue promises about each job, without queues or workers: a  *)
(* job waits, is taken by one taker at a time, and the taker either        *)
(* finishes it, hands it back with one more failed try, buries it when the *)
(* tries are used up, or loses it. A finished or lost job stays so; a      *)
(* buried one may be revived with no try used.                             *)
(***************************************************************************)
EXTENDS Naturals

CONSTANTS Jobs, MaxAttempts

VARIABLE ledger

Entry == [phase : {"absent", "queued", "taken", "done", "dead", "lost"}, tries : Nat]

Init == ledger = [j \in Jobs |-> [phase |-> "absent", tries |-> 0]]

Move(j, from, to, tries) ==
  /\ ledger[j].phase = from
  /\ ledger' = [ledger EXCEPT ![j] = [phase |-> to, tries |-> tries]]

Enqueue(j) == Move(j, "absent", "queued", 0)
Take(j) == Move(j, "queued", "taken", ledger[j].tries)
Finish(j) == Move(j, "taken", "done", ledger[j].tries)
HandBack(j) ==
  /\ ledger[j].tries + 1 < MaxAttempts
  /\ Move(j, "taken", "queued", ledger[j].tries + 1)
Bury(j) ==
  /\ ledger[j].tries + 1 = MaxAttempts
  /\ Move(j, "taken", "dead", MaxAttempts)
Revive(j) == Move(j, "dead", "queued", 0)

\* Several jobs may be lost at once: their taker died.
Lose ==
  \E S \in SUBSET {j \in Jobs : ledger[j].phase \in {"queued", "taken", "dead"}} :
    ledger' = [j \in Jobs |-> IF j \in S THEN [phase |-> "lost", tries |-> 0]
                              ELSE ledger[j]]

Next ==
  \/ Lose
  \/ \E j \in Jobs : \/ Enqueue(j) \/ Take(j) \/ Finish(j)
                     \/ HandBack(j) \/ Bury(j) \/ Revive(j)

Spec == Init /\ [][Next]_ledger
=============================================================================
