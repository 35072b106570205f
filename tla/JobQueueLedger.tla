--------------------------- MODULE JobQueueLedger ---------------------------
(***************************************************************************)
(* The queue of Queue.js with one worker process implements JobLedger.     *)
(***************************************************************************)
EXTENDS JobQueue

\* The step of the _process call that has job j.
StepOf(j) == (CHOOSE t \in Threads : run[t].job = j)
HasRecorded(j) == run[StepOf(j)].step \in {"status", "move"}

\* A job counts as taken from the pop to the last command of complete or
\* fail, and as dead until retryDLQ has put it back into waiting; the failed
\* try that fail has recorded counts once the job is handed back.
Phase(j) ==
  CASE hash[j].status = "none" -> "absent"
    [] j \in abandoned -> "lost"
    [] j \in Held -> "taken"
    [] j \in Done -> "done"
    [] j \in zset.dlq \cup Retrying -> "dead"
    [] OTHER -> "queued"

Tries(j) ==
  CASE Phase(j) \in {"absent", "lost"} -> 0
    [] Phase(j) = "dead" -> MaxAttempts
    [] Phase(j) = "taken" /\ HasRecorded(j) -> hash[j].attempts - 1
    [] OTHER -> hash[j].attempts

Ledger == INSTANCE JobLedger WITH
  ledger <- [j \in Jobs |-> [phase |-> Phase(j), tries |-> Tries(j)]]

\* The queue keeps JobLedger's promises: one taker at a time, exactly
\* maxAttempts tries before the dlq, completed and dropped jobs stay so.
ImplementsLedger == Ledger!Spec
=============================================================================
