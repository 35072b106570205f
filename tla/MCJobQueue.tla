----------------------------- MODULE MCJobQueue -----------------------------
(***************************************************************************)
(* Instances of JobQueue for TLC. Every budget and bound is named here or  *)
(* in the .cfg that uses it.                                               *)
(***************************************************************************)
EXTENDS JobQueueLedger, TLC

CONSTANTS j1, j2

\* The first job has a higher priority than every other one.
MCPriority == [j \in Jobs |-> IF j = j1 THEN 1 ELSE 0]
EqualPriority == [j \in Jobs |-> 0]

Of(exits, errors, retries) ==
  [f \in Faults |-> CASE f = "exit" -> exits [] f = "error" -> errors [] f = "retry" -> retries]

OneOfEach == Of(1, 1, 1)
OneError == Of(0, 1, 0)
OneExitOneRetry == Of(1, 0, 1)
NoFault == Of(0, 0, 0)

JobSymmetry == Permutations(Jobs)
=============================================================================
