----------------------------- MODULE MCCronFleet -----------------------------
(***************************************************************************)
(* An instance of CronFleet for TLC, with interchangeable jobs, slots and  *)
(* instances that do not poll.                                             *)
(***************************************************************************)
EXTENDS CronFleet, TLC

EqualPriority == [j \in Jobs |-> 0]

OneExitOneError ==
  [f \in Faults |-> CASE f = "exit" -> 1 [] f = "error" -> 1 [] f = "retry" -> 0]

\* The polling instance works on the queue only once every instance has fired the
\* tick, while the others are up, run no handler and have no lock, and after one
\* fault at most; and the bound on concurrency is claimed until an add has put back
\* a job.
AtRest == \A w \in Polling : proc[w].step = "idle" /\ Busy(w) = {}
OthersRest ==
  /\ fired = Workers /\ lock \in Polling \cup {NoLock}
  /\ \A w \in Workers \ Polling : proc[w].mode = "up" /\ handler[w] = "idle"
Focus == putBack = {} /\ (AtRest \/ (OthersRest /\ spent["exit"] + spent["error"] <= 1))

Symmetry == Permutations(Jobs) \cup Permutations(Slots) \cup Permutations(Workers \ Polling)
=============================================================================
