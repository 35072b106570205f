--------------------------- MODULE JobQueueProofs ---------------------------
(***************************************************************************)
(* Proofs about JobQueue and CronFleet, for any number of jobs, slots and  *)
(* retriers and any budget of faults: what holds for any number of worker  *)
(* processes (types, no job vanishes, the lock of the schedule), and what  *)
(* holds when one of them polls (one owner, the hashes, `concurrency`, the *)
(* refinement of JobLedger).                                               *)
(***************************************************************************)
EXTENDS CronFleet, JobQueueLedger, FiniteSetTheorems, TLAPS

USE JobQueueAssumption

\* The slots in _activeJobs can be counted: _poll's subtraction yields an
\* integer at most `concurrency`.
LEMMA SlotsLeftType ==
  ASSUME TypeOK, NEW w \in Workers
  PROVE  SlotsLeft(w) \in Int /\ SlotsLeft(w) <= Concurrency
<1>1. proc[w].tracked \subseteq Slots
  BY DEF TypeOK, Proc
<1>2. Cardinality(proc[w].tracked) \in Nat
  BY <1>1, FS_Subset, FS_CardinalityType
<1> QED
  BY <1>2 DEF SlotsLeft

\* Everything _poll and its commands change keeps its type.
LEMMA TypePoll ==
  ASSUME TypeOK, NEW w \in Workers, Poll(w) \/ PollError(w) \/ PopUnanswered(w) \/ PromoteError(w)
  PROVE  TypeOK'
<1> USE DEF TypeOK
<1>0. proc[w] \in Proc
  OBVIOUS
<1>1. CASE PollStart(w)
  <2>1. SlotsLeft(w) \in Nat
    BY <1>1, SlotsLeftType DEF PollStart
  <2>2. [proc[w] EXCEPT !.step = "scan", !.left = SlotsLeft(w)] \in Proc
    BY <1>0, <2>1 DEF Proc
  <2> QED BY <1>1, <2>2 DEF PollStart
<1>2. CASE Scan(w)
  <2>1. zset.due \subseteq Jobs
    BY DEF ZSets
  <2>2. [proc[w] EXCEPT !.promo = zset.due,
                        !.step = IF zset.due = {} THEN "pop" ELSE "promote"] \in Proc
    BY <1>0, <2>1 DEF Proc
  <2> QED BY <1>2, <2>2 DEF Scan
<1>3. CASE Promote(w)
  <2>1. zset' \in ZSets /\ zset'.due \subseteq zset'.delayed
    <3>1. proc[w].promo \subseteq Jobs
      BY <1>0 DEF Proc
    <3> QED BY <1>3, <3>1 DEF Promote, Promoted, ZSets
  <2>2. proc' \in [Workers -> Proc]
    <3>1. [proc[w] EXCEPT !.promo = {}, !.step = "pop"] \in Proc
      BY <1>0 DEF Proc
    <3> QED BY <1>3, <3>1 DEF Promote
  <2> QED BY <1>3, <2>1, <2>2 DEF Promote
<1>4. CASE PopNothing(w) \/ PollEnd(w)
  BY <1>4, SMTT(30) DEF PopNothing, PollEnd, Proc
<1>5. ASSUME NEW j \in Jobs, NEW s \in Slots, Pop(w, j, s) PROVE TypeOK'
  <2>1. zset' \in ZSets /\ zset'.due \subseteq zset'.delayed
    BY <1>5 DEF Pop, PopMin, ZSets
  <2>2. run' \in [Threads -> Running \cup {Free}]
    BY <1>5 DEF Pop, Running, Threads
  <2>3. proc' \in [Workers -> Proc]
    <3> DEFINE p == [proc[w] EXCEPT
          !.tracked = {r \in @ : run[<<w, r>>].job # j} \cup {s},
          !.batch = @ \cup {s}, !.left = IF @ > 0 THEN @ - 1 ELSE 0,
          !.step = IF proc[w].left > 1 THEN "scan" ELSE "await"]
    <3>1. {r \in proc[w].tracked : run[<<w, r>>].job # j} \cup {s} \subseteq Slots
      BY <1>0 DEF Proc
    <3>2. (IF proc[w].left > 0 THEN proc[w].left - 1 ELSE 0) \in Nat
      BY <1>0 DEF Proc
    <3>3. p \in Proc
      BY <1>0, <3>1, <3>2 DEF Proc
    <3> QED BY <1>5, <3>3 DEF Pop
  <2> QED BY <1>5, <2>1, <2>2, <2>3 DEF Pop
<1>6. CASE PollError(w)
  <2>1. zset' \in ZSets /\ zset'.due \subseteq zset'.delayed /\ abandoned' \subseteq Jobs
    <3>1. ASSUME NEW j \in Jobs, PopMin(j)
          PROVE  zset' \in ZSets /\ zset'.due \subseteq zset'.delayed
      BY <3>1 DEF PopMin, ZSets
    <3> QED BY <1>6, <3>1 DEF PollError
  <2>2. proc' \in [Workers -> Proc] /\ spent' \in [Faults -> Nat]
    <3>1. [proc[w] EXCEPT !.step = "idle", !.batch = {}] \in Proc
      BY <1>0 DEF Proc
    <3> QED BY <1>6, <3>1 DEF PollError, Spend, Faults
  <2> QED BY <1>6, <2>1, <2>2 DEF PollError
<1>7. CASE PromoteError(w)
  <2>1. [proc[w] EXCEPT !.promo = {}, !.step = "pop"] \in Proc
    BY <1>0 DEF Proc
  <2> QED BY <1>7, <2>1 DEF PromoteError, Spend, Faults
<1>8. CASE PopUnanswered(w)
  <2>1. PICK j \in Jobs : PopMin(j) /\ abandoned' = abandoned \cup {j}
    BY <1>8 DEF PopUnanswered
  <2>2. zset' \in ZSets /\ zset'.due \subseteq zset'.delayed
    BY <2>1 DEF PopMin, ZSets
  <2> QED BY <1>8, <2>1, <2>2 DEF PopUnanswered, Spend, Faults
<1> QED BY <1>1, <1>2, <1>3, <1>4, <1>5, <1>6, <1>7, <1>8 DEF Poll

\* Releasing a slot keeps the types of run and proc.
LEMMA TypeRelease ==
  ASSUME TypeOK, NEW w \in Workers, NEW s \in Slots, Release(w, s)
  PROVE  run' \in [Threads -> Running \cup {Free}] /\ proc' \in [Workers -> Proc]
<1>1. run' \in [Threads -> Running \cup {Free}]
  BY DEF TypeOK, Release, Threads
<1>2. proc' \in [Workers -> Proc]
  <2> DEFINE p == [proc[w] EXCEPT
        !.tracked = {r \in @ : run[<<w, r>>].job # run[<<w, s>>].job},
        !.waits = @ \ {s}]
  <2>1. proc[w] \in Proc
    BY DEF TypeOK
  <2>2. {r \in proc[w].tracked : run[<<w, r>>].job # run[<<w, s>>].job} \subseteq Slots
    BY <2>1 DEF Proc
  <2>3. p \in Proc
    BY <2>1, <2>2 DEF Proc
  <2> QED BY <2>3 DEF TypeOK, Release
<1> QED BY <1>1, <1>2

\* A slot that is not free has a job.
LEMMA SlotType ==
  ASSUME TypeOK, NEW w \in Workers, NEW s \in Slots, run[<<w, s>>] # Free
  PROVE  run[<<w, s>>] \in Running
BY DEF TypeOK, Threads

\* Everything _process and its commands change keeps its type.
LEMMA TypeProcess ==
  ASSUME TypeOK, NEW w \in Workers, NEW s \in Slots,
         Process(w, s) \/ ProcessError(w, s)
  PROVE  TypeOK'
<1> USE DEF TypeOK
<1>1. run[<<w, s>>] \in Running
  <2>1. run[<<w, s>>] # Free
    BY DEF Process, ProcessorEnds, ProcessError, Complete,
           FailRead, FailUnlist, FailRecord, FailStatus, FailMove, At
  <2> QED BY <2>1, SlotType
<1> DEFINE j == run[<<w, s>>].job
<1>2. j \in Jobs /\ run[<<w, s>>].tries \in Nat
  BY <1>1 DEF Running
<1>3. ASSUME NEW step \in {"complete"} \cup FailSteps, Goto(w, s, step)
      PROVE  run' \in [Threads -> Running \cup {Free}]
  BY <1>1, <1>3 DEF Goto, Running, Threads
<1>4. CASE ProcessorEnds(w, s)
  BY <1>3, <1>4 DEF ProcessorEnds, FailSteps
<1>6. CASE Complete(w, s)
  <2>1. zset' \in ZSets /\ zset'.due \subseteq zset'.delayed
    BY <1>6 DEF Complete, ZSets
  <2>2. hash' \in [Jobs -> Hash]
    <3>1. hash[j] \in Hash
      BY <1>2
    <3>2. [hash[j] EXCEPT !.status = "completed"] \in Hash
      BY <3>1 DEF Hash
    <3> QED BY <1>6, <3>2 DEF Complete
  <2> QED BY <1>6, <2>1, <2>2, TypeRelease DEF Complete
<1>7. CASE FailRead(w, s)
  <2>1. NextTries(j) \in Nat
    BY <1>2 DEF NextTries, Hash
  <2>2. run' \in [Threads -> Running \cup {Free}]
    BY <1>1, <1>7, <2>1 DEF FailRead, Running, Threads, FailSteps
  <2> QED BY <1>7, <2>2 DEF FailRead
<1>8. CASE FailUnlist(w, s)
  <2>1. zset' \in ZSets /\ zset'.due \subseteq zset'.delayed
    BY <1>8 DEF FailUnlist, ZSets
  <2> QED BY <1>3, <1>8, <2>1 DEF FailUnlist, FailSteps
<1>9. CASE FailRecord(w, s) \/ FailStatus(w, s)
  <2>1. hash' \in [Jobs -> Hash]
    <3>1. hash[j] \in Hash
      BY <1>2
    <3>2. [hash[j] EXCEPT !.attempts = run[<<w, s>>].tries] \in Hash
      BY <1>2, <3>1 DEF Hash
    <3>3. [hash[j] EXCEPT !.status = IF OutOfTries(w, s) THEN "failed" ELSE "waiting"] \in Hash
      BY <3>1 DEF Hash
    <3> QED BY <1>9, <3>2, <3>3 DEF FailRecord, FailStatus
  <2>2. run' \in [Threads -> Running \cup {Free}]
    BY <1>3, <1>9 DEF FailRecord, FailStatus, FailSteps
  <2> QED BY <1>9, <2>1, <2>2 DEF FailRecord, FailStatus
<1>10. CASE FailMove(w, s)
  <2>1. zset' \in ZSets /\ zset'.due \subseteq zset'.delayed
    BY <1>2, <1>10 DEF FailMove, ZSets
  <2> QED BY <1>10, <2>1, TypeRelease DEF FailMove
<1>11. CASE ProcessError(w, s)
  <2>1. abandoned' \subseteq Jobs /\ spent' \in [Faults -> Nat]
    BY <1>2, <1>11 DEF ProcessError, Spend, Faults
  <2> QED BY <1>11, <2>1, TypeRelease DEF ProcessError
<1> QED BY <1>4, <1>6, <1>7, <1>8, <1>9, <1>10, <1>11 DEF Process

\* A busy retrier has a job.
LEMMA RetryType ==
  ASSUME TypeOK, NEW a \in Retriers, retry[a] # NoRetry
  PROVE  retry[a] \in RetryCall
BY DEF TypeOK

\* Everything retryDLQ changes keeps its type.
LEMMA TypeRetry ==
  ASSUME TypeOK, NEW a \in Retriers,
         RetryStep(a) \/ RetryError(a) \/ \E j \in Jobs : RetryCheck(a, j)
  PROVE  TypeOK'
<1> USE DEF TypeOK
<1>1. ASSUME NEW j \in Jobs, RetryCheck(a, j) PROVE TypeOK'
  BY <1>1 DEF RetryCheck, RetryCall, Spend, Faults
<1>2. ASSUME RetryStep(a) \/ RetryError(a) PROVE retry[a] \in RetryCall
  BY <1>2, RetryType DEF RetryStep, RetryRemove, RetryReset, RetryEnqueue, RetryError, NoRetry
<1>3. CASE RetryRemove(a)
  <2>1. zset' \in ZSets /\ zset'.due \subseteq zset'.delayed
    BY <1>3 DEF RetryRemove, ZSets
  <2> QED BY <1>2, <1>3, <2>1 DEF RetryRemove, RetryStep, RetryCall
<1>4. CASE RetryReset(a)
  <2>1. hash' \in [Jobs -> Hash]
    <3> DEFINE j == retry[a].job
    <3>1. j \in Jobs
      BY <1>2, <1>4 DEF RetryStep, RetryCall
    <3>2. hash[j] \in Hash
      BY <3>1
    <3>3. Revived(hash[j]) \in Hash
      BY <3>2 DEF Revived, Hash
    <3> QED BY <1>4, <3>3 DEF RetryReset
  <2> QED BY <1>2, <1>4, <2>1 DEF RetryReset, RetryStep, RetryCall
<1>5. CASE RetryEnqueue(a)
  <2>1. zset' \in ZSets /\ zset'.due \subseteq zset'.delayed
    BY <1>2, <1>5 DEF RetryEnqueue, RetryStep, RetryCall, ZSets
  <2> QED BY <1>2, <1>5, <2>1 DEF RetryEnqueue, RetryStep, RetryCall
<1>6. CASE RetryError(a)
  BY <1>2, <1>6 DEF RetryError, RetryCall, Spend, Faults
<1> QED BY <1>1, <1>3, <1>4, <1>5, <1>6 DEF RetryStep

\* What a worker has in hand are jobs.
LEMMA HeldType ==
  ASSUME TypeOK, NEW w \in Workers
  PROVE  HeldBy(w) \subseteq Jobs
<1>1. \A s \in Busy(w) : run[<<w, s>>].job \in Jobs
  BY SlotType DEF Busy, Running
<1> QED BY <1>1 DEF HeldBy

\* Starting, stopping and crashing keep the types.
LEMMA TypeLifecycle ==
  ASSUME TypeOK, NEW w \in Workers, Stop(w) \/ Exit(w) \/ Crash(w) \/ Start(w)
  PROVE  TypeOK'
<1> USE DEF TypeOK
<1>0. proc[w] \in Proc
  OBVIOUS
<1>1. CASE Stop(w)
  <2>1. [proc[w] EXCEPT !.mode = "stopping", !.waits = proc[w].tracked] \in Proc
    BY <1>0 DEF Proc
  <2> QED BY <1>1, <2>1 DEF Stop, Spend, Faults
<1>2. CASE Start(w)
  <2>1. [proc[w] EXCEPT !.mode = "up"] \in Proc
    BY <1>0 DEF Proc
  <2> QED BY <1>2, <2>1 DEF Start
<1>3. ASSUME ProcessEnds(w), spent' \in [Faults -> Nat] PROVE TypeOK'
  <2>1. Fresh("down") \in Proc
    BY DEF Fresh, Proc
  <2>2. proc' \in [Workers -> Proc] /\ run' \in [Threads -> Running \cup {Free}]
    BY <1>3, <2>1 DEF ProcessEnds
  <2> QED BY <1>3, <2>2, HeldType DEF ProcessEnds
<1>4. CASE Exit(w) \/ Crash(w)
  <2>1. spent' \in [Faults -> Nat]
    BY <1>4 DEF Exit, Crash, Spend, Faults
  <2> QED BY <1>3, <1>4, <2>1 DEF Exit, Crash
<1> QED BY <1>1, <1>2, <1>4

LEMMA TypeInit == Init => TypeOK
<1>1. Fresh("up") \in Proc
  BY DEF Fresh, Proc
<1> QED BY <1>1 DEF Init, TypeOK, ZSets, Hash, Faults

LEMMA TypeStep == ASSUME TypeOK, [Next]_vars PROVE TypeOK'
<1>1. ASSUME NEW j \in Jobs, NEW delay \in BOOLEAN, Add(j, delay) PROVE TypeOK'
  <2>1. zset' \in ZSets /\ zset'.due \subseteq zset'.delayed
    BY <1>1 DEF Add, Put, TypeOK, ZSets
  <2>2. score' \in [Jobs -> Int] /\ hash' \in [Jobs -> Hash]
    <3>1. [status |-> "waiting", attempts |-> 0] \in Hash
      BY DEF Hash
    <3>2. -Priority[j] \in Int
      OBVIOUS
    <3> QED BY <1>1, <3>1, <3>2 DEF Add, Put, TypeOK
  <2> QED BY <1>1, <2>1, <2>2 DEF Add, Put, TypeOK
<1>2. ASSUME NEW j \in Jobs, RunAtPasses(j) PROVE TypeOK'
  <2>1. zset' \in ZSets /\ zset'.due \subseteq zset'.delayed
    BY <1>2 DEF RunAtPasses, TypeOK, ZSets
  <2> QED BY <1>2, <2>1 DEF RunAtPasses, TypeOK
<1>4. CASE UNCHANGED vars
  BY <1>4 DEF vars, TypeOK
<1> QED
  BY <1>1, <1>2, <1>4, TypePoll, TypeProcess, TypeRetry, TypeLifecycle DEF Next

\* Every variable of the queue and of its workers keeps its type, whatever
\* the interleaving and the faults.
THEOREM TypeCorrect == Spec => []TypeOK
BY TypeInit, TypeStep, PTL DEF Spec

-----------------------------------------------------------------------------
(* Accounted is inductive with TypeOK. A step changes what is known of the *)
(* one job j only when its actor has j in hand, and it lets go of j only   *)
(* by completing it, moving it to a queue, or dropping it.                 *)

\* A job is safe when it has not been added or can still be found.
Safe(j) ==
  hash[j].status = "none"
  \/ j \in Pending \cup zset.dlq \cup Held \cup Retrying \cup Done \cup abandoned

LEMMA AccountedIsSafe == Accounted <=> \A j \in Jobs : Safe(j)
BY DEF Accounted, Safe

\* A worker in one slot holds its job.
LEMMA InHand ==
  ASSUME NEW w \in Workers, NEW s \in Slots, run[<<w, s>>] # Free
  PROVE  run[<<w, s>>].job \in Held
BY DEF Held, HeldBy, Busy

\* Whatever is in hand is in some slot of some worker.
LEMMA HeldSomewhere ==
  ASSUME NEW j \in Held
  PROVE  \E v \in Workers, r \in Slots : run[<<v, r>>] # Free /\ run[<<v, r>>].job = j
<1>1. PICK v \in Workers : j \in HeldBy(v)
  BY DEF Held
<1>2. PICK r \in Busy(v) : run[<<v, r>>].job = j
  BY <1>1 DEF HeldBy
<1> QED BY <1>2 DEF Busy

\* Slots that did not change, or only changed step, hold the same jobs.
LEMMA HeldKept ==
  ASSUME TypeOK, TypeOK', NEW w \in Workers, NEW s \in Slots,
         \A t \in Threads : t # <<w, s>> => run'[t] = run[t],
         NEW j \in Held, j \notin Held'
  PROVE  run[<<w, s>>] # Free /\ j = run[<<w, s>>].job
         /\ (run'[<<w, s>>] = Free \/ run'[<<w, s>>].job # j)
<1>1. PICK v \in Workers, r \in Slots : run[<<v, r>>] # Free /\ run[<<v, r>>].job = j
  BY HeldSomewhere
<1>2. ~ (run'[<<v, r>>] # Free /\ run'[<<v, r>>].job = j)
  <2>1. j \notin HeldBy(v)'
    BY DEF Held
  <2> QED BY <2>1 DEF HeldBy, Busy
<1>3. <<v, r>> = <<w, s>>
  BY <1>1, <1>2 DEF Threads
<1> QED BY <1>1, <1>2, <1>3

\* What is in hand depends on run alone, and what is being retried on retry.
LEMMA SameHands == ASSUME UNCHANGED run PROVE Held' = Held
BY DEF Held, HeldBy, Busy

LEMMA SameRetries == ASSUME UNCHANGED retry PROVE Retrying' = Retrying
BY DEF Retrying

\* A retryDLQ call past its zrem holds its job, and only it can let go of it.
LEMMA RetryingKept ==
  ASSUME NEW a \in Retriers, \A b \in Retriers : b # a => retry'[b] = retry[b],
         NEW j \in Retrying, j \notin Retrying'
  PROVE  retry[a].step \in {"reset", "enqueue"} /\ retry[a].job = j
BY DEF Retrying

\* _poll moves jobs between waiting, delayed and the slots, and loses none.
LEMMA SafePoll ==
  ASSUME TypeOK, TypeOK', NEW w \in Workers,
         Poll(w) \/ PollError(w) \/ PopUnanswered(w) \/ PromoteError(w), NEW j \in Jobs, Safe(j)
  PROVE  Safe(j)'
<1> USE DEF Safe, Pending, Done
<1>1. ASSUME UNCHANGED <<hash, run, retry>> PROVE Held' = Held /\ Retrying' = Retrying
  BY <1>1, SameHands, SameRetries
<1>2. CASE PollStart(w) \/ Scan(w) \/ PopNothing(w) \/ PollEnd(w) \/ PromoteError(w)
  BY <1>1, <1>2 DEF PollStart, Scan, PopNothing, PollEnd, PromoteError
<1>3. CASE Promote(w)
  <2>1. Pending \subseteq Pending' /\ zset'.dlq = zset.dlq
    BY <1>3 DEF Promote, Promoted, TypeOK, ZSets
  <2> QED BY <1>1, <1>3, <2>1 DEF Promote
<1>4. ASSUME NEW k \in Jobs, NEW s \in Slots, Pop(w, k, s) PROVE Safe(j)'
  <2>1. Pending \ {k} \subseteq Pending' /\ zset'.dlq = zset.dlq
    BY <1>4 DEF Pop, PopMin, TypeOK, ZSets
  <2>2. Held \subseteq Held'
    BY <1>4, HeldKept DEF Pop, TypeOK
  <2>3. k \in Held'
    <3>1. run'[<<w, s>>].job = k /\ run'[<<w, s>>] # Free
      BY <1>4, JobQueueAssumption DEF Pop, TypeOK, Threads, Free
    <3> QED BY <3>1 DEF Held, HeldBy, Busy
  <2>4. Retrying' = Retrying /\ hash' = hash /\ abandoned' = abandoned
    BY <1>4 DEF Pop, Retrying
  <2> QED BY <2>1, <2>2, <2>3, <2>4
<1>5. CASE PollError(w)
  <2>1. ASSUME NEW k \in Jobs, PopMin(k)
        PROVE  Pending \ {k} \subseteq Pending' /\ zset'.dlq = zset.dlq
    BY <2>1 DEF PopMin, TypeOK, ZSets
  <2> QED BY <1>1, <1>5, <2>1 DEF PollError
<1>6. CASE PopUnanswered(w)
  <2>1. PICK k \in Jobs : PopMin(k) /\ abandoned' = abandoned \cup {k}
    BY <1>6 DEF PopUnanswered
  <2>2. Pending \ {k} \subseteq Pending' /\ zset'.dlq = zset.dlq
    BY <2>1 DEF PopMin, TypeOK, ZSets
  <2> QED BY <1>1, <1>6, <2>1, <2>2 DEF PopUnanswered
<1> QED BY <1>2, <1>3, <1>4, <1>5, <1>6 DEF Poll

\* _process keeps its job in hand until complete or fail has disposed of it.
LEMMA SafeProcess ==
  ASSUME TypeOK, TypeOK', NEW w \in Workers, NEW s \in Slots,
         Process(w, s) \/ ProcessError(w, s),
         NEW j \in Jobs, Safe(j)
  PROVE  Safe(j)'
<1> DEFINE k == run[<<w, s>>].job
<1>1. run[<<w, s>>] # Free /\ run[<<w, s>>] \in Running
  <2>1. run[<<w, s>>] # Free
    BY DEF Process, ProcessorEnds, ProcessError, Complete,
           FailRead, FailUnlist, FailRecord, FailStatus, FailMove, At
  <2> QED BY <2>1, SlotType
<1>2. k \in Jobs
  BY <1>1 DEF Running
<1>3. /\ \A t \in Threads : t # <<w, s>> => run'[t] = run[t]
      /\ Retrying' = Retrying
  BY DEF Process, ProcessorEnds, ProcessError, Complete,
         FailRead, FailUnlist, FailRecord, FailStatus, FailMove, Goto, Release,
         TypeOK, Retrying
<1>4. Held \ {k} \subseteq Held'
  BY <1>3, HeldKept
<1>5. CASE ProcessorEnds(w, s) \/ FailRead(w, s)
           \/ FailUnlist(w, s) \/ FailRecord(w, s) \/ FailStatus(w, s)
  <2>1. run'[<<w, s>>].job = k
    <3>1. <<w, s>> \in DOMAIN run
      BY DEF TypeOK, Threads
    <3>2. ASSUME NEW step, Goto(w, s, step) PROVE run'[<<w, s>>].job = k
      BY <1>1, <3>1, <3>2 DEF Goto, Running
    <3>3. CASE FailRead(w, s)
      BY <1>1, <3>1, <3>3 DEF FailRead, Running
    <3> QED BY <1>5, <3>2, <3>3 DEF ProcessorEnds, FailUnlist,
               FailRecord, FailStatus
  <2>2. run'[<<w, s>>] # Free
    BY <1>2, <2>1, JobQueueAssumption DEF Free
  <2>3. k \in Held'
    BY <2>1, <2>2 DEF Held, HeldBy, Busy
  <2>4. Pending' = Pending /\ zset'.dlq = zset.dlq /\ abandoned' = abandoned
    BY <1>5 DEF ProcessorEnds, FailRead, FailUnlist,
       FailRecord, FailStatus, Pending, TypeOK, ZSets
  <2>5. \A i \in Jobs \ {k} : hash'[i] = hash[i]
    BY <1>5 DEF ProcessorEnds, FailRead, FailUnlist,
       FailRecord, FailStatus, TypeOK
  <2> QED BY <1>3, <1>4, <2>3, <2>4, <2>5 DEF Safe, Done
<1>6. CASE Complete(w, s)
  <2>1. Pending' = Pending /\ zset'.dlq = zset.dlq /\ abandoned' = abandoned
    BY <1>6 DEF Complete, Pending, TypeOK, ZSets
  <2>2. k \in Done'
    BY <1>2, <1>6 DEF Complete, Done, TypeOK, Hash
  <2>3. \A i \in Jobs \ {k} : hash'[i] = hash[i]
    BY <1>6 DEF Complete, TypeOK
  <2> QED BY <1>3, <1>4, <2>1, <2>2, <2>3 DEF Safe, Done
<1>7. CASE FailMove(w, s)
  <2>1. Pending \cup zset.dlq \cup {k} \subseteq Pending' \cup zset'.dlq
    BY <1>2, <1>7 DEF FailMove, Pending, TypeOK, ZSets
  <2>2. hash' = hash /\ abandoned' = abandoned
    BY <1>7 DEF FailMove
  <2> QED BY <1>3, <1>4, <2>1, <2>2 DEF Safe, Done
<1>8. CASE ProcessError(w, s)
  <2>1. zset' = zset /\ hash' = hash /\ abandoned' = abandoned \cup {k}
    BY <1>8 DEF ProcessError
  <2> QED BY <1>3, <1>4, <2>1 DEF Safe, Done, Pending
<1> QED BY <1>5, <1>6, <1>7, <1>8 DEF Process

\* retryDLQ keeps the job it took out of the dlq until it is in waiting.
LEMMA SafeRetry ==
  ASSUME TypeOK, TypeOK', NEW a \in Retriers,
         RetryStep(a) \/ RetryError(a) \/ \E k \in Jobs : RetryCheck(a, k),
         NEW j \in Jobs, Safe(j)
  PROVE  Safe(j)'
<1> DEFINE k == retry[a].job
<1>1. Held' = Held
  <2>1. UNCHANGED run
    BY DEF RetryStep, RetryRemove, RetryReset, RetryEnqueue, RetryError, RetryCheck
  <2> QED BY <2>1, SameHands
<1>2. \A b \in Retriers : b # a => retry'[b] = retry[b]
  BY DEF RetryStep, RetryRemove, RetryReset, RetryEnqueue, RetryError,
         RetryCheck, TypeOK
<1>3. \A i \in Retrying : i \in Retrying' \/ (retry[a].step \in {"reset", "enqueue"} /\ i = k)
  BY <1>2, RetryingKept
<1>4. CASE \E i \in Jobs : RetryCheck(a, i)
  <2>1. Retrying \subseteq Retrying'
    BY <1>3, <1>4 DEF RetryCheck, NoRetry
  <2> QED BY <1>1, <1>4, <2>1 DEF RetryCheck, Safe, Done, Pending
<1>5. CASE RetryRemove(a)
  <2>1. retry[a] \in RetryCall
    BY <1>5, RetryType DEF RetryRemove, NoRetry
  <2>2. Pending' = Pending /\ zset.dlq \ {k} \subseteq zset'.dlq
    BY <1>5 DEF RetryRemove, Pending, TypeOK, ZSets
  <2>3. k \in Retrying' /\ Retrying \subseteq Retrying'
    BY <1>3, <1>5, <2>1 DEF RetryRemove, Retrying, RetryCall, TypeOK
  <2> QED BY <1>1, <1>5, <2>2, <2>3 DEF RetryRemove, Safe, Done
<1>6. CASE RetryReset(a)
  <2>1. retry[a] \in RetryCall
    BY <1>6, RetryType DEF RetryReset, NoRetry
  <2>2. k \in Retrying' /\ Retrying \subseteq Retrying'
    BY <1>3, <1>6, <2>1 DEF RetryReset, Retrying, RetryCall, TypeOK
  <2>3. \A i \in Jobs \ {k} : hash'[i] = hash[i]
    BY <1>6 DEF RetryReset, TypeOK
  <2> QED BY <1>1, <1>6, <2>2, <2>3 DEF RetryReset, Safe, Done, Pending
<1>7. CASE RetryEnqueue(a)
  <2>1. Pending \cup {k} \subseteq Pending' /\ zset'.dlq = zset.dlq
    BY <1>7 DEF RetryEnqueue, Pending, TypeOK, ZSets
  <2> QED BY <1>1, <1>3, <1>7, <2>1 DEF RetryEnqueue, Safe, Done
<1>8. CASE RetryError(a)
  <2>1. Retrying \subseteq Retrying' \cup abandoned'
    BY <1>3, <1>8 DEF RetryError
  <2> QED BY <1>1, <1>8, <2>1 DEF RetryError, Safe, Done, Pending
<1> QED BY <1>4, <1>5, <1>6, <1>7, <1>8 DEF RetryStep

\* A process that ends drops exactly what it had in hand.
LEMMA SafeLifecycle ==
  ASSUME TypeOK, TypeOK', NEW w \in Workers,
         Stop(w) \/ Exit(w) \/ Crash(w) \/ Start(w), NEW j \in Jobs, Safe(j)
  PROVE  Safe(j)'
<1>1. CASE Stop(w) \/ Start(w)
  <2>1. Held' = Held /\ Retrying' = Retrying
    <3>1. UNCHANGED <<run, retry>>
      BY <1>1 DEF Stop, Start
    <3> QED BY <3>1, SameHands, SameRetries
  <2> QED BY <1>1, <2>1 DEF Stop, Start, Safe, Done, Pending
<1>2. CASE ProcessEnds(w)
  <2>1. Held \subseteq Held' \cup abandoned'
    <3> SUFFICES ASSUME NEW i \in Held PROVE i \in Held' \cup abandoned'
      OBVIOUS
    <3>1. PICK v \in Workers, r \in Slots : run[<<v, r>>] # Free /\ run[<<v, r>>].job = i
      BY HeldSomewhere
    <3>2. CASE v = w
      BY <1>2, <3>1, <3>2 DEF ProcessEnds, HeldBy, Busy
    <3>3. CASE v # w
      <4>1. run'[<<v, r>>] = run[<<v, r>>]
        BY <1>2, <3>3 DEF ProcessEnds, Threads
      <4> QED BY <3>1, <4>1 DEF Held, HeldBy, Busy
    <3> QED BY <3>2, <3>3
  <2>2. Retrying' = Retrying /\ abandoned \subseteq abandoned'
    BY <1>2 DEF ProcessEnds, Retrying
  <2> QED BY <1>2, <2>1, <2>2 DEF ProcessEnds, Safe, Done, Pending
<1> QED BY <1>1, <1>2 DEF Exit, Crash

\* No job vanishes: for any number of jobs, workers, concurrent executions
\* and retries, and any faults, a job that was added is in a queue, in hand,
\* completed, or was dropped by a process that died or a command that failed.
THEOREM NoJobVanishes == Spec => []Accounted
<1>1. Init => Accounted
  BY DEF Init, Accounted
<1>2. TypeOK /\ TypeOK' /\ Accounted /\ [Next]_vars => Accounted'
  <2> SUFFICES ASSUME TypeOK, TypeOK', [Next]_vars, NEW j \in Jobs, Safe(j)
               PROVE  Safe(j)'
    BY AccountedIsSafe DEF Accounted, Safe
  <2>1. ASSUME UNCHANGED <<run, retry>> PROVE Held' = Held /\ Retrying' = Retrying
    BY <2>1, SameHands, SameRetries
  <2>2. ASSUME NEW k \in Jobs, NEW delay \in BOOLEAN, Add(k, delay) PROVE Safe(j)'
    <3>1. Pending \cup {k} \subseteq Pending' /\ zset'.dlq = zset.dlq
      BY <2>2 DEF Add, Put, Pending, TypeOK, ZSets
    <3>2. \A i \in Jobs \ {k} : hash'[i] = hash[i]
      BY <2>2 DEF Add, Put, TypeOK
    <3> QED BY <2>1, <2>2, <3>1, <3>2 DEF Add, Safe, Done
  <2>3. ASSUME NEW k \in Jobs, RunAtPasses(k) PROVE Safe(j)'
    <3>1. Pending' = Pending /\ zset'.dlq = zset.dlq
      BY <2>3 DEF RunAtPasses, Pending, TypeOK, ZSets
    <3> QED BY <2>1, <2>3, <3>1 DEF RunAtPasses, Safe, Done
  <2>5. CASE UNCHANGED vars
    BY <2>1, <2>5 DEF vars, Safe, Done, Pending
  <2> QED
    BY <2>2, <2>3, <2>5, SafePoll, SafeProcess, SafeRetry, SafeLifecycle DEF Next
<1> QED BY <1>1, <1>2, TypeCorrect, PTL DEF Spec

-----------------------------------------------------------------------------
(* One worker process and one retrier: every job is in one place. The      *)
(* worker of the lemmas is the only one that polls, whatever other         *)
(* processes start and stop around it.                                     *)

OneRetrier == \A a, b \in Retriers : a = b
OnlyWorks(w) == \A v \in Workers \ {w} :
                  proc[v].promo = {} /\ \A s \in Slots : run[<<v, s>>] = Free

\* Where a job may be, and what its hash then says
Placed(j) ==
  /\ j \in zset.waiting => j \notin zset.delayed
  /\ j \in Pending => j \notin zset.dlq \cup Held \cup Retrying \cup abandoned
  /\ j \in zset.dlq => j \notin Held \cup Retrying \cup abandoned
  /\ j \in Held => j \notin Retrying \cup abandoned
  /\ j \in Retrying => j \notin abandoned
  /\ j \in zset.active => j \in Held \cup abandoned
  /\ hash[j].status \in {"none", "completed"}
       => j \notin Pending \cup zset.dlq \cup Held \cup Retrying \cup abandoned
  /\ hash[j].status = "none" => hash[j].attempts = 0
  /\ hash[j].attempts <= MaxAttempts
  /\ j \in Pending => hash[j].status = "waiting" /\ hash[j].attempts < MaxAttempts
  /\ j \in zset.dlq => hash[j].status = "failed" /\ hash[j].attempts = MaxAttempts

\* What the commands of fail have written by the step the call is at
Recorded(t) ==
  LET h == hash[run[t].job]
      tries == run[t].tries
      step == run[t].step
  IN  /\ step \in {"run", "complete", "read", "unlist", "record"}
           => h.status = "waiting" /\ h.attempts < MaxAttempts
      /\ step \in {"unlist", "record"} => tries = h.attempts + 1
      /\ step \in {"status", "move"} => tries = h.attempts /\ tries >= 1
      /\ step = "status" => h.status = "waiting"
      /\ step = "move" => h.status = IF tries >= MaxAttempts THEN "failed" ELSE "waiting"
      /\ step \in {"record", "status", "move"} => run[t].job \notin zset.active

\* What a retryDLQ call has found and written
Reviving(a) ==
  LET h == hash[retry[a].job] IN
  /\ retry[a].step = "remove" => retry[a].job \in zset.dlq
  /\ retry[a].step = "reset" => h.status = "failed" /\ h.attempts = MaxAttempts
  /\ retry[a].step = "enqueue" => h.status = "waiting" /\ h.attempts = 0

AllPlaced == \A j \in Jobs : Placed(j)
AllRecorded == \A t \in Threads : run[t] # Free => Recorded(t)
AllReviving == \A a \in Retriers : retry[a] # NoRetry => Reviving(a)

SoloInv(w) ==
  /\ OnlyWorks(w) /\ OneHolder /\ AllPlaced /\ AllRecorded /\ AllReviving
  /\ proc[w].promo \subseteq zset.due

LEMMA Hands ==
  ASSUME NEW f, NEW j
  PROVE  j \in UNION {{f[<<v, s>>].job : s \in {r \in Slots : f[<<v, r>>] # Free}} : v \in Workers}
           <=> \E t \in Threads : f[t] # Free /\ f[t].job = j
<1> DEFINE Of(v) == {f[<<v, s>>].job : s \in {r \in Slots : f[<<v, r>>] # Free}}
<1>1. ASSUME NEW v \in Workers, j \in Of(v)
      PROVE  \E t \in Threads : f[t] # Free /\ f[t].job = j
  <2>1. PICK s \in Slots : f[<<v, s>>] # Free /\ f[<<v, s>>].job = j
    BY <1>1
  <2> QED BY <2>1 DEF Threads
<1>2. ASSUME NEW t \in Threads, f[t] # Free, f[t].job = j PROVE \E v \in Workers : j \in Of(v)
  <2>1. PICK v \in Workers, s \in Slots : t = <<v, s>>
    BY DEF Threads
  <2>2. j \in Of(v)
    BY <1>2, <2>1
  <2> QED BY <2>2
<1>3. j \in UNION {Of(v) : v \in Workers} <=> \E v \in Workers : j \in Of(v)
  OBVIOUS
<1> QED BY <1>1, <1>2, <1>3

LEMMA HeldIff ==
  /\ \A j : j \in Held <=> \E t \in Threads : run[t] # Free /\ run[t].job = j
  /\ \A j : j \in Held' <=> \E t \in Threads : run'[t] # Free /\ run'[t].job = j
BY Hands DEF Held, HeldBy, Busy

LEMMA ThreadType ==
  ASSUME TypeOK, NEW t \in Threads
  PROVE  /\ run[t] # Free => run[t] \in Running /\ run[t].job \in Jobs /\ run[t].tries \in Nat
         /\ run[t] = Free => run[t].job \notin Jobs
BY DEF TypeOK, Running, Free

LEMMA HashType ==
  ASSUME TypeOK, NEW j \in Jobs
  PROVE  hash[j] \in Hash /\ hash[j].attempts \in Nat
BY DEF TypeOK, Hash

\* What happens in one slot to the jobs in hand
LEMMA HoldSame ==
  ASSUME TypeOK, TypeOK', OneHolder, NEW t \in Threads, \A u \in Threads \ {t} : run'[u] = run[u],
         run[t] # Free, run'[t] # Free, run'[t].job = run[t].job
  PROVE  OneHolder' /\ Held' = Held
<1>1. OneHolder'
  BY DEF OneHolder
<1>2. \A j : j \in Held' <=> j \in Held
  BY HeldIff
<1> QED BY <1>1, <1>2

LEMMA HoldLess ==
  ASSUME TypeOK, TypeOK', OneHolder, NEW t \in Threads, \A u \in Threads \ {t} : run'[u] = run[u],
         run[t] # Free, run'[t] = Free
  PROVE  OneHolder' /\ Held' = Held \ {run[t].job}
<1>0. run[t].job \in Jobs /\ run'[t].job \notin Jobs
  BY ThreadType DEF Free
<1>1. OneHolder'
  <2> SUFFICES ASSUME NEW t1 \in Threads, NEW t2 \in Threads, run'[t1] # Free, run'[t1].job = run'[t2].job
               PROVE  t1 = t2
    BY DEF OneHolder
  <2>1. t1 # t /\ run[t1].job \in Jobs
    BY ThreadType
  <2>2. t2 # t
    BY <1>0, <2>1
  <2> QED BY <2>1, <2>2 DEF OneHolder
<1>2. \A j : j \in Held' <=> j \in Held /\ j # run[t].job
  BY HeldIff DEF OneHolder
<1> QED BY <1>1, <1>2

LEMMA HoldMore ==
  ASSUME TypeOK, TypeOK', OneHolder, NEW t \in Threads, \A u \in Threads \ {t} : run'[u] = run[u],
         run[t] = Free, run'[t] # Free, run'[t].job \notin Held
  PROVE  OneHolder' /\ Held' = Held \cup {run'[t].job}
<1>0. PICK k \in Jobs : run'[t].job = k /\ k \notin Held
  BY ThreadType DEF TypeOK, Running
<1>1. OneHolder'
  <2> SUFFICES ASSUME NEW t1 \in Threads, NEW t2 \in Threads, run'[t1] # Free, run'[t1].job = run'[t2].job
               PROVE  t1 = t2
    BY DEF OneHolder
  <2>1. CASE t1 # t /\ t2 # t
    BY <2>1 DEF OneHolder
  <2>2. CASE t1 = t /\ t2 # t
    <3>1. run[t2].job = k /\ run[t2] # Free
      BY <1>0, <2>2, ThreadType
    <3> QED BY <1>0, <3>1, HeldIff
  <2>3. CASE t1 # t /\ t2 = t
    BY <1>0, <2>3, HeldIff
  <2> QED BY <2>1, <2>2, <2>3
<1>2. \A j : j \in Held' <=> j \in Held \/ j = run'[t].job
  BY HeldIff
<1> QED BY <1>1, <1>2

\* A process that ends has nothing in hand any more.
LEMMA HoldNone ==
  ASSUME TypeOK, OneHolder, NEW v \in Workers, ProcessEnds(v)
  PROVE  OneHolder' /\ Held' = Held \ HeldBy(v)
<1>1. \A t \in Threads : run'[t] = IF t[1] = v THEN Free ELSE run[t]
  BY DEF ProcessEnds
<1>2. OneHolder'
  <2> SUFFICES ASSUME NEW t1 \in Threads, NEW t2 \in Threads, run'[t1] # Free, run'[t1].job = run'[t2].job
               PROVE  t1 = t2
    BY DEF OneHolder
  <2>1. run'[t1] = run[t1] /\ run[t1].job \in Jobs
    BY <1>1, ThreadType
  <2>2. run'[t2] # Free
    BY <2>1 DEF Free
  <2> QED BY <1>1, <2>1, <2>2 DEF OneHolder
<1>3. ASSUME NEW j PROVE j \in HeldBy(v) <=> \E t \in Threads : t[1] = v /\ run[t] # Free /\ run[t].job = j
  <2>1. \A t \in Threads : t[2] \in Slots /\ t = <<t[1], t[2]>>
    BY DEF Threads
  <2>2. \A s \in Slots : <<v, s>> \in Threads /\ <<v, s>>[1] = v
    BY DEF Threads
  <2> QED BY <2>1, <2>2 DEF HeldBy, Busy
<1>4. \A j : j \in Held' <=> j \in Held /\ j \notin HeldBy(v)
  BY <1>1, <1>3, HeldIff DEF OneHolder
<1> QED BY <1>2, <1>4

\* Steps that leave a job, a call or a retry alone
LEMMA PlacedSame ==
  ASSUME NEW j, Placed(j), hash'[j] = hash[j],
         j \in zset'.waiting <=> j \in zset.waiting, j \in zset'.delayed <=> j \in zset.delayed,
         j \in zset'.dlq <=> j \in zset.dlq, j \in zset'.active <=> j \in zset.active,
         j \in Held' <=> j \in Held, j \in Retrying' <=> j \in Retrying,
         j \in abandoned' <=> j \in abandoned
  PROVE  Placed(j)'
BY DEF Placed, Pending

LEMMA RecordedSame ==
  ASSUME NEW t, Recorded(t), run'[t] = run[t], hash'[run[t].job] = hash[run[t].job],
         run[t].job \in zset'.active => run[t].job \in zset.active
  PROVE  Recorded(t)'
BY DEF Recorded

LEMMA RevivingSame ==
  ASSUME NEW a, Reviving(a), retry'[a] = retry[a], hash'[retry[a].job] = hash[retry[a].job],
         retry[a].job \in zset.dlq => retry[a].job \in zset'.dlq
  PROVE  Reviving(a)'
BY DEF Reviving

\* The job in a slot is nowhere else.
LEMMA Exclusive ==
  ASSUME TypeOK, OneHolder, AllPlaced, AllReviving, NEW t \in Threads, run[t] # Free
  PROVE  /\ run[t].job \in Jobs /\ run[t].job \in Held
         /\ run[t].job \notin Pending \cup zset.dlq \cup Retrying \cup abandoned
         /\ \A u \in Threads \ {t} : run[u].job # run[t].job
         /\ \A a \in Retriers : retry[a] # NoRetry => retry[a].job # run[t].job
<1> DEFINE k == run[t].job
<1>1. k \in Jobs /\ k \in Held
  BY ThreadType, HeldIff
<1>2. Placed(k)
  BY <1>1 DEF AllPlaced
<1>3. k \notin Pending \cup zset.dlq \cup Retrying \cup abandoned
  BY <1>1, <1>2 DEF Placed
<1>4. \A u \in Threads \ {t} : run[u].job # k
  BY DEF OneHolder
<1>5. ASSUME NEW a \in Retriers, retry[a] # NoRetry PROVE retry[a].job # k
  <2>1. retry[a].step = "remove" => retry[a].job \in zset.dlq
    BY <1>5 DEF AllReviving, Reviving
  <2>2. retry[a].step \in {"reset", "enqueue"} => retry[a].job \in Retrying
    BY DEF Retrying
  <2>3. retry[a].step \in {"remove", "reset", "enqueue"}
    BY <1>5 DEF TypeOK, RetryCall
  <2> QED BY <1>3, <2>1, <2>2, <2>3
<1> QED BY <1>1, <1>3, <1>4, <1>5

\* Where a retryDLQ call's job is
LEMMA RetryPlace ==
  ASSUME TypeOK, AllReviving, NEW a \in Retriers, retry[a] # NoRetry
  PROVE  retry[a].job \in Jobs /\ retry[a].job \in zset.dlq \cup Retrying
<1>1. retry[a].step = "remove" => retry[a].job \in zset.dlq
  BY DEF AllReviving, Reviving
<1>2. retry[a].step \in {"reset", "enqueue"} => retry[a].job \in Retrying
  BY DEF Retrying
<1>3. retry[a].step \in {"remove", "reset", "enqueue"} /\ retry[a].job \in Jobs
  BY DEF TypeOK, RetryCall
<1> QED BY <1>1, <1>2, <1>3

\* Steps that leave the queue and the hands alone
LEMMA SoloQuiet ==
  ASSUME NEW w \in Workers, SoloInv(w), UNCHANGED <<zset, hash, run, retry, abandoned>>,
         proc'[w].promo \subseteq zset.due, \A v \in Workers \ {w} : proc'[v].promo = {}
  PROVE  SoloInv(w)'
<1>1. Held' = Held /\ Retrying' = Retrying
  BY SameHands, SameRetries
<1>2. OnlyWorks(w)' /\ OneHolder'
  BY DEF SoloInv, OnlyWorks, OneHolder
<1>3. AllPlaced'
  BY <1>1, PlacedSame DEF SoloInv, AllPlaced
<1>4. AllRecorded' /\ AllReviving'
  BY DEF SoloInv, AllRecorded, AllReviving, Recorded, Reviving
<1> QED BY <1>2, <1>3, <1>4 DEF SoloInv

\* A new job was nowhere before.
LEMMA SoloAdd ==
  ASSUME TypeOK, NEW w \in Workers, SoloInv(w), NEW k \in Jobs, NEW delay \in BOOLEAN, Add(k, delay)
  PROVE  SoloInv(w)'
<1> USE DEF SoloInv
<1>1. Held' = Held /\ Retrying' = Retrying
  BY SameHands, SameRetries DEF Add
<1>2. hash[k].attempts = 0 /\ k \notin Pending \cup zset.dlq \cup Held \cup Retrying \cup abandoned
  BY DEF Add, AllPlaced, Placed
<1>3. /\ hash'[k].status = "waiting" /\ hash'[k].attempts = 0
      /\ \A j \in Jobs \ {k} : hash'[j] = hash[j]
  BY DEF Add, Put, TypeOK
<1>4. /\ zset'.dlq = zset.dlq /\ zset'.active = zset.active /\ zset'.due = zset.due
      /\ \/ zset'.waiting = zset.waiting \cup {k} /\ zset'.delayed = zset.delayed
         \/ zset'.waiting = zset.waiting /\ zset'.delayed = zset.delayed \cup {k}
  BY DEF Add, Put, TypeOK, ZSets
<1>5. UNCHANGED <<run, retry, abandoned, proc>>
  BY DEF Add
<1>6. OnlyWorks(w)' /\ OneHolder' /\ proc'[w].promo \subseteq zset'.due
  BY <1>4, <1>5 DEF OnlyWorks, OneHolder
<1>7. ASSUME NEW j \in Jobs PROVE Placed(j)'
  <2>1. CASE j # k
    BY <1>1, <1>3, <1>4, <1>5, <2>1, PlacedSame DEF AllPlaced
  <2>2. CASE j = k
    <3>1. k \notin zset'.active
      BY <1>2, <1>4 DEF AllPlaced, Placed
    <3>2. MaxAttempts \in Nat /\ 0 < MaxAttempts
      BY JobQueueAssumption
    <3>3. k \notin zset.waiting /\ k \notin zset.delayed /\ k \notin zset'.dlq
      BY <1>2, <1>4 DEF Pending
    <3> QED BY <1>1, <1>2, <1>3, <1>4, <1>5, <2>2, <3>1, <3>2, <3>3 DEF Placed
  <2> QED BY <2>1, <2>2
<1>8. AllRecorded'
  <2> SUFFICES ASSUME NEW t \in Threads, run[t] # Free PROVE Recorded(t)'
    BY <1>5 DEF AllRecorded
  <2>1. run[t].job \in Jobs \ {k}
    BY <1>2, ThreadType, HeldIff
  <2> QED BY <1>3, <1>4, <1>5, <2>1, RecordedSame DEF AllRecorded
<1>9. AllReviving'
  <2> SUFFICES ASSUME NEW a \in Retriers, retry[a] # NoRetry PROVE Reviving(a)'
    BY <1>5 DEF AllReviving
  <2>1. retry[a].job \in Jobs \ {k}
    BY <1>2, RetryPlace
  <2> QED BY <1>3, <1>4, <1>5, <2>1, RevivingSame DEF AllReviving
<1> QED BY <1>6, <1>7, <1>8, <1>9 DEF AllPlaced

LEMMA SoloRunAt ==
  ASSUME TypeOK, NEW w \in Workers, SoloInv(w), NEW k \in Jobs, RunAtPasses(k)
  PROVE  SoloInv(w)'
<1> USE DEF SoloInv
<1>1. Held' = Held /\ Retrying' = Retrying
  BY SameHands, SameRetries DEF RunAtPasses
<1>2. /\ zset'.dlq = zset.dlq /\ zset'.active = zset.active /\ zset.due \subseteq zset'.due
      /\ zset'.waiting = zset.waiting /\ zset'.delayed = zset.delayed
  BY DEF RunAtPasses, TypeOK, ZSets
<1>3. UNCHANGED <<run, retry, abandoned, proc, hash>>
  BY DEF RunAtPasses
<1>4. OnlyWorks(w)' /\ OneHolder' /\ proc'[w].promo \subseteq zset'.due
  BY <1>2, <1>3 DEF OnlyWorks, OneHolder
<1>5. AllPlaced'
  BY <1>1, <1>2, <1>3, PlacedSame DEF AllPlaced
<1>6. AllRecorded' /\ AllReviving'
  BY <1>2, <1>3 DEF AllRecorded, AllReviving, Recorded, Reviving
<1> QED BY <1>4, <1>5, <1>6

\* A job in waiting is taken by the one that pops it.
LEMMA SoloPop ==
  ASSUME TypeOK, TypeOK', NEW w \in Workers, SoloInv(w), NEW k \in Jobs, PopMin(k),
         UNCHANGED <<hash, retry>>,
         \A v \in Workers \ {w} : proc'[v] = proc[v] /\ \A s \in Slots : run'[<<v, s>>] = run[<<v, s>>],
         proc'[w].promo \subseteq proc[w].promo, OneHolder',
         \/ Held' = Held \cup {k} /\ abandoned' = abandoned
         \/ Held' = Held /\ abandoned' = abandoned \cup {k},
         \A t \in Threads : run'[t] = run[t] \/ (run'[t].step = "run" /\ run'[t].job = k)
  PROVE  SoloInv(w)'
<1> USE DEF SoloInv
<1>1. Retrying' = Retrying
  BY SameRetries
<1>2. /\ zset'.dlq = zset.dlq /\ zset'.due = zset.due /\ zset'.delayed = zset.delayed
      /\ zset'.waiting = zset.waiting \ {k} /\ zset'.active = zset.active \cup {k} /\ k \in zset.waiting
  BY DEF PopMin, TypeOK, ZSets
<1>3. Placed(k) /\ k \in Pending
  BY <1>2 DEF AllPlaced, Pending
<1>4. OnlyWorks(w)' /\ proc'[w].promo \subseteq zset'.due
  BY <1>2 DEF OnlyWorks
<1>5. ASSUME NEW j \in Jobs PROVE Placed(j)'
  <2>1. CASE j # k
    BY <1>1, <1>2, <2>1, PlacedSame DEF AllPlaced
  <2>2. CASE j = k
    BY <1>1, <1>2, <1>3, <2>2 DEF Placed, Pending
  <2> QED BY <2>1, <2>2
<1>6. ASSUME NEW t \in Threads, run'[t] # Free PROVE Recorded(t)'
  <2>1. CASE run'[t] = run[t]
    <3>1. run[t] # Free /\ run[t].job \in Held
      BY <1>6, <2>1, HeldIff
    <3>2. run[t].job # k /\ Recorded(t)
      BY <1>3, <3>1 DEF Placed, AllRecorded
    <3> QED BY <1>2, <2>1, <3>2, RecordedSame
  <2>2. CASE run'[t].step = "run" /\ run'[t].job = k
    BY <1>3, <2>2 DEF Recorded, Placed
  <2> QED BY <2>1, <2>2
<1>7. AllReviving'
  BY <1>2 DEF AllReviving, Reviving
<1> QED BY <1>4, <1>5, <1>6, <1>7 DEF AllPlaced, AllRecorded

LEMMA SoloPoll ==
  ASSUME TypeOK, TypeOK', NEW w \in Workers, SoloInv(w), Poll(w) \/ PollError(w) \/ PopUnanswered(w) \/ PromoteError(w)
  PROVE  SoloInv(w)'
<1>0. proc[w] \in Proc /\ \A v \in Workers \ {w} : proc[v].promo = {}
  BY DEF TypeOK, SoloInv, OnlyWorks
<1>1. CASE PollStart(w) \/ Scan(w) \/ PopNothing(w) \/ PollEnd(w) \/ PromoteError(w)
           \/ (PollError(w) /\ UNCHANGED <<zset, abandoned>>)
  <2>1. UNCHANGED <<zset, hash, run, retry, abandoned>>
    BY <1>1 DEF PollStart, Scan, PopNothing, PollEnd, PromoteError, PollError
  <2>2. proc'[w].promo \in {zset.due, {}, proc[w].promo} /\ \A v \in Workers \ {w} : proc'[v] = proc[v]
    BY <1>0, <1>1 DEF PollStart, Scan, PopNothing, PollEnd, PromoteError, PollError, TypeOK, Proc
  <2> QED BY <1>0, <2>1, <2>2, SoloQuiet DEF SoloInv
<1>2. CASE Promote(w)
  <2> DEFINE P == proc[w].promo
  <2> USE DEF SoloInv
  <2>1. Held' = Held /\ Retrying' = Retrying /\ UNCHANGED <<hash, run, retry, abandoned>>
    BY <1>2, SameHands, SameRetries DEF Promote
  <2>2. /\ zset'.waiting = zset.waiting \cup P /\ zset'.delayed = zset.delayed \ P
        /\ zset'.dlq = zset.dlq /\ zset'.active = zset.active /\ P \subseteq zset.delayed
    BY <1>2 DEF Promote, Promoted, TypeOK, ZSets
  <2>3. proc'[w].promo = {} /\ \A v \in Workers \ {w} : proc'[v] = proc[v]
    BY <1>0, <1>2 DEF Promote, TypeOK, Proc
  <2>4. OnlyWorks(w)' /\ OneHolder' /\ proc'[w].promo \subseteq zset'.due
    BY <2>1, <2>3 DEF OnlyWorks, OneHolder
  <2>5. ASSUME NEW j \in Jobs PROVE Placed(j)'
    <3>1. CASE j \notin P
      BY <2>1, <2>2, <3>1, PlacedSame DEF AllPlaced
    <3>2. CASE j \in P
      BY <2>1, <2>2, <3>2 DEF AllPlaced, Placed, Pending
    <3> QED BY <3>1, <3>2
  <2>6. AllRecorded' /\ AllReviving'
    BY <2>1, <2>2 DEF AllRecorded, AllReviving, Recorded, Reviving
  <2> QED BY <2>4, <2>5, <2>6 DEF AllPlaced
<1>3. ASSUME NEW k \in Jobs, NEW s \in Slots, Pop(w, k, s) PROVE SoloInv(w)'
  <2>1. <<w, s>> \in Threads /\ \A t \in Threads \ {<<w, s>>} : run'[t] = run[t]
    BY <1>3 DEF Pop, TypeOK, Threads
  <2>2. run[<<w, s>>] = Free /\ run'[<<w, s>>].job = k /\ run'[<<w, s>>].step = "run"
    BY <1>3, <2>1 DEF Pop, TypeOK
  <2>3. run'[<<w, s>>] # Free
    BY <2>2 DEF Free
  <2>4. k \notin Held
    <3>1. k \in Pending /\ Placed(k)
      BY <1>3 DEF Pop, PopMin, Pending, SoloInv, AllPlaced
    <3> QED BY <3>1 DEF Placed
  <2>5. OneHolder' /\ Held' = Held \cup {k}
    BY <2>1, <2>2, <2>3, <2>4, HoldMore DEF SoloInv
  <2>6. \A v \in Workers \ {w} : proc'[v] = proc[v] /\ \A r \in Slots : run'[<<v, r>>] = run[<<v, r>>]
    BY <1>3, <2>1, ZenonT(60) DEF Pop, TypeOK, Threads
  <2>7. proc'[w].promo = proc[w].promo
    BY <1>0, <1>3 DEF Pop, TypeOK, Proc
  <2> QED BY <1>3, <2>1, <2>2, <2>5, <2>6, <2>7, SoloPop DEF Pop
<1>4. ASSUME NEW k \in Jobs, PollError(w) \/ PopUnanswered(w), PopMin(k), abandoned' = abandoned \cup {k}
      PROVE  SoloInv(w)'
  <2>1. UNCHANGED <<hash, retry, run>> /\ Held' = Held
    BY <1>4, SameHands DEF PollError, PopUnanswered
  <2>2. proc'[w].promo = proc[w].promo /\ \A v \in Workers \ {w} : proc'[v] = proc[v]
    BY <1>0, <1>4 DEF PollError, PopUnanswered, TypeOK, Proc
  <2>3. OneHolder'
    BY <2>1 DEF SoloInv, OneHolder
  <2> QED BY <1>4, <2>1, <2>2, <2>3, SoloPop
<1> QED BY <1>1, <1>2, <1>3, <1>4 DEF Poll, PollError, PopUnanswered

\* What a _process call may change of its job k: its slot, its hash and its
\* places. Every other job and call is as before.
LEMMA SoloElsewhere ==
  ASSUME TypeOK, TypeOK', NEW w \in Workers, SoloInv(w), NEW s \in Slots, run[<<w, s>>] # Free,
         NEW k, k = run[<<w, s>>].job,
         UNCHANGED retry, OneHolder',
         \A t \in Threads \ {<<w, s>>} : run'[t] = run[t],
         \A v \in Workers \ {w} : proc'[v] = proc[v], proc'[w].promo = proc[w].promo,
         Held' \cup {k} = Held,
         \A j \in Jobs \ {k} :
           /\ hash'[j] = hash[j] /\ (j \in abandoned' <=> j \in abandoned)
           /\ (j \in zset'.waiting <=> j \in zset.waiting) /\ (j \in zset'.delayed <=> j \in zset.delayed)
           /\ (j \in zset'.dlq <=> j \in zset.dlq) /\ (j \in zset'.active <=> j \in zset.active),
         zset.due \ {k} \subseteq zset'.due,
         Placed(k)', run'[<<w, s>>] # Free => Recorded(<<w, s>>)'
  PROVE  SoloInv(w)'
<1> USE DEF SoloInv
<1>0. <<w, s>> \in Threads
  BY DEF Threads
<1>1. /\ k \in Jobs /\ k \in Held /\ k \notin Pending \cup zset.dlq \cup Retrying \cup abandoned
      /\ \A u \in Threads \ {<<w, s>>} : run[u].job # k
      /\ \A a \in Retriers : retry[a] # NoRetry => retry[a].job # k
  BY <1>0, Exclusive
<1>2. Retrying' = Retrying
  BY SameRetries
<1>3. OnlyWorks(w)'
  BY DEF OnlyWorks, Threads
<1>4. proc'[w].promo \subseteq zset'.due
  <2>1. k \notin zset.due
    BY <1>1 DEF TypeOK, Pending
  <2> QED BY <2>1
<1>5. ASSUME NEW j \in Jobs PROVE Placed(j)'
  <2>1. CASE j # k
    <3>1. j \in Held' <=> j \in Held
      BY <2>1
    <3> QED BY <1>2, <2>1, <3>1, PlacedSame DEF AllPlaced
  <2>2. CASE j = k
    BY <2>2
  <2> QED BY <2>1, <2>2
<1>6. ASSUME NEW t \in Threads, run'[t] # Free PROVE Recorded(t)'
  <2>1. CASE t = <<w, s>>
    BY <1>6, <2>1
  <2>2. CASE t # <<w, s>>
    <3>1. run'[t] = run[t] /\ run[t].job \in Jobs \ {k} /\ Recorded(t)
      BY <1>1, <1>6, <2>2, ThreadType DEF AllRecorded
    <3> QED BY <3>1, RecordedSame
  <2> QED BY <2>1, <2>2
<1>7. ASSUME NEW a \in Retriers, retry'[a] # NoRetry PROVE Reviving(a)'
  <2>1. retry[a].job \in Jobs \ {k} /\ Reviving(a)
    BY <1>1, <1>7, RetryPlace DEF AllReviving
  <2> QED BY <2>1, RevivingSame
<1> QED BY <1>3, <1>4, <1>5, <1>6, <1>7 DEF AllPlaced, AllRecorded, AllReviving

LEMMA SoloProcess ==
  ASSUME TypeOK, TypeOK', NEW w \in Workers, SoloInv(w), NEW s \in Slots,
         Process(w, s) \/ ProcessError(w, s)
  PROVE  SoloInv(w)'
<1> DEFINE t == <<w, s>>
<1>0. t \in Threads /\ run[t] # Free /\ run[t] \in Running /\ proc[w] \in Proc
      /\ MaxAttempts \in Nat /\ MaxAttempts >= 1
  <2>1. run[<<w, s>>] # Free
    BY DEF Process, ProcessorEnds, ProcessError, Complete,
           FailRead, FailUnlist, FailRecord, FailStatus, FailMove, At
  <2> QED BY <2>1, SlotType, JobQueueAssumption DEF TypeOK, Threads
<1>1. PICK k \in Jobs : k = run[t].job
  BY <1>0, ThreadType
<1>2. /\ k \in Held /\ k \notin Pending \cup zset.dlq \cup Retrying \cup abandoned
      /\ Placed(k) /\ Recorded(t)
  <2>1. AllReviving /\ AllPlaced /\ AllRecorded /\ OneHolder
    BY DEF SoloInv
  <2> QED BY <1>0, <1>1, <2>1, Exclusive DEF AllPlaced, AllRecorded
<1>3. /\ k \notin zset.waiting /\ k \notin zset.delayed /\ k \notin zset.dlq
      /\ hash[k] \in Hash /\ run[t].tries \in Nat /\ hash[k].attempts \in Nat
  BY <1>0, <1>2, HashType DEF Pending, Running
<1>4. /\ \A u \in Threads \ {t} : run'[u] = run[u]
      /\ \A v \in Workers \ {w} : proc'[v] = proc[v]
      /\ proc'[w].promo = proc[w].promo
      /\ retry' = retry /\ Retrying' = Retrying
  <2>1. \A u \in Threads \ {t} : run'[u] = run[u]
    BY DEF Process, ProcessorEnds, ProcessError, Complete,
           FailRead, FailUnlist, FailRecord, FailStatus, FailMove, Goto, Release, TypeOK
  <2>2. proc' = proc \/ Release(w, s)
    BY DEF Process, ProcessorEnds, ProcessError, Complete,
           FailRead, FailUnlist, FailRecord, FailStatus, FailMove
  <2>3. (\A v \in Workers \ {w} : proc'[v] = proc[v]) /\ proc'[w].promo = proc[w].promo
    BY <1>0, <2>2 DEF Release, TypeOK, Proc
  <2>4. retry' = retry
    BY DEF Process, ProcessorEnds, ProcessError, Complete,
           FailRead, FailUnlist, FailRecord, FailStatus, FailMove
  <2> QED BY <2>1, <2>3, <2>4, SameRetries
\* The call goes on with its job.
<1>5. ASSUME run'[t].job = k,
             \A j \in Jobs \ {k} : hash'[j] = hash[j] /\ (j \in zset'.active <=> j \in zset.active),
             zset'.waiting = zset.waiting, zset'.delayed = zset.delayed,
             zset'.dlq = zset.dlq, zset'.due = zset.due, abandoned' = abandoned,
             hash'[k].attempts <= MaxAttempts, hash'[k].status \notin {"none", "completed"},
             Recorded(t)'
      PROVE  SoloInv(w)'
  <2>1. run'[t] # Free
    BY <1>5, JobQueueAssumption DEF Free
  <2>2. OneHolder' /\ Held' = Held
    BY <1>0, <1>1, <1>4, <1>5, <2>1, HoldSame DEF SoloInv
  <2>3. Placed(k)'
    BY <1>2, <1>4, <1>5, <2>2 DEF Placed, Pending
  <2>4. Held' \cup {k} = Held
    BY <1>2, <2>2
  <2> QED BY <1>0, <1>1, <1>4, <1>5, <2>1, <2>2, <2>3, <2>4, SoloElsewhere
<1>6. ASSUME Release(w, s),
             \A j \in Jobs \ {k} :
               /\ hash'[j] = hash[j] /\ (j \in abandoned' <=> j \in abandoned)
               /\ (j \in zset'.waiting <=> j \in zset.waiting) /\ (j \in zset'.delayed <=> j \in zset.delayed)
               /\ (j \in zset'.dlq <=> j \in zset.dlq) /\ (j \in zset'.active <=> j \in zset.active),
             zset.due \ {k} \subseteq zset'.due,
             OneHolder' /\ Held' = Held \ {k} => Placed(k)'
      PROVE  SoloInv(w)'
  <2>1. run'[t] = Free
    BY <1>0, <1>6 DEF Release, TypeOK
  <2>2. OneHolder' /\ Held' = Held \ {k}
    BY <1>0, <1>1, <1>4, <2>1, HoldLess DEF SoloInv
  <2>3. Held' \cup {k} = Held
    BY <1>2, <2>2
  <2> QED BY <1>0, <1>1, <1>4, <1>6, <2>1, <2>2, <2>3, SoloElsewhere
<1>7. CASE ProcessorEnds(w, s)
  <2>1. run'[t].job = k /\ run'[t].step \in {"complete", "read"} /\ run[t].step = "run"
    BY <1>0, <1>1, <1>7 DEF ProcessorEnds, Goto, TypeOK, Running, At
  <2>2. UNCHANGED <<zset, hash, abandoned>>
    BY <1>7 DEF ProcessorEnds
  <2>3. Recorded(t)' /\ hash[k].status = "waiting" /\ hash[k].attempts < MaxAttempts
    BY <1>1, <1>2, <2>1, <2>2 DEF Recorded
  <2> QED BY <1>0, <1>3, <1>5, <2>1, <2>2, <2>3
<1>8. CASE FailRead(w, s)
  <2>1. /\ run'[t].job = k /\ run'[t].step = "unlist" /\ run[t].step = "read"
        /\ run'[t].tries = hash[k].attempts + 1
    BY <1>0, <1>1, <1>8 DEF FailRead, NextTries, TypeOK, Running, At
  <2>2. UNCHANGED <<zset, hash, abandoned>>
    BY <1>8 DEF FailRead
  <2>3. Recorded(t)' /\ hash[k].status = "waiting" /\ hash[k].attempts < MaxAttempts
    BY <1>1, <1>2, <2>1, <2>2 DEF Recorded
  <2> QED BY <1>0, <1>3, <1>5, <2>1, <2>2, <2>3
<1>9. CASE FailUnlist(w, s)
  <2>1. /\ run'[t].job = k /\ run'[t].step = "record" /\ run[t].step = "unlist"
        /\ run'[t].tries = run[t].tries
    BY <1>0, <1>1, <1>9 DEF FailUnlist, Goto, TypeOK, Running, At
  <2>2. /\ UNCHANGED <<hash, abandoned>> /\ zset'.active = zset.active \ {k}
        /\ zset'.waiting = zset.waiting /\ zset'.delayed = zset.delayed
        /\ zset'.dlq = zset.dlq /\ zset'.due = zset.due
    BY <1>1, <1>9 DEF FailUnlist, TypeOK, ZSets
  <2>3. Recorded(t)' /\ hash[k].status = "waiting" /\ hash[k].attempts < MaxAttempts
    BY <1>1, <1>2, <2>1, <2>2 DEF Recorded
  <2> QED BY <1>0, <1>3, <1>5, <2>1, <2>2, <2>3
<1>10. CASE FailRecord(w, s)
  <2>1. /\ run'[t].job = k /\ run'[t].step = "status" /\ run[t].step = "record"
        /\ run'[t].tries = run[t].tries
    BY <1>0, <1>1, <1>10 DEF FailRecord, Goto, TypeOK, Running, At
  <2>2. /\ UNCHANGED <<zset, abandoned>> /\ \A j \in Jobs \ {k} : hash'[j] = hash[j]
        /\ hash'[k].attempts = run[t].tries /\ hash'[k].status = hash[k].status
    BY <1>1, <1>3, <1>10 DEF FailRecord, TypeOK, Hash
  <2>3. /\ hash[k].status = "waiting" /\ hash[k].attempts < MaxAttempts
        /\ run[t].tries = hash[k].attempts + 1 /\ k \notin zset.active
    BY <1>1, <1>2, <2>1 DEF Recorded
  <2>4. Recorded(t)' /\ hash'[k].attempts <= MaxAttempts
    BY <1>0, <1>3, <2>1, <2>2, <2>3 DEF Recorded
  <2> QED BY <1>5, <2>1, <2>2, <2>3, <2>4
<1>11. CASE FailStatus(w, s)
  <2>1. /\ run'[t].job = k /\ run'[t].step = "move" /\ run[t].step = "status"
        /\ run'[t].tries = run[t].tries
    BY <1>0, <1>1, <1>11 DEF FailStatus, Goto, TypeOK, Running, At
  <2>2. /\ UNCHANGED <<zset, abandoned>> /\ \A j \in Jobs \ {k} : hash'[j] = hash[j]
        /\ hash'[k].attempts = hash[k].attempts
        /\ hash'[k].status = IF run[t].tries >= MaxAttempts THEN "failed" ELSE "waiting"
    BY <1>1, <1>3, <1>11 DEF FailStatus, OutOfTries, TypeOK, Hash
  <2>3. hash[k].attempts <= MaxAttempts /\ run[t].tries = hash[k].attempts /\ run[t].tries >= 1
        /\ k \notin zset.active
    BY <1>1, <1>2, <2>1 DEF Recorded, Placed
  <2>4. Recorded(t)'
    BY <2>1, <2>2, <2>3 DEF Recorded
  <2> QED BY <1>5, <2>1, <2>2, <2>3, <2>4
<1>12. CASE Complete(w, s)
  <2>1. /\ zset'.active = zset.active \ {k} /\ zset'.waiting = zset.waiting /\ zset'.delayed = zset.delayed
        /\ zset'.dlq = zset.dlq /\ zset'.due = zset.due /\ abandoned' = abandoned
    BY <1>1, <1>12 DEF Complete, TypeOK, ZSets
  <2>2. /\ \A j \in Jobs \ {k} : hash'[j] = hash[j]
        /\ hash'[k].attempts = hash[k].attempts /\ hash'[k].status = "completed"
    BY <1>1, <1>3, <1>12 DEF Complete, TypeOK, Hash
  <2>3. Held' = Held \ {k} => Placed(k)'
    BY <1>2, <1>4, <2>1, <2>2 DEF Placed, Pending
  <2> QED BY <1>6, <1>12, <2>1, <2>2, <2>3 DEF Complete
<1>13. CASE FailMove(w, s)
  <2>1. /\ run[t].step = "move" /\ UNCHANGED <<hash, abandoned>>
        /\ zset'.active = zset.active /\ zset'.waiting = zset.waiting
    BY <1>13 DEF FailMove, At, TypeOK, ZSets
  <2>2. IF run[t].tries >= MaxAttempts
        THEN zset'.dlq = zset.dlq \cup {k} /\ zset'.delayed = zset.delayed /\ zset'.due = zset.due
        ELSE zset'.dlq = zset.dlq /\ zset'.delayed = zset.delayed \cup {k} /\ zset'.due = zset.due \ {k}
    BY <1>1, <1>13 DEF FailMove, OutOfTries, TypeOK, ZSets
  <2>3. /\ run[t].tries = hash[k].attempts /\ hash[k].attempts <= MaxAttempts
        /\ hash[k].status = IF run[t].tries >= MaxAttempts THEN "failed" ELSE "waiting"
        /\ k \notin zset.active
    BY <1>1, <1>2, <2>1 DEF Recorded, Placed
  <2>4. Held' = Held \ {k} => Placed(k)'
    <3>1. CASE run[t].tries >= MaxAttempts
      BY <1>0, <1>2, <1>3, <1>4, <2>1, <2>2, <2>3, <3>1 DEF Placed, Pending
    <3>2. CASE ~ (run[t].tries >= MaxAttempts)
      BY <1>0, <1>2, <1>3, <1>4, <2>1, <2>2, <2>3, <3>2 DEF Placed, Pending
    <3> QED BY <3>1, <3>2
  <2>5. \A j \in Jobs \ {k} : (j \in zset'.delayed <=> j \in zset.delayed) /\ (j \in zset'.dlq <=> j \in zset.dlq)
    BY <2>2
  <2>6. zset.due \ {k} \subseteq zset'.due
    BY <2>2
  <2> QED BY <1>6, <1>13, <2>1, <2>4, <2>5, <2>6 DEF FailMove
<1>14. CASE ProcessError(w, s)
  <2>1. Release(w, s) /\ UNCHANGED <<zset, hash>> /\ abandoned' = abandoned \cup {k}
    BY <1>1, <1>14 DEF ProcessError
  <2>2. run[t].step \in {"complete"} \cup FailSteps
    BY <1>14 DEF ProcessError, At
  <2>3. hash[k].status \in {"waiting", "failed"}
    BY <1>1, <1>2, <2>2 DEF Recorded, FailSteps
  <2>4. Held' = Held \ {k} => Placed(k)'
    BY <1>2, <1>4, <2>1, <2>3 DEF Placed, Pending
  <2> QED BY <1>6, <2>1, <2>4
<1> QED BY <1>7, <1>8, <1>9, <1>10, <1>11, <1>12, <1>13, <1>14 DEF Process

\* The only retrier moves its job from the dlq through its hands to waiting.
LEMMA SoloRetry ==
  ASSUME TypeOK, TypeOK', OneRetrier, NEW w \in Workers, SoloInv(w), NEW a \in Retriers,
         RetryStep(a) \/ RetryError(a) \/ \E j \in Jobs : RetryCheck(a, j)
  PROVE  SoloInv(w)'
<1> USE DEF SoloInv
<1>0. \A b \in Retriers : b = a
  BY DEF OneRetrier
<1>1. UNCHANGED <<run, proc>> /\ Held' = Held /\ OnlyWorks(w)' /\ OneHolder'
  <2>1. UNCHANGED <<run, proc>>
    BY DEF RetryStep, RetryRemove, RetryReset, RetryEnqueue, RetryError, RetryCheck
  <2> QED BY <2>1, SameHands DEF OnlyWorks, OneHolder
<1>2. /\ \A j : j \in Retrying <=> retry[a].step \in {"reset", "enqueue"} /\ j = retry[a].job
      /\ \A j : j \in Retrying' <=> retry'[a].step \in {"reset", "enqueue"} /\ j = retry'[a].job
  BY <1>0 DEF Retrying
<1>3. \A t \in Threads : run[t] # Free => run[t].job \in Jobs /\ run[t].job \in Held /\ Recorded(t)
  BY ThreadType, HeldIff DEF AllRecorded
<1>4. /\ AllReviving' <=> (retry'[a] # NoRetry => Reviving(a)')
      /\ retry[a] # NoRetry => Reviving(a)
  BY <1>0 DEF AllReviving
<1>5. CASE \E j \in Jobs : RetryCheck(a, j)
  <2>1. PICK k \in Jobs : RetryCheck(a, k)
    BY <1>5
  <2>2. /\ retry[a] = NoRetry /\ retry'[a] = [step |-> "remove", job |-> k] /\ k \in zset.dlq
        /\ UNCHANGED <<zset, hash, abandoned>>
    BY <2>1 DEF RetryCheck, TypeOK
  <2>3. \A j : j \in Retrying' <=> j \in Retrying
    BY <1>2, <2>2 DEF NoRetry
  <2>4. AllPlaced' /\ AllRecorded'
    BY <1>1, <2>2, <2>3, PlacedSame DEF AllPlaced, AllRecorded, Recorded
  <2>5. AllReviving'
    BY <1>4, <2>2 DEF Reviving
  <2> QED BY <1>1, <2>2, <2>4, <2>5
<1> SUFFICES ASSUME RetryStep(a) \/ RetryError(a) PROVE SoloInv(w)'
  BY <1>5
<1>6. retry[a] # NoRetry /\ Reviving(a)
  BY <1>4 DEF RetryStep, RetryRemove, RetryReset, RetryEnqueue, RetryError, NoRetry
<1>7. PICK k \in Jobs : k = retry[a].job
  BY <1>6, RetryPlace
<1>8. k \in zset.dlq \cup Retrying /\ Placed(k) /\ hash[k] \in Hash
  BY <1>6, <1>7, RetryPlace, HashType DEF AllPlaced
<1>9. k \notin Held /\ k \notin zset.active \ abandoned /\ k \notin Pending
  BY <1>8 DEF Placed
\* Whatever is not the retrier's job stays as it was.
<1>10. ASSUME \A j \in Jobs \ {k} :
                /\ hash'[j] = hash[j] /\ (j \in abandoned' <=> j \in abandoned)
                /\ (j \in zset'.waiting <=> j \in zset.waiting) /\ (j \in zset'.dlq <=> j \in zset.dlq),
              zset'.delayed = zset.delayed, zset'.active = zset.active, zset'.due = zset.due,
              retry'[a] # NoRetry => retry'[a].job = k,
              Placed(k)', retry'[a] # NoRetry => Reviving(a)'
       PROVE  SoloInv(w)'
  <2>1. ASSUME NEW j \in Jobs PROVE Placed(j)'
    <3>1. CASE j # k
      <4>1. j \notin Retrying /\ j \notin Retrying'
        BY <1>2, <1>7, <1>10, <3>1 DEF NoRetry
      <4> QED BY <1>1, <1>10, <3>1, <4>1, PlacedSame DEF AllPlaced
    <3>2. CASE j = k
      BY <1>10, <3>2
    <3> QED BY <3>1, <3>2
  <2>2. AllRecorded'
    <3> SUFFICES ASSUME NEW t \in Threads, run[t] # Free PROVE Recorded(t)'
      BY <1>1 DEF AllRecorded
    <3>1. run[t].job \in Jobs \ {k} /\ Recorded(t)
      BY <1>3, <1>9
    <3> QED BY <1>1, <1>10, <3>1, RecordedSame
  <2>3. proc'[w].promo \subseteq zset'.due
    BY <1>1, <1>10
  <2> QED BY <1>1, <1>4, <1>10, <2>1, <2>2, <2>3 DEF AllPlaced
<1>11. CASE RetryRemove(a)
  <2>1. /\ retry[a].step = "remove" /\ retry'[a].step = "reset" /\ retry'[a].job = k
    BY <1>6, <1>7, <1>11, RetryType DEF RetryRemove, TypeOK, RetryCall
  <2>2. /\ UNCHANGED <<hash, abandoned>> /\ zset'.dlq = zset.dlq \ {k} /\ zset'.waiting = zset.waiting
        /\ zset'.delayed = zset.delayed /\ zset'.active = zset.active /\ zset'.due = zset.due
    BY <1>7, <1>11 DEF RetryRemove, TypeOK, ZSets
  <2>3. k \in zset.dlq
    BY <1>6, <1>7, <2>1 DEF Reviving
  <2>4. hash[k].status = "failed" /\ hash[k].attempts = MaxAttempts
    BY <1>8, <2>3 DEF Placed
  <2>5. Reviving(a)'
    BY <2>1, <2>2, <2>4 DEF Reviving
  <2>6. Placed(k)'
    BY <1>1, <1>2, <1>8, <2>1, <2>2, <2>3, <2>4 DEF Placed, Pending
  <2> QED BY <1>10, <2>1, <2>2, <2>5, <2>6
<1>12. CASE RetryReset(a)
  <2>1. /\ retry[a].step = "reset" /\ retry'[a].step = "enqueue" /\ retry'[a].job = k
    BY <1>6, <1>7, <1>12, RetryType DEF RetryReset, TypeOK, RetryCall
  <2>2. /\ UNCHANGED <<zset, abandoned>> /\ \A j \in Jobs \ {k} : hash'[j] = hash[j]
        /\ hash'[k].status = "waiting" /\ hash'[k].attempts = 0
    BY <1>7, <1>8, <1>12 DEF RetryReset, Revived, TypeOK, Hash
  <2>3. k \in Retrying /\ k \in Retrying'
    BY <1>2, <1>7, <2>1
  <2>4. MaxAttempts \in Nat /\ 0 <= MaxAttempts
    BY JobQueueAssumption
  <2>5. Reviving(a)'
    BY <2>1, <2>2 DEF Reviving
  <2>6. Placed(k)'
    BY <1>1, <1>8, <2>2, <2>3, <2>4 DEF Placed, Pending
  <2> QED BY <1>10, <2>1, <2>2, <2>5, <2>6
<1>13. CASE RetryEnqueue(a)
  <2>1. retry[a].step = "enqueue" /\ retry'[a] = NoRetry
    BY <1>13 DEF RetryEnqueue, TypeOK
  <2>2. /\ UNCHANGED <<hash, abandoned>> /\ zset'.waiting = zset.waiting \cup {k} /\ zset'.dlq = zset.dlq
        /\ zset'.delayed = zset.delayed /\ zset'.active = zset.active /\ zset'.due = zset.due
    BY <1>7, <1>13 DEF RetryEnqueue, TypeOK, ZSets
  <2>3. k \in Retrying /\ k \notin Retrying'
    BY <1>2, <1>7, <2>1 DEF NoRetry
  <2>4. hash[k].status = "waiting" /\ hash[k].attempts = 0 /\ MaxAttempts \in Nat /\ 0 < MaxAttempts
    BY <1>6, <1>7, <2>1, JobQueueAssumption DEF Reviving
  <2>5. k \notin zset.delayed /\ k \notin zset.dlq
    BY <1>8, <2>3 DEF Placed, Pending
  <2>6. Placed(k)'
    BY <1>1, <1>8, <2>2, <2>3, <2>4, <2>5 DEF Placed, Pending
  <2> QED BY <1>10, <2>1, <2>2, <2>6
<1>14. CASE RetryError(a)
  <2>1. retry'[a] = NoRetry /\ UNCHANGED <<zset, hash>>
        /\ abandoned' = abandoned \cup (IF retry[a].step = "remove" THEN {} ELSE {k})
    BY <1>7, <1>14 DEF RetryError, TypeOK
  <2>2. k \notin Retrying'
    BY <1>2, <2>1 DEF NoRetry
  <2>3. Placed(k)'
    <3>1. CASE retry[a].step = "remove"
      <4>1. k \notin Retrying
        BY <1>2, <3>1
      <4> QED BY <1>1, <1>8, <2>1, <2>2, <3>1, <4>1, PlacedSame
    <3>2. CASE retry[a].step # "remove"
      <4>1. k \in Retrying
        BY <1>2, <1>6, <1>7, <3>2, RetryType DEF RetryCall
      <4>2. hash[k].status \in {"waiting", "failed"}
        BY <1>6, <1>7, <3>2, RetryType DEF Reviving, RetryCall
      <4> QED BY <1>1, <1>8, <2>1, <2>2, <3>2, <4>1, <4>2 DEF Placed, Pending
    <3> QED BY <3>1, <3>2
  <2> QED BY <1>10, <2>1, <2>3
<1> QED BY <1>11, <1>12, <1>13, <1>14 DEF RetryStep

\* A process that ends drops what it has in hand, and nothing else.
LEMMA SoloLifecycle ==
  ASSUME TypeOK, TypeOK', NEW w \in Workers, SoloInv(w), NEW v \in Workers,
         Stop(v) \/ Exit(v) \/ Crash(v) \/ Start(v)
  PROVE  SoloInv(w)'
<1>1. CASE Stop(v) \/ Start(v)
  <2>1. UNCHANGED <<zset, hash, run, retry, abandoned>>
    BY <1>1 DEF Stop, Start
  <2>2. \A u \in Workers : proc'[u].promo = proc[u].promo
    BY <1>1 DEF Stop, Start, TypeOK, Proc
  <2> QED BY <2>1, <2>2, SoloQuiet DEF SoloInv, OnlyWorks
<1>2. CASE ProcessEnds(v)
  <2> USE DEF SoloInv
  <2>1. /\ UNCHANGED <<zset, hash, retry>> /\ abandoned' = abandoned \cup HeldBy(v)
        /\ \A u \in Workers : proc'[u] = proc[u] \/ proc'[u].promo = {}
        /\ \A t \in Threads : run'[t] = run[t] \/ run'[t] = Free
    BY <1>2 DEF ProcessEnds, Fresh, TypeOK
  <2>2. OneHolder' /\ Held' = Held \ HeldBy(v) /\ HeldBy(v) \subseteq Held
    BY <1>2, HoldNone DEF Held
  <2>3. Retrying' = Retrying
    BY <2>1, SameRetries
  <2>4. OnlyWorks(w)' /\ proc'[w].promo \subseteq zset'.due
    <3>1. \A u \in Workers, s \in Slots : <<u, s>> \in Threads
      BY DEF Threads
    <3> QED BY <2>1, <3>1 DEF OnlyWorks
  <2>5. ASSUME NEW j \in Jobs PROVE Placed(j)'
    <3>1. CASE j \in HeldBy(v)
      BY <2>1, <2>2, <2>3, <3>1 DEF AllPlaced, Placed, Pending
    <3>2. CASE j \notin HeldBy(v)
      BY <2>1, <2>2, <2>3, <3>2, PlacedSame DEF AllPlaced
    <3> QED BY <3>1, <3>2
  <2>6. AllRecorded'
    BY <2>1 DEF AllRecorded, Recorded
  <2>7. AllReviving'
    BY <2>1 DEF AllReviving, Reviving
  <2> QED BY <2>2, <2>4, <2>5, <2>6, <2>7 DEF AllPlaced
<1> QED BY <1>1, <1>2 DEF Exit, Crash

LEMMA SoloInit == ASSUME Init, NEW w \in Workers PROVE SoloInv(w)
<1>1. \A t \in Threads : run[t] = Free
  BY DEF Init
<1>2. Held = {} /\ Retrying = {}
  BY <1>1, HeldIff DEF Init, Retrying, NoRetry
<1>3. OneHolder /\ AllRecorded /\ AllReviving
  BY <1>1 DEF Init, OneHolder, AllRecorded, AllReviving
<1>4. AllPlaced
  <2>1. 0 <= MaxAttempts
    BY JobQueueAssumption
  <2> QED BY <1>2, <2>1 DEF Init, AllPlaced, Placed, Pending
<1>5. OnlyWorks(w) /\ proc[w].promo \subseteq zset.due
  BY <1>1 DEF Init, Fresh, OnlyWorks, Threads
<1> QED BY <1>3, <1>4, <1>5 DEF SoloInv

LEMMA SoloOwner ==
  ASSUME TypeOK, NEW w \in Workers, SoloInv(w)
  PROVE  OneOwner /\ HashAgrees
<1>1. Pending \subseteq Jobs /\ zset.dlq \subseteq Jobs /\ Held \subseteq Jobs /\ zset.active \subseteq Jobs
  BY ThreadType, HeldIff DEF TypeOK, ZSets, Pending
<1>2. Retrying \subseteq Jobs
  BY RetryType DEF Retrying, NoRetry, RetryCall
<1>3. \A j \in Jobs : Placed(j)
  BY DEF SoloInv, AllPlaced
<1>4. OneOwner
  <2>1. Held \cap (Pending \cup zset.dlq \cup Retrying \cup Done \cup abandoned) = {}
    BY <1>1, <1>3 DEF Placed, Done
  <2>2. zset.waiting \cap zset.delayed = {}
    BY <1>1, <1>3 DEF Placed, Pending
  <2>3. Pending \cap (zset.dlq \cup Retrying \cup Done \cup abandoned) = {}
    BY <1>1, <1>3 DEF Placed, Done
  <2>4. zset.dlq \cap (Retrying \cup Done \cup abandoned) = {}
    BY <1>1, <1>3 DEF Placed, Done
  <2>5. Retrying \cap (Done \cup abandoned) = {} /\ Done \cap abandoned = {}
    BY <1>2, <1>3 DEF Placed, Done
  <2> QED BY <2>1, <2>2, <2>3, <2>4, <2>5 DEF OneOwner, SoloInv
<1>5. HashAgrees
  BY <1>3 DEF HashAgrees, Placed
<1> QED BY <1>4, <1>5

\* What may happen around the only worker that polls
WorkNext(w) ==
  \/ \E j \in Jobs : RunAtPasses(j) \/ \E delay \in BOOLEAN : Add(j, delay)
  \/ Poll(w) \/ PollError(w) \/ PopUnanswered(w) \/ PromoteError(w)
  \/ \E s \in Slots : Process(w, s) \/ ProcessError(w, s)
  \/ \E v \in Workers : Stop(v) \/ Exit(v) \/ Crash(v) \/ Start(v)
  \/ UNCHANGED <<zset, score, hash, proc, run, retry, abandoned>>

SoloNext(w) ==
  \/ WorkNext(w)
  \/ \E a \in Retriers : RetryStep(a) \/ RetryError(a) \/ \E j \in Jobs : RetryCheck(a, j)

LEMMA WorkStep ==
  ASSUME TypeOK, TypeOK', NEW w \in Workers, SoloInv(w), WorkNext(w)
  PROVE  SoloInv(w)'
<1>1. CASE UNCHANGED <<zset, score, hash, proc, run, retry, abandoned>>
  BY <1>1, SoloQuiet DEF SoloInv, OnlyWorks
<1> QED
  BY <1>1, SoloAdd, SoloRunAt, SoloPoll, SoloProcess, SoloLifecycle DEF WorkNext

LEMMA SoloStep ==
  ASSUME OneRetrier, TypeOK, TypeOK', NEW w \in Workers, SoloInv(w), SoloNext(w)
  PROVE  SoloInv(w)'
BY WorkStep, SoloRetry DEF SoloNext

\* A single worker process, and at most one retryDLQ call at a time
OneWorker == \E w \in Workers : Workers = {w}

LEMMA SoloAlways ==
  ASSUME OneRetrier, NEW w \in Workers, Workers = {w}
  PROVE  Spec => [](TypeOK /\ SoloInv(w))
<1>1. Init => TypeOK /\ SoloInv(w)
  BY TypeInit, SoloInit
<1>2. ASSUME TypeOK /\ SoloInv(w), [Next]_vars PROVE (TypeOK /\ SoloInv(w))'
  <2>1. TypeOK'
    BY <1>2, TypeStep
  <2>2. SoloNext(w)
    BY <1>2 DEF Next, SoloNext, WorkNext, vars
  <2> QED BY <1>2, <2>1, <2>2, SoloStep
<1> QED BY <1>1, <1>2, PTL DEF Spec

\* With one worker process every job has one owner: the interleavings of its
\* slots, of a poll that fails half-way, of stops, crashes and restarts and of a
\* retryDLQ call put no job in two places (Queue.js, Worker.js).
THEOREM OwnersAreSingle == ASSUME OneWorker, OneRetrier PROVE Spec => []OneOwner
<1>1. PICK w \in Workers : Workers = {w}
  BY DEF OneWorker
<1>2. TypeOK /\ SoloInv(w) => OneOwner
  BY SoloOwner
<1>3. Spec => [](TypeOK /\ SoloInv(w))
  BY <1>1, SoloAlways
<1> QED BY <1>2, <1>3, PTL

\* With one worker process the hash of a job tells the truth about its queue,
\* and a job is buried after exactly maxAttempts failures (fail, retryDLQ).
THEOREM HashesAgree == ASSUME OneWorker, OneRetrier PROVE Spec => []HashAgrees
<1>1. PICK w \in Workers : Workers = {w}
  BY DEF OneWorker
<1>2. TypeOK /\ SoloInv(w) => HashAgrees
  BY SoloOwner
<1>3. Spec => [](TypeOK /\ SoloInv(w))
  BY <1>1, SoloAlways
<1> QED BY <1>2, <1>3, PTL

-----------------------------------------------------------------------------
(* Worker.concurrency: _activeJobs has exactly the busy slots, and the     *)
(* iterations left of _poll's loop fit beside them.                        *)

InLoop(w) == proc[w].step \in {"scan", "promote", "pop"}

RoomInv(w) ==
  /\ proc[w].tracked = Busy(w)
  /\ Cardinality(Busy(w)) <= Concurrency
  /\ InLoop(w) => proc[w].left >= 1 /\ Cardinality(Busy(w)) + proc[w].left <= Concurrency

LEMMA BusyFinite == ASSUME NEW w PROVE IsFiniteSet(Busy(w)) /\ Cardinality(Busy(w)) \in Nat
BY FS_Subset, FS_CardinalityType DEF Busy

LEMMA SameBusy ==
  ASSUME NEW w, \A s \in Slots : run'[<<w, s>>] = Free <=> run[<<w, s>>] = Free
  PROVE  Busy(w)' = Busy(w)
BY DEF Busy

\* Steps that leave the slots of w alone, and end its loop or leave it as it is
LEMMA RoomQuiet ==
  ASSUME NEW w, RoomInv(w), \A s \in Slots : run'[<<w, s>>] = Free <=> run[<<w, s>>] = Free,
         proc'[w].tracked = proc[w].tracked,
         \/ ~ InLoop(w)'
         \/ proc'[w].left = proc[w].left /\ InLoop(w)
  PROVE  RoomInv(w)'
<1>1. Busy(w)' = Busy(w)
  BY SameBusy
<1> QED BY <1>1 DEF RoomInv

\* A slot is given back together with its entry in _activeJobs.
LEMMA RoomRelease ==
  ASSUME TypeOK, OneHolder, NEW w \in Workers, RoomInv(w), NEW s \in Slots, run[<<w, s>>] # Free,
         Release(w, s)
  PROVE  RoomInv(w)'
<1>1. <<w, s>> \in Threads /\ proc[w] \in Proc
  BY DEF TypeOK, Threads
<1>2. Busy(w)' = Busy(w) \ {s}
  BY <1>1 DEF Busy, Release, TypeOK, Threads
<1>3. proc'[w].tracked = {r \in proc[w].tracked : run[<<w, r>>].job # run[<<w, s>>].job}
      /\ proc'[w].left = proc[w].left /\ proc'[w].step = proc[w].step
  BY <1>1 DEF Release, TypeOK, Proc
<1>4. \A r \in Busy(w) : run[<<w, r>>].job = run[<<w, s>>].job <=> r = s
  <2> SUFFICES ASSUME NEW r \in Busy(w), run[<<w, r>>].job = run[<<w, s>>].job PROVE r = s
    OBVIOUS
  <2>1. <<w, r>> \in Threads /\ run[<<w, r>>] # Free
    BY DEF Busy, Threads
  <2>2. <<w, r>> = <<w, s>>
    BY <1>1, <2>1 DEF OneHolder
  <2> QED BY <2>2
<1>5. proc'[w].tracked = Busy(w) \ {s}
  BY <1>3, <1>4 DEF RoomInv
<1>6. Cardinality(Busy(w) \ {s}) \in Nat /\ Cardinality(Busy(w)) \in Nat
      /\ Cardinality(Busy(w) \ {s}) <= Cardinality(Busy(w))
  BY BusyFinite, FS_Subset, FS_CardinalityType
<1>7. proc[w].left \in Nat
  BY <1>1 DEF Proc
<1> QED BY <1>2, <1>3, <1>5, <1>6, <1>7, JobQueueAssumption DEF RoomInv, InLoop

LEMMA RoomPoll ==
  ASSUME TypeOK, TypeOK', NEW w \in Workers, SoloInv(w), RoomInv(w),
         Poll(w) \/ PollError(w) \/ PopUnanswered(w) \/ PromoteError(w)
  PROVE  RoomInv(w)'
<1>0. proc[w] \in Proc /\ proc[w].left \in Nat
  BY DEF TypeOK, Proc
<1>1. CASE PollStart(w)
  <2>1. /\ run' = run /\ proc'[w].tracked = proc[w].tracked /\ proc'[w].left = SlotsLeft(w)
        /\ SlotsLeft(w) > 0
    BY <1>0, <1>1 DEF PollStart, TypeOK, Proc
  <2>2. Busy(w)' = Busy(w)
    BY <2>1, SameBusy
  <2>3. SlotsLeft(w) = Concurrency - Cardinality(Busy(w))
    BY DEF SlotsLeft, RoomInv
  <2> QED BY <2>1, <2>2, <2>3, BusyFinite, JobQueueAssumption DEF RoomInv
<1>2. CASE \/ Scan(w) \/ Promote(w) \/ PromoteError(w) \/ PopUnanswered(w)
           \/ PopNothing(w) \/ PollEnd(w) \/ PollError(w)
  <2>1. run' = run
    BY <1>2 DEF Scan, Promote, PromoteError, PopNothing, PollEnd, PollError, PopUnanswered
  <2>2. proc'[w].tracked = proc[w].tracked
    BY <1>0, <1>2 DEF Scan, Promote, PromoteError, PopNothing, PollEnd, PollError, PopUnanswered, TypeOK, Proc
  <2>3. CASE Scan(w) \/ Promote(w) \/ PromoteError(w) \/ PopUnanswered(w)
    <3>1. InLoop(w) /\ proc'[w].left = proc[w].left
      BY <1>0, <2>3 DEF Scan, Promote, PromoteError, PopUnanswered, InLoop, TypeOK, Proc
    <3> QED BY <2>1, <2>2, <3>1, RoomQuiet
  <2>4. CASE PopNothing(w) \/ PollEnd(w) \/ PollError(w)
    <3>1. ~ InLoop(w)'
      BY <1>0, <2>4 DEF PopNothing, PollEnd, PollError, InLoop, TypeOK, Proc
    <3> QED BY <2>1, <2>2, <3>1, RoomQuiet
  <2> QED BY <1>2, <2>3, <2>4
<1>3. ASSUME NEW k \in Jobs, NEW s \in Slots, Pop(w, k, s) PROVE RoomInv(w)'
  <2>1. <<w, s>> \in Threads /\ s \notin Busy(w)
    BY <1>3 DEF Pop, Busy, Threads
  <2>2. Busy(w)' = Busy(w) \cup {s}
    <3>1. run'[<<w, s>>].job = k
      BY <1>3, <2>1 DEF Pop, TypeOK
    <3>2. run'[<<w, s>>] # Free
      BY <3>1, JobQueueAssumption DEF Free
    <3>3. \A r \in Slots \ {s} : run'[<<w, r>>] = run[<<w, r>>]
      BY <1>3 DEF Pop, TypeOK, Threads
    <3> QED BY <3>2, <3>3 DEF Busy
  <2>3. \A r \in Busy(w) : run[<<w, r>>].job # k
    <3>1. k \in Pending /\ Placed(k)
      BY <1>3 DEF Pop, PopMin, Pending, SoloInv, AllPlaced
    <3>2. k \notin Held
      BY <3>1, SMTT(30) DEF Placed
    <3> QED BY <3>2, InHand DEF Busy
  <2>4. /\ proc'[w].tracked = {r \in proc[w].tracked : run[<<w, r>>].job # k} \cup {s}
        /\ proc'[w].left = IF proc[w].left > 0 THEN proc[w].left - 1 ELSE 0
        /\ proc'[w].step = IF proc[w].left > 1 THEN "scan" ELSE "await"
        /\ proc[w].step = "pop"
    BY <1>0, <1>3 DEF Pop, TypeOK, Proc
  <2>5. proc'[w].tracked = Busy(w) \cup {s}
    BY <2>3, <2>4 DEF RoomInv
  <2>6. Cardinality(Busy(w) \cup {s}) = Cardinality(Busy(w)) + 1 /\ Cardinality(Busy(w)) \in Nat
    BY <2>1, BusyFinite, FS_AddElement
  <2>7. proc[w].left >= 1 /\ Cardinality(Busy(w)) + proc[w].left <= Concurrency
    BY <2>4 DEF RoomInv, InLoop
  <2> QED BY <1>0, <2>2, <2>4, <2>5, <2>6, <2>7, JobQueueAssumption DEF RoomInv, InLoop
<1> QED BY <1>1, <1>2, <1>3 DEF Poll

LEMMA RoomStep ==
  ASSUME TypeOK, TypeOK', NEW w \in Workers, SoloInv(w), RoomInv(w), WorkNext(w)
  PROVE  RoomInv(w)'
<1>0. proc[w] \in Proc /\ OneHolder
  BY DEF TypeOK, SoloInv
<1>1. CASE UNCHANGED <<proc, run>>
  BY <1>1, RoomQuiet DEF InLoop
<1>2. CASE \/ \E j \in Jobs : RunAtPasses(j) \/ \E delay \in BOOLEAN : Add(j, delay)
           \/ UNCHANGED <<zset, score, hash, proc, run, retry, abandoned>>
  BY <1>1, <1>2 DEF RunAtPasses, Add
<1>3. ASSUME NEW s \in Slots, Process(w, s) \/ ProcessError(w, s) PROVE RoomInv(w)'
  <2>1. run[<<w, s>>] # Free
    BY <1>3 DEF Process, ProcessorEnds, ProcessError, Complete,
           FailRead, FailUnlist, FailRecord, FailStatus, FailMove, At
  <2>2. CASE Complete(w, s) \/ FailMove(w, s) \/ ProcessError(w, s)
    <3>1. Release(w, s)
      BY <2>2 DEF Complete, FailMove, ProcessError
    <3> QED BY <1>0, <2>1, <3>1, RoomRelease
  <2>3. CASE ProcessorEnds(w, s) \/ FailRead(w, s) \/ FailUnlist(w, s) \/ FailRecord(w, s) \/ FailStatus(w, s)
    <3>1. proc' = proc
      BY <2>3 DEF ProcessorEnds, FailRead, FailUnlist, FailRecord, FailStatus
    <3>2. run[<<w, s>>] \in Running /\ run[<<w, s>>].job \in Jobs /\ <<w, s>> \in Threads
      BY <2>1, SlotType DEF Running, Threads
    <3>3. run'[<<w, s>>].job = run[<<w, s>>].job
      <4>1. run \in [Threads -> Running \cup {Free}]
        BY DEF TypeOK
      <4>2. ASSUME NEW step, Goto(w, s, step) PROVE run'[<<w, s>>].job = run[<<w, s>>].job
        BY <3>2, <4>1, <4>2 DEF Goto, Running
      <4>3. CASE FailRead(w, s)
        BY <3>2, <4>1, <4>3 DEF FailRead, Running
      <4> QED BY <2>3, <4>2, <4>3 DEF ProcessorEnds, FailUnlist, FailRecord, FailStatus
    <3>4. run'[<<w, s>>] # Free
      BY <3>2, <3>3, JobQueueAssumption DEF Free
    <3>5. \A r \in Slots \ {s} : run'[<<w, r>>] = run[<<w, r>>]
      BY <2>3 DEF ProcessorEnds, FailRead, FailUnlist, FailRecord, FailStatus, Goto, TypeOK, Threads
    <3> QED BY <2>1, <3>1, <3>4, <3>5, RoomQuiet DEF InLoop
  <2> QED BY <1>3, <2>2, <2>3 DEF Process
<1>4. ASSUME NEW v \in Workers, Stop(v) \/ Start(v) PROVE RoomInv(w)'
  <2>1. run' = run /\ proc'[w].tracked = proc[w].tracked /\ proc'[w].left = proc[w].left
        /\ proc'[w].step = proc[w].step
    BY <1>0, <1>4 DEF Stop, Start, TypeOK, Proc
  <2> QED BY <2>1, RoomQuiet DEF InLoop
<1>5. ASSUME NEW v \in Workers, ProcessEnds(v) PROVE RoomInv(w)'
  <2>1. CASE v = w
    <3>1. Busy(w)' = {}
      BY <1>5, <2>1 DEF ProcessEnds, Busy, Threads
    <3>2. proc'[w] = Fresh("down")
      BY <1>5, <2>1 DEF ProcessEnds, TypeOK
    <3> QED BY <3>1, <3>2, FS_EmptySet, JobQueueAssumption DEF RoomInv, Fresh, InLoop
  <2>2. CASE v # w
    <3>1. proc'[w] = proc[w] /\ \A s \in Slots : run'[<<w, s>>] = run[<<w, s>>]
      BY <1>5, <2>2 DEF ProcessEnds, TypeOK, Threads
    <3> QED BY <3>1, RoomQuiet DEF InLoop
  <2> QED BY <2>1, <2>2
<1> QED BY <1>2, <1>3, <1>4, <1>5, RoomPoll DEF WorkNext, Exit, Crash

-----------------------------------------------------------------------------
(* The fleet: several instances with the schedule, one of which polls.     *)

OnePoller == \E w \in Workers : Polling = {w}

SpendOnly == UNCHANGED queueVars /\ (spent' = spent \/ Spend("error"))

\* A step of the cron job is an add, an end of a process, the error of a command
\* or an add sent again, which changes nothing unless it puts back a job.
LEMMA CronQueue ==
  ASSUME NEW w \in Workers, CronStep(w), putBack' = {}
  PROVE  \/ SpendOnly
         \/ \E j \in Jobs : Add(j, FALSE)
         \/ Exit(w) \/ Crash(w)
<1>1. CASE Fire(w)
  BY <1>1 DEF Fire, SpendOnly, queueVars, vars
<1>2. CASE FireUnanswered(w) \/ FireFails(w) \/ HandleFails(w) \/ UnlockUnanswered(w)
  BY <1>2 DEF FireUnanswered, FireFails, HandleFails, UnlockUnanswered, SpendOnly
<1>3. CASE Handle(w) \/ HandleUnanswered(w)
  BY <1>3 DEF Handle, HandleUnanswered
<1>4. CASE HandleAgain(w)
  <2>1. UNCHANGED <<zset, score, hash>>
    BY <1>4 DEF HandleAgain
  <2> QED BY <1>4, <2>1 DEF HandleAgain, SpendOnly, queueVars
<1>5. CASE Unlock(w)
  BY <1>5 DEF Unlock, SpendOnly, queueVars, vars
<1>6. CASE Down(w)
  BY <1>6 DEF Down
<1> QED BY <1>1, <1>2, <1>3, <1>4, <1>5, <1>6 DEF CronStep

LEMMA FleetType == ASSUME TypeOK, [FleetNext]_fleetVars, putBack' = {} PROVE TypeOK'
<1>1. CASE SpendOnly
  BY <1>1 DEF SpendOnly, queueVars, Spend, Faults, TypeOK
<1>2. CASE [Next]_vars
  BY <1>2, TypeStep
<1>3. CASE QueueStep
  BY <1>2, <1>3, CronAssumption DEF QueueStep, Next
<1>4. CASE NextTick \/ LockExpires \/ UNCHANGED fleetVars
  BY <1>2, <1>4 DEF NextTick, LockExpires, fleetVars
<1>5. ASSUME NEW w \in Workers, CronStep(w) PROVE TypeOK'
  BY <1>1, <1>2, <1>5, CronQueue DEF Next
<1> QED BY <1>3, <1>4, <1>5 DEF FleetNext

LEMMA FleetWork ==
  ASSUME [FleetNext]_fleetVars, putBack' = {}, NEW w \in Workers, Polling = {w}
  PROVE  WorkNext(w)
<1>1. CASE QueueStep
  BY <1>1 DEF QueueStep, WorkNext
<1>2. CASE NextTick \/ LockExpires \/ UNCHANGED fleetVars
  BY <1>2 DEF NextTick, LockExpires, fleetVars, vars, WorkNext
<1>3. ASSUME NEW v \in Workers, CronStep(v) PROVE WorkNext(w)
  BY <1>3, CronQueue DEF SpendOnly, queueVars, WorkNext
<1> QED BY <1>1, <1>2, <1>3 DEF FleetNext

\* What an add sent again has put back is not forgotten.
LEMMA PutBackGrows == ASSUME [FleetNext]_fleetVars PROVE putBack \subseteq putBack'
<1>1. ASSUME NEW w \in Workers, CronStep(w) PROVE putBack \subseteq putBack'
  BY <1>1 DEF CronStep, Fire, FireUnanswered, FireFails, Handle, HandleUnanswered, HandleAgain,
              HandleFails, Unlock, UnlockUnanswered, Down
<1> QED BY <1>1 DEF FleetNext, QueueStep, NextTick, LockExpires, fleetVars, cronVars

\* The one worker that polls runs no more than `concurrency` jobs, unless an add
\* sent again has put back a job, even when the catch of _poll has forgotten a
\* batch that is still running and the next poll starts beside it (_poll and
\* _activeJobs, Worker.js).
THEOREM ConcurrencyIsKept == ASSUME OnePoller PROVE FleetSpec => []FleetWithinConcurrency
<1>1. PICK w \in Workers : Polling = {w}
  BY DEF OnePoller
<1> DEFINE Inv == putBack = {} => TypeOK /\ SoloInv(w) /\ RoomInv(w)
<1>2. FleetInit => Inv
  <2>1. ASSUME Init PROVE RoomInv(w)
    <3>1. Busy(w) = {} /\ proc[w] = Fresh("up")
      BY <2>1 DEF Init, Busy, Threads
    <3> QED BY <3>1, FS_EmptySet, JobQueueAssumption DEF RoomInv, Fresh, InLoop
  <2> QED BY <2>1, TypeInit, SoloInit DEF FleetInit
<1>3. Inv /\ [FleetNext]_fleetVars => Inv'
  <2> SUFFICES ASSUME Inv, [FleetNext]_fleetVars, putBack' = {}
               PROVE  TypeOK' /\ SoloInv(w)' /\ RoomInv(w)'
    OBVIOUS
  <2>1. putBack = {}
    BY PutBackGrows
  <2>2. TypeOK /\ SoloInv(w) /\ RoomInv(w)
    BY <2>1
  <2> QED BY <1>1, <2>2, FleetType, FleetWork, WorkStep, RoomStep
<1>4. Inv => FleetWithinConcurrency
  <2> SUFFICES ASSUME Inv, putBack = {}, NEW v \in Workers PROVE Cardinality(Busy(v)) <= Concurrency
    BY DEF FleetWithinConcurrency, WithinConcurrency
  <2>1. CASE v = w
    BY <2>1 DEF RoomInv
  <2>2. CASE v # w
    <3>1. Busy(v) = {}
      BY <2>2 DEF SoloInv, OnlyWorks, Busy
    <3> QED BY <3>1, FS_EmptySet, JobQueueAssumption
  <2> QED BY <2>1, <2>2
<1> HIDE DEF Inv
<1> QED BY <1>2, <1>3, <1>4, PTL DEF FleetSpec

-----------------------------------------------------------------------------
(* The lock of the schedule: an instance in the handler has it, unless it  *)
(* ran out under a handler or a DEL is sent again; and a lock that is      *)
(* taken, or a tick that was tried, is on its way to being served, unless  *)
(* something was dropped.                                                  *)

HandlerType == handler \in [Workers -> {"idle", "add", "del"}]
Holding == \A w \in Handling : lock = w \/ "outlived" \in event \/ "resent" \in event
OnItsWay ==
  "tried" \in event \/ lock # NoLock =>
    "served" \in event \/ "dropped" \in event \/ \E w \in Workers : handler[w] = "add"
CronInv == HandlerType /\ Holding /\ OnItsWay

LEMMA CronInvFire ==
  ASSUME CronInv, NEW w \in Workers, Fire(w) \/ FireUnanswered(w) \/ FireFails(w)
  PROVE  CronInv'
<1> USE DEF CronInv, HandlerType, Handling
<1>1. CASE Fire(w)
  <2>1. event' = event \cup {"tried"}
    BY <1>1 DEF Fire, Note
  <2>2. CASE Untaken
    <3>1. lock = NoLock /\ lock' = w /\ handler' = [handler EXCEPT ![w] = "add"]
      BY <1>1, <2>2 DEF Fire, Step, Untaken
    <3>2. HandlerType' /\ handler'[w] = "add"
      BY <3>1
    <3>3. Holding'
      BY <2>1, <3>1, CronAssumption DEF Holding
    <3> QED BY <3>2, <3>3 DEF OnItsWay
  <2>3. CASE ~ Untaken
    <3>1. lock # NoLock /\ lock' = lock /\ handler' = handler
      BY <1>1, <2>3 DEF Fire, Untaken
    <3> QED BY <2>1, <3>1 DEF Holding, OnItsWay
  <2> QED BY <2>2, <2>3
<1>2. CASE FireUnanswered(w)
  <2>1. lock = NoLock /\ handler' = handler /\ event' = event \cup {"dropped"}
    BY <1>2 DEF FireUnanswered, Untaken, Note
  <2>2. Holding'
    BY <2>1, CronAssumption DEF Holding
  <2> QED BY <2>1, <2>2 DEF OnItsWay
<1>3. CASE FireFails(w)
  BY <1>3 DEF FireFails, Holding, OnItsWay
<1> QED BY <1>1, <1>2, <1>3

LEMMA CronInvHandle ==
  ASSUME CronInv, NEW w \in Workers,
         Handle(w) \/ HandleUnanswered(w) \/ HandleAgain(w) \/ HandleFails(w)
  PROVE  CronInv'
<1> USE DEF CronInv, HandlerType, Handling
<1>1. CASE HandleUnanswered(w)
  BY <1>1 DEF HandleUnanswered, Holding, OnItsWay
<1>2. CASE Handle(w) \/ HandleAgain(w) \/ HandleFails(w)
  <2>1. /\ handler[w] = "add" /\ handler' = [handler EXCEPT ![w] = "del"] /\ lock' = lock
        /\ event' = event \cup {"served"} \/ event' = event \cup {"dropped"}
    BY <1>2 DEF Handle, HandleAgain, HandleFails, Step, Note
  <2> QED BY <2>1 DEF Holding, OnItsWay
<1> QED BY <1>1, <1>2

LEMMA CronInvUnlock ==
  ASSUME CronInv, NEW w \in Workers, Unlock(w) \/ UnlockUnanswered(w) \/ Down(w)
  PROVE  CronInv'
<1> USE DEF CronInv, HandlerType, Handling
<1>1. CASE Unlock(w)
  <2>1. /\ handler[w] = "del" /\ handler' = [handler EXCEPT ![w] = "idle"]
        /\ event' = event /\ lock' \in {lock, NoLock}
    BY <1>1 DEF Unlock, Step
  <2>2. HandlerType' /\ Holding'
    BY <2>1 DEF Holding
  <2>3. OnItsWay'
    BY <2>1 DEF OnItsWay
  <2> QED BY <2>2, <2>3
<1>2. CASE UnlockUnanswered(w)
  BY <1>2 DEF UnlockUnanswered, Note, Holding, OnItsWay
<1>3. CASE Down(w)
  <2>1. /\ handler' = [handler EXCEPT ![w] = "idle"] /\ lock' = lock
        /\ event' = IF handler[w] = "add" THEN event \cup {"dropped"} ELSE event
    BY <1>3 DEF Down, Step
  <2>2. HandlerType' /\ Holding'
    BY <2>1 DEF Holding
  <2>3. OnItsWay'
    BY <2>1 DEF OnItsWay
  <2> QED BY <2>2, <2>3
<1> QED BY <1>1, <1>2, <1>3

LEMMA CronInvStep == ASSUME CronInv, [FleetNext]_fleetVars PROVE CronInv'
<1> USE DEF CronInv, HandlerType, Handling
<1>1. CASE QueueStep \/ UNCHANGED fleetVars
  BY <1>1 DEF QueueStep, fleetVars, cronVars, Holding, OnItsWay
<1>2. CASE NextTick
  BY <1>2 DEF NextTick, LeftOver, Holding, OnItsWay
<1>3. CASE LockExpires
  <2>1. handler' = handler /\ lock' = NoLock /\ event \subseteq event'
        /\ ("tried" \in event' => "tried" \in event)
        /\ (Handling # {} => "outlived" \in event')
    BY <1>3 DEF LockExpires
  <2>2. lock # NoLock
    BY <1>3 DEF LockExpires
  <2> QED BY <2>1, <2>2 DEF Holding, OnItsWay
<1>4. ASSUME NEW w \in Workers, CronStep(w) PROVE CronInv'
  BY <1>4, CronInvFire, CronInvHandle, CronInvUnlock DEF CronStep
<1> QED BY <1>1, <1>2, <1>3, <1>4 DEF FleetNext

LEMMA CronAlways == FleetSpec => []CronInv
<1>1. FleetInit => CronInv
  BY DEF FleetInit, CronInv, HandlerType, Holding, Handling, OnItsWay
<1> QED BY <1>1, CronInvStep, PTL DEF FleetSpec

\* Two instances are in the handler of one tick only if a lock ran out under a
\* running handler or a DEL was sent again, for any number of instances, failing
\* and unanswered commands, stops, crashes and restarts (scheduleWithLock,
\* apps/workers/src/index.js).
THEOREM HandlersStayApart == FleetSpec => []HandlersApart
<1>1. CronInv => HandlersApart
  BY DEF CronInv, Holding, Handling, HandlersApart
<1> QED BY <1>1, CronAlways, PTL

\* A tick that an instance tries is served, unless the instance that took the
\* lock goes down, fails to add the job or never learns that it has the lock: no
\* lock of an earlier tick stops it (scheduleWithLock, apps/workers/src/index.js).
THEOREM TicksAreServed == FleetSpec => []TickServed
<1>1. CronInv => TickServed
  BY DEF CronInv, OnItsWay, Handling, TickServed
<1> QED BY <1>1, CronAlways, PTL

-----------------------------------------------------------------------------
(* The ledger of JobQueueLedger: every step of the queue is one of the     *)
(* abstract queue for the job in hand, and none for the others.            *)

Row(j) == [phase |-> Phase(j), tries |-> Tries(j)]
Is(phase, tries) == [phase |-> phase, tries |-> tries]
Written(j) == \E t \in Threads : run[t].job = j /\ run[t].step \in {"status", "move"}

LEMMA TheThread ==
  ASSUME NEW f, NEW j, NEW t \in Threads, f[t].job = j,
         \A u \in Threads : f[u].job = j => u = t
  PROVE  (CHOOSE u \in Threads : f[u].job = j) = t
OBVIOUS

LEMMA RecordedIff ==
  /\ TypeOK /\ OneHolder => \A j \in Jobs : j \in Held => (HasRecorded(j) <=> Written(j))
  /\ (TypeOK /\ OneHolder => \A j \in Jobs : j \in Held => (HasRecorded(j) <=> Written(j)))'
<1>1. ASSUME TypeOK, OneHolder, NEW j \in Jobs, j \in Held PROVE HasRecorded(j) <=> Written(j)
  <2>1. PICK t \in Threads : run[t].job = j
    BY <1>1, HeldIff
  <2>2. \A u \in Threads : run[u].job = j => u = t
    BY <1>1, <2>1, ThreadType DEF OneHolder
  <2>3. StepOf(j) = t
    BY <2>1, <2>2, TheThread DEF StepOf
  <2> QED BY <2>1, <2>2, <2>3 DEF HasRecorded, Written
<1>2. TypeOK /\ OneHolder => \A j \in Jobs : j \in Held => (HasRecorded(j) <=> Written(j))
  BY <1>1
<1> QED BY <1>2, PTL

Facts(j) ==
  /\ hash[j].status = "none" => Row(j) = Is("absent", 0)
  /\ j \in abandoned => Row(j) = Is("lost", 0)
  /\ j \in Held => Row(j) = Is("taken", IF Written(j) THEN hash[j].attempts - 1 ELSE hash[j].attempts)
  /\ hash[j].status = "completed" => Row(j) = Is("done", hash[j].attempts)
  /\ j \in zset.dlq \cup Retrying => Row(j) = Is("dead", MaxAttempts)
  /\ j \in Pending => Row(j) = Is("queued", hash[j].attempts)

LEMMA FactsHold ==
  /\ TypeOK /\ OneHolder /\ AllPlaced => \A j \in Jobs : Facts(j)
  /\ (TypeOK /\ OneHolder /\ AllPlaced => \A j \in Jobs : Facts(j))'
<1>1. ASSUME TypeOK, OneHolder, AllPlaced, NEW j \in Jobs PROVE Facts(j)
  <2>1. Placed(j) /\ (j \in Held => (HasRecorded(j) <=> Written(j)))
    BY <1>1, RecordedIff DEF AllPlaced
  <2>2. hash[j].status = "none" => Phase(j) = "absent" /\ Tries(j) = 0
    <3>1. hash[j].status = "none" => Phase(j) = "absent"
      BY <2>1 DEF Phase, Placed, Done
    <3> QED BY <3>1 DEF Tries
  <2>3. j \in abandoned => Phase(j) = "lost" /\ Tries(j) = 0
    <3>1. j \in abandoned => Phase(j) = "lost"
      BY <2>1 DEF Phase, Placed, Done
    <3> QED BY <3>1 DEF Tries
  <2>4. j \in Held => Phase(j) = "taken" /\ Tries(j) = IF Written(j) THEN hash[j].attempts - 1 ELSE hash[j].attempts
    <3>1. j \in Held => Phase(j) = "taken"
      BY <2>1 DEF Phase, Placed, Done
    <3> QED BY <2>1, <3>1 DEF Tries
  <2>5. hash[j].status = "completed" => Phase(j) = "done" /\ Tries(j) = hash[j].attempts
    <3>1. hash[j].status = "completed" => Phase(j) = "done"
      BY <2>1 DEF Phase, Placed, Done
    <3> QED BY <3>1 DEF Tries
  <2>6. j \in zset.dlq \cup Retrying => Phase(j) = "dead" /\ Tries(j) = MaxAttempts
    <3>1. j \in zset.dlq \cup Retrying => Phase(j) = "dead"
      BY <2>1 DEF Phase, Placed, Done
    <3> QED BY <3>1 DEF Tries
  <2>7. j \in Pending => Phase(j) = "queued" /\ Tries(j) = hash[j].attempts
    <3>1. j \in Pending => Phase(j) = "queued"
      BY <2>1 DEF Phase, Placed, Done
    <3> QED BY <3>1 DEF Tries
  <2> QED BY <2>2, <2>3, <2>4, <2>5, <2>6, <2>7 DEF Facts, Row, Is
<1>2. TypeOK /\ OneHolder /\ AllPlaced => \A j \in Jobs : Facts(j)
  BY <1>1
<1> QED BY <1>2, PTL

\* Nothing that the ledger tells of j changes.
LEMMA RowSame ==
  ASSUME TypeOK, TypeOK', OneHolder, OneHolder', NEW j \in Jobs, hash'[j] = hash[j],
         j \in abandoned' <=> j \in abandoned, j \in Held' <=> j \in Held,
         j \in zset'.dlq \cup Retrying' <=> j \in zset.dlq \cup Retrying,
         j \in Held => (Written(j)' <=> Written(j))
  PROVE  Row(j)' = Row(j)
<1>1. Phase(j)' = Phase(j)
  BY DEF Phase, Done
<1>2. j \in Held => (HasRecorded(j)' <=> HasRecorded(j))
  BY RecordedIff
<1>3. Phase(j) = "taken" => j \in Held
  BY DEF Phase
<1>4. Tries(j)' = Tries(j)
  BY <1>1, <1>2, <1>3 DEF Tries
<1> QED BY <1>1, <1>4 DEF Row

Table == [j \in Jobs |-> [phase |-> Phase(j), tries |-> Tries(j)]]
LedgerStep == Ledger!Next \/ UNCHANGED Table

LEMMA LedgerStays == ASSUME \A j \in Jobs : Row(j)' = Row(j) PROVE LedgerStep
<1>1. \A j \in Jobs : Phase(j)' = Phase(j) /\ Tries(j)' = Tries(j)
  BY DEF Row
<1> QED BY <1>1 DEF LedgerStep, Table

LEMMA LedgerMoves ==
  ASSUME NEW j \in Jobs, NEW from, NEW n, NEW to, NEW m,
         Row(j) = Is(from, n), Row(j)' = Is(to, m), \A k \in Jobs \ {j} : Row(k)' = Row(k),
         \/ from = "absent" /\ to = "queued" /\ m = 0
         \/ from = "queued" /\ to = "taken" /\ m = n
         \/ from = "taken" /\ to = "done" /\ m = n
         \/ from = "taken" /\ to = "queued" /\ m = n + 1 /\ m < MaxAttempts
         \/ from = "taken" /\ to = "dead" /\ n + 1 = MaxAttempts /\ m = MaxAttempts
         \/ from = "dead" /\ to = "queued" /\ m = 0
  PROVE  LedgerStep
<1>1. /\ Phase(j) = from /\ Tries(j) = n /\ Phase(j)' = to /\ Tries(j)' = m
      /\ \A k \in Jobs \ {j} : Phase(k)' = Phase(k) /\ Tries(k)' = Tries(k)
  BY DEF Row, Is
<1>2. Table' = [Table EXCEPT ![j] = [phase |-> to, tries |-> m]]
  BY <1>1 DEF Table
<1>3. Table[j].phase = from /\ Table[j].tries = n
  BY <1>1 DEF Table
<1>4. \/ Ledger!Enqueue(j) \/ Ledger!Take(j) \/ Ledger!Finish(j)
      \/ Ledger!HandBack(j) \/ Ledger!Bury(j) \/ Ledger!Revive(j)
  BY <1>2, <1>3
     DEF Ledger!Enqueue, Ledger!Take, Ledger!Finish, Ledger!HandBack, Ledger!Bury, Ledger!Revive,
         Ledger!Move, Table
<1> QED BY <1>4 DEF LedgerStep, Ledger!Next

LEMMA LedgerLoses ==
  ASSUME NEW S \in SUBSET Jobs, \A k \in Jobs \ S : Row(k)' = Row(k),
         \A k \in S : Row(k).phase \in {"queued", "taken", "dead"} /\ Row(k)' = Is("lost", 0)
  PROVE  LedgerStep
<1>1. /\ \A k \in Jobs \ S : Phase(k)' = Phase(k) /\ Tries(k)' = Tries(k)
      /\ \A k \in S : Phase(k)' = "lost" /\ Tries(k)' = 0 /\ Phase(k) \in {"queued", "taken", "dead"}
  BY DEF Row, Is
<1>2. Table' = [j \in Jobs |-> IF j \in S THEN [phase |-> "lost", tries |-> 0] ELSE Table[j]]
  BY <1>1 DEF Table
<1>3. S \in SUBSET {j \in Jobs : Table[j].phase \in {"queued", "taken", "dead"}}
  BY <1>1 DEF Table
<1>4. Ledger!Lose
  BY <1>2, <1>3 DEF Ledger!Lose, Table
<1> QED BY <1>4 DEF LedgerStep, Ledger!Next

SoloType(w) == TypeOK /\ SoloInv(w)

LEMMA SoloFacts ==
  ASSUME NEW w \in Workers, SoloType(w), SoloType(w)'
  PROVE  \A j \in Jobs : Facts(j) /\ Facts(j)'
BY FactsHold DEF SoloType, SoloInv

\* One call has a job, so its step tells what is written.
LEMMA WrittenIff ==
  /\ TypeOK /\ OneHolder
       => \A t \in Threads : run[t].job \in Jobs => (Written(run[t].job) <=> run[t].step \in {"status", "move"})
  /\ (TypeOK /\ OneHolder
       => \A t \in Threads : run[t].job \in Jobs => (Written(run[t].job) <=> run[t].step \in {"status", "move"}))'
<1>1. ASSUME TypeOK, OneHolder, NEW t \in Threads, run[t].job \in Jobs
      PROVE  Written(run[t].job) <=> run[t].step \in {"status", "move"}
  <2>1. run[t] # Free
    BY <1>1, ThreadType
  <2> QED BY <1>1, <2>1 DEF OneHolder, Written
<1>2. TypeOK /\ OneHolder
       => \A t \in Threads : run[t].job \in Jobs => (Written(run[t].job) <=> run[t].step \in {"status", "move"})
  BY <1>1
<1> QED BY <1>2, PTL

\* Steps that leave the calls alone
LEMMA RowQuiet ==
  ASSUME NEW w \in Workers, SoloType(w), SoloType(w)', run' = run, NEW j \in Jobs, hash'[j] = hash[j],
         j \in abandoned' <=> j \in abandoned,
         j \in zset'.dlq \cup Retrying' <=> j \in zset.dlq \cup Retrying
  PROVE  Row(j)' = Row(j)
<1>1. Held' = Held /\ (Written(j)' <=> Written(j))
  BY SameHands DEF Written
<1> QED BY <1>1, RowSame DEF SoloType, SoloInv

\* Jobs that the one call that goes on, begins or ends has nothing to do with
LEMMA RowElsewhere ==
  ASSUME NEW w \in Workers, SoloType(w), SoloType(w)', NEW t \in Threads,
         \A u \in Threads \ {t} : run'[u] = run[u],
         NEW j \in Jobs, run[t].job # j, run'[t].job # j, hash'[j] = hash[j],
         j \in abandoned' <=> j \in abandoned,
         j \in zset'.dlq \cup Retrying' <=> j \in zset.dlq \cup Retrying
  PROVE  Row(j)' = Row(j)
<1>1. j \in Held' <=> j \in Held
  <2>1. \A u \in Threads : run[u].job = j => run[u] # Free
    BY ThreadType DEF SoloType
  <2>2. \A u \in Threads : run'[u].job = j => run'[u] # Free
    BY JobQueueAssumption DEF Free
  <2>3. j \in Held' => j \in Held
    BY <2>1, HeldIff
  <2>4. j \in Held => j \in Held'
    BY <2>2, HeldIff
  <2> QED BY <2>3, <2>4
<1>2. Written(j)' <=> Written(j)
  BY DEF Written
<1> QED BY <1>1, <1>2, RowSame DEF SoloType, SoloInv

LEMMA LedgerQuiet ==
  ASSUME NEW w \in Workers, SoloType(w), SoloType(w)', UNCHANGED <<hash, run, retry, abandoned>>,
         zset'.dlq = zset.dlq
  PROVE  LedgerStep
BY SameRetries, RowQuiet, LedgerStays

LEMMA LedgerAdd ==
  ASSUME NEW w \in Workers, SoloType(w), SoloType(w)', NEW k \in Jobs, NEW delay, Add(k, delay)
  PROVE  LedgerStep
<1>1. /\ hash[k].status = "none" /\ hash'[k].attempts = 0
      /\ \A j \in Jobs \ {k} : hash'[j] = hash[j]
      /\ zset'.dlq = zset.dlq /\ k \in Pending' /\ UNCHANGED <<run, retry, abandoned>>
  BY DEF Add, Put, SoloType, TypeOK, Hash, ZSets, Pending
<1>2. hash[k].attempts = 0
  BY <1>1 DEF SoloType, SoloInv, AllPlaced, Placed
<1>3. Row(k) = Is("absent", 0) /\ Row(k)' = Is("queued", 0)
  BY <1>1, <1>2, SoloFacts DEF Facts
<1>4. \A j \in Jobs \ {k} : Row(j)' = Row(j)
  BY <1>1, SameRetries, RowQuiet
<1> QED BY <1>3, <1>4, LedgerMoves

LEMMA LedgerPoll ==
  ASSUME NEW w \in Workers, SoloType(w), SoloType(w)', Poll(w) \/ PollError(w) \/ PopUnanswered(w) \/ PromoteError(w)
  PROVE  LedgerStep
<1>1. CASE \/ PollStart(w) \/ Scan(w) \/ Promote(w) \/ PopNothing(w) \/ PollEnd(w) \/ PromoteError(w)
           \/ PollError(w) /\ UNCHANGED <<zset, abandoned>>
  <2>1. UNCHANGED <<hash, run, retry, abandoned>> /\ zset'.dlq = zset.dlq
    BY <1>1 DEF PollStart, Scan, Promote, Promoted, PopNothing, PollEnd, PromoteError, PollError,
                SoloType, TypeOK, ZSets
  <2> QED BY <2>1, LedgerQuiet
<1>2. ASSUME NEW k \in Jobs, NEW s \in Slots, Pop(w, k, s) PROVE LedgerStep
  <2> DEFINE t == <<w, s>>
  <2>1. /\ t \in Threads /\ (\A u \in Threads \ {t} : run'[u] = run[u])
        /\ run[t] = Free /\ run'[t].job = k /\ run'[t].step = "run"
    BY <1>2 DEF Pop, SoloType, TypeOK, Threads
  <2>2. k \in Pending /\ zset'.dlq = zset.dlq /\ UNCHANGED <<hash, retry, abandoned>>
    BY <1>2 DEF Pop, PopMin, Pending, SoloType, TypeOK, ZSets
  <2>3. k \in Held' /\ ~ Written(k)'
    <3>1. run'[t] # Free
      BY <2>1, JobQueueAssumption DEF Free
    <3> QED BY <2>1, <3>1, HeldIff, WrittenIff DEF SoloType, SoloInv
  <2>4. Row(k) = Is("queued", hash[k].attempts) /\ Row(k)' = Is("taken", hash[k].attempts)
    BY <2>2, <2>3, SoloFacts DEF Facts
  <2>5. ASSUME NEW j \in Jobs \ {k} PROVE Row(j)' = Row(j)
    <3>1. run[t].job # j /\ run'[t].job # j
      BY <2>1, JobQueueAssumption DEF Free
    <3> QED BY <2>1, <2>2, <3>1, SameRetries, RowElsewhere
  <2> QED BY <2>4, <2>5, LedgerMoves
<1>3. ASSUME NEW k \in Jobs, PollError(w) \/ PopUnanswered(w), PopMin(k), abandoned' = abandoned \cup {k}
      PROVE  LedgerStep
  <2>1. UNCHANGED <<hash, retry, run>> /\ k \in Pending /\ zset'.dlq = zset.dlq /\ k \in abandoned'
    BY <1>3 DEF PollError, PopUnanswered, PopMin, Pending, SoloType, TypeOK, ZSets
  <2>2. Row(k) = Is("queued", hash[k].attempts) /\ Row(k)' = Is("lost", 0)
    BY <2>1, SoloFacts DEF Facts
  <2>3. ASSUME NEW j \in Jobs \ {k} PROVE Row(j)' = Row(j)
    BY <1>3, <2>1, SameRetries, RowQuiet
  <2>4. Row(k).phase = "queued"
    BY <2>2 DEF Is
  <2> QED BY <2>2, <2>3, <2>4, LedgerLoses, {k} \in SUBSET Jobs
<1> QED BY <1>1, <1>2, <1>3 DEF Poll, PollError, PopUnanswered

LEMMA LedgerProcess ==
  ASSUME NEW w \in Workers, SoloType(w), SoloType(w)', NEW s \in Slots, Process(w, s) \/ ProcessError(w, s)
  PROVE  LedgerStep
<1> DEFINE t == <<w, s>>
<1>0. t \in Threads /\ run[t] # Free /\ run[t] \in Running /\ MaxAttempts \in Nat
  <2>1. run[<<w, s>>] # Free
    BY DEF Process, ProcessorEnds, ProcessError, Complete,
           FailRead, FailUnlist, FailRecord, FailStatus, FailMove, At
  <2> QED BY <2>1, SlotType, JobQueueAssumption DEF SoloType, TypeOK, Threads
<1>1. PICK k \in Jobs : k = run[t].job
  BY <1>0, ThreadType DEF SoloType
<1>2. /\ k \in Held /\ Recorded(t) /\ Placed(k)
      /\ hash[k] \in Hash /\ hash[k].attempts \in Nat /\ run[t].tries \in Nat
      /\ (Written(k) <=> run[t].step \in {"status", "move"})
  BY <1>0, <1>1, HeldIff, HashType, ThreadType, WrittenIff DEF SoloType, SoloInv, AllRecorded, AllPlaced
<1>3. /\ \A u \in Threads \ {t} : run'[u] = run[u]
      /\ UNCHANGED retry /\ Retrying' = Retrying
  <2>1. \A u \in Threads \ {t} : run'[u] = run[u]
    BY DEF Process, ProcessorEnds, ProcessError, Complete,
           FailRead, FailUnlist, FailRecord, FailStatus, FailMove, Goto, Release, SoloType, TypeOK
  <2>2. retry' = retry
    BY DEF Process, ProcessorEnds, ProcessError, Complete,
           FailRead, FailUnlist, FailRecord, FailStatus, FailMove
  <2> QED BY <2>1, <2>2, SameRetries
<1>4. Row(k) = Is("taken", IF run[t].step \in {"status", "move"} THEN hash[k].attempts - 1 ELSE hash[k].attempts)
  BY <1>2, SoloFacts DEF Facts
<1>5. ASSUME run'[t].job = k \/ run'[t] = Free,
             \A j \in Jobs \ {k} : /\ hash'[j] = hash[j] /\ (j \in abandoned' <=> j \in abandoned)
                                   /\ (j \in zset'.dlq <=> j \in zset.dlq)
      PROVE  \A j \in Jobs \ {k} : Row(j)' = Row(j)
  <2> TAKE j \in Jobs \ {k}
  <2>1. run[t].job # j /\ run'[t].job # j
    BY <1>1, <1>5, JobQueueAssumption DEF Free
  <2> QED BY <1>0, <1>3, <1>5, <2>1, RowElsewhere
\* The call goes on with its job.
<1>6. ASSUME run'[t].job = k,
             zset'.dlq = zset.dlq, abandoned' = abandoned, \A j \in Jobs \ {k} : hash'[j] = hash[j],
             hash'[k].attempts - (IF run'[t].step \in {"status", "move"} THEN 1 ELSE 0)
               = hash[k].attempts - (IF run[t].step \in {"status", "move"} THEN 1 ELSE 0),
             hash'[k].attempts \in Nat
      PROVE  LedgerStep
  <2>1. run'[t] # Free
    BY <1>6, JobQueueAssumption DEF Free
  <2>2. k \in Held' /\ (Written(k)' <=> run'[t].step \in {"status", "move"})
    BY <1>0, <1>6, <2>1, HeldIff, WrittenIff DEF SoloType, SoloInv
  <2>3. Row(k)' = Is("taken", IF run'[t].step \in {"status", "move"} THEN hash'[k].attempts - 1 ELSE hash'[k].attempts)
    BY <2>2, SoloFacts DEF Facts
  <2>4. Row(k)' = Row(k)
    BY <1>2, <1>4, <1>6, <2>3
  <2> QED BY <1>5, <1>6, <2>4, LedgerStays
<1>7. CASE ProcessorEnds(w, s) \/ FailUnlist(w, s)
  <2>1. /\ run'[t].job = k /\ run'[t].step \notin {"status", "move"} /\ run[t].step \notin {"status", "move"}
    BY <1>0, <1>1, <1>7, SMTT(30) DEF ProcessorEnds, FailUnlist, Goto, SoloType, TypeOK, Running, At
  <2>2. UNCHANGED <<hash, abandoned>> /\ zset'.dlq = zset.dlq
    BY <1>7 DEF ProcessorEnds, FailUnlist, SoloType, TypeOK, ZSets
  <2> QED BY <1>2, <1>6, <2>1, <2>2
<1>8. CASE FailRead(w, s)
  <2>1. run'[t].job = k /\ run'[t].step = "unlist" /\ run[t].step = "read"
    BY <1>0, <1>1, <1>8 DEF FailRead, SoloType, TypeOK, Running, At
  <2>2. UNCHANGED <<zset, hash, abandoned>>
    BY <1>8 DEF FailRead
  <2> QED BY <1>2, <1>6, <2>1, <2>2
<1>9. CASE FailRecord(w, s)
  <2>1. run'[t].job = k /\ run'[t].step = "status" /\ run[t].step = "record"
    BY <1>0, <1>1, <1>9 DEF FailRecord, Goto, SoloType, TypeOK, Running, At
  <2>2. /\ UNCHANGED <<zset, abandoned>> /\ \A j \in Jobs \ {k} : hash'[j] = hash[j]
        /\ hash'[k].attempts = run[t].tries
    BY <1>1, <1>2, <1>9 DEF FailRecord, SoloType, TypeOK, Hash
  <2>3. run[t].tries = hash[k].attempts + 1
    BY <1>1, <1>2, <2>1 DEF Recorded
  <2> QED BY <1>2, <1>6, <2>1, <2>2, <2>3
<1>10. CASE FailStatus(w, s)
  <2>1. run'[t].job = k /\ run'[t].step = "move" /\ run[t].step = "status"
    BY <1>0, <1>1, <1>10 DEF FailStatus, Goto, SoloType, TypeOK, Running, At
  <2>2. /\ UNCHANGED <<zset, abandoned>> /\ \A j \in Jobs \ {k} : hash'[j] = hash[j]
        /\ hash'[k].attempts = hash[k].attempts
    BY <1>1, <1>2, <1>10 DEF FailStatus, SoloType, TypeOK, Hash
  <2> QED BY <1>2, <1>6, <2>1, <2>2
<1>11. CASE Complete(w, s)
  <2>1. /\ run'[t] = Free /\ run[t].step = "complete" /\ zset'.dlq = zset.dlq /\ abandoned' = abandoned
        /\ \A j \in Jobs \ {k} : hash'[j] = hash[j]
        /\ hash'[k].status = "completed" /\ hash'[k].attempts = hash[k].attempts
    BY <1>0, <1>1, <1>2, <1>11 DEF Complete, Release, At, SoloType, TypeOK, Hash, ZSets
  <2>2. Row(k) = Is("taken", hash[k].attempts) /\ Row(k)' = Is("done", hash[k].attempts)
    BY <1>4, <2>1, SoloFacts DEF Facts
  <2> QED BY <1>5, <2>1, <2>2, LedgerMoves
<1>12. CASE FailMove(w, s)
  <2>1. /\ run'[t] = Free /\ run[t].step = "move" /\ UNCHANGED <<hash, abandoned>>
        /\ \A j \in Jobs \ {k} : j \in zset'.dlq <=> j \in zset.dlq
        /\ IF run[t].tries >= MaxAttempts THEN k \in zset'.dlq ELSE k \in Pending'
    BY <1>0, <1>1, <1>12 DEF FailMove, OutOfTries, Release, At, SoloType, TypeOK, ZSets, Pending
  <2>2. run[t].tries = hash[k].attempts /\ hash[k].attempts <= MaxAttempts
    BY <1>1, <1>2, <2>1 DEF Recorded, Placed
  <2>3. Row(k) = Is("taken", hash[k].attempts - 1)
    BY <1>4, <2>1
  <2>4. \A j \in Jobs \ {k} : Row(j)' = Row(j)
    BY <1>5, <2>1
  <2>5. CASE run[t].tries >= MaxAttempts
    <3>1. Row(k)' = Is("dead", MaxAttempts)
      BY <2>1, <2>5, SoloFacts DEF Facts
    <3>2. (hash[k].attempts - 1) + 1 = MaxAttempts
      BY <1>0, <1>2, <2>2, <2>5
    <3> QED BY <2>3, <2>4, <3>1, <3>2, LedgerMoves
  <2>6. CASE ~ (run[t].tries >= MaxAttempts)
    <3>1. Row(k)' = Is("queued", hash[k].attempts)
      BY <2>1, <2>6, SoloFacts DEF Facts
    <3>2. hash[k].attempts = (hash[k].attempts - 1) + 1 /\ hash[k].attempts < MaxAttempts
      BY <1>0, <1>2, <2>2, <2>6
    <3> QED BY <2>3, <2>4, <3>1, <3>2, LedgerMoves
  <2> QED BY <2>5, <2>6
<1>13. CASE ProcessError(w, s)
  <2>1. run'[t] = Free /\ UNCHANGED <<zset, hash>> /\ abandoned' = abandoned \cup {k}
    BY <1>0, <1>1, <1>13 DEF ProcessError, Release, SoloType, TypeOK
  <2>2. Row(k)' = Is("lost", 0)
    BY <2>1, SoloFacts DEF Facts
  <2>3. \A j \in Jobs \ {k} : Row(j)' = Row(j)
    BY <1>5, <2>1
  <2>4. Row(k).phase = "taken"
    BY <1>4 DEF Is
  <2> QED BY <2>2, <2>3, <2>4, LedgerLoses, {k} \in SUBSET Jobs
<1> QED BY <1>7, <1>8, <1>9, <1>10, <1>11, <1>12, <1>13 DEF Process

LEMMA LedgerRetry ==
  ASSUME NEW w \in Workers, SoloType(w), SoloType(w)', OneRetrier, NEW a \in Retriers,
         RetryStep(a) \/ RetryError(a) \/ \E j \in Jobs : RetryCheck(a, j)
  PROVE  LedgerStep
<1>0. \A b \in Retriers : b = a
  BY DEF OneRetrier
<1>1. run' = run
  BY DEF RetryStep, RetryRemove, RetryReset, RetryEnqueue, RetryError, RetryCheck
<1>2. /\ \A j : j \in Retrying <=> retry[a].step \in {"reset", "enqueue"} /\ j = retry[a].job
      /\ \A j : j \in Retrying' <=> retry'[a].step \in {"reset", "enqueue"} /\ j = retry'[a].job
  BY <1>0 DEF Retrying
<1>3. CASE \E j \in Jobs : RetryCheck(a, j)
  <2>1. retry[a] = NoRetry /\ retry'[a].step = "remove" /\ UNCHANGED <<zset, hash, abandoned>>
    BY <1>3 DEF RetryCheck, SoloType, TypeOK
  <2>2. Retrying = Retrying'
    BY <1>2, <2>1 DEF NoRetry
  <2> QED BY <1>1, <2>1, <2>2, RowQuiet, LedgerStays
<1> SUFFICES ASSUME RetryStep(a) \/ RetryError(a) PROVE LedgerStep
  BY <1>3
<1>4. retry[a] # NoRetry /\ Reviving(a)
  BY DEF RetryStep, RetryRemove, RetryReset, RetryEnqueue, RetryError, NoRetry,
         SoloType, SoloInv, AllReviving
<1>5. PICK k \in Jobs : k = retry[a].job
  BY <1>4, RetryPlace DEF SoloType, SoloInv
<1>6. k \in zset.dlq \cup Retrying /\ hash[k] \in Hash /\ Row(k) = Is("dead", MaxAttempts)
  <2>1. k \in zset.dlq \cup Retrying
    BY <1>4, <1>5, RetryPlace DEF SoloType, SoloInv
  <2> QED BY <2>1, HashType, SoloFacts DEF Facts, SoloType
<1>7. ASSUME retry'[a] # NoRetry => retry'[a].job = k,
             \A j \in Jobs \ {k} : /\ hash'[j] = hash[j] /\ (j \in abandoned' <=> j \in abandoned)
                                   /\ (j \in zset'.dlq <=> j \in zset.dlq)
      PROVE  \A j \in Jobs \ {k} : Row(j)' = Row(j)
  <2> TAKE j \in Jobs \ {k}
  <2>1. j \notin Retrying /\ j \notin Retrying'
    BY <1>2, <1>5, <1>7 DEF NoRetry
  <2> QED BY <1>1, <1>7, <2>1, RowQuiet
<1>8. CASE RetryRemove(a) \/ RetryReset(a)
  <2>1. /\ retry'[a].step \in {"reset", "enqueue"} /\ retry'[a].job = k /\ abandoned' = abandoned
        /\ \A j \in Jobs \ {k} : hash'[j] = hash[j] /\ (j \in zset'.dlq <=> j \in zset.dlq)
    BY <1>4, <1>5, <1>6, <1>8, RetryType
       DEF RetryRemove, RetryReset, SoloType, TypeOK, RetryCall, ZSets, Hash
  <2>2. k \in Retrying'
    BY <1>2, <2>1
  <2>3. Row(k)' = Row(k)
    BY <1>6, <2>2, SoloFacts DEF Facts
  <2> QED BY <1>7, <2>1, <2>3, LedgerStays
<1>9. CASE RetryEnqueue(a)
  <2>1. /\ retry'[a] = NoRetry /\ UNCHANGED <<hash, abandoned>> /\ zset'.dlq = zset.dlq
        /\ k \in Pending' /\ retry[a].step = "enqueue"
    BY <1>5, <1>9 DEF RetryEnqueue, SoloType, TypeOK, ZSets, Pending
  <2>2. hash[k].attempts = 0
    BY <1>4, <1>5, <2>1 DEF Reviving
  <2>3. Row(k)' = Is("queued", 0)
    BY <2>1, <2>2, SoloFacts DEF Facts
  <2> QED BY <1>6, <1>7, <2>1, <2>3, LedgerMoves
<1>10. CASE RetryError(a)
  <2>1. /\ retry'[a] = NoRetry /\ UNCHANGED <<hash, zset>>
        /\ abandoned' = abandoned \cup (IF retry[a].step = "remove" THEN {} ELSE {k})
    BY <1>5, <1>10 DEF RetryError, SoloType, TypeOK
  <2>2. \A j \in Jobs \ {k} : Row(j)' = Row(j)
    BY <1>7, <2>1
  <2>3. CASE retry[a].step = "remove"
    <3>1. k \in zset'.dlq
      BY <1>4, <1>5, <2>1, <2>3 DEF Reviving
    <3>2. Row(k)' = Row(k)
      BY <1>6, <3>1, SoloFacts DEF Facts
    <3> QED BY <2>2, <3>2, LedgerStays
  <2>4. CASE retry[a].step # "remove"
    <3>1. Row(k)' = Is("lost", 0) /\ Row(k).phase = "dead"
      BY <1>6, <2>1, <2>4, SoloFacts DEF Facts, Is
    <3> QED BY <2>2, <3>1, LedgerLoses, {k} \in SUBSET Jobs
  <2> QED BY <2>3, <2>4
<1> QED BY <1>8, <1>9, <1>10 DEF RetryStep

LEMMA LedgerLifecycle ==
  ASSUME NEW w \in Workers, SoloType(w), SoloType(w)', NEW v \in Workers,
         Stop(v) \/ Exit(v) \/ Crash(v) \/ Start(v)
  PROVE  LedgerStep
<1>1. CASE Stop(v) \/ Start(v)
  BY <1>1, LedgerQuiet DEF Stop, Start
<1>2. CASE ProcessEnds(v)
  <2>1. /\ UNCHANGED <<zset, hash, retry>> /\ abandoned' = abandoned \cup HeldBy(v)
        /\ \A t \in Threads : run'[t] = IF t[1] = v THEN Free ELSE run[t]
    BY <1>2 DEF ProcessEnds
  <2>2. HeldBy(v) \subseteq Jobs /\ HeldBy(v) \subseteq Held /\ Held' = Held \ HeldBy(v)
    BY <1>2, HeldType, HoldNone DEF SoloType, SoloInv, Held
  <2>3. ASSUME NEW j \in HeldBy(v)
        PROVE  Row(j).phase \in {"queued", "taken", "dead"} /\ Row(j)' = Is("lost", 0)
    <3>1. Row(j).phase = "taken"
      BY <2>2, SoloFacts DEF Facts, Is
    <3>2. Row(j)' = Is("lost", 0)
      BY <2>1, <2>2, SoloFacts DEF Facts
    <3> QED BY <3>1, <3>2
  <2>4. ASSUME NEW j \in Jobs \ HeldBy(v) PROVE Row(j)' = Row(j)
    <3>1. \A t \in Threads : run[t].job = j => run'[t] = run[t]
      <4> SUFFICES ASSUME NEW t \in Threads, run[t].job = j, t[1] = v PROVE FALSE
        BY <2>1
      <4>1. run[t] # Free /\ t[2] \in Slots /\ t = <<v, t[2]>>
        BY ThreadType DEF SoloType, Threads
      <4> QED BY <4>1 DEF HeldBy, Busy
    <3>2. \A t \in Threads : run'[t].job = j => run'[t] = run[t]
      BY <2>1, JobQueueAssumption DEF Free
    <3>3. Written(j)' <=> Written(j)
      BY <3>1, <3>2 DEF Written
    <3> QED BY <2>1, <2>2, <3>3, SameRetries, RowSame DEF SoloType, SoloInv
  <2> QED BY <2>2, <2>3, <2>4, LedgerLoses
<1> QED BY <1>1, <1>2 DEF Exit, Crash

\* With one worker process the commands of Queue.js, which are apart, add up to
\* the promises of JobLedger: one taker of a job at a time, a failed try counted
\* exactly once, burial after exactly maxAttempts of them, completed and dropped
\* jobs staying so, whatever fails, stops, crashes and restarts in between.
THEOREM LedgerIsKept == ASSUME OneWorker, OneRetrier PROVE Spec => ImplementsLedger
<1>1. PICK w \in Workers : Workers = {w}
  BY DEF OneWorker
<1>2. Spec => []SoloType(w)
  <2>1. SoloType(w) <=> TypeOK /\ SoloInv(w)
    BY DEF SoloType
  <2>2. Spec => [](TypeOK /\ SoloInv(w))
    BY <1>1, SoloAlways
  <2> QED BY <2>1, <2>2, PTL
<1>3. Init => Ledger!Init
  <2> SUFFICES ASSUME Init PROVE Ledger!Init
    OBVIOUS
  <2>1. \A j \in Jobs : hash[j].status = "none" /\ hash[j].attempts = 0
    BY DEF Init
  <2>2. SoloType(w)
    BY TypeInit, SoloInit DEF SoloType
  <2>3. \A j \in Jobs : Row(j) = Is("absent", 0)
    BY <2>1, <2>2, FactsHold DEF Facts, SoloType, SoloInv
  <2>4. \A j \in Jobs : Phase(j) = "absent" /\ Tries(j) = 0
    BY <2>3 DEF Row, Is
  <2> QED BY <2>4 DEF Ledger!Init
<1>4. ASSUME SoloType(w), SoloType(w)', [Next]_vars PROVE LedgerStep
  <2>1. CASE UNCHANGED vars
    BY <1>4, <2>1, LedgerQuiet DEF vars
  <2>2. ASSUME NEW j \in Jobs, RunAtPasses(j) PROVE LedgerStep
    <3>1. UNCHANGED <<hash, run, retry, abandoned>> /\ zset'.dlq = zset.dlq
      BY <1>4, <2>2 DEF RunAtPasses, SoloType, TypeOK, ZSets
    <3> QED BY <1>4, <3>1, LedgerQuiet
  <2> QED
    BY <1>1, <1>4, <2>1, <2>2, LedgerAdd, LedgerPoll, LedgerProcess, LedgerRetry, LedgerLifecycle DEF Next
<1>5. LedgerStep => [Ledger!Next]_([j \in Jobs |-> [phase |-> Phase(j), tries |-> Tries(j)]])
  BY DEF LedgerStep, Table
<1> QED BY <1>2, <1>3, <1>4, <1>5, PTL DEF Spec, ImplementsLedger, Ledger!Spec

=============================================================================
