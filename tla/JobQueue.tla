------------------------------- MODULE JobQueue -------------------------------
(***************************************************************************)
(* One Redis-backed job queue of packages/queue-engine (Queue.js) and the  *)
(* worker processes that poll it (Worker.js), command by command: every    *)
(* `await` on Redis ends a step, so the steps of several worker processes, *)
(* of a worker's concurrent jobs and of retryDLQ interleave.               *)
(*                                                                         *)
(* Redis runs one command (a Lua script, a pipeline written in one         *)
(* buffer) at a time. A failing pipeline is silent in ioredis (exec()      *)
(* resolves with the errors inside); any other failing command rejects. A  *)
(* command whose reply is lost with the connection is sent again by        *)
(* ioredis; here that is followed for the one it makes a difference to     *)
(* within a process, the script of dequeue.                                *)
(***************************************************************************)
EXTENDS Integers, FiniteSets

CONSTANTS
  Jobs,        \* job ids
  Workers,     \* worker processes polling the queue
  Slots,       \* names for the jobs a worker runs at a time
  Retriers,    \* concurrent callers of retryDLQ
  NoJob,       \* an empty slot
  Concurrency, \* Worker option `concurrency`
  MaxAttempts, \* job option `maxAttempts`
  Priority,    \* job option `priority`, per job
  Budget       \* bound on each kind of fault and of external call

Faults == {"exit", "error", "retry"}

ASSUME JobQueueAssumption ==
  /\ NoJob \notin Jobs
  /\ IsFiniteSet(Slots)
  /\ Concurrency \in Nat \ {0}
  /\ MaxAttempts \in Nat \ {0}
  /\ Priority \in [Jobs -> Int]
  /\ Budget \in [Faults -> Nat]

VARIABLES
  zset,      \* members of the ZSETs; `due` are those of delayed with runAt <= now
  score,     \* scores in waiting
  hash,      \* job hashes
  proc,      \* worker processes: _poll, _activeJobs and stop
  run,       \* the _process call in each slot of each worker
  retry,     \* the retryDLQ call of each retrier
  abandoned, \* jobs an execution or a retry dropped half-way
  spent      \* how much of Budget is used

vars == <<zset, score, hash, proc, run, retry, abandoned, spent>>

-----------------------------------------------------------------------------

Threads == Workers \X Slots
FailSteps == {"read", "unlist", "record", "status", "move"}

ZSets == [waiting : SUBSET Jobs, active : SUBSET Jobs, delayed : SUBSET Jobs,
          due : SUBSET Jobs, dlq : SUBSET Jobs]

Hash == [status : {"none", "waiting", "completed", "failed"}, attempts : Nat]

\* step: where _poll stands, left: iterations left of its loop, promo:
\* dueJobIds, batch: slots whose promises it awaits, tracked: slots whose
\* promise is in _activeJobs, waits: slots stop() still waits for.
Proc == [mode : {"up", "stopping", "down"},
         step : {"idle", "scan", "promote", "pop", "await"},
         left : Nat, promo : SUBSET Jobs, batch : SUBSET Slots,
         tracked : SUBSET Slots, waits : SUBSET Slots]

Running == [step : {"run", "complete"} \cup FailSteps, job : Jobs, tries : Nat]
Free == [step |-> "idle", job |-> NoJob, tries |-> 0]

RetryCall == [step : {"remove", "reset", "enqueue"}, job : Jobs]
NoRetry == [step |-> "idle", job |-> NoJob]

Fresh(mode) ==
  [mode |-> mode, step |-> "idle", left |-> 0, promo |-> {}, batch |-> {},
   tracked |-> {}, waits |-> {}]

TypeOK ==
  /\ zset \in ZSets /\ zset.due \subseteq zset.delayed
  /\ score \in [Jobs -> Int]
  /\ hash \in [Jobs -> Hash]
  /\ proc \in [Workers -> Proc]
  /\ run \in [Threads -> Running \cup {Free}]
  /\ retry \in [Retriers -> RetryCall \cup {NoRetry}]
  /\ abandoned \subseteq Jobs
  /\ spent \in [Faults -> Nat]

Init ==
  /\ zset = [waiting |-> {}, active |-> {}, delayed |-> {}, due |-> {}, dlq |-> {}]
  /\ score = [j \in Jobs |-> 0]
  /\ hash = [j \in Jobs |-> [status |-> "none", attempts |-> 0]]
  /\ proc = [w \in Workers |-> Fresh("up")]
  /\ run = [t \in Threads |-> Free]
  /\ retry = [a \in Retriers |-> NoRetry]
  /\ abandoned = {}
  /\ spent = [f \in Faults |-> 0]

Spend(f) ==
  /\ spent[f] < Budget[f]
  /\ spent' = [spent EXCEPT ![f] = @ + 1]

\* The jobs that worker w has in hand, from the pop to the end of complete or fail.
Busy(w) == {s \in Slots : run[<<w, s>>] # Free}
HeldBy(w) == {run[<<w, s>>].job : s \in Busy(w)}
Held == UNION {HeldBy(w) : w \in Workers}

\* Jobs a retryDLQ call has taken out of the dlq and not yet put back.
Retrying == {retry[a].job : a \in {a \in Retriers : retry[a].step \in {"reset", "enqueue"}}}

-----------------------------------------------------------------------------
(* Queue.add, and the passing of a delayed job's runAt.                    *)

\* The hset/zadd pipeline.
Put(j, delay) ==
  /\ hash' = [hash EXCEPT ![j] = [status |-> "waiting", attempts |-> 0]]
  /\ IF delay
     THEN zset' = [zset EXCEPT !.delayed = @ \cup {j}] /\ UNCHANGED score
     ELSE /\ zset' = [zset EXCEPT !.waiting = @ \cup {j}]
          /\ score' = [score EXCEPT ![j] = -Priority[j]]

\* A new job: its id is a new uuid.
Add(j, delay) ==
  /\ hash[j].status = "none"
  /\ Put(j, delay)
  /\ UNCHANGED <<proc, run, retry, abandoned, spent>>

RunAtPasses(j) ==
  /\ j \in zset.delayed \ zset.due
  /\ zset' = [zset EXCEPT !.due = @ \cup {j}]
  /\ UNCHANGED <<score, hash, proc, run, retry, abandoned, spent>>

-----------------------------------------------------------------------------
(* Worker._poll and the Queue.dequeue calls it awaits one after another.   *)

\* Mutant of SlotsLeft: jobs of a batch that _poll's catch forgot not counted.
SlotsLeftForgetful(w) == Concurrency
SlotsLeft(w) == Concurrency - Cardinality(proc[w].tracked)

PollStart(w) ==
  /\ proc[w].mode = "up" /\ proc[w].step = "idle"
  /\ SlotsLeft(w) > 0
  /\ proc' = [proc EXCEPT ![w].step = "scan", ![w].left = SlotsLeft(w)]
  /\ UNCHANGED <<zset, score, hash, run, retry, abandoned, spent>>

\* _promoteDelayed: zrangebyscore -inf now
Scan(w) ==
  /\ proc[w].step = "scan"
  /\ proc' = [proc EXCEPT ![w].promo = zset.due,
                          ![w].step = IF zset.due = {} THEN "pop" ELSE "promote"]
  /\ UNCHANGED <<zset, score, hash, run, retry, abandoned, spent>>

\* Mutants of Promoted: the zrem, or the zadd, is missing.
PromotedByCopy(w) == [zset EXCEPT !.waiting = @ \cup proc[w].promo]
PromotedNowhere(w) ==
  [zset EXCEPT !.delayed = @ \ proc[w].promo, !.due = @ \ proc[w].promo]

\* The zrem/zadd pipeline of _promoteDelayed, for the ids read before.
Promoted(w) ==
  [zset EXCEPT !.waiting = @ \cup proc[w].promo, !.delayed = @ \ proc[w].promo,
               !.due = @ \ proc[w].promo]

Promote(w) ==
  /\ proc[w].step = "promote"
  /\ zset' = Promoted(w)
  /\ score' = [j \in Jobs |-> IF j \in proc[w].promo THEN 0 ELSE score[j]]
  /\ proc' = [proc EXCEPT ![w].promo = {}, ![w].step = "pop"]
  /\ UNCHANGED <<hash, run, retry, abandoned, spent>>

\* ZPOPMIN waiting, ZADD active: one Lua script
PopMin(j) ==
  /\ j \in zset.waiting
  /\ \A k \in zset.waiting : score[j] <= score[k]
  /\ zset' = [zset EXCEPT !.waiting = @ \ {j}, !.active = @ \cup {j}]

\* The script, hgetall, and the start of _process: its promise replaces the
\* one _activeJobs may have for the job.
Pop(w, j, s) ==
  /\ proc[w].step = "pop"
  /\ PopMin(j)
  /\ run[<<w, s>>] = Free
  /\ run' = [run EXCEPT ![<<w, s>>] = [step |-> "run", job |-> j, tries |-> 0]]
  /\ proc' = [proc EXCEPT
       ![w].tracked = {r \in @ : run[<<w, r>>].job # j} \cup {s},
       ![w].batch = @ \cup {s},
       ![w].left = IF @ > 0 THEN @ - 1 ELSE 0,
       ![w].step = IF proc[w].left > 1 THEN "scan" ELSE "await"]
  /\ UNCHANGED <<score, hash, retry, abandoned, spent>>

\* dequeue returns null and the loop breaks
PopNothing(w) ==
  /\ proc[w].step = "pop"
  /\ zset.waiting = {}
  /\ proc' = [proc EXCEPT ![w].step = "await"]
  /\ UNCHANGED <<zset, score, hash, run, retry, abandoned, spent>>

\* Promise.allSettled of the batch, then setTimeout
PollEnd(w) ==
  /\ proc[w].step = "await"
  /\ proc[w].batch \cap Busy(w) = {}
  /\ proc' = [proc EXCEPT ![w].step = "idle", ![w].batch = {}]
  /\ UNCHANGED <<zset, score, hash, run, retry, abandoned, spent>>

\* A command of dequeue rejects: _poll's catch, which forgets the batch. When
\* it is the hgetall, the script has already moved a job to active.
PollError(w) ==
  /\ proc[w].step \in {"scan", "pop"}
  /\ Spend("error")
  /\ proc' = [proc EXCEPT ![w].step = "idle", ![w].batch = {}]
  /\ \/ UNCHANGED <<zset, abandoned>>
     \/ \E j \in Jobs : /\ proc[w].step = "pop"
                        /\ PopMin(j)
                        /\ abandoned' = abandoned \cup {j}
  /\ UNCHANGED <<score, hash, run, retry>>

\* The script is executed and its reply lost with the connection: ioredis sends
\* it again, and the job of the first execution is active in nobody's hands.
PopUnanswered(w) ==
  /\ proc[w].step = "pop"
  /\ Spend("error")
  /\ \E j \in Jobs : PopMin(j) /\ abandoned' = abandoned \cup {j}
  /\ UNCHANGED <<score, hash, proc, run, retry>>

\* The promotion pipeline fails: exec() resolves all the same.
PromoteError(w) ==
  /\ proc[w].step = "promote"
  /\ Spend("error")
  /\ proc' = [proc EXCEPT ![w].promo = {}, ![w].step = "pop"]
  /\ UNCHANGED <<zset, score, hash, run, retry, abandoned>>

-----------------------------------------------------------------------------
(* Worker._process in slot s of worker w, and its calls of Queue.complete  *)
(* and Queue.fail.                                                         *)

At(w, s, step) == run[<<w, s>>] # Free /\ run[<<w, s>>].step = step
Goto(w, s, step) == run' = [run EXCEPT ![<<w, s>>].step = step]

\* The `finally` clause: _activeJobs.delete(job.id), and the promise settles.
Release(w, s) ==
  /\ run' = [run EXCEPT ![<<w, s>>] = Free]
  /\ proc' = [proc EXCEPT
       ![w].tracked = {r \in @ : run[<<w, r>>].job # run[<<w, s>>].job},
       ![w].waits = @ \ {s}]

\* The processor resolves; or it rejects, or _timeout decides Promise.race.
ProcessorEnds(w, s) ==
  /\ At(w, s, "run")
  /\ Goto(w, s, "complete") \/ Goto(w, s, "read")
  /\ UNCHANGED <<zset, score, hash, proc, retry, abandoned, spent>>

Complete(w, s) ==
  LET j == run[<<w, s>>].job IN
  /\ At(w, s, "complete")
  /\ zset' = [zset EXCEPT !.active = @ \ {j}]
  /\ hash' = [hash EXCEPT ![j].status = "completed"]
  /\ Release(w, s)
  /\ UNCHANGED <<score, retry, abandoned, spent>>

\* Mutant of NextTries: a failed attempt is never counted.
NextTriesUncounted(j) == hash[j].attempts
\* Mutant of NextTries: the count goes the wrong way.
NextTriesDown(j) == hash[j].attempts - 1
NextTries(j) == hash[j].attempts + 1

\* hgetall
FailRead(w, s) ==
  /\ At(w, s, "read")
  /\ run' = [run EXCEPT ![<<w, s>>].step = "unlist",
                        ![<<w, s>>].tries = NextTries(run[<<w, s>>].job)]
  /\ UNCHANGED <<zset, score, hash, proc, retry, abandoned, spent>>

\* zrem active
FailUnlist(w, s) ==
  /\ At(w, s, "unlist")
  /\ zset' = [zset EXCEPT !.active = @ \ {run[<<w, s>>].job}]
  /\ Goto(w, s, "record")
  /\ UNCHANGED <<score, hash, proc, retry, abandoned, spent>>

\* hset attempts
FailRecord(w, s) ==
  /\ At(w, s, "record")
  /\ hash' = [hash EXCEPT ![run[<<w, s>>].job].attempts = run[<<w, s>>].tries]
  /\ Goto(w, s, "status")
  /\ UNCHANGED <<zset, score, proc, retry, abandoned, spent>>

\* Mutant of OutOfTries: one attempt too many.
OutOfTriesLate(w, s) == run[<<w, s>>].tries > MaxAttempts
OutOfTries(w, s) == run[<<w, s>>].tries >= MaxAttempts

\* hset status, runAt
FailStatus(w, s) ==
  /\ At(w, s, "status")
  /\ hash' = [hash EXCEPT ![run[<<w, s>>].job].status =
       IF OutOfTries(w, s) THEN "failed" ELSE "waiting"]
  /\ Goto(w, s, "move")
  /\ UNCHANGED <<zset, score, proc, retry, abandoned, spent>>

\* zadd dlq, or zadd delayed with a runAt in the future
FailMove(w, s) ==
  LET j == run[<<w, s>>].job IN
  /\ At(w, s, "move")
  /\ zset' = IF OutOfTries(w, s)
             THEN [zset EXCEPT !.dlq = @ \cup {j}]
             ELSE [zset EXCEPT !.delayed = @ \cup {j}, !.due = @ \ {j}]
  /\ Release(w, s)
  /\ UNCHANGED <<score, hash, retry, abandoned, spent>>

\* complete's pipeline fails in silence, or a command of fail rejects: the
\* promise settles and nobody works on the job any more.
ProcessError(w, s) ==
  /\ \E step \in {"complete"} \cup FailSteps : At(w, s, step)
  /\ Spend("error")
  /\ abandoned' = abandoned \cup {run[<<w, s>>].job}
  /\ Release(w, s)
  /\ UNCHANGED <<zset, score, hash, retry>>

-----------------------------------------------------------------------------
(* Queue.retryDLQ, called by a.                                            *)

\* zscore dlq finds the job
RetryCheck(a, j) ==
  /\ retry[a] = NoRetry
  /\ j \in zset.dlq
  /\ Spend("retry")
  /\ retry' = [retry EXCEPT ![a] = [step |-> "remove", job |-> j]]
  /\ UNCHANGED <<zset, score, hash, proc, run, abandoned>>

\* zrem dlq, whose count is not looked at
RetryRemove(a) ==
  /\ retry[a].step = "remove"
  /\ zset' = [zset EXCEPT !.dlq = @ \ {retry[a].job}]
  /\ retry' = [retry EXCEPT ![a].step = "reset"]
  /\ UNCHANGED <<score, hash, proc, run, abandoned, spent>>

\* Mutant of Revived: the tries of the buried job are kept.
RevivedAsIs(h) == [h EXCEPT !.status = "waiting"]
Revived(h) == [h EXCEPT !.status = "waiting", !.attempts = 0]

\* hset status, attempts
RetryReset(a) ==
  /\ retry[a].step = "reset"
  /\ hash' = [hash EXCEPT ![retry[a].job] = Revived(@)]
  /\ retry' = [retry EXCEPT ![a].step = "enqueue"]
  /\ UNCHANGED <<zset, score, proc, run, abandoned, spent>>

\* zadd waiting
RetryEnqueue(a) ==
  /\ retry[a].step = "enqueue"
  /\ zset' = [zset EXCEPT !.waiting = @ \cup {retry[a].job}]
  /\ score' = [score EXCEPT ![retry[a].job] = 0]
  /\ retry' = [retry EXCEPT ![a] = NoRetry]
  /\ UNCHANGED <<hash, proc, run, abandoned, spent>>

\* A command rejects, or the calling process dies.
RetryError(a) ==
  /\ retry[a] # NoRetry
  /\ Spend("error")
  /\ abandoned' = abandoned \cup (IF retry[a].step = "remove" THEN {} ELSE {retry[a].job})
  /\ retry' = [retry EXCEPT ![a] = NoRetry]
  /\ UNCHANGED <<zset, score, hash, proc, run>>

-----------------------------------------------------------------------------
(* Process lifecycle: Worker.stop as called by gracefulShutdown in         *)
(* apps/workers/src/index.js, process.exit, crashes and restarts.          *)

\* stop() up to its await: no new poll starts, and the promises now in
\* _activeJobs are the ones to wait for. A poll under way goes on.
Stop(w) ==
  /\ proc[w].mode = "up"
  /\ Spend("exit")
  /\ proc' = [proc EXCEPT ![w].mode = "stopping", ![w].waits = proc[w].tracked]
  /\ UNCHANGED <<zset, score, hash, run, retry, abandoned>>

\* The process ends; whatever it still held is dropped.
ProcessEnds(w) ==
  /\ proc' = [proc EXCEPT ![w] = Fresh("down")]
  /\ run' = [t \in Threads |-> IF t[1] = w THEN Free ELSE run[t]]
  /\ abandoned' = abandoned \cup HeldBy(w)
  /\ UNCHANGED <<zset, score, hash, retry>>

\* stop() has returned: redis.quit and process.exit(0)
Exit(w) ==
  /\ proc[w].mode = "stopping"
  /\ proc[w].waits = {}
  /\ ProcessEnds(w)
  /\ UNCHANGED spent

Crash(w) ==
  /\ proc[w].mode # "down"
  /\ Spend("exit")
  /\ ProcessEnds(w)

\* A new process starts its Worker on the same queue.
Start(w) ==
  /\ proc[w].mode = "down"
  /\ proc' = [proc EXCEPT ![w].mode = "up"]
  /\ UNCHANGED <<zset, score, hash, run, retry, abandoned, spent>>

-----------------------------------------------------------------------------

Poll(w) ==
  \/ PollStart(w) \/ Scan(w) \/ Promote(w) \/ PopNothing(w) \/ PollEnd(w)
  \/ \E j \in Jobs, s \in Slots : Pop(w, j, s)

Process(w, s) ==
  \/ ProcessorEnds(w, s) \/ Complete(w, s)
  \/ FailRead(w, s) \/ FailUnlist(w, s) \/ FailRecord(w, s)
  \/ FailStatus(w, s) \/ FailMove(w, s)

RetryStep(a) == RetryRemove(a) \/ RetryReset(a) \/ RetryEnqueue(a)

Next ==
  \/ \E j \in Jobs : RunAtPasses(j) \/ \E delay \in BOOLEAN : Add(j, delay)
  \/ \E w \in Workers :
       \/ Poll(w) \/ PollError(w) \/ PopUnanswered(w) \/ PromoteError(w)
       \/ Stop(w) \/ Exit(w) \/ Crash(w) \/ Start(w)
       \/ \E s \in Slots : Process(w, s) \/ ProcessError(w, s)
  \/ \E a \in Retriers :
       RetryStep(a) \/ RetryError(a) \/ \E j \in Jobs : RetryCheck(a, j)

Spec == Init /\ [][Next]_vars

\* Timers fire and awaited commands return while the process lives; a
\* processor settles or is timed out; a retryDLQ call runs to its end.
\* Nothing obliges a worker to stop, a job to be added or a retry to be made.
Fairness ==
  /\ \A j \in Jobs : WF_vars(RunAtPasses(j))
  /\ \A w \in Workers :
       /\ WF_vars(Poll(w)) /\ WF_vars(Exit(w)) /\ WF_vars(Start(w))
       /\ \A s \in Slots : WF_vars(Process(w, s))
  /\ \A a \in Retriers : WF_vars(RetryStep(a))

FairSpec == Spec /\ Fairness

-----------------------------------------------------------------------------
(* Correctness.                                                            *)

Done == {j \in Jobs : hash[j].status = "completed"}

Pending == zset.waiting \cup zset.delayed

\* No job vanishes: whatever the interleaving of any number of workers and
\* retries, a job that was added is in a queue, being worked on, completed,
\* or was dropped half-way by a process that died or a command that failed
\* (add, dequeue, complete, fail, retryDLQ of Queue.js).
Accounted ==
  \A j \in Jobs : hash[j].status # "none" =>
    j \in Pending \cup zset.dlq \cup Held \cup Retrying \cup Done \cup abandoned

\* Two _process calls never have the same job (dequeue of Queue.js).
OneHolder ==
  \A t1, t2 \in Threads :
    run[t1] # Free /\ run[t1].job = run[t2].job => t1 = t2

\* A job is in one place at a time: a queue, the hands of one _process or
\* retryDLQ call, the completed jobs or the dropped ones. True of a single
\* worker process; the read of _promoteDelayed breaks it for two.
OneOwner ==
  /\ OneHolder
  /\ Held \cap (Pending \cup zset.dlq \cup Retrying \cup Done \cup abandoned) = {}
  /\ zset.waiting \cap zset.delayed = {}
  /\ Pending \cap (zset.dlq \cup Retrying \cup Done \cup abandoned) = {}
  /\ zset.dlq \cap (Retrying \cup Done \cup abandoned) = {}
  /\ Retrying \cap (Done \cup abandoned) = {}
  /\ Done \cap abandoned = {}

\* The hash tells the truth about the queue a job is in, and a job is only
\* buried after exactly maxAttempts failures: the hset and zadd commands of
\* fail and retryDLQ are apart, but their jobs are nowhere in between.
HashAgrees ==
  \A j \in Jobs :
    /\ hash[j].attempts <= MaxAttempts
    /\ j \in Pending => hash[j].status = "waiting" /\ hash[j].attempts < MaxAttempts
    /\ j \in zset.dlq => hash[j].status = "failed" /\ hash[j].attempts = MaxAttempts
    /\ j \in zset.active => j \in Held \cup abandoned

\* A worker runs at most `concurrency` jobs, even when _poll's catch has
\* forgotten a batch that is still running (_poll, Worker.js).
WithinConcurrency == \A w \in Workers : Cardinality(Busy(w)) <= Concurrency

\* Every job comes to rest, in the completed jobs or in the dlq, after at
\* most maxAttempts runs, or is dropped by a fault; stops, restarts and a
\* second worker's stale promotions do not keep it going for ever.
EverySettles ==
  \A j \in Jobs : hash[j].status = "waiting" ~> j \in Done \cup zset.dlq \cup abandoned

\* "moves from waiting -> active atomically": no job is in both ZSETs (dequeue
\* and _promoteDelayed, Queue.js). A due job that two workers promote is.
MovedAtomically == zset.waiting \cap zset.active = {}
=============================================================================
