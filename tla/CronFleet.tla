------------------------------- MODULE CronFleet -------------------------------
(***************************************************************************)
(* One cron job of the worker processes: scheduleWithLock of               *)
(* apps/workers/src/index.js, on the queue its handler adds to. Every      *)
(* instance has the schedule; the one that sets the lock cron:lock:<job>   *)
(* runs the handler, which adds a job, and then deletes the lock. The lock *)
(* has a time to live, shorter than the interval of every job registered.  *)
(*                                                                         *)
(* The clocks of the instances are a little apart, so each fires a tick at *)
(* a moment of its own. Redis answers or rejects a command long before the *)
(* next tick, but a process may be suspended for longer than the lock      *)
(* lives. The client of an instance has the defaults of ioredis: a command *)
(* whose reply is lost with the connection is sent again after the         *)
(* reconnection, though it may have been executed.                         *)
(***************************************************************************)
EXTENDS JobQueue

CONSTANTS
  Polling,  \* the instances whose polls are followed
  MaxTicks, \* bound on the ticks of the schedule
  NoLock    \* the key does not exist

ASSUME CronAssumption ==
  Polling \subseteq Workers /\ MaxTicks \in Nat /\ NoLock \notin Workers

VARIABLES
  tick,    \* the last tick of the schedule
  fired,   \* instances whose clock has passed it, or that are past firing it
  lock,    \* the value of the key: the instance that set it
  handler, \* instance -> where its scheduled function stands
  adding,  \* instance -> the job of an add that is to be sent again
  event,   \* what has happened to this tick: see Events
  putBack  \* jobs that an add sent again has changed

queueVars == <<zset, score, hash, proc, run, retry, abandoned>>
cronVars == <<tick, fired, lock, handler, adding, event, putBack>>
fleetVars == <<vars, cronVars>>

\* tried: a SET was answered. served: the job was added. dropped: a command
\* rejected, an instance went down or the reply to the SET that took the lock
\* was lost, before the job was added. outlived: the lock ran out under a
\* handler. resent: a DEL is sent again.
Events == {"tried", "served", "dropped", "outlived", "resent"}

FleetInit ==
  /\ Init
  /\ tick = 0 /\ fired = Workers /\ lock = NoLock
  /\ handler = [w \in Workers |-> "idle"]
  /\ adding = [w \in Workers |-> NoJob]
  /\ event = {} /\ putBack = {}

Handling == {w \in Workers : handler[w] # "idle"}

Step(w, to) == handler' = [handler EXCEPT ![w] = to]
Note(e) == event' = event \cup {e}

-----------------------------------------------------------------------------

\* Mutant of Untaken: SET without NX.
UntakenAny == TRUE
Untaken == lock = NoLock

Firing(w) == proc[w].mode # "down" /\ w \notin fired

\* The schedule fires at w: SET key pid EX ttl NX. Without OK it is skipped,
\* also when the key is w's own, of a SET whose reply was lost.
Fire(w) ==
  /\ Firing(w)
  /\ fired' = fired \cup {w}
  /\ IF Untaken THEN lock' = w /\ Step(w, "add") ELSE UNCHANGED <<lock, handler>>
  /\ Note("tried")
  /\ UNCHANGED <<tick, adding, putBack, vars>>

\* The SET is executed and its reply lost: the next Fire sends it again.
FireUnanswered(w) ==
  /\ Firing(w) /\ Untaken
  /\ Spend("error")
  /\ lock' = w
  /\ Note("dropped")
  /\ UNCHANGED <<tick, fired, handler, adding, putBack, queueVars>>

\* The SET rejects, outside the try: node-cron takes the error.
FireFails(w) ==
  /\ Firing(w)
  /\ Spend("error")
  /\ fired' = fired \cup {w}
  /\ UNCHANGED <<tick, lock, handler, adding, event, putBack, queueVars>>

\* The handler: queue.add
Handle(w) ==
  /\ handler[w] = "add" /\ adding[w] = NoJob
  /\ \E j \in Jobs : Add(j, FALSE)
  /\ Step(w, "del")
  /\ Note("served")
  /\ UNCHANGED <<tick, fired, lock, adding, putBack>>

\* The pipeline of add is executed and its replies lost; at most once a handler.
HandleUnanswered(w) ==
  /\ handler[w] = "add" /\ adding[w] = NoJob
  /\ \E j \in Jobs : Add(j, FALSE) /\ adding' = [adding EXCEPT ![w] = j]
  /\ UNCHANGED <<tick, fired, lock, handler, event, putBack>>

\* It is sent again, whatever has become of the job meanwhile.
HandleAgain(w) ==
  /\ handler[w] = "add" /\ adding[w] # NoJob
  /\ Put(adding[w], FALSE) /\ UNCHANGED <<proc, run, retry, abandoned, spent>>
  /\ putBack' = putBack \cup (IF UNCHANGED <<zset, score, hash>> THEN {} ELSE {adding[w]})
  /\ Step(w, "del")
  /\ adding' = [adding EXCEPT ![w] = NoJob]
  /\ Note("served")
  /\ UNCHANGED <<tick, fired, lock>>

\* queue.add fails, or its resend: the lock is deleted all the same.
HandleFails(w) ==
  /\ handler[w] = "add"
  /\ Spend("error")
  /\ Step(w, "del")
  /\ adding' = [adding EXCEPT ![w] = NoJob]
  /\ Note("dropped")
  /\ UNCHANGED <<tick, fired, lock, putBack, queueVars>>

\* DEL, whoever owns the lock; or it rejects.
Unlock(w) ==
  /\ handler[w] = "del"
  /\ Step(w, "idle")
  /\ \/ lock' = NoLock /\ UNCHANGED vars
     \/ lock' = lock /\ Spend("error") /\ UNCHANGED queueVars
  /\ UNCHANGED <<tick, fired, adding, event, putBack>>

\* The DEL is executed and its reply lost: Unlock sends it again.
UnlockUnanswered(w) ==
  /\ handler[w] = "del"
  /\ Spend("error")
  /\ lock' = NoLock
  /\ Note("resent")
  /\ UNCHANGED <<tick, fired, handler, adding, putBack, queueVars>>

\* The lock's time runs out before its instance, suspended meanwhile, deletes it.
LockExpires ==
  /\ lock # NoLock
  /\ lock' = NoLock
  /\ event' = IF Handling = {} THEN event ELSE event \cup {"outlived"}
  /\ UNCHANGED <<tick, fired, handler, adding, putBack, vars>>

\* Mutant of LeftOver: SET without EX.
LeftOverForEver == lock
\* What is left of the lock of a tick at the next one.
LeftOver == NoLock

\* The next tick of the schedule, which the instances that are down miss.
NextTick ==
  /\ tick < MaxTicks /\ fired = Workers /\ Handling = {}
  /\ tick' = tick + 1
  /\ fired' = {w \in Workers : proc[w].mode = "down"}
  /\ lock' = LeftOver
  /\ event' = {}
  /\ UNCHANGED <<handler, adding, putBack, vars>>

\* An instance that goes down drops its handler and leaves its lock.
Down(w) ==
  /\ Exit(w) \/ Crash(w)
  /\ fired' = fired \cup {w}
  /\ Step(w, "idle")
  /\ adding' = [adding EXCEPT ![w] = NoJob]
  /\ event' = IF handler[w] = "add" THEN event \cup {"dropped"} ELSE event
  /\ UNCHANGED <<tick, lock, putBack>>

QueueStep ==
  /\ \/ \E w \in Workers : Stop(w) \/ Start(w)
     \/ \E w \in Polling :
          \/ Poll(w) \/ PollError(w) \/ PopUnanswered(w) \/ PromoteError(w)
          \/ \E s \in Slots : Process(w, s) \/ ProcessError(w, s)
  /\ UNCHANGED cronVars

CronStep(w) ==
  \/ Fire(w) \/ FireUnanswered(w) \/ FireFails(w)
  \/ Handle(w) \/ HandleUnanswered(w) \/ HandleAgain(w) \/ HandleFails(w)
  \/ Unlock(w) \/ UnlockUnanswered(w) \/ Down(w)

FleetNext == QueueStep \/ NextTick \/ LockExpires \/ \E w \in Workers : CronStep(w)

FleetSpec == FleetInit /\ [][FleetNext]_fleetVars

-----------------------------------------------------------------------------
(* Correctness.                                                            *)

\* Two instances are in the handler of one tick at once only if a lock ran out
\* under a running handler or a DEL had to be sent again, its reply lost. A DEL
\* that rejects, a SET or an add that is sent again, a crash, a stop and a
\* restart do not bring it about (scheduleWithLock).
HandlersApart ==
  \A w1, w2 \in Workers :
    handler[w1] = "add" /\ handler[w2] = "add" /\ w1 # w2 =>
      "outlived" \in event \/ "resent" \in event

\* A tick that some instance tries is not skipped by all: once every instance
\* has fired it, its job was added, unless the instance that took the lock
\* went down, failed to add the job, or never learnt that it has the lock, the
\* reply to its SET being lost. A lock left by an earlier tick does not stop it
\* (scheduleWithLock).
TickServed ==
  fired = Workers /\ Handling = {} /\ "tried" \in event =>
    "served" \in event \/ "dropped" \in event

\* A worker of the fleet runs at most `concurrency` jobs unless an add, sent
\* again after a lost reply, has put back a job: _poll's catch that forgets a
\* batch, a script of dequeue sent again, stops and restarts do not bring it
\* about (_poll, Worker.js; add, Queue.js).
FleetWithinConcurrency == putBack = {} => WithinConcurrency
=============================================================================
