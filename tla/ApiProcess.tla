------------------------------ MODULE ApiProcess ------------------------------
(***************************************************************************)
(* The life of one API process around its connection pool: bootstrap and   *)
(* shutdown of apps/api/server.js with closeAll of ConnectionPool.js.      *)
(*                                                                         *)
(* server.close stops new connections and calls back when the open ones    *)
(* have ended: the requests still to be answered and the WebSocket         *)
(* connections, which nobody closes. A handler whose client has hung up    *)
(* goes on, and the server does not wait for it. A second signal runs      *)
(* shutdown again, whose callback finds nothing left to do.                *)
(***************************************************************************)
EXTENDS ConnectionPool

CONSTANT Sockets \* WebSocket clients

ASSUME ApiAssumption == None \notin {0, 1}

VARIABLES
  phase,   \* start, master, redis: bootstrap; serving, draining; pool, cleared,
           \* masterless: the callback of server.close; exited
  code,    \* the exit code
  sockets, \* open WebSocket connections
  gone,    \* requests whose client has hung up while their handler opens a connection
  orphans, \* connections that an entry gave up without closing them
  late     \* connections that came when closeAll had begun

apiVars == <<phase, code, sockets, gone, orphans, late>>
allVars == <<vars, apiVars>>

ApiInit ==
  /\ Init
  /\ phase = "start" /\ code = None
  /\ sockets = {} /\ gone = {} /\ orphans = {} /\ late = {}

Phase(from, to) == phase = from /\ phase' = to /\ UNCHANGED code

Ends(with) == phase' = "exited" /\ code' = with

-----------------------------------------------------------------------------
(* bootstrap: any of its steps may fail, which ends in exit(1).            *)

Booting(from, to) ==
  /\ Phase(from, to) \/ (phase = from /\ Ends(1))
  /\ UNCHANGED <<vars, sockets, gone, orphans, late>>

ConnectMaster == Booting("start", "master")

\* The ping is rejected, too, when the client is not ready yet.
PingRedis == Booting("master", "redis")

Listen == Booting("redis", "serving")

-----------------------------------------------------------------------------
(* Requests and WebSocket clients.                                         *)

Listening == phase \in {"serving", "draining"}

\* getConnection begins; a request may still come on a connection kept alive
\* while the server drains. An entry that is not connected is given up.
Begin(r, t) ==
  /\ Listening
  /\ \/ Hit(r, t) /\ UNCHANGED orphans
     \/ Miss(r, t) /\ orphans' = orphans \cup {pool[u].conn : u \in {t} \cap Pooled}
  /\ UNCHANGED <<phase, code, sockets, gone, late>>

\* The entry that another opening for the tenant has set meanwhile is replaced.
Replaced(r) == {pool[t].conn : t \in {req[r].tenant} \cap Pooled}

OpenedInTime(r, c) ==
  /\ r \notin gone /\ Listening
  /\ Opened(r, c)
  /\ orphans' = orphans \cup Replaced(r)
  /\ UNCHANGED <<phase, code, sockets, gone, late>>

\* The same for a handler whose answer nobody waits for.
OpenedForNobody(r, c) ==
  LET t == req[r].tenant IN
  /\ r \in gone /\ phase # "exited"
  /\ state[c] = "unused" /\ \A d \in Conns : d < c => state[d] # "unused"
  /\ \E s \in {"connecting", "connected"} : state' = [state EXCEPT ![c] = s]
  /\ pool' = [pool EXCEPT ![t] = [conn |-> c, lastUsed |-> now]]
  /\ asked' = [asked EXCEPT ![t] = now]
  /\ req' = [req EXCEPT ![r] = Idle]
  /\ gone' = gone \ {r}
  /\ orphans' = orphans \cup Replaced(r)
  /\ late' = IF Listening THEN late ELSE late \cup {c}
  /\ UNCHANGED <<now, drops, phase, code, sockets>>

Settled(r) ==
  /\ phase # "exited"
  /\ OpenFails(r) \/ Answered(r)
  /\ gone' = gone \ {r}
  /\ UNCHANGED <<phase, code, sockets, orphans, late>>

HangsUp(r) ==
  /\ Listening /\ req[r].step = "opening" /\ r \notin gone
  /\ gone' = gone \cup {r}
  /\ UNCHANGED <<vars, phase, code, sockets, orphans, late>>

\* A WebSocket connection opens (not once the server drains), or its client
\* closes it.
SocketStep(s) ==
  /\ \/ phase = "serving" /\ s \notin sockets /\ sockets' = sockets \cup {s}
     \/ Listening /\ s \in sockets /\ sockets' = sockets \ {s}
  /\ UNCHANGED <<vars, phase, code, gone, orphans, late>>

-----------------------------------------------------------------------------
(* shutdown                                                                *)

Signal == Phase("serving", "draining") /\ UNCHANGED <<vars, sockets, gone, orphans, late>>

\* Mutant of Drained: the pool is closed without waiting for server.close.
DrainedAtOnce == TRUE
Drained == sockets = {} /\ \A r \in Requests : req[r] = Idle \/ r \in gone

\* server.close calls back. closeAll starts to close every entry's connection,
CloseAll ==
  /\ Drained
  /\ Phase("draining", "pool")
  /\ state' = [c \in Conns |-> IF \E t \in Pooled : pool[t].conn = c THEN "closed" ELSE state[c]]
  /\ UNCHANGED <<now, pool, req, asked, drops, sockets, gone, orphans, late>>

\* and when all have settled, clears the Map.
Clear ==
  /\ Phase("pool", "cleared")
  /\ pool' = [t \in Tenants |-> NoEntry]
  /\ UNCHANGED <<now, state, req, asked, drops, sockets, gone, orphans, late>>

\* The callback's catch: exit(1)
CloseMaster ==
  /\ Phase("cleared", "masterless") \/ (phase = "cleared" /\ Ends(1))
  /\ UNCHANGED <<vars, sockets, gone, orphans, late>>

\* A client that does not quit is ignored: exit(0)
CloseRedis ==
  /\ phase = "masterless" /\ Ends(0)
  /\ UNCHANGED <<vars, sockets, gone, orphans, late>>

\* Thirty seconds after the signal: exit(1)
ForcedShutdown ==
  /\ phase \in {"draining", "pool", "cleared", "masterless"}
  /\ Ends(1)
  /\ UNCHANGED <<vars, sockets, gone, orphans, late>>

Elsewhere ==
  /\ phase # "exited"
  /\ Tick \/ \E c \in Conns : Connects(c) \/ Drops(c)
  /\ UNCHANGED apiVars

ApiNext ==
  \/ ConnectMaster \/ PingRedis \/ Listen
  \/ Signal \/ CloseAll \/ Clear \/ CloseMaster \/ CloseRedis \/ ForcedShutdown
  \/ Elsewhere
  \/ \E r \in Requests :
       \/ \E t \in Tenants : Begin(r, t)
       \/ \E c \in Conns : OpenedInTime(r, c) \/ OpenedForNobody(r, c)
       \/ Settled(r) \/ HangsUp(r)
  \/ \E s \in Sockets : SocketStep(s)

ApiSpec == ApiInit /\ [][ApiNext]_allVars

-----------------------------------------------------------------------------
(* Correctness.                                                            *)

Open == {c \in Conns : state[c] \notin {"unused", "closed"}}

\* exit(0) means what it says: every client that was still there has its
\* answer, and closeAll has closed every tenant connection but those an entry
\* gave up earlier and those a handler without a client opened meanwhile
\* (shutdown, closeAll, getConnection).
GracefulExit ==
  code = 0 => /\ \A r \in Requests : req[r] = Idle \/ r \in gone
              /\ Open \subseteq orphans \cup late

\* A connection that is open belongs to an entry, unless the entry gave it up:
\* because it was not connected when a request asked, or because an overlapping
\* opening for the tenant replaced it. An eviction leaves none behind
\* (getConnection, _evictLRU).
OnlyOrphansLeak ==
  phase \notin {"cleared", "masterless", "exited"} => Open \subseteq {pool[t].conn : t \in Pooled} \cup orphans
=============================================================================
