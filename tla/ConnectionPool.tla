---------------------------- MODULE ConnectionPool ----------------------------
(***************************************************************************)
(* The pool of per-tenant MongoDB connections (ConnectionPool.js) under    *)
(* concurrent requests. getConnection runs up to its await of              *)
(* createConnection in one turn, so the capacity is checked before the     *)
(* await and the new entry is set after it.                                *)
(*                                                                         *)
(* createConnection may return while the connection still connects; a      *)
(* connection may drop and come back by itself (mongoose).                 *)
(***************************************************************************)
EXTENDS Integers, FiniteSets

CONSTANTS
  Tenants,
  Requests,       \* requests served at a time
  None,
  MaxConnections, \* constructor argument, 100 in the code
  MaxConns,       \* bound: connections opened in all
  MaxTime,        \* bound: the last tick of the clock
  MaxDrops        \* bound: connections that drop

\* Connections, in the order they are opened
Conns == 1..MaxConns

ASSUME PoolAssumption ==
  /\ None \notin Tenants \cup Conns
  /\ IsFiniteSet(Tenants) /\ IsFiniteSet(Requests)
  /\ MaxConnections \in Nat \ {0}
  /\ MaxConns \in Nat /\ MaxTime \in Nat /\ MaxDrops \in Nat

VARIABLES
  now,
  pool,  \* tenant -> its entry in the Map
  state, \* connection -> its readyState; "unused" before it exists
  req,   \* request -> its getConnection call, then its use of the connection
  asked, \* tenant -> when it last asked for, or was given, a connection
  drops

vars == <<now, pool, state, req, asked, drops>>

NoEntry == [conn |-> None, lastUsed |-> 0]
Entry == [conn : Conns, lastUsed : 0..MaxTime]
States == {"unused", "connecting", "connected", "down", "closed"}
Idle == [step |-> "idle", tenant |-> None, conn |-> None, since |-> 0]
\* since: when the request got its connection
Opening == [step : {"opening"}, tenant : Tenants, conn : {None}, since : {0}]
Using == [step : {"using"}, tenant : Tenants, conn : Conns, since : 0..MaxTime]

TypeOK ==
  /\ now \in 0..MaxTime
  /\ pool \in [Tenants -> Entry \cup {NoEntry}]
  /\ state \in [Conns -> States]
  /\ req \in [Requests -> Opening \cup Using \cup {Idle}]
  /\ asked \in [Tenants -> 0..MaxTime]
  /\ drops \in 0..MaxDrops

Init ==
  /\ now = 0 /\ drops = 0
  /\ pool = [t \in Tenants |-> NoEntry]
  /\ state = [c \in Conns |-> "unused"]
  /\ req = [r \in Requests |-> Idle]
  /\ asked = [t \in Tenants |-> 0]

-----------------------------------------------------------------------------

Pooled == {t \in Tenants : pool[t] # NoEntry}
OpeningRequests == {r \in Requests : req[r].step = "opening"}

Alive(t) == t \in Pooled /\ state[pool[t].conn] = "connected"

\* Mutants of Touched: a hit counts as a later use, or as none.
TouchedAhead(t) == [pool EXCEPT ![t].lastUsed = now + 1]
TouchedNot(t) == pool
Touched(t) == [pool EXCEPT ![t].lastUsed = now]

\* getConnection finds a connection that is alive
Hit(r, t) ==
  /\ req[r] = Idle
  /\ Alive(t)
  /\ pool' = Touched(t)
  /\ req' = [req EXCEPT ![r] = [step |-> "using", tenant |-> t,
                                conn |-> pool[t].conn, since |-> now]]
  /\ asked' = [asked EXCEPT ![t] = now]
  /\ UNCHANGED <<now, state, drops>>

\* _evictLRU: the entries of S that may be the first with the least lastUsed
Oldest(S) == {v \in S : \A u \in S : pool[v].lastUsed <= pool[u].lastUsed}

\* Mutant of Full: the pool may hold one entry more.
FullLate(S) == Cardinality(S) > MaxConnections
Full(S) == Cardinality(S) >= MaxConnections

\* Mutant of Evicted: the entry goes and its connection stays.
EvictedOpen(v) == state
\* _evictLRU closes the connection of the entry it deletes
Evicted(v) == [state EXCEPT ![pool[v].conn] = "closed"]

\* getConnection finds none, or one that is not connected, which it drops
\* without closing it; when the rest of the pool is full, one entry goes.
Miss(r, t) ==
  LET rest == Pooled \ {t}
      without(S) == [u \in Tenants |-> IF u \in S THEN NoEntry ELSE pool[u]]
  IN
  /\ req[r] = Idle
  /\ ~ Alive(t)
  /\ \/ ~ Full(rest) /\ pool' = without({t}) /\ UNCHANGED state
     \/ /\ Full(rest)
        /\ \E v \in Oldest(rest) :
             /\ pool' = without({t, v})
             /\ state' = Evicted(v)
  /\ req' = [req EXCEPT ![r] = [step |-> "opening", tenant |-> t, conn |-> None, since |-> 0]]
  /\ asked' = [asked EXCEPT ![t] = now]
  /\ UNCHANGED <<now, drops>>

\* createConnection returns and pool.set replaces whatever the tenant has
Opened(r, c) ==
  LET t == req[r].tenant IN
  /\ req[r].step = "opening"
  /\ state[c] = "unused" /\ \A d \in Conns : d < c => state[d] # "unused"
  /\ \E s \in {"connecting", "connected"} : state' = [state EXCEPT ![c] = s]
  /\ pool' = [pool EXCEPT ![t] = [conn |-> c, lastUsed |-> now]]
  /\ req' = [req EXCEPT ![r] = [step |-> "using", tenant |-> t, conn |-> c, since |-> now]]
  /\ asked' = [asked EXCEPT ![t] = now]
  /\ UNCHANGED <<now, drops>>

\* createConnection rejects
OpenFails(r) ==
  /\ req[r].step = "opening"
  /\ req' = [req EXCEPT ![r] = Idle]
  /\ UNCHANGED <<now, pool, state, asked, drops>>

\* The request has been answered.
Answered(r) ==
  /\ req[r].step = "using"
  /\ req' = [req EXCEPT ![r] = Idle]
  /\ UNCHANGED <<now, pool, state, asked, drops>>

-----------------------------------------------------------------------------
(* The clock and the MongoDB servers.                                      *)

Tick == now < MaxTime /\ now' = now + 1 /\ UNCHANGED <<pool, state, req, asked, drops>>

Connects(c) ==
  /\ state[c] \in {"connecting", "down"}
  /\ state' = [state EXCEPT ![c] = "connected"]
  /\ UNCHANGED <<now, pool, req, asked, drops>>

Drops(c) ==
  /\ state[c] \in {"connecting", "connected"}
  /\ drops < MaxDrops
  /\ drops' = drops + 1
  /\ state' = [state EXCEPT ![c] = "down"]
  /\ UNCHANGED <<now, pool, req, asked>>

Next ==
  \/ \E r \in Requests :
       \/ \E t \in Tenants : Hit(r, t) \/ Miss(r, t)
       \/ \E c \in Conns : Opened(r, c)
       \/ OpenFails(r) \/ Answered(r)
  \/ \E c \in Conns : Connects(c) \/ Drops(c)
  \/ Tick

Spec == Init /\ [][Next]_vars

-----------------------------------------------------------------------------
(* Correctness.                                                            *)

\* The pool and the openings under way never exceed maxConnections by more
\* than the other requests served at the time: each one may have found the
\* last free place before the first took it (getConnection).
PoolBounded ==
  Cardinality(Pooled) + Cardinality(OpeningRequests)
    <= MaxConnections + Cardinality(Requests) - 1

\* A connection is closed under a request that uses it only when at least
\* maxConnections other tenants have asked for theirs since that request got
\* it: the least recently used one goes (getConnection, _evictLRU).
BusyTenantsKept ==
  \A r \in Requests :
    req[r].step = "using" /\ state[req[r].conn] = "closed" =>
      Cardinality({t \in Tenants \ {req[r].tenant} : asked[t] >= req[r].since})
        >= MaxConnections
=============================================================================
