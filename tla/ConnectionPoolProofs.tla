------------------------- MODULE ConnectionPoolProofs -------------------------
(***************************************************************************)
(* The bound of the connection pool, for every number of tenants, requests *)
(* and places, and the life of the process around it: what an exit has     *)
(* closed, what is left open, and whom an eviction may hit.                *)
(***************************************************************************)
EXTENDS ApiProcess, FiniteSetTheorems, TLAPS

USE PoolAssumption DEF Evicted

LEMMA PoolTypeInit == Init => TypeOK
<1>1. 0 \in 0..MaxTime /\ 0 \in 0..MaxDrops
  BY DEF PoolAssumption
<1>2. [c \in Conns |-> "unused"] \in [Conns -> States]
  BY DEF States
<1> QED BY <1>1, <1>2 DEF Init, TypeOK

\* A step of a request keeps the types.
LEMMA PoolTypeRequest ==
  ASSUME TypeOK, NEW r \in Requests,
         \/ \E t \in Tenants : Hit(r, t) \/ Miss(r, t)
         \/ \E c \in Conns : Opened(r, c)
         \/ OpenFails(r) \/ Answered(r)
  PROVE  TypeOK'
<1> USE DEF TypeOK
<1>1. ASSUME NEW t \in Tenants, Hit(r, t) PROVE TypeOK'
  <2>1. pool[t] \in Entry /\ t \in Pooled
    BY <1>1 DEF Hit, Alive, Pooled
  <2>2. [pool[t] EXCEPT !.lastUsed = now] \in Entry
    BY <2>1 DEF Entry
  <2>3. [step |-> "using", tenant |-> t, conn |-> pool[t].conn, since |-> now] \in Using
    BY <2>1 DEF Entry, Using
  <2> QED BY <1>1, <2>2, <2>3 DEF Hit, Touched
<1>2. ASSUME NEW t \in Tenants, Miss(r, t) PROVE TypeOK'
  <2>1. \A S : [u \in Tenants |-> IF u \in S THEN NoEntry ELSE pool[u]]
                 \in [Tenants -> Entry \cup {NoEntry}]
    OBVIOUS
  <2>2. pool' \in [Tenants -> Entry \cup {NoEntry}]
    BY <1>2, <2>1 DEF Miss
  <2>3. state' \in [Conns -> States]
    BY <1>2 DEF Miss, States
  <2>4. [step |-> "opening", tenant |-> t, conn |-> None, since |-> 0] \in Opening
    BY DEF Opening
  <2> QED BY <1>2, <2>2, <2>3, <2>4 DEF Miss
<1>3. ASSUME NEW c \in Conns, Opened(r, c) PROVE TypeOK'
  <2>1. req[r] \in Opening
    BY <1>3 DEF Opened, Opening, Using, Idle
  <2>2. req[r].tenant \in Tenants
    BY <2>1 DEF Opening
  <2>3. [conn |-> c, lastUsed |-> now] \in Entry
    BY DEF Entry
  <2>4. [step |-> "using", tenant |-> req[r].tenant, conn |-> c, since |-> now] \in Using
    BY <2>2 DEF Using
  <2> QED BY <1>3, <2>2, <2>3, <2>4 DEF Opened, States
<1>4. CASE OpenFails(r) \/ Answered(r)
  BY <1>4 DEF OpenFails, Answered
<1> QED BY <1>1, <1>2, <1>3, <1>4

LEMMA PoolTypeStep == ASSUME TypeOK, [Next]_vars PROVE TypeOK'
<1>1. CASE UNCHANGED vars
  BY <1>1 DEF vars, TypeOK
<1>2. ASSUME NEW c \in Conns, Connects(c) \/ Drops(c) PROVE TypeOK'
  BY <1>2 DEF Connects, Drops, TypeOK, States
<1>3. CASE Tick
  BY <1>3 DEF Tick, TypeOK, Entry, Opening, Using
<1> QED BY <1>1, <1>2, <1>3, PoolTypeRequest DEF Next

-----------------------------------------------------------------------------

LEMMA FiniteParts == IsFiniteSet(Pooled) /\ IsFiniteSet(OpeningRequests)
BY FS_Subset DEF Pooled, OpeningRequests

\* The cardinality facts about one element more or less.
LEMMA OneLess ==
  ASSUME NEW S, IsFiniteSet(S), NEW x \in S
  PROVE  /\ IsFiniteSet(S \ {x}) /\ Cardinality(S) \in Nat /\ Cardinality(S \ {x}) \in Nat
         /\ Cardinality(S \ {x}) = Cardinality(S) - 1
BY FS_RemoveElement, FS_CardinalityType

LEMMA OneMore ==
  ASSUME NEW S, IsFiniteSet(S), NEW x
  PROVE  /\ IsFiniteSet(S \cup {x})
         /\ Cardinality(S) \in Nat /\ Cardinality(S \cup {x}) \in Nat
         /\ Cardinality(S \cup {x}) <= Cardinality(S) + 1
<1>1. IsFiniteSet(S \cup {x}) /\ Cardinality(S) \in Nat
  BY FS_AddElement, FS_CardinalityType
<1>2. Cardinality(S \cup {x}) = IF x \in S THEN Cardinality(S) ELSE Cardinality(S) + 1
  BY FS_AddElement
<1> QED BY <1>1, <1>2

LEMMA Fewer ==
  ASSUME NEW S, NEW T, IsFiniteSet(T), S \subseteq T
  PROVE  /\ IsFiniteSet(S) /\ Cardinality(S) \in Nat /\ Cardinality(T) \in Nat
         /\ Cardinality(S) <= Cardinality(T)
BY FS_Subset, FS_CardinalityType

\* An opening that ends gives its place to an entry.
LEMMA BoundOpened ==
  ASSUME PoolBounded, NEW r, NEW t, r \in OpeningRequests,
         Pooled' \subseteq Pooled \cup {t}, OpeningRequests' \subseteq OpeningRequests \ {r}
  PROVE  PoolBounded'
<1> DEFINE P == Cardinality(Pooled)
           O == Cardinality(OpeningRequests)
<1>1. P \in Nat /\ O \in Nat /\ Cardinality(Requests) \in Nat
      /\ P + O <= MaxConnections + Cardinality(Requests) - 1
  BY FiniteParts, FS_CardinalityType DEF PoolBounded
<1>2. Cardinality(Pooled') \in Nat /\ Cardinality(Pooled') <= P + 1
  <2>1. /\ IsFiniteSet(Pooled \cup {t})
        /\ Cardinality(Pooled \cup {t}) \in Nat
        /\ Cardinality(Pooled \cup {t}) <= P + 1
    BY FiniteParts, OneMore
  <2>2. /\ Cardinality(Pooled') \in Nat
        /\ Cardinality(Pooled') <= Cardinality(Pooled \cup {t})
    BY <2>1, Fewer
  <2> QED BY <1>1, <2>1, <2>2
<1>3. Cardinality(OpeningRequests') \in Nat /\ Cardinality(OpeningRequests') <= O - 1
  <2>1. /\ IsFiniteSet(OpeningRequests \ {r})
        /\ Cardinality(OpeningRequests \ {r}) = O - 1
    BY FiniteParts, OneLess
  <2> QED BY <2>1, Fewer
<1> QED BY <1>1, <1>2, <1>3 DEF PoolBounded

\* The places of the pool are handed out before the await and taken after it.
LEMMA BoundRequest ==
  ASSUME TypeOK, PoolBounded, NEW r \in Requests,
         \/ \E t \in Tenants : Hit(r, t) \/ Miss(r, t)
         \/ \E c \in Conns : Opened(r, c)
         \/ OpenFails(r) \/ Answered(r)
  PROVE  PoolBounded'
<1> DEFINE P == Cardinality(Pooled)
           O == Cardinality(OpeningRequests)
           R == Cardinality(Requests)
<1>1. P \in Nat /\ O \in Nat /\ R \in Nat /\ P + O <= MaxConnections + R - 1
  BY FiniteParts, FS_CardinalityType DEF PoolBounded
<1>2. ASSUME Pooled' \subseteq Pooled, OpeningRequests' \subseteq OpeningRequests
      PROVE  PoolBounded'
  <2>1. Cardinality(Pooled') \in Nat /\ Cardinality(Pooled') <= P
    BY <1>2, FiniteParts, Fewer
  <2>2. Cardinality(OpeningRequests') \in Nat /\ Cardinality(OpeningRequests') <= O
    BY <1>2, FiniteParts, Fewer
  <2> QED BY <1>1, <2>1, <2>2 DEF PoolBounded
<1>3. ASSUME NEW t \in Tenants, Hit(r, t) PROVE PoolBounded'
  <2>1. pool[t] # NoEntry /\ \A u \in Tenants \ {t} : pool'[u] = pool[u]
    BY <1>3 DEF Hit, Touched, TypeOK, Alive, Pooled
  <2>2. Pooled' \subseteq Pooled
    BY <2>1 DEF Pooled
  <2>3. OpeningRequests' \subseteq OpeningRequests
    BY <1>3 DEF Hit, OpeningRequests, TypeOK
  <2> QED BY <1>2, <2>2, <2>3
<1>4. ASSUME NEW t \in Tenants, Miss(r, t) PROVE PoolBounded'
  <2> DEFINE rest == Pooled \ {t}
  <2>1. OpeningRequests' \subseteq OpeningRequests \cup {r}
    BY <1>4 DEF Miss, OpeningRequests, TypeOK
  <2>2. Cardinality(OpeningRequests') \in Nat /\ Cardinality(OpeningRequests') <= O + 1
    <3>1. /\ IsFiniteSet(OpeningRequests \cup {r})
          /\ Cardinality(OpeningRequests \cup {r}) \in Nat
          /\ Cardinality(OpeningRequests \cup {r}) <= O + 1
      BY FiniteParts, OneMore
    <3>2. /\ Cardinality(OpeningRequests') \in Nat
          /\ Cardinality(OpeningRequests') <= Cardinality(OpeningRequests \cup {r})
      BY <2>1, <3>1, Fewer
    <3> QED BY <1>1, <3>1, <3>2
  <2>3. Cardinality(OpeningRequests') <= R
    BY Fewer DEF OpeningRequests
  <2>4. IsFiniteSet(rest) /\ Cardinality(rest) \in Nat /\ Cardinality(rest) <= P
    BY FiniteParts, Fewer
  <2>5. CASE ~ Full(rest)
    <3>1. Pooled' \subseteq rest
      BY <1>4, <2>5 DEF Miss, Pooled
    <3>2. Cardinality(Pooled') \in Nat /\ Cardinality(Pooled') <= Cardinality(rest)
      BY <2>4, <3>1, Fewer
    <3>3. Cardinality(rest) <= MaxConnections - 1
      BY <2>4, <2>5 DEF Full
    <3> QED BY <1>1, <2>2, <2>3, <2>4, <3>2, <3>3 DEF PoolBounded
  <2>6. CASE Full(rest)
    <3>1. PICK v \in Oldest(rest) :
            pool' = [u \in Tenants |-> IF u \in {t, v} THEN NoEntry ELSE pool[u]]
      BY <1>4, <2>6 DEF Miss
    <3>2. v \in rest
      BY DEF Oldest
    <3>3. Pooled' \subseteq rest \ {v}
      BY <3>1 DEF Pooled
    <3>4. Cardinality(rest \ {v}) = Cardinality(rest) - 1 /\ IsFiniteSet(rest \ {v})
      BY <2>4, <3>2, OneLess
    <3>5. Cardinality(Pooled') \in Nat /\ Cardinality(Pooled') <= Cardinality(rest \ {v})
      BY <3>3, <3>4, Fewer
    <3> QED BY <1>1, <2>2, <2>4, <3>4, <3>5 DEF PoolBounded
  <2> QED BY <2>5, <2>6
<1>5. ASSUME NEW c \in Conns, Opened(r, c) PROVE PoolBounded'
  <2>1. Pooled' \subseteq Pooled \cup {req[r].tenant}
    BY <1>5 DEF Opened, Pooled, TypeOK
  <2>2. r \in OpeningRequests /\ OpeningRequests' \subseteq OpeningRequests \ {r}
    BY <1>5 DEF Opened, OpeningRequests, TypeOK
  <2> QED BY <2>1, <2>2, BoundOpened
<1>6. CASE OpenFails(r) \/ Answered(r)
  <2>1. Pooled' \subseteq Pooled /\ OpeningRequests' \subseteq OpeningRequests
    BY <1>6 DEF OpenFails, Answered, Pooled, OpeningRequests, TypeOK, Idle
  <2> QED BY <1>2, <2>1
<1> QED BY <1>3, <1>4, <1>5, <1>6

LEMMA PoolBoundStep == ASSUME TypeOK, PoolBounded, [Next]_vars PROVE PoolBounded'
<1>1. CASE UNCHANGED vars \/ Tick \/ \E c \in Conns : Connects(c) \/ Drops(c)
  <2>1. Pooled' = Pooled /\ OpeningRequests' = OpeningRequests
    BY <1>1 DEF vars, Tick, Connects, Drops, Pooled, OpeningRequests
  <2> QED BY <2>1 DEF PoolBounded
<1> QED BY <1>1, BoundRequest DEF Next

-----------------------------------------------------------------------------
(* The process around the pool.                                            *)

OpeningForNobody == \E r \in Requests, c \in Conns : OpenedForNobody(r, c)

\* A step of the process is one of the pool, or a late opening, or one of
\* closeAll's.
LEMMA ApiStep ==
  ASSUME [ApiNext]_allVars
  PROVE  [Next]_vars \/ OpeningForNobody \/ CloseAll \/ Clear
<1>1. CASE UNCHANGED allVars
  BY <1>1 DEF allVars
<1>2. CASE \/ ConnectMaster \/ PingRedis \/ Listen
           \/ Signal \/ CloseMaster \/ CloseRedis \/ ForcedShutdown
           \/ \E s \in Sockets : SocketStep(s)
           \/ \E r \in Requests : HangsUp(r)
  BY <1>2 DEF ConnectMaster, PingRedis, Listen, Booting, Signal, CloseMaster, CloseRedis, ForcedShutdown,
              SocketStep, HangsUp
<1>3. CASE Elsewhere
  BY <1>3 DEF Elsewhere, Next
<1>4. ASSUME NEW r \in Requests,
             \/ \E t \in Tenants : Begin(r, t)
             \/ \E c \in Conns : OpenedInTime(r, c) \/ OpenedForNobody(r, c)
             \/ Settled(r)
      PROVE  Next \/ OpeningForNobody
  BY <1>4 DEF Begin, OpenedInTime, Settled, Next, OpeningForNobody
<1> QED BY <1>1, <1>2, <1>3, <1>4 DEF ApiNext

\* A handler without a client is still opening its connection.
GoneAreOpening == gone \subseteq OpeningRequests

LEMMA GoneStep ==
  ASSUME TypeOK, GoneAreOpening, [ApiNext]_allVars
  PROVE  GoneAreOpening'
<1> USE DEF GoneAreOpening, OpeningRequests
<1>1. CASE UNCHANGED <<req, gone>>
  BY <1>1
<1>2. ASSUME NEW r \in Requests, NEW t \in Tenants, Begin(r, t) PROVE GoneAreOpening'
  BY <1>2 DEF Begin, Hit, Miss, TypeOK, Idle
<1>3. ASSUME NEW r \in Requests, NEW c \in Conns, OpenedInTime(r, c) \/ OpenedForNobody(r, c)
      PROVE  GoneAreOpening'
  BY <1>3 DEF OpenedInTime, OpenedForNobody, Opened, TypeOK
<1>4. ASSUME NEW r \in Requests, Settled(r) \/ HangsUp(r) PROVE GoneAreOpening'
  BY <1>4 DEF Settled, HangsUp, OpenFails, Answered, vars, TypeOK
<1> QED BY <1>1, <1>2, <1>3, <1>4
        DEF ApiNext, allVars, apiVars, vars, ConnectMaster, PingRedis, Listen, Booting, Signal, CloseAll,
            Clear, CloseMaster, CloseRedis, ForcedShutdown, Elsewhere, Tick, Connects, Drops, SocketStep

LEMMA ApiTypeStep ==
  ASSUME TypeOK, GoneAreOpening, [ApiNext]_allVars
  PROVE  TypeOK'
<1>1. CASE [Next]_vars
  BY <1>1, PoolTypeStep
<1>2. ASSUME NEW r \in Requests, NEW c \in Conns, OpenedForNobody(r, c) PROVE TypeOK'
  <2>1. req[r] \in Opening
    BY <1>2 DEF OpenedForNobody, GoneAreOpening, OpeningRequests, TypeOK, Opening, Using, Idle
  <2>2. req[r].tenant \in Tenants /\ [conn |-> c, lastUsed |-> now] \in Entry
    BY <2>1 DEF Opening, Entry, TypeOK
  <2> QED BY <1>2, <2>2 DEF OpenedForNobody, TypeOK, States
<1>3. CASE CloseAll
  BY <1>3 DEF CloseAll, TypeOK, States
<1>4. CASE Clear
  BY <1>4 DEF Clear, TypeOK
<1> QED BY <1>1, <1>2, <1>3, <1>4, ApiStep DEF OpeningForNobody

LEMMA ApiBoundStep ==
  ASSUME TypeOK, GoneAreOpening, PoolBounded, [ApiNext]_allVars
  PROVE  PoolBounded'
<1>1. CASE [Next]_vars
  BY <1>1, PoolBoundStep
<1>2. ASSUME NEW r \in Requests, NEW c \in Conns, OpenedForNobody(r, c) PROVE PoolBounded'
  <2>1. Pooled' \subseteq Pooled \cup {req[r].tenant}
    BY <1>2 DEF OpenedForNobody, Pooled, TypeOK
  <2>2. r \in OpeningRequests /\ OpeningRequests' \subseteq OpeningRequests \ {r}
    BY <1>2 DEF OpenedForNobody, GoneAreOpening, OpeningRequests, TypeOK, Idle
  <2> QED BY <2>1, <2>2, BoundOpened
<1>3. CASE CloseAll \/ Clear
  <2>1. Pooled' \subseteq Pooled /\ OpeningRequests' = OpeningRequests
    BY <1>3 DEF CloseAll, Clear, Pooled, OpeningRequests
  <2>2. Cardinality(Pooled') \in Nat /\ Cardinality(Pooled) \in Nat
        /\ Cardinality(Pooled') <= Cardinality(Pooled)
    BY <2>1, FiniteParts, Fewer
  <2>3. Cardinality(OpeningRequests) \in Nat /\ Cardinality(Requests) \in Nat
    BY FiniteParts, FS_CardinalityType
  <2> QED BY <2>1, <2>2, <2>3 DEF PoolBounded
<1> QED BY <1>1, <1>2, <1>3, ApiStep DEF OpeningForNobody

LEMMA ApiStart == ApiInit => TypeOK /\ GoneAreOpening /\ PoolBounded
<1> SUFFICES ASSUME ApiInit PROVE TypeOK /\ GoneAreOpening /\ PoolBounded
  OBVIOUS
<1>1. Pooled = {} /\ OpeningRequests = {} /\ gone = {}
  BY DEF ApiInit, Init, Pooled, OpeningRequests, Idle
<1>2. IsFiniteSet(Requests) /\ Cardinality(Requests) \in Nat
  BY FS_CardinalityType
<1>3. PoolBounded
  BY <1>1, <1>2, FS_EmptySet DEF PoolBounded
<1> QED BY <1>1, <1>3, PoolTypeInit DEF ApiInit, GoneAreOpening

\* Every reachable state of the process is well typed.
THEOREM PoolTypeCorrect == ApiSpec => []TypeOK
<1>1. ASSUME TypeOK /\ GoneAreOpening, [ApiNext]_allVars PROVE (TypeOK /\ GoneAreOpening)'
  BY <1>1, ApiTypeStep, GoneStep
<1>2. ApiSpec => [](TypeOK /\ GoneAreOpening)
  BY <1>1, ApiStart, PTL DEF ApiSpec
<1> QED BY <1>2, PTL

\* Whatever the number of tenants, however requests overlap and whatever the
\* clients do while the process drains, the pool exceeds maxConnections by fewer
\* entries than there are requests (getConnection).
THEOREM PoolStaysBounded == ApiSpec => []PoolBounded
<1>1. ASSUME TypeOK /\ GoneAreOpening /\ PoolBounded, [ApiNext]_allVars
      PROVE  (TypeOK /\ GoneAreOpening /\ PoolBounded)'
  BY <1>1, ApiTypeStep, GoneStep, ApiBoundStep
<1> QED BY <1>1, ApiStart, PTL DEF ApiSpec

-----------------------------------------------------------------------------
(* What is left open.                                                      *)

Held(c) == \E t \in Tenants : pool[t] # NoEntry /\ pool[t].conn = c

LEMMA Leaks ==
  OnlyOrphansLeak <=>
    (phase \notin {"cleared", "masterless", "exited"} =>
       \A c \in Conns : state[c] \notin {"unused", "closed"} => Held(c) \/ c \in orphans)
BY DEF OnlyOrphansLeak, Open, Held, Pooled

LEMMA EntryConn ==
  ASSUME TypeOK, NEW t \in Pooled
  PROVE  pool[t] \in Entry /\ pool[t].conn \in Conns /\ pool[t].lastUsed \in 0..MaxTime
BY DEF TypeOK, Pooled, Entry

\* What an entry gives up is an orphan, and what an eviction takes is closed.
LEMMA LeakStep ==
  ASSUME TypeOK, GoneAreOpening, OnlyOrphansLeak, [ApiNext]_allVars
  PROVE  OnlyOrphansLeak'
<1> DEFINE Safe == \A c \in Conns : state[c] \notin {"unused", "closed"} => Held(c) \/ c \in orphans
<1>1. CASE phase \in {"cleared", "masterless", "exited"}
  <2>1. phase' \in {"cleared", "masterless", "exited"}
    BY <1>1 DEF ApiNext, allVars, apiVars, ConnectMaster, PingRedis, Listen, Booting, Phase, Ends, Signal,
            CloseAll, Clear, CloseMaster, CloseRedis, ForcedShutdown, Elsewhere, Begin, OpenedInTime,
            OpenedForNobody, Settled, HangsUp, SocketStep, Listening
  <2> QED BY <2>1 DEF OnlyOrphansLeak
<1> SUFFICES ASSUME Safe, phase' # "cleared" PROVE Safe'
  BY <1>1, Leaks DEF OnlyOrphansLeak, Open, Held, Pooled
<1>2. CASE UNCHANGED <<pool, state, orphans>>
  BY <1>2 DEF Held
<1>3. ASSUME NEW r \in Requests, NEW t \in Tenants, Hit(r, t), UNCHANGED orphans PROVE Safe'
  <2>1. \A u \in Tenants : pool[u] # NoEntry => pool'[u] # NoEntry /\ pool'[u].conn = pool[u].conn
    <3>1. pool[t] \in Entry
      BY <1>3, EntryConn DEF Hit, Alive
    <3>2. pool' = [pool EXCEPT ![t].lastUsed = now] /\ pool'[t].conn = pool[t].conn
      BY <1>3, <3>1 DEF Hit, Touched, TypeOK, Entry
    <3>3. pool[t].conn # None
      BY <3>1 DEF Entry
    <3> QED BY <3>2, <3>3 DEF TypeOK, NoEntry
  <2> QED BY <1>3, <2>1 DEF Held, Hit
<1>4. ASSUME NEW r \in Requests, NEW t \in Tenants, Miss(r, t),
             orphans' = orphans \cup {pool[u].conn : u \in {t} \cap Pooled}
      PROVE  Safe'
  <2>1. pool[t] # NoEntry => pool[t].conn \in orphans'
    BY <1>4 DEF Pooled
  <2>2. CASE ~ Full(Pooled \ {t})
    <3>1. \A u \in Tenants \ {t} : pool'[u] = pool[u]
      BY <1>4, <2>2 DEF Miss
    <3> QED BY <1>4, <2>1, <2>2, <3>1 DEF Held, Miss
  <2>3. CASE Full(Pooled \ {t})
    <3>1. PICK v \in Oldest(Pooled \ {t}) :
            /\ pool' = [u \in Tenants |-> IF u \in {t, v} THEN NoEntry ELSE pool[u]]
            /\ state' = [state EXCEPT ![pool[v].conn] = "closed"]
      BY <1>4, <2>3 DEF Miss
    <3>2. pool[v].conn \in Conns
      BY EntryConn DEF Oldest
    <3>3. \A u \in Tenants \ {t, v} : pool'[u] = pool[u]
      BY <3>1
    <3> QED BY <1>4, <2>1, <3>1, <3>2, <3>3 DEF Held, TypeOK
  <2> QED BY <2>2, <2>3
<1>5. ASSUME NEW t \in Tenants, NEW c \in Conns, NEW s,
             state' = [state EXCEPT ![c] = s],
             pool' = [pool EXCEPT ![t] = [conn |-> c, lastUsed |-> now]],
             orphans' = orphans \cup {pool[u].conn : u \in {t} \cap Pooled}
      PROVE  Safe'
  <2>1. pool[t] # NoEntry => pool[t].conn \in orphans'
    BY <1>5 DEF Pooled
  <2>2. pool'[t] # NoEntry /\ pool'[t].conn = c
    BY <1>5 DEF TypeOK, NoEntry, PoolAssumption
  <2>3. \A u \in Tenants \ {t} : pool'[u] = pool[u]
    BY <1>5 DEF TypeOK
  <2>4. \A d \in Conns \ {c} : state'[d] = state[d]
    BY <1>5 DEF TypeOK
  <2>5. orphans \subseteq orphans'
    BY <1>5
  <2> QED BY <2>1, <2>2, <2>3, <2>4, <2>5 DEF Held
<1>6. ASSUME NEW r \in Requests, NEW c \in Conns, OpenedInTime(r, c) \/ OpenedForNobody(r, c)
      PROVE  Safe'
  <2>1. req[r].tenant \in Tenants
    BY <1>6 DEF OpenedInTime, OpenedForNobody, Opened, GoneAreOpening, OpeningRequests, TypeOK,
                Opening, Using, Idle
  <2>2. PICK s : state' = [state EXCEPT ![c] = s]
    BY <1>6 DEF OpenedInTime, OpenedForNobody, Opened
  <2>3. /\ pool' = [pool EXCEPT ![req[r].tenant] = [conn |-> c, lastUsed |-> now]]
        /\ orphans' = orphans \cup {pool[u].conn : u \in {req[r].tenant} \cap Pooled}
    BY <1>6 DEF OpenedInTime, OpenedForNobody, Opened, Replaced
  <2> QED BY <2>1, <2>2, <2>3, <1>5
<1>7. ASSUME NEW c \in Conns, Connects(c) \/ Drops(c), UNCHANGED orphans PROVE Safe'
  BY <1>7 DEF Connects, Drops, Held, TypeOK
<1>8. CASE CloseAll
  BY <1>8 DEF CloseAll, Held
<1>9. CASE Clear
  BY <1>9 DEF Clear, Phase
<1> QED BY <1>2, <1>3, <1>4, <1>6, <1>7, <1>8, <1>9
        DEF ApiNext, allVars, apiVars, vars, ConnectMaster, PingRedis, Listen, Booting, Signal,
            CloseMaster, CloseRedis, ForcedShutdown, Elsewhere, Tick, Begin, Settled, OpenFails, Answered,
            HangsUp, SocketStep


\* Whatever is open belongs to an entry or was given up by one, for every
\* number of tenants, requests and connections (getConnection, _evictLRU).
THEOREM OrphansAreKnown == ApiSpec => []OnlyOrphansLeak
<1>1. ApiInit => OnlyOrphansLeak
  BY DEF ApiInit, Init, OnlyOrphansLeak, Open
<1>2. ASSUME TypeOK /\ GoneAreOpening /\ OnlyOrphansLeak, [ApiNext]_allVars
      PROVE  (TypeOK /\ GoneAreOpening /\ OnlyOrphansLeak)'
  BY <1>2, ApiTypeStep, GoneStep, LeakStep
<1> QED BY <1>1, <1>2, ApiStart, PTL DEF ApiSpec

-----------------------------------------------------------------------------
(* What an exit has closed.                                                *)

Closing == phase \in {"pool", "cleared", "masterless"}

\* From the callback of server.close on, nobody waits for an answer, and what
\* is open was given up or came late.
ClosedUp ==
  /\ \A r \in Requests : req[r] = Idle \/ r \in gone
  /\ \A c \in Conns : state[c] \notin {"unused", "closed"} => c \in orphans \/ c \in late

ExitPrepared == /\ code = 0 => phase = "exited"
                /\ Closing \/ code = 0 => ClosedUp

\* Only a handler without a client still has a connection to open or to lose.
LEMMA ClosedUpKept ==
  ASSUME TypeOK, GoneAreOpening, ClosedUp, Closing, [ApiNext]_allVars
  PROVE  ClosedUp'
<1> USE DEF ClosedUp
<1>0. ~ Listening
  BY DEF Closing, Listening
<1>1. CASE UNCHANGED <<req, gone, state, orphans, late>>
  BY <1>1
<1>2. ASSUME NEW r \in Requests, \/ \E t \in Tenants : Begin(r, t)
                                 \/ \E c \in Conns : OpenedInTime(r, c)
                                 \/ HangsUp(r)
      PROVE  ClosedUp'
  BY <1>0, <1>2 DEF Begin, OpenedInTime, HangsUp
<1>3. ASSUME NEW r \in Requests, NEW c \in Conns, OpenedForNobody(r, c) PROVE ClosedUp'
  BY <1>0, <1>3 DEF OpenedForNobody, TypeOK
<1>4. ASSUME NEW r \in Requests, Settled(r) PROVE ClosedUp'
  BY <1>4 DEF Settled, OpenFails, Answered, TypeOK
<1>5. ASSUME NEW c \in Conns, Connects(c) \/ Drops(c), UNCHANGED apiVars PROVE ClosedUp'
  BY <1>5 DEF Connects, Drops, TypeOK, apiVars
<1>6. CASE CloseAll
  BY <1>6 DEF CloseAll, Phase, Closing
<1> QED BY <1>1, <1>2, <1>3, <1>4, <1>5, <1>6
        DEF ApiNext, allVars, apiVars, vars, ConnectMaster, PingRedis, Listen, Booting, Signal, Clear,
            CloseMaster, CloseRedis, ForcedShutdown, Elsewhere, Tick, SocketStep

LEMMA ExitStep ==
  ASSUME TypeOK, GoneAreOpening, OnlyOrphansLeak, ExitPrepared, [ApiNext]_allVars
  PROVE  ExitPrepared'
<1>1. CASE CloseAll
  <2>1. \A c \in Conns : state'[c] \notin {"unused", "closed"} => c \in orphans
    BY <1>1, Leaks DEF CloseAll, Phase, Held, Pooled
  <2>2. UNCHANGED <<req, gone, orphans, code>> /\ phase = "draining" /\ Drained
    BY <1>1 DEF CloseAll, Phase
  <2>3. ClosedUp'
    BY <2>1, <2>2 DEF ClosedUp, Drained
  <2>4. code' # 0
    BY <2>2 DEF ExitPrepared
  <2> QED BY <2>3, <2>4 DEF ExitPrepared
<1>2. CASE Closing \/ code = 0
  <2>1. ClosedUp
    BY <1>2 DEF ExitPrepared
  <2>2. CASE Closing
    <3>1. ClosedUp'
      BY <2>1, <2>2, ClosedUpKept
    <3>2. code' = 0 => phase' = "exited"
      BY <2>2 DEF Closing, ExitPrepared, ApiNext, allVars, apiVars, ConnectMaster, PingRedis, Listen,
            Booting, Phase, Ends, Signal, CloseAll, Clear, CloseMaster, CloseRedis, ForcedShutdown,
            Elsewhere, Begin, OpenedInTime, OpenedForNobody, Settled, HangsUp, SocketStep, Listening
    <3> QED BY <3>1, <3>2 DEF ExitPrepared
  <2>3. CASE code = 0
    <3>1. phase = "exited"
      BY <2>3 DEF ExitPrepared
    <3>2. UNCHANGED <<phase, code, req, gone, state, orphans, late>>
      BY <3>1 DEF ApiNext, allVars, apiVars, vars, ConnectMaster, PingRedis, Listen,
            Booting, Phase, Ends, Signal, CloseAll, Clear, CloseMaster, CloseRedis, ForcedShutdown,
            Elsewhere, Begin, OpenedInTime, OpenedForNobody, Settled, HangsUp, SocketStep, Listening
    <3> QED BY <3>2, <2>1, <3>1 DEF ExitPrepared, ClosedUp
  <2> QED BY <1>2, <2>2, <2>3
<1>3. CASE ~ CloseAll /\ ~ Closing /\ code # 0
  <2>1. CASE UNCHANGED <<phase, code>>
    BY <1>3, <2>1 DEF ExitPrepared, Closing
  <2>2. CASE ConnectMaster \/ PingRedis \/ Listen
    BY <1>3, <2>2, ApiAssumption
       DEF ExitPrepared, Closing, ConnectMaster, PingRedis, Listen, Booting, Phase, Ends
  <2>3. CASE Signal \/ ForcedShutdown
    BY <1>3, <2>3 DEF ExitPrepared, Closing, Signal, Phase, ForcedShutdown, Ends
  <2>4. CASE Clear \/ CloseMaster \/ CloseRedis
    BY <1>3, <2>4 DEF Closing, Clear, CloseMaster, CloseRedis, Phase
  <2> QED BY <1>3, <2>1, <2>2, <2>3, <2>4
          DEF ApiNext, allVars, apiVars, Elsewhere, Begin, OpenedInTime, OpenedForNobody, Settled,
              HangsUp, SocketStep
<1> QED BY <1>1, <1>2, <1>3

\* exit(0) leaves no client waiting and no tenant connection open but those
\* given up earlier or opened for nobody meanwhile (shutdown, closeAll).
THEOREM ExitsAreGraceful == ApiSpec => []GracefulExit
<1> DEFINE Inv == TypeOK /\ GoneAreOpening /\ OnlyOrphansLeak /\ ExitPrepared
<1>1. ApiInit => Inv
  <2>1. ApiInit => OnlyOrphansLeak
    BY DEF ApiInit, Init, OnlyOrphansLeak, Open
  <2>2. ApiInit => ExitPrepared
    BY ApiAssumption DEF ApiInit, ExitPrepared, Closing
  <2> QED BY <2>1, <2>2, ApiStart
<1>2. ASSUME Inv, [ApiNext]_allVars PROVE Inv'
  BY <1>2, ApiTypeStep, GoneStep, LeakStep, ExitStep
<1>3. Inv => GracefulExit
  BY DEF ExitPrepared, ClosedUp, GracefulExit, Open
<1> QED BY <1>1, <1>2, <1>3, PTL DEF ApiSpec

-----------------------------------------------------------------------------
(* Whom an eviction hits.                                                  *)

InUse(r) == req[r].step = "using"
HasEntry(t) == pool[t] # NoEntry

\* No two entries share a connection, and whoever uses the connection of an
\* entry got it for that entry's tenant, before the entry was last used.
OwnEntries ==
  /\ \A t, u \in Tenants : HasEntry(t) /\ HasEntry(u) /\ pool[t].conn = pool[u].conn => t = u
  /\ \A r \in Requests, t \in Tenants :
       InUse(r) /\ HasEntry(t) /\ req[r].conn = pool[t].conn
         => req[r].tenant = t /\ req[r].since <= pool[t].lastUsed

\* A connection that is held or used has been opened.
OpenedBefore ==
  /\ \A t \in Tenants : HasEntry(t) => state[pool[t].conn] # "unused"
  /\ \A r \in Requests : InUse(r) => state[req[r].conn] # "unused"

\* An entry was last used when its tenant asked or earlier, and no request is
\* served before its time.
InTime ==
  /\ \A t \in Tenants : asked[t] <= now /\ (HasEntry(t) => pool[t].lastUsed <= asked[t])
  /\ \A r \in Requests : InUse(r) => req[r].since <= now

FairPool == OwnEntries /\ OpenedBefore /\ InTime

LEMMA UserType ==
  ASSUME TypeOK, NEW r \in Requests, InUse(r)
  PROVE  /\ req[r].tenant \in Tenants /\ req[r].conn \in Conns
         /\ req[r].since \in 0..MaxTime
<1>1. req[r] \in Using
  BY DEF TypeOK, InUse, Opening, Idle
<1> QED BY <1>1 DEF Using

\* Steps that give nobody a connection.
LEMMA FairNobody ==
  ASSUME TypeOK, FairPool, UNCHANGED <<now, asked>>,
         \A t \in Tenants : pool'[t] = pool[t] \/ pool'[t] = NoEntry,
         \A r \in Requests : req'[r] = req[r] \/ req'[r].step # "using",
         \A c \in Conns : state[c] # "unused" => state'[c] # "unused"
  PROVE  FairPool'
<1> USE DEF HasEntry, InUse
<1>1. /\ \A t \in Tenants : HasEntry(t)' => HasEntry(t) /\ pool'[t] = pool[t]
      /\ \A r \in Requests : InUse(r)' => InUse(r) /\ req'[r] = req[r]
  OBVIOUS
<1>2. OwnEntries'
  BY <1>1 DEF FairPool, OwnEntries
<1>3. OpenedBefore'
  <2>1. \A t \in Tenants : HasEntry(t) => pool[t].conn \in Conns
    BY EntryConn DEF Pooled
  <2>2. \A r \in Requests : InUse(r) => req[r].conn \in Conns
    BY UserType
  <2> QED BY <1>1, <2>1, <2>2 DEF FairPool, OpenedBefore
<1>4. InTime'
  BY <1>1 DEF FairPool, InTime
<1> QED BY <1>2, <1>3, <1>4 DEF FairPool

\* A request that finds its tenant's connection alive uses the entry now.
LEMMA FairHit ==
  ASSUME TypeOK, FairPool, NEW q \in Requests, NEW t \in Tenants, Hit(q, t)
  PROVE  FairPool'
<1> USE DEF HasEntry, InUse
<1>1. pool[t] \in Entry /\ HasEntry(t) /\ now \in 0..MaxTime /\ MaxTime \in Nat
  BY EntryConn, PoolAssumption DEF Hit, Alive, Pooled, TypeOK
<1>2. /\ pool'[t].conn = pool[t].conn /\ pool'[t].lastUsed = now
      /\ \A u \in Tenants \ {t} : pool'[u] = pool[u]
      /\ \A u \in Tenants : HasEntry(u)' => HasEntry(u) /\ pool'[u].conn = pool[u].conn
  BY <1>1 DEF Hit, Touched, TypeOK, Entry
<1>3. /\ req'[q].conn = pool[t].conn /\ req'[q].tenant = t /\ req'[q].since = now
      /\ \A r \in Requests \ {q} : req'[r] = req[r]
  BY DEF Hit, TypeOK
<1>4. /\ asked'[t] = now /\ now' = now /\ state' = state
      /\ \A u \in Tenants \ {t} : asked'[u] = asked[u]
  BY DEF Hit, TypeOK
<1>5. now <= now
  BY <1>1
<1>6. OwnEntries'
  <2>1. \A u, v \in Tenants : HasEntry(u)' /\ HasEntry(v)' /\ pool'[u].conn = pool'[v].conn => u = v
    BY <1>2 DEF FairPool, OwnEntries
  <2>2. ASSUME NEW r \in Requests, NEW u \in Tenants,
               InUse(r)', HasEntry(u)', req'[r].conn = pool'[u].conn
        PROVE  req'[r].tenant = u /\ req'[r].since <= pool'[u].lastUsed
    <3>1. CASE r = q
      <4>1. u = t
        BY <1>1, <1>2, <1>3, <2>2, <3>1 DEF FairPool, OwnEntries
      <4> QED BY <1>2, <1>3, <1>5, <3>1, <4>1
    <3>2. CASE r # q
      <4>1. req[r].tenant = u /\ req[r].since <= pool[u].lastUsed /\ req[r].since <= now
        BY <1>2, <1>3, <2>2, <3>2 DEF FairPool, OwnEntries, InTime
      <4> QED BY <1>2, <1>3, <3>2, <4>1
    <3> QED BY <3>1, <3>2
  <2> QED BY <2>1, <2>2 DEF OwnEntries
<1>7. OpenedBefore'
  BY <1>1, <1>2, <1>3, <1>4 DEF FairPool, OpenedBefore
<1>8. InTime'
  BY <1>2, <1>3, <1>4, <1>5 DEF FairPool, InTime
<1> QED BY <1>6, <1>7, <1>8 DEF FairPool

\* A fresh connection is nobody else's.
LEMMA FairOpened ==
  ASSUME TypeOK, FairPool, NEW q \in Requests, NEW t \in Tenants, NEW c \in Conns, NEW s,
         state[c] = "unused", s # "unused",
         state' = [state EXCEPT ![c] = s],
         pool' = [pool EXCEPT ![t] = [conn |-> c, lastUsed |-> now]],
         asked' = [asked EXCEPT ![t] = now],
         UNCHANGED now,
         \A r \in Requests \ {q} : req'[r] = req[r],
         InUse(q)' => req'[q] = [step |-> "using", tenant |-> t, conn |-> c, since |-> now]
  PROVE  FairPool'
<1> USE DEF HasEntry, InUse
<1>1. now \in 0..MaxTime /\ MaxTime \in Nat /\ now <= now
  BY PoolAssumption DEF TypeOK
<1>2. /\ HasEntry(t)' /\ pool'[t].conn = c /\ pool'[t].lastUsed = now
      /\ \A u \in Tenants \ {t} : pool'[u] = pool[u]
      /\ asked'[t] = now
      /\ \A u \in Tenants \ {t} : asked'[u] = asked[u]
  BY DEF TypeOK, NoEntry, PoolAssumption
<1>3. /\ state'[c] # "unused" /\ \A d \in Conns \ {c} : state'[d] = state[d]
  BY DEF TypeOK
<1>4. \A u \in Tenants : HasEntry(u) => pool[u].conn \in Conns /\ pool[u].conn # c
  BY EntryConn DEF FairPool, OpenedBefore, Pooled
<1>5. \A r \in Requests : InUse(r) => req[r].conn \in Conns /\ req[r].conn # c
  BY UserType DEF FairPool, OpenedBefore
<1>6. InUse(q)' => req'[q].tenant = t /\ req'[q].conn = c /\ req'[q].since = now
  OBVIOUS
<1>7. OwnEntries'
  <2>1. \A u, v \in Tenants : HasEntry(u)' /\ HasEntry(v)' /\ pool'[u].conn = pool'[v].conn => u = v
    BY <1>2, <1>4 DEF FairPool, OwnEntries
  <2>2. ASSUME NEW r \in Requests, NEW u \in Tenants,
               InUse(r)', HasEntry(u)', req'[r].conn = pool'[u].conn
        PROVE  req'[r].tenant = u /\ req'[r].since <= pool'[u].lastUsed
    <3>1. CASE r = q
      <4>1. u = t
        BY <1>2, <1>4, <1>6, <2>2, <3>1
      <4> QED BY <1>1, <1>2, <1>6, <2>2, <3>1, <4>1
    <3>2. CASE r # q
      <4>1. InUse(r) /\ req'[r] = req[r]
        BY <2>2, <3>2
      <4>2. u # t
        BY <1>2, <1>5, <2>2, <4>1
      <4> QED BY <1>2, <2>2, <4>1, <4>2 DEF FairPool, OwnEntries
    <3> QED BY <3>1, <3>2
  <2> QED BY <2>1, <2>2 DEF OwnEntries
<1>8. OpenedBefore'
  <2>1. \A u \in Tenants : HasEntry(u)' => state'[pool'[u].conn] # "unused"
    BY <1>2, <1>3, <1>4 DEF FairPool, OpenedBefore
  <2>2. \A r \in Requests : InUse(r)' => state'[req'[r].conn] # "unused"
    BY <1>3, <1>5, <1>6 DEF FairPool, OpenedBefore
  <2> QED BY <2>1, <2>2 DEF OpenedBefore
<1>9. InTime'
  <2>1. \A u \in Tenants : asked'[u] <= now' /\ (HasEntry(u)' => pool'[u].lastUsed <= asked'[u])
    BY <1>1, <1>2 DEF FairPool, InTime
  <2>2. \A r \in Requests : InUse(r)' => req'[r].since <= now'
    BY <1>1, <1>6 DEF FairPool, InTime
  <2> QED BY <2>1, <2>2 DEF InTime
<1> QED BY <1>7, <1>8, <1>9 DEF FairPool

LEMMA FairStep ==
  ASSUME TypeOK, GoneAreOpening, FairPool, [ApiNext]_allVars
  PROVE  FairPool'
<1>1. CASE UNCHANGED vars
  <2>1. UNCHANGED <<now, pool, state, req, asked>>
    BY <1>1 DEF vars
  <2> QED BY <2>1, FairNobody
<1>2. ASSUME NEW r \in Requests, NEW t \in Tenants, Miss(r, t) PROVE FairPool'
  <2>1. \A u \in Tenants : pool'[u] = pool[u] \/ pool'[u] = NoEntry
    BY <1>2 DEF Miss
  <2>2. \A q \in Requests : req'[q] = req[q] \/ req'[q].step # "using"
    BY <1>2 DEF Miss, TypeOK
  <2>3. \A c \in Conns : state[c] # "unused" => state'[c] # "unused"
    BY <1>2 DEF Miss, TypeOK
  <2>4. asked' = [asked EXCEPT ![t] = now] /\ UNCHANGED now
    BY <1>2 DEF Miss
  <2>5. now \in 0..MaxTime /\ MaxTime \in Nat /\ asked \in [Tenants -> 0..MaxTime]
    BY PoolAssumption DEF TypeOK
  <2> USE DEF HasEntry, InUse
  <2>6. /\ \A u \in Tenants : HasEntry(u)' => HasEntry(u) /\ pool'[u] = pool[u]
        /\ \A q \in Requests : InUse(q)' => InUse(q) /\ req'[q] = req[q]
    BY <2>1, <2>2
  <2>7. OwnEntries'
    BY <2>6 DEF FairPool, OwnEntries
  <2>8. OpenedBefore'
    <3>1. \A u \in Tenants : HasEntry(u) => pool[u].conn \in Conns
      BY EntryConn DEF Pooled
    <3>2. \A q \in Requests : InUse(q) => req[q].conn \in Conns
      BY UserType
    <3> QED BY <2>3, <2>6, <3>1, <3>2 DEF FairPool, OpenedBefore
  <2>9. InTime'
    <3>1. HasEntry(t)' => FALSE
      BY <1>2 DEF Miss
    <3>2. asked'[t] <= now' /\ \A u \in Tenants \ {t} : asked'[u] = asked[u]
      BY <2>4, <2>5
    <3>3. \A u \in Tenants : asked'[u] <= now' /\ (HasEntry(u)' => pool'[u].lastUsed <= asked'[u])
      BY <2>4, <2>6, <3>1, <3>2 DEF FairPool, InTime
    <3>4. \A q \in Requests : InUse(q)' => req'[q].since <= now'
      BY <2>4, <2>6 DEF FairPool, InTime
    <3> QED BY <3>3, <3>4 DEF InTime
  <2> QED BY <2>7, <2>8, <2>9 DEF FairPool
<1>3. ASSUME NEW r \in Requests, NEW c \in Conns, Opened(r, c) PROVE FairPool'
  <2>1. req[r].tenant \in Tenants
    BY <1>3 DEF Opened, TypeOK, Opening, Using, Idle
  <2>2. PICK s \in {"connecting", "connected"} : state' = [state EXCEPT ![c] = s]
    BY <1>3 DEF Opened
  <2>3. \A q \in Requests \ {r} : req'[q] = req[q]
    BY <1>3 DEF Opened, TypeOK
  <2>4. req'[r] = [step |-> "using", tenant |-> req[r].tenant, conn |-> c, since |-> now]
    BY <1>3 DEF Opened, TypeOK
  <2> QED BY <1>3, <2>1, <2>2, <2>3, <2>4, FairOpened DEF Opened
<1>4. ASSUME NEW r \in Requests, NEW c \in Conns, OpenedForNobody(r, c) PROVE FairPool'
  <2>1. req[r].tenant \in Tenants
    BY <1>4 DEF OpenedForNobody, GoneAreOpening, OpeningRequests, TypeOK, Opening, Using, Idle
  <2>2. PICK s \in {"connecting", "connected"} : state' = [state EXCEPT ![c] = s]
    BY <1>4 DEF OpenedForNobody
  <2>3. \A q \in Requests \ {r} : req'[q] = req[q]
    BY <1>4 DEF OpenedForNobody, TypeOK
  <2>4. ~ InUse(r)'
    BY <1>4 DEF OpenedForNobody, TypeOK, InUse, Idle
  <2> QED BY <1>4, <2>1, <2>2, <2>3, <2>4, FairOpened DEF OpenedForNobody
<1>5. ASSUME NEW r \in Requests, OpenFails(r) \/ Answered(r) PROVE FairPool'
  <2>1. \A q \in Requests : req'[q] = req[q] \/ req'[q].step # "using"
    BY <1>5 DEF OpenFails, Answered, TypeOK, Idle
  <2> QED BY <1>5, <2>1, FairNobody DEF OpenFails, Answered
<1>6. ASSUME NEW c \in Conns, Connects(c) \/ Drops(c) PROVE FairPool'
  <2>1. \A d \in Conns : state[d] # "unused" => state'[d] # "unused"
    BY <1>6 DEF Connects, Drops, TypeOK
  <2> QED BY <1>6, <2>1, FairNobody DEF Connects, Drops
<1>7. CASE CloseAll
  <2>1. \A d \in Conns : state[d] # "unused" => state'[d] # "unused"
    BY <1>7 DEF CloseAll
  <2> QED BY <1>7, <2>1, FairNobody DEF CloseAll
<1>8. CASE Clear
  BY <1>8, FairNobody DEF Clear
<1>9. CASE Tick
  <2>1. now' = now + 1 /\ UNCHANGED <<pool, state, req, asked>> /\ now \in Int
    BY <1>9, PoolAssumption DEF Tick, TypeOK
  <2>2. OwnEntries' /\ OpenedBefore'
    BY <2>1 DEF FairPool, OwnEntries, OpenedBefore, HasEntry, InUse
  <2>3. \A t \in Tenants : asked[t] \in Int
    BY PoolAssumption DEF TypeOK
  <2>4. \A r \in Requests : InUse(r) => req[r].since \in Int
    BY UserType, PoolAssumption
  <2>5. InTime'
    BY <2>1, <2>3, <2>4 DEF FairPool, InTime, HasEntry, InUse
  <2> QED BY <2>2, <2>5 DEF FairPool
<1> QED BY <1>1, <1>2, <1>3, <1>4, <1>5, <1>6, <1>7, <1>8, <1>9, FairHit, ApiStep
        DEF Next, OpeningForNobody

-----------------------------------------------------------------------------

\* The tenants other than t that asked at time s or later
Since(t, s) == {u \in Tenants \ {t} : asked[u] >= s}

\* Time goes on: who has asked since then still has.
LEMMA SinceGrows ==
  ASSUME TypeOK, InTime, NEW t, NEW s \in 0..MaxTime,
         \A u \in Tenants : asked'[u] = asked[u] \/ asked'[u] = now
  PROVE  /\ Since(t, s) \subseteq Since(t, s)'
         /\ Cardinality(Since(t, s)) <= Cardinality(Since(t, s)')
<1>1. now \in Int /\ s \in Int /\ \A u \in Tenants : asked[u] \in Int /\ asked[u] <= now
  BY PoolAssumption DEF TypeOK, InTime
<1>2. Since(t, s) \subseteq Since(t, s)'
  BY <1>1 DEF Since
<1>3. IsFiniteSet(Since(t, s)')
  BY FS_Subset DEF Since
<1> QED BY <1>2, <1>3, Fewer

\* The entries that stay were asked for since the evicted one was last used,
\* and so was the tenant that takes its place.
LEMMA EvictionFair ==
  ASSUME TypeOK, InTime, NEW t \in Tenants, NEW v \in Oldest(Pooled \ {t}),
         Full(Pooled \ {t}), asked' = [asked EXCEPT ![t] = now],
         NEW s \in 0..MaxTime, s <= pool[v].lastUsed
  PROVE  Cardinality(Since(v, s)') >= MaxConnections
<1> DEFINE rest == Pooled \ {t}
           others == (rest \ {v}) \cup {t}
<1>1. v \in rest /\ \A u \in rest : pool[v].lastUsed <= pool[u].lastUsed
  BY DEF Oldest
<1>2. /\ now \in Int /\ MaxTime \in Nat
      /\ \A u \in Tenants : asked[u] \in Int /\ asked[u] <= now
      /\ \A u \in Pooled : pool[u].lastUsed \in Int /\ pool[u].lastUsed <= asked[u]
  BY EntryConn, PoolAssumption DEF TypeOK, InTime, HasEntry, Pooled
<1>3. s \in Int /\ s <= now
  <2>1. v \in Pooled /\ v \in Tenants /\ s \in Int
    BY <1>1, <1>2 DEF Pooled
  <2>2. pool[v].lastUsed \in Int /\ pool[v].lastUsed <= asked[v] /\ asked[v] \in Int /\ asked[v] <= now
    BY <1>2, <2>1
  <2> QED BY <1>2, <2>1, <2>2
<1>4. asked'[t] = now /\ \A u \in Tenants \ {t} : asked'[u] = asked[u]
  BY DEF TypeOK
<1>5. \A u \in rest \ {v} : u \in Tenants \ {t} /\ asked[u] >= s
  BY <1>1, <1>2, <1>3 DEF Pooled
<1>6. t # v /\ asked'[t] >= s
  BY <1>1, <1>2, <1>3, <1>4
<1>7. others \subseteq Since(v, s)'
  BY <1>4, <1>5, <1>6 DEF Since
<1>8. IsFiniteSet(rest) /\ IsFiniteSet(rest \ {v}) /\ Cardinality(rest \ {v}) = Cardinality(rest) - 1
      /\ Cardinality(rest) \in Nat
  BY <1>1, FiniteParts, Fewer, OneLess
<1>9. Cardinality(others) = Cardinality(rest) /\ IsFiniteSet(others)
  <2>1. t \notin rest \ {v}
    OBVIOUS
  <2>2. IsFiniteSet(others) /\ Cardinality(others) = Cardinality(rest \ {v}) + 1
    BY <1>8, <2>1, FS_AddElement
  <2> QED BY <1>8, <2>2
<1>10. IsFiniteSet(Since(v, s)')
  BY FS_Subset DEF Since
<1>11. Cardinality(Since(v, s)') \in Nat /\ Cardinality(others) <= Cardinality(Since(v, s)')
  BY <1>7, <1>10, Fewer
<1> QED BY <1>8, <1>9, <1>11, PoolAssumption DEF Full

LEMMA Kept ==
  BusyTenantsKept <=>
    \A r \in Requests : InUse(r) /\ state[req[r].conn] = "closed" =>
      Cardinality(Since(req[r].tenant, req[r].since)) >= MaxConnections
BY DEF BusyTenantsKept, InUse, Since

LEMMA KeptStep ==
  ASSUME TypeOK, GoneAreOpening, FairPool, BusyTenantsKept, [ApiNext]_allVars
  PROVE  BusyTenantsKept'
<1> SUFFICES ASSUME NEW r \in Requests, InUse(r)', state'[req'[r].conn] = "closed"
             PROVE  Cardinality(Since(req[r].tenant, req[r].since)') >= MaxConnections /\ req'[r] = req[r]
  BY DEF BusyTenantsKept, InUse, Since
<1>1. TypeOK'
  BY ApiTypeStep
<1>2. ASSUME InUse(r), state[req[r].conn] = "closed", req'[r] = req[r],
             \A u \in Tenants : asked'[u] = asked[u] \/ asked'[u] = now
      PROVE  Cardinality(Since(req[r].tenant, req[r].since)') >= MaxConnections
  <2>1. req[r].since \in 0..MaxTime
    BY <1>2, UserType
  <2>2. Cardinality(Since(req[r].tenant, req[r].since))
          <= Cardinality(Since(req[r].tenant, req[r].since)')
    BY <1>2, <2>1, SinceGrows DEF FairPool
  <2>3. Cardinality(Since(req[r].tenant, req[r].since)) >= MaxConnections
    BY <1>2, Kept
  <2>4. IsFiniteSet(Since(req[r].tenant, req[r].since)) /\ IsFiniteSet(Since(req[r].tenant, req[r].since)')
    BY FS_Subset DEF Since
  <2>5. Cardinality(Since(req[r].tenant, req[r].since)) \in Nat
        /\ Cardinality(Since(req[r].tenant, req[r].since)') \in Nat
    BY <2>4, FS_CardinalityType
  <2> QED BY <2>2, <2>3, <2>5, PoolAssumption
<1>3. CASE req'[r] = req[r] /\ state[req[r].conn] = "closed"
           /\ \A u \in Tenants : asked'[u] = asked[u] \/ asked'[u] = now
  BY <1>2, <1>3 DEF InUse
<1>4. ASSUME NEW q \in Requests, NEW t \in Tenants, Hit(q, t)
      PROVE  req'[r] = req[r] /\ state[req[r].conn] = "closed"
             /\ \A u \in Tenants : asked'[u] = asked[u] \/ asked'[u] = now
  BY <1>4 DEF Hit, Alive, TypeOK
<1>5. ASSUME NEW q \in Requests, NEW t \in Tenants, Miss(q, t)
      PROVE  Cardinality(Since(req[r].tenant, req[r].since)') >= MaxConnections /\ req'[r] = req[r]
  <2>1. r # q /\ req'[r] = req[r] /\ InUse(r)
    BY <1>5 DEF Miss, TypeOK, InUse
  <2>2. asked' = [asked EXCEPT ![t] = now] /\ \A u \in Tenants : asked'[u] = asked[u] \/ asked'[u] = now
    BY <1>5 DEF Miss, TypeOK
  <2>3. CASE state[req[r].conn] = "closed"
    BY <2>1, <2>2, <2>3, <1>2
  <2>4. CASE state[req[r].conn] # "closed"
    <3>1. Full(Pooled \ {t}) /\ \E v \in Oldest(Pooled \ {t}) : state' = Evicted(v)
      BY <1>5, <2>1, <2>4 DEF Miss
    <3>2. PICK v \in Oldest(Pooled \ {t}) : state' = [state EXCEPT ![pool[v].conn] = "closed"]
      BY <3>1
    <3>3. v \in Tenants /\ HasEntry(v)
      BY DEF Oldest, Pooled, HasEntry
    <3>4. req[r].conn = pool[v].conn
      BY <2>1, <2>4, <3>2, UserType DEF TypeOK
    <3>5. req[r].tenant = v /\ req[r].since <= pool[v].lastUsed
      BY <2>1, <3>3, <3>4 DEF FairPool, OwnEntries
    <3>6. req[r].since \in 0..MaxTime
      BY <2>1, UserType
    <3>7. PICK s \in 0..MaxTime : s = req[r].since
      BY <3>6
    <3>8. Cardinality(Since(v, s)') >= MaxConnections
      BY <2>2, <3>1, <3>5, <3>7, EvictionFair DEF FairPool
    <3>9. req'[r].tenant = v /\ req'[r].since = s
      BY <2>1, <3>5, <3>7
    <3> QED BY <2>1, <3>8, <3>9 DEF Since
  <2> QED BY <2>3, <2>4
<1>6. ASSUME NEW q \in Requests, NEW c \in Conns, Opened(q, c) \/ OpenedForNobody(q, c)
      PROVE  req'[r] = req[r] /\ state[req[r].conn] = "closed"
             /\ \A u \in Tenants : asked'[u] = asked[u] \/ asked'[u] = now
  <2>1. \A u \in Tenants : asked'[u] = asked[u] \/ asked'[u] = now
    BY <1>6 DEF Opened, OpenedForNobody, TypeOK
  <2>2. state'[c] # "closed" /\ \A d \in Conns \ {c} : state'[d] = state[d]
    BY <1>6 DEF Opened, OpenedForNobody, TypeOK
  <2>3. r # q
    BY <1>6, <2>2 DEF Opened, OpenedForNobody, TypeOK, InUse, Idle
  <2>4. req'[r] = req[r]
    BY <1>6, <2>3 DEF Opened, OpenedForNobody, TypeOK
  <2>5. req[r].conn \in Conns
    BY <2>4, UserType DEF InUse
  <2> QED BY <2>1, <2>2, <2>4, <2>5
<1>7. ASSUME NEW q \in Requests, OpenFails(q) \/ Answered(q)
      PROVE  req'[r] = req[r] /\ state[req[r].conn] = "closed"
             /\ \A u \in Tenants : asked'[u] = asked[u] \/ asked'[u] = now
  BY <1>7 DEF OpenFails, Answered, TypeOK, InUse, Idle
<1>8. ASSUME \/ \E c \in Conns : Connects(c) \/ Drops(c)
             \/ Tick \/ Clear \/ UNCHANGED vars
      PROVE  req'[r] = req[r] /\ state[req[r].conn] = "closed"
             /\ \A u \in Tenants : asked'[u] = asked[u] \/ asked'[u] = now
  <2>1. UNCHANGED <<req, asked>>
    BY <1>8 DEF Connects, Drops, Tick, Clear, vars
  <2>2. req[r].conn \in Conns
    BY <2>1, UserType DEF InUse
  <2>3. state'[req[r].conn] = "closed" => state[req[r].conn] = "closed"
    BY <1>8, <2>2 DEF Connects, Drops, Tick, Clear, vars, TypeOK
  <2> QED BY <2>1, <2>3
<1>9. ~ CloseAll
  <2>1. ASSUME CloseAll PROVE FALSE
    <3>1. req' = req /\ (req[r] = Idle \/ r \in OpeningRequests)
      BY <2>1 DEF CloseAll, Drained, GoneAreOpening
    <3> QED BY <3>1 DEF InUse, Idle, OpeningRequests
  <2> QED BY <2>1
<1> QED BY <1>3, <1>4, <1>5, <1>6, <1>7, <1>8, <1>9, ApiStep DEF Next, OpeningForNobody

\* A connection is closed under its user only when maxConnections other tenants
\* have asked since, for every number of tenants, requests and places and
\* every interleaving (getConnection, _evictLRU).
THEOREM BusyStayServed == ApiSpec => []BusyTenantsKept
<1> DEFINE Inv == TypeOK /\ GoneAreOpening /\ FairPool /\ BusyTenantsKept
<1>1. ApiInit => Inv
  <2>1. 0 <= 0
    OBVIOUS
  <2>2. ApiInit => FairPool /\ BusyTenantsKept
    BY <2>1 DEF ApiInit, Init, FairPool, OwnEntries, OpenedBefore, InTime, BusyTenantsKept, HasEntry,
                InUse, Idle
  <2> QED BY <2>2, ApiStart
<1>2. ASSUME Inv, [ApiNext]_allVars PROVE Inv'
  BY <1>2, ApiTypeStep, GoneStep, FairStep, KeptStep
<1> QED BY <1>1, <1>2, PTL DEF ApiSpec
=============================================================================
