------------------------------ MODULE RedisClient ------------------------------
(***************************************************************************)
(* The connection of the one Redis client a process has: createClient of   *)
(* services/redis.js. The client has no offline queue: a command issued    *)
(* while the client is not ready is rejected at once. When the connection  *)
(* is lost the client tries again, at most MaxTries times; then its status *)
(* is "end", and stays so until the process is started anew.               *)
(***************************************************************************)
EXTENDS Integers

CONSTANT MaxTries \* attempts to reconnect, 5 in the code

VARIABLES
  client, \* status of the client
  tries   \* the times retryStrategy has been called since the connection was lost

clientVars == <<client, tries>>

ClientInit == client = "ready" /\ tries = 0

ready == client = "ready"

Drop == ready /\ client' = "retry" /\ tries' = 1

Reconnect == client = "retry" /\ client' = "ready" /\ tries' = 0

\* retryStrategy: null after the last attempt, and the client ends
retryStrategy ==
  /\ client = "retry"
  /\ IF tries + 1 > MaxTries THEN client' = "end" /\ tries' = 0
                             ELSE tries' = tries + 1 /\ UNCHANGED client

ClientNext == Drop \/ Reconnect \/ retryStrategy
=============================================================================
