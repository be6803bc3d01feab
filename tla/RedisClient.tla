---------------------------- MODULE RedisClient ----------------------------
(***************************************************************************)
(* The connection RedisService keeps through ioredis, and what it believes *)
(* of it (available, which the health report shows).  Commands sent while  *)
(* the connection is not ready are refused at once (enableOfflineQueue is  *)
(* off); after MaxRetries attempts in a row that failed, retryStrategy     *)
(* returns null and the client gives up until the server is restarted.     *)
(***************************************************************************)
EXTENDS Naturals

CONSTANTS
    MaxRetries,   \* attempts after which retryStrategy gives up
    MaxEvents     \* bound: outages of Redis and restarts of the server

ASSUME RedisAssumption == MaxRetries \in Nat /\ MaxEvents \in Nat

VARIABLES
    reach,       \* Redis can be reached
    status,      \* of the client; "off" when REDIS_HOST is not set
    attempts,    \* the retryStrategy's times
    available,   \* the flag isAvailable() reads
    events

clientVars == <<status, attempts, available>>
redisVars == <<reach, status, attempts, available, events>>

RedisTypeOK ==
    /\ reach \in BOOLEAN /\ available \in BOOLEAN
    /\ status \in {"off", "connecting", "ready", "end"}
    /\ attempts \in 0 .. MaxRetries + 1
    /\ events \in 0 .. MaxEvents

(* The constructor: without a host there is no client. *)
RedisInit ==
    /\ reach = TRUE
    /\ status \in {"off", "connecting"} /\ attempts = 0 /\ available = FALSE
    /\ events = 0

-----------------------------------------------------------------------------
(* An attempt succeeds: ioredis starts counting anew.  A ping that then    *)
(* fails in connectSafely is a command that fails, below.                  *)
Ready ==
    /\ status = "connecting" /\ reach
    /\ status' = "ready" /\ attempts' = 0 /\ available' = TRUE
    /\ UNCHANGED <<reach, events>>

(* Mutant: nothing listens to errors of the connection. *)
AttemptFailsUnheard ==
    /\ status = "connecting"
    /\ attempts' = attempts + 1
    /\ status' = IF attempts' > MaxRetries THEN "end" ELSE status
    /\ UNCHANGED <<reach, events, available>>

(* It fails, with the event "error", and with "end" if it was the last. *)
AttemptFails ==
    /\ status = "connecting"
    /\ attempts' = attempts + 1
    /\ status' = IF attempts' > MaxRetries THEN "end" ELSE status
    /\ available' = FALSE
    /\ UNCHANGED <<reach, events>>

Connect == Ready \/ AttemptFails

(* The connection is lost.  If Redis closes it there is no "error", and    *)
(* the flag stays until the next attempt fails.                            *)
Drop ==
    /\ status = "ready" /\ ~reach
    /\ attempts' = attempts + 1
    /\ status' = IF attempts' > MaxRetries THEN "end" ELSE "connecting"
    /\ IF status' = "end" THEN available' = FALSE ELSE available' \in {available, FALSE}
    /\ UNCHANGED <<reach, events>>

(* What a command finds: a reply, or an error or the commandTimeout. *)
CommandReplies ==
    /\ status = "ready" /\ reach
    /\ available' = TRUE
    /\ UNCHANGED <<reach, status, attempts, events>>

CommandFails ==
    /\ available' = FALSE
    /\ UNCHANGED <<reach, status, attempts, events>>

(* onModuleDestroy disconnects, and the next server starts from nothing. *)
Rebooted == status' \in {"off", "connecting"} /\ attempts' = 0 /\ available' = FALSE

=============================================================================
