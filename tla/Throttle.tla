------------------------------ MODULE Throttle ------------------------------
(***************************************************************************)
(* The storage behind the HTTP rate limit (FailOpenThrottlerStorage over   *)
(* RedisService).  A hit is counted in Redis by two commands, INCR and, by *)
(* the one that counts 1, EXPIRE; when a command fails, the hit is counted *)
(* once more in a Map of the server, of limited size.                      *)
(*                                                                         *)
(* A command may fail before or after Redis has carried it out (it is down *)
(* or only slow); ioredis may send it again when the connection is lost    *)
(* before the reply (maxRetriesPerRequest); Redis may restart and forget;  *)
(* a server may die.  Other servers look like more requests here, with a   *)
(* Map of their own; the one modelled is one server's.                     *)
(***************************************************************************)
EXTENDS Naturals, Sequences, FiniteSets

CONSTANTS
    Keys,        \* the clients (and routes) hits are counted for
    Hits,        \* the requests that can be in flight at once
    Ttl,         \* THROTTLE_TTL_MS, in ticks
    MaxMemory    \* maxMemoryEntries

ASSUME ThrottleAssumption ==
    Keys # {} /\ Ttl \in Nat \ {0} /\ MaxMemory \in Nat \ {0}

VARIABLES
    redis,    \* the counters in Redis
    memory,   \* the Map: entries in the order of insertion
    hit       \* what each request is doing

throttleVars == <<redis, memory, hit>>

-----------------------------------------------------------------------------
(* Of a count, all that matters here is whether it is the first, which     *)
(* sets the time to live; the limit the reply compares it with is left out.*)
(* left is the time to live: 0 when there is no counter, Never before      *)
(* EXPIRE.  orphan is history: the request that was to set it will not.    *)
Never == Ttl + 1
Counter == [left : 0..Never, orphan : BOOLEAN]
None == [left |-> 0, orphan |-> FALSE]

MemoryEntry == [key : Keys, left : 0..Ttl]

Hit == [pc : {"idle", "incr", "expire", "pttl"}, key : Keys]
HitAt(pc, k) == [pc |-> pc, key |-> k]
NoKey == CHOOSE k \in Keys : TRUE
Idle == HitAt("idle", NoKey)

ThrottleTypeOK ==
    /\ redis \in [Keys -> Counter]
    /\ \A k \in Keys : redis[k].orphan => redis[k].left = Never
    /\ memory \in Seq(MemoryEntry) /\ Len(memory) <= MaxMemory
    /\ hit \in [Hits -> Hit]

ThrottleInit ==
    /\ redis = [k \in Keys |-> None]
    /\ memory = <<>>
    /\ hit = [r \in Hits |-> Idle]

-----------------------------------------------------------------------------
(* incrementMemory, which runs when the promise of a command is rejected. *)

(* Mutant: entries that have expired are not swept. *)
SweptNot(entries) == entries

(* The entries that have not expired, in the order they were in. *)
Nth(S, n) == CHOOSE i \in S : Cardinality({j \in S : j <= i}) = n

Swept(entries) ==
    LET live == {i \in DOMAIN entries : entries[i].left > 0}
    IN  [n \in 1..Cardinality(live) |-> entries[Nth(live, n)]]

(* Setting a key that is there leaves its place in the Map. *)
Counted(entries, k) ==
    IF \E i \in DOMAIN entries : entries[i].key = k
      THEN [i \in DOMAIN entries |->
              IF entries[i] = [key |-> k, left |-> 0] THEN [key |-> k, left |-> Ttl]
                                                     ELSE entries[i]]
      ELSE Append(entries, [key |-> k, left |-> Ttl])

(* Mutant: nothing is evicted. *)
EvictedNot(entries) == entries

Evicted(entries) == IF Len(entries) > MaxMemory THEN Tail(entries) ELSE entries

FallBack(r) ==
    /\ memory' = Evicted(Counted(Swept(memory), hit[r].key))
    /\ hit' = [hit EXCEPT ![r] = Idle]

-----------------------------------------------------------------------------
Start(r, k) ==
    /\ hit[r].pc = "idle"
    /\ hit' = [hit EXCEPT ![r] = HitAt("incr", k)]
    /\ UNCHANGED <<redis, memory>>

(* What INCR replies: 1 for the first hit, or more. *)
Count(k) == IF redis[k] = None THEN 1 ELSE 2

(* Mutants: who sets the time to live: every hit, or a later one. *)
SetsExpiryAlways(count) == TRUE
SetsExpiryLater(count) == count = 2

SetsExpiry(count) == count = 1

(* The counter after INCR; lost tells whether the reply is. *)
Incremented(k, lost) ==
    [redis EXCEPT ![k].left = IF Count(k) = 1 THEN Never ELSE @,
                  ![k].orphan = @ \/ (lost /\ Count(k) = 1)]

(* In the disjuncts: the reply; INCR carried out, and the reply lost: the  *)
(* hit falls back or INCR is sent again; INCR not carried out.             *)
Incr(r) ==
    LET k == hit[r].key
    IN  /\ hit[r].pc = "incr"
        /\ \/ /\ redis' = Incremented(k, FALSE)
              /\ hit' = [hit EXCEPT ![r] = IF SetsExpiry(Count(k)) THEN HitAt("expire", k)
                                                                  ELSE HitAt("pttl", NoKey)]
              /\ UNCHANGED memory
           \/ /\ redis' = Incremented(k, TRUE)
              /\ FallBack(r) \/ UNCHANGED <<memory, hit>>
           \/ /\ FallBack(r)
              /\ UNCHANGED redis

Expiring(k) ==
    IF redis[k] = None THEN redis ELSE [redis EXCEPT ![k] = [left |-> Ttl, orphan |-> FALSE]]

Expire(r) ==
    LET k == hit[r].key
    IN  /\ hit[r].pc = "expire"
        /\ \/ /\ redis' = Expiring(k)
              /\ hit' = [hit EXCEPT ![r] = HitAt("pttl", NoKey)]
              /\ UNCHANGED memory
           \/ /\ redis' = Expiring(k)
              /\ FallBack(r)
           \/ /\ redis' = [redis EXCEPT ![k].orphan = @ \/ redis[k].left = Never]
              /\ FallBack(r)

(* The remaining time, for the client; a refusal depends on the count. *)
Pttl(r) ==
    /\ hit[r].pc = "pttl"
    /\ hit' = [hit EXCEPT ![r] = Idle]
    /\ UNCHANGED <<redis, memory>>

-----------------------------------------------------------------------------
(* Time passes: counters of Redis expire, entries wait to be swept. *)
Tick ==
    /\ redis' = [k \in Keys |->
                   IF redis[k].left = 1 THEN None
                   ELSE IF redis[k].left \in {0, Never} THEN redis[k]
                   ELSE [redis[k] EXCEPT !.left = @ - 1]]
    /\ memory' = [i \in DOMAIN memory |->
                    [memory[i] EXCEPT !.left = IF @ = 0 THEN 0 ELSE @ - 1]]
    /\ UNCHANGED hit

(* docker-compose.yml runs Redis without persistence. *)
Restart ==
    /\ redis' = [k \in Keys |-> None]
    /\ UNCHANGED <<memory, hit>>

(* The server dies, with its Map and its requests. *)
Die ==
    /\ redis' = [k \in Keys |-> IF redis[k].left = Never THEN [redis[k] EXCEPT !.orphan = TRUE]
                                                         ELSE redis[k]]
    /\ memory' = <<>>
    /\ hit' = [r \in Hits |-> Idle]

Step(r) == Incr(r) \/ Expire(r) \/ Pttl(r)

ThrottleNext ==
    \/ \E r \in Hits : Step(r) \/ \E k \in Keys : Start(r, k)
    \/ Tick \/ Restart \/ Die

(* Commands are answered, or time out, and time passes. *)
ThrottleFairness == WF_throttleVars(Tick) /\ \A r \in Hits : WF_throttleVars(Step(r))

ThrottleSpec == ThrottleInit /\ [][ThrottleNext]_throttleVars /\ ThrottleFairness

-----------------------------------------------------------------------------
(* Properties. *)

(* A counter of Redis without a time to live, which would refuse its       *)
(* client for good, is about to get one; or the first INCR lost its reply, *)
(* or EXPIRE failed, or the server died (redis.service.ts:153-156).        *)
OnlyOrphansStay ==
    \A k \in Keys : redis[k].left = Never =>
        redis[k].orphan \/ \E r \in Hits : hit[r] = HitAt("expire", k)

(* fail-open-throttler.storage.ts:94: the Map is evicted in the order of   *)
(* insertion, which is the order in which entries expire: the entry that   *)
(* is given up is the one with the least time to go.                       *)
OldestFirst ==
    \A i, j \in DOMAIN memory : i < j => memory[i].left <= memory[j].left

(* However often a client tries, the window it is counted in ends, if the  *)
(* time to live of the counter was not lost.                               *)
WindowEnds ==
    \A k \in Keys : redis[k].left > 0 ~> (redis[k].left = 0 \/ redis[k].orphan)

=============================================================================
