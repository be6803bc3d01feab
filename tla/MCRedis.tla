------------------------------ MODULE MCRedis ------------------------------
(***************************************************************************)
(* Instance of the two modules that work with Redis, one after the other:  *)
(* part is the one that is run, the other stays as it was initialised.     *)
(* Throttle runs twice: with hits that overlap, and with a Map that is     *)
(* full of the entries of one hit at a time.                               *)
(***************************************************************************)
EXTENDS Search, Throttle

CONSTANTS FewKeys, LoneHit   \* bounds: where hits overlap, where the Map is full

VARIABLE part

redisPartsVars == <<part, searchVars, throttleVars>>

-----------------------------------------------------------------------------
Questions == <<{"a"}, {"a", "b"}>>

SomeConfigs ==
    {[name |-> "serper", mock |-> FALSE, key |-> TRUE, cached |-> TRUE],
     [name |-> "serper", mock |-> TRUE, key |-> FALSE, cached |-> TRUE],
     [name |-> "other", mock |-> FALSE, key |-> TRUE, cached |-> FALSE]}

-----------------------------------------------------------------------------
SearchRuns == part = "search"
ThrottleRuns == part \in {"overlap", "full"}

RedisPartsInit ==
    /\ part \in {"search", "overlap", "full"}
    /\ SearchRuns \/ (status = "off" /\ conf = CHOOSE c \in SomeConfigs : TRUE)
    /\ SearchInit
    /\ ThrottleInit

HitStarts(r, k) ==
    /\ Start(r, k)
    /\ part = "overlap" => k \in FewKeys
    /\ part = "full" => r = LoneHit

(* ThrottleNext, where hits start within the bounds of the part. *)
HitsNext ==
    \/ \E r \in Hits : Step(r) \/ \E k \in Keys : HitStarts(r, k)
    \/ Tick \/ Restart \/ Die

RedisPartsNext ==
    \/ SearchRuns /\ SearchNext /\ UNCHANGED <<part, throttleVars>>
    \/ ThrottleRuns /\ HitsNext /\ UNCHANGED <<part, searchVars>>

(* What is not run has nothing to do: fairness asks nothing of it. *)
RedisPartsSpec ==
    /\ RedisPartsInit /\ [][RedisPartsNext]_redisPartsVars
    /\ SearchFairness /\ ThrottleFairness

=============================================================================
