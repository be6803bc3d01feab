------------------------------- MODULE Search -------------------------------
(***************************************************************************)
(* Web searches: SearchService, the cache it keeps in Redis and the        *)
(* provider it asks.  The allowance of a search and what its log charges   *)
(* are in Metering, the rows it leaves in Listing.                         *)
(*                                                                         *)
(* A question is what buildKey makes of query and limit, so two spellings  *)
(* of one query are the same.  Ticks are much longer than a command's      *)
(* time-out; a SET that was given up may reach Redis later (a stray).      *)
(***************************************************************************)
EXTENDS RedisClient, FiniteSets

CONSTANTS
    MaxRequests,   \* bound: requests, taken in the order they begin
    Overlap,       \* bound: requests in flight at a time
    MaxStrays,     \* bound: commands on their way that were given up
    Asks,          \* the questions (query and limit) buildKey tells apart
    MayAsk,        \* bound: which of them each request may ask
    Configs,       \* the configurations the server may be started with
    CacheTtl       \* cacheTtlSeconds, in ticks

(* A server whose time to live is 0 is one that does not cache. *)
ASSUME SearchAssumption ==
    /\ MaxRequests \in Nat /\ Overlap \in Nat /\ MaxStrays \in Nat
    /\ CacheTtl \in Nat \ {0}
    /\ Asks # {} /\ \A r \in 1 .. MaxRequests : MayAsk[r] \subseteq Asks

VARIABLES
    conf,     \* the configuration the server was started with
    cache,    \* the entries in Redis
    strays,   \* entries on their way whose senders gave them up
    req       \* what each request is doing

searchVars == <<reach, status, attempts, available, events, conf, cache, strays, req>>

-----------------------------------------------------------------------------
Requests == 1 .. MaxRequests
Supported == {"serper", "brave"}
Config == [name : STRING, mock : BOOLEAN, key : BOOLEAN, cached : BOOLEAN]

(* by is the provider that answered, some whether there are results.       *)
(* age is history: the ticks since then, counted up to CacheTtl + 1.       *)
Answer == [by : Supported \cup {"mock"}, ask : Asks, some : BOOLEAN, age : 0 .. CacheTtl + 1]

Key(by, ask) == <<by, ask>>
Entry == [key : (Supported \cup {"mock"}) \X Asks, answer : Answer,
          left : 0 .. CacheTtl, stray : BOOLEAN]

(* A request keeps what it will still read: the question until an answer   *)
(* is known, the answer until it is cached.                                *)
Request == [pc : {"idle", "lookup", "ask", "wait", "fill", "save", "log", "failed",
                  "done"},
            ask : Asks, answer : Answer]

NoAsk == CHOOSE a \in Asks : TRUE
NoAnswer == [by |-> "mock", ask |-> NoAsk, some |-> FALSE, age |-> 0]
At(pc) == [pc |-> pc, ask |-> NoAsk, answer |-> NoAnswer]

SearchTypeOK ==
    /\ RedisTypeOK
    /\ conf \in Configs
    /\ cache \subseteq Entry /\ strays \subseteq Entry
    /\ \A e, f \in cache : e.key = f.key => e = f
    /\ req \in [Requests -> Request]

SearchInit ==
    /\ RedisInit
    /\ conf \in Configs
    /\ cache = {} /\ strays = {}
    /\ req = [r \in Requests |-> At("idle")]

-----------------------------------------------------------------------------
InFlight == {r \in Requests : req[r].pc \notin {"idle", "done"}}

Begins(r) ==
    /\ req[r].pc = "idle" /\ \A s \in 1 .. r - 1 : req[s].pc # "idle"
    /\ Cardinality(InFlight) < Overlap

(* search(), from the checks on. *)
SearchStart(r, ask) ==
    /\ Begins(r)
    /\ req' = [req EXCEPT ![r] = [At(IF conf.cached THEN "lookup" ELSE "ask") EXCEPT !.ask = ask]]
    /\ UNCHANGED <<redisVars, conf, cache, strays>>

(* The entries under the name the server is configured with. *)
Found(r) == {e \in cache : e.key = Key(conf.name, req[r].ask)}

Miss(r) == req' = [req EXCEPT ![r].pc = "ask"]

LookupFails(r) == Miss(r) /\ CommandFails

Lookup(r) ==
    /\ req[r].pc = "lookup"
    /\ \/ /\ CommandReplies
          /\ \/ Found(r) = {} /\ Miss(r)
             \/ Found(r) # {} /\ req' = [req EXCEPT ![r] = At("save")]
       \/ LookupFails(r)
    /\ UNCHANGED <<conf, cache, strays>>

(* An answer is cached unless it is empty. *)
Answered(r, by, some) ==
    LET answer == [by |-> by, ask |-> req[r].ask, some |-> some, age |-> 0]
    IN  req' = [req EXCEPT ![r] = IF conf.cached /\ some
                                    THEN [At("fill") EXCEPT !.answer = answer]
                                    ELSE At("save")]

Failed(r) == req' = [req EXCEPT ![r] = At("failed")]

(* Without a key the answer is 503, under an unknown name 500. *)
AskProvider(r) ==
    /\ req[r].pc = "ask"
    /\ \/ conf.mock /\ Answered(r, "mock", TRUE)
       \/ ~conf.mock /\ (~conf.key \/ conf.name \notin Supported) /\ Failed(r)
       \/ /\ ~conf.mock /\ conf.key /\ conf.name \in Supported
          /\ req' = [req EXCEPT ![r].pc = "wait"]
    /\ UNCHANGED <<redisVars, conf, cache, strays>>

(* The provider answers; a body that is no JSON, or whose items have no    *)
(* title or link, gives no results.                                        *)
ProviderAnswers(r) ==
    /\ req[r].pc = "wait"
    /\ \E some \in BOOLEAN : Answered(r, conf.name, some)
    /\ UNCHANGED <<redisVars, conf, cache, strays>>

(* It refuses, cannot be reached, or sends a body that is null: 502. *)
ProviderRefuses(r) ==
    /\ req[r].pc = "wait" /\ Failed(r)
    /\ UNCHANGED <<redisVars, conf, cache, strays>>

(* Mutant: the timer is cleared before the body is read. *)
TimeoutCleared(r) == FALSE /\ UNCHANGED searchVars

(* The AbortController, whose timer runs until the body is read: 504. *)
Timeout(r) ==
    /\ req[r].pc = "wait" /\ Failed(r)
    /\ UNCHANGED <<redisVars, conf, cache, strays>>

(* safeRecordUsage, whether it succeeds or not, and the HttpException. *)
LogFailure(r) ==
    /\ req[r].pc = "failed"
    /\ req' = [req EXCEPT ![r] = At("done")]
    /\ UNCHANGED <<redisVars, conf, cache, strays>>

-----------------------------------------------------------------------------
(* Mutant: under the name that is configured. *)
NewEntryNamed(r) ==
    [key |-> Key(conf.name, req[r].answer.ask), answer |-> req[r].answer,
     left |-> CacheTtl, stray |-> FALSE]

(* SearchCacheService.set: under the name of the provider that answered. *)
NewEntry(r) ==
    [key |-> Key(req[r].answer.by, req[r].answer.ask), answer |-> req[r].answer,
     left |-> CacheTtl, stray |-> FALSE]

Put(entries, e) == {f \in entries : f.key # e.key} \cup {e}

(* SET with EX, and what is left of it when its reply is given up. *)
Fill(r) ==
    /\ req[r].pc = "fill"
    /\ \/ CommandReplies /\ cache' = Put(cache, NewEntry(r)) /\ UNCHANGED strays
       \/ /\ CommandFails
          /\ \/ UNCHANGED strays
             \/ /\ status = "ready" /\ Cardinality(strays) < MaxStrays
                /\ strays' = strays \cup {[NewEntry(r) EXCEPT !.stray = TRUE]}
          /\ UNCHANGED cache
    /\ req' = [req EXCEPT ![r] = At("save")]
    /\ UNCHANGED <<conf>>

StrayLands ==
    /\ reach
    /\ \E e \in strays :
         /\ cache' = Put(cache, e)
         /\ strays' = strays \ {e}
    /\ UNCHANGED <<redisVars, conf, req>>

(* webSearch.create; its error is answered with 500 and not logged. *)
Save(r) ==
    /\ req[r].pc = "save"
    /\ \E pc \in {"log", "done"} : req' = [req EXCEPT ![r] = At(pc)]
    /\ UNCHANGED <<redisVars, conf, cache, strays>>

Log(r) ==
    /\ req[r].pc = "log"
    /\ req' = [req EXCEPT ![r] = At("done")]
    /\ UNCHANGED <<redisVars, conf, cache, strays>>

-----------------------------------------------------------------------------
(* Commands in progress are over before a tick is. *)
Older(answer) == [answer EXCEPT !.age = IF @ > CacheTtl THEN @ ELSE @ + 1]

SearchTick ==
    /\ \A r \in Requests : req[r].pc \notin {"lookup", "fill"}
    /\ cache' = {[e EXCEPT !.left = @ - 1, !.answer = Older(@)] : e \in {f \in cache : f.left > 1}}
    /\ strays' = {[e EXCEPT !.answer = Older(@)] : e \in strays}
    /\ UNCHANGED <<redisVars, conf, req>>

(* Redis goes, keeps or loses what it held, and comes back. *)
Outage ==
    /\ reach /\ events < MaxEvents
    /\ reach' = FALSE /\ events' = events + 1
    /\ cache' \in {cache, {}} /\ strays' \in {strays, {}}
    /\ UNCHANGED <<clientVars, conf, req>>

Return ==
    /\ ~reach /\ reach' = TRUE
    /\ UNCHANGED <<clientVars, events, conf, cache, strays, req>>

(* The server dies or is stopped, and started with another configuration. *)
Reboot ==
    /\ events < MaxEvents /\ events' = events + 1
    /\ Rebooted /\ conf' \in Configs
    /\ req' = [r \in Requests |-> IF r \notin InFlight THEN req[r] ELSE At("done")]
    /\ UNCHANGED <<reach, cache, strays>>

Serve(r) ==
    \/ Lookup(r) \/ AskProvider(r) \/ Timeout(r) \/ LogFailure(r)
    \/ Fill(r) \/ Save(r) \/ Log(r)

Connection == (Connect \/ Drop) /\ UNCHANGED <<conf, cache, strays, req>>

SearchNext ==
    \/ \E r \in Requests :
         \/ \E ask \in MayAsk[r] : SearchStart(r, ask)
         \/ Serve(r) \/ ProviderAnswers(r) \/ ProviderRefuses(r)
    \/ Connection \/ StrayLands \/ SearchTick \/ Outage \/ Return \/ Reboot

(* Timers, the database and the reconnection; nothing of the provider, of  *)
(* Redis or of the users.                                                  *)
SearchFairness ==
    /\ \A r \in Requests : WF_searchVars(Serve(r))
    /\ WF_searchVars(Connection)

SearchSpec == SearchInit /\ [][SearchNext]_searchVars /\ SearchFairness

-----------------------------------------------------------------------------
(* Properties. *)

(* search-cache.service.ts:23: whatever configurations the server was run  *)
(* with, and however the fills of searches overlap, an answer taken from   *)
(* the cache is one of the provider that is configured, to this query and  *)
(* limit; it has results, and is older than the time to live only if the   *)
(* reply to its SET was given up.                                          *)
Fits(e, r) ==
    /\ e.answer.by = conf.name /\ e.answer.ask = req[r].ask
    /\ e.answer.some
    /\ e.answer.age < CacheTtl \/ e.stray

CacheFits ==
    \A r \in Requests : req[r].pc = "lookup" => \A e \in Found(r) : Fits(e, r)

(* README.md:43, "The API still runs if Redis is off": a search fails only *)
(* in a step of the provider's, never because Redis is slow, gone or given *)
(* up; and it is answered whatever becomes of Redis, even if the provider  *)
(* is silent for ever.                                                     *)
SearchServed ==
    /\ [][\A r \in Requests :
            req[r].pc # "failed" /\ req'[r].pc = "failed" => req[r].pc \in {"ask", "wait"}]_searchVars
    /\ \A r \in Requests : r \in InFlight ~> r \notin InFlight

(* redis.service.ts:41-63: if Redis stays away it is reported as down at   *)
(* last, and if it stays the client is connected at last, or has given up. *)
ConnectionSettles ==
    /\ <>[]~reach => <>[]~available
    /\ <>[]reach => <>[](status \in {"ready", "end", "off"})

=============================================================================
