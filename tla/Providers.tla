----------------------------- MODULE Providers -----------------------------
(***************************************************************************)
(* The AI providers an administrator manages (table ai_providers,          *)
(* "system"), what one user has configured for each of them (table         *)
(* user_ai_providers, "user"), and the choice of provider and key for a    *)
(* chat (resolveChatCredentials), by concurrent requests.                  *)
(*                                                                         *)
(* A default is switched in a transaction at READ COMMITTED that clears    *)
(* the old one and then marks the new one.  The update that clears takes   *)
(* a snapshot of the defaults (Snapshot), waits for the locks on them and  *)
(* looks at them again (Clear).  A partial unique index on each table      *)
(* refuses a second default.  Others see what a transaction wrote when it  *)
(* commits, which is its last step (Write).                                *)
(*                                                                         *)
(* A row is the set of its flags, and a row that is not there is empty.    *)
(* Providers are numbered in the order of createdAt; a configuration goes  *)
(* by the number of its provider.  Names, slugs and URLs are left out.     *)
(***************************************************************************)
EXTENDS Naturals, FiniteSets

CONSTANTS
    Requests,      \* the HTTP requests that can be in flight at once
    MaxProviders,  \* bound: providers ever created
    Seeded,        \* the providers of seed.ts, the first of them the default
    Flags,         \* bound: the flags that requests set or clear
    MaxEvents      \* bound: requests started

ASSUME ProvidersAssumption ==
    /\ MaxProviders \in Nat /\ MaxEvents \in Nat
    /\ Seeded \in 1..MaxProviders /\ Flags \subseteq {"on", "def", "key"}

VARIABLES
    table,   \* the two tables
    born,    \* providers created so far
    req,     \* what each request is doing and what it remembers
    events   \* the requests counted against MaxEvents

vars == <<table, born, req, events>>

-----------------------------------------------------------------------------
Ids == 1..MaxProviders
Tables == {"system", "user"}

(* on is isActive of a provider and isEnabled of a configuration, def is   *)
(* isDefault, key says that encryptedApiKey is not null.                   *)
Given == SUBSET {"on", "def", "key"}
Row == {row \in SUBSET {"there", "on", "def", "key"} : row = {} \/ "there" \in row}

Ops == {"none", "create", "update", "delete", "upsert", "resolve", "ask"}

Pcs == {"idle", "snapshot", "clear", "find", "write", "delete",
        "system", "oldest", "config", "resolved"}

Request == [op : Ops, pc : Pcs,
            t : Tables, id : Nat,       \* the row it is about, 0 for none
            up : Given, down : Given,   \* the flags it sets and clears
            seen : BOOLEAN,             \* the row it read by that id is still there
            snap : SUBSET Ids,          \* the defaults its transaction clears
            key : {"none", "system", "user"},
            missed : SUBSET (Tables \X Ids)]   \* rows others wrote since it began

(* missed is history: the code keeps no such thing. *)
Idle == [op |-> "none", pc |-> "idle", t |-> "system", id |-> 0, up |-> {}, down |-> {},
         seen |-> FALSE, snap |-> {}, key |-> "none", missed |-> {}]

TypeOK ==
    /\ table \in [Tables -> [Ids -> Row]]
    /\ born \in 0..MaxProviders
    /\ req \in [Requests -> Request]
    /\ events \in Nat

(* After the seed, the administrator's keys, and perhaps the user's. *)
Init ==
    /\ \E keyed \in {{"system"}, Tables} :
         table = [t \in Tables |-> [i \in Ids |->
                    IF i > Seeded \/ t \notin keyed THEN {}
                    ELSE {"there", "on", "key"} \cup {f \in {"def"} : t = "system" /\ i = 1}]]
    /\ born = Seeded
    /\ req = [r \in Requests |-> Idle]
    /\ events = 0

Defaults(t) == {i \in Ids : "def" \in table[t][i]}

(* The rows the transaction of a request has locked. *)
Locks(q) == IF q.pc \in {"find", "write"} THEN {q.t} \X q.snap ELSE {}

(* The row its last write is for: createProvider makes a new one. *)
Target(r) == IF req[r].op = "create" THEN born + 1 ELSE req[r].id

(* The rows the next statement of a request writes, or finds in its way in *)
(* the index of defaults: it waits for the locks of others on them.  With  *)
(* a provider go the configurations of it.                                 *)
Wanted(r) ==
    LET q == req[r]
    IN  CASE q.pc = "clear"  -> {q.t} \X q.snap
          [] q.pc = "write"  -> {q.t} \X ({Target(r)} \cup {i \in Defaults(q.t) : "def" \in q.up})
          [] q.pc = "delete" -> (IF q.t = "system" THEN Tables ELSE {q.t}) \X {q.id}
          [] OTHER           -> {}

WaitsFor(r, q) == q # r /\ Locks(req[q]) \cap Wanted(r) # {}

Waits(r) == \E q \in Requests : WaitsFor(r, q)

Finish(r) == req' = [req EXCEPT ![r] = Idle]

Goto(r, pc) == req' = [req EXCEPT ![r].pc = pc]

(* What a request in flight misses when the tables become new. *)
Missing(q, new) ==
    IF q.op = "none" THEN q ELSE
    [q EXCEPT !.missed = @ \cup {x \in Tables \X Ids : new[x[1]][x[2]] # table[x[1]][x[2]]},
              !.seen = @ /\ "there" \in new[q.t][q.id],
              !.snap = {i \in @ : "there" \in new[q.t][i]}]

Commit(r, new) ==
    /\ table' = new
    /\ req' = [q \in Requests |-> IF q = r THEN Idle ELSE Missing(req[q], new)]

-----------------------------------------------------------------------------
(* Requests that write, with the checks they make on what they read first. *)
Begin(r, op, t, i, up, down, pc) ==
    /\ req[r].pc = "idle"
    /\ events < MaxEvents /\ events' = events + 1
    /\ req' = [req EXCEPT ![r] = [op |-> op, pc |-> pc, t |-> t, id |-> i, up |-> up,
                 down |-> down, seen |-> i # 0, snap |-> {}, key |-> "none", missed |-> {}]]
    /\ UNCHANGED <<table, born>>

(* A new default is set in a transaction that clears the old one first. *)
First(up, otherwise) == IF "def" \in up THEN "snapshot" ELSE otherwise

CreateStart(r, up, down) ==
    /\ up \subseteq {"def", "key"} /\ down \subseteq {"on"}
    /\ ~("def" \in up /\ "on" \in down)
    /\ Begin(r, "create", "system", 0, up, down, First(up, "write"))

(* Mutant: the default may be deactivated. *)
UpdateStartUnchecked(r, i, up, down) ==
    /\ up \subseteq {"on", "key"} /\ down \subseteq {"on"} \ up
    /\ "there" \in table["system"][i]
    /\ Begin(r, "update", "system", i, up, down, "write")

(* updateProvider and setProviderActive, which updates one flag. *)
UpdateStart(r, i, up, down) ==
    /\ up \subseteq {"on", "key"} /\ down \subseteq {"on"} \ up
    /\ "there" \in table["system"][i]
    /\ ~("on" \in down /\ "def" \in table["system"][i])
    /\ Begin(r, "update", "system", i, up, down, "write")

(* setDefaultProvider and setUserDefaultProvider. *)
SetDefaultStart(r, t, i) ==
    /\ "on" \in table[t][i] /\ "on" \in table["system"][i]
    /\ Begin(r, "update", t, i, {"def"}, {}, "snapshot")

(* upsertUserProvider does not mind a default that is not enabled. *)
UpsertStart(r, i, up, down) ==
    /\ up \subseteq {"on", "def", "key"} /\ down \subseteq {"on", "def"} \ up
    /\ "on" \in table["system"][i]
    /\ Begin(r, "upsert", "user", i, up, down, First(up, "find"))

(* deleteProvider and deleteUserProvider. *)
DeleteStart(r, t, i) ==
    /\ "there" \in table[t][i]
    /\ ~(t = "system" /\ "def" \in table[t][i])
    /\ Begin(r, "delete", t, i, {}, {}, "delete")

-----------------------------------------------------------------------------
(* The steps of a transaction. *)

(* Mutant: the old default is not cleared. *)
SnapshotNone(r) ==
    /\ req[r].pc = "snapshot"
    /\ req' = [req EXCEPT ![r].pc = "clear", ![r].snap = {}]
    /\ UNCHANGED <<table, born, events>>

Snapshot(r) ==
    /\ req[r].pc = "snapshot"
    /\ req' = [req EXCEPT ![r].pc = "clear", ![r].snap = Defaults(req[r].t)]
    /\ UNCHANGED <<table, born, events>>

AfterClear(r) == IF req[r].op = "upsert" THEN "find" ELSE "write"

(* Mutant: the old default is cleared outside of a transaction. *)
ClearAtOnce(r) ==
    LET new == [table EXCEPT ![req[r].t] = [i \in Ids |->
                  IF i \in req[r].snap THEN @[i] \ {"def"} ELSE @[i]]]
    IN  /\ req[r].pc = "clear"
        /\ ~Waits(r)
        /\ table' = new
        /\ req' = [q \in Requests |->
                     IF q = r THEN [req[r] EXCEPT !.pc = AfterClear(r), !.snap = {}]
                              ELSE Missing(req[q], new)]
        /\ UNCHANGED <<born, events>>

(* Mutant: the rows of the snapshot stay locked, defaults or not. *)
ClearAnyway(r) ==
    /\ req[r].pc = "clear"
    /\ ~Waits(r)
    /\ req' = [req EXCEPT ![r].pc = AfterClear(r)]
    /\ UNCHANGED <<table, born, events>>

(* The rows of the snapshot that still are defaults are locked. *)
Clear(r) ==
    /\ req[r].pc = "clear"
    /\ ~Waits(r)
    /\ req' = [req EXCEPT ![r].pc = AfterClear(r), ![r].snap = @ \cap Defaults(req[r].t)]
    /\ UNCHANGED <<table, born, events>>

(* upsert looks for the row, and then inserts or updates by id. *)
Find(r) ==
    /\ req[r].pc = "find"
    /\ req' = [req EXCEPT ![r].pc = "write", ![r].seen = "there" \in table["user"][req[r].id]]
    /\ UNCHANGED <<table, born, events>>

(* An update needs its row, an insert of a configuration its provider and  *)
(* no other row like it, and a new default an index without another one.   *)
Accepted(r) ==
    LET q == req[r]
    IN  /\ \/ q.op = "create" \/ q.seen
           \/ /\ q.op = "upsert"
              /\ "there" \in table["system"][q.id] /\ "there" \notin table["user"][q.id]
        /\ "def" \in q.up => Defaults(q.t) \ q.snap \subseteq {Target(r)}

Patched(row, q) ==
    ((IF "there" \in row THEN row ELSE {"there", "on"}) \ q.down) \cup q.up

Written(r) ==
    LET q == req[r]
    IN  [table EXCEPT ![q.t] = [i \in Ids |->
           IF i = Target(r) THEN Patched(@[i] \ {f \in {"def"} : i \in q.snap}, q)
           ELSE @[i] \ {f \in {"def"} : i \in q.snap}]]

(* The last write, which commits, or is refused and everything rolled back *)
(* (P2002, P2003, P2025).                                                  *)
Write(r) ==
    LET q == req[r]
    IN  /\ q.pc = "write"
        /\ q.op = "create" => born < MaxProviders
        /\ ~Waits(r)
        /\ IF Accepted(r)
             THEN /\ Commit(r, Written(r))
                  /\ born' = IF q.op = "create" THEN born + 1 ELSE born
             ELSE Finish(r) /\ UNCHANGED <<table, born>>
        /\ UNCHANGED events

(* A provider takes the user's configuration of it along. *)
Delete(r) ==
    LET q    == req[r]
        gone == IF q.t = "system" THEN Tables ELSE {q.t}
    IN  /\ q.pc = "delete"
        /\ ~Waits(r)
        /\ IF q.seen THEN Commit(r, [t \in Tables |-> IF t \in gone
                                       THEN [table[t] EXCEPT ![q.id] = {}] ELSE table[t]])
                     ELSE Finish(r) /\ UNCHANGED table
        /\ UNCHANGED <<born, events>>

Fail(r) ==
    /\ req[r].pc # "idle"
    /\ Finish(r)
    /\ UNCHANGED <<table, born, events>>

-----------------------------------------------------------------------------
(* resolveChatCredentials: at most four reads, one after the other. *)

Active == {i \in Ids : "on" \in table["system"][i]}

UserDefaults == {i \in Active : {"def", "on"} \subseteq table["user"][i]}

SystemKey(i) == IF "key" \in table["system"][i] THEN "system" ELSE "none"

(* The user's key for i, if it is enabled, or the one given. *)
KeyFor(i, other) == IF {"on", "key"} \subseteq table["user"][i] THEN "user" ELSE other

Resolving(r, op, i, key, pc) ==
    [op |-> op, pc |-> pc, t |-> "system", id |-> i, up |-> {}, down |-> {},
     seen |-> FALSE, snap |-> {}, key |-> key, missed |-> req[r].missed]

Reads(r, me) == req' = [req EXCEPT ![r] = me] /\ UNCHANGED <<table, born>>

(* A chat that asks for provider i. *)
AskStart(r, i) ==
    /\ req[r].pc = "idle"
    /\ events < MaxEvents /\ events' = events + 1
    /\ i \in Active
    /\ Reads(r, Resolving(r, "ask", i, SystemKey(i), "config"))

(* Mutant: whether the configuration is enabled is not asked. *)
ResolveStartAny(r) ==
    LET found == {i \in Active : "def" \in table["user"][i]}
    IN  /\ req[r].pc = "idle"
        /\ events < MaxEvents /\ events' = events + 1
        /\ \/ \E i \in found :
                Reads(r, Resolving(r, "resolve", i, KeyFor(i, SystemKey(i)), "resolved"))
           \/ found = {} /\ Reads(r, Resolving(r, "resolve", 0, "none", "system"))

(* One that does not: the user's default, read with its provider ... *)
ResolveStart(r) ==
    /\ req[r].pc = "idle"
    /\ events < MaxEvents /\ events' = events + 1
    /\ \/ \E i \in UserDefaults :
            Reads(r, Resolving(r, "resolve", i, KeyFor(i, SystemKey(i)), "resolved"))
       \/ UserDefaults = {} /\ Reads(r, Resolving(r, "resolve", 0, "none", "system"))

(* ... or else the system default ... *)
SystemDefault(r) ==
    LET found == Active \cap Defaults("system")
    IN  /\ req[r].pc = "system"
        /\ \/ \E i \in found : Reads(r, Resolving(r, "resolve", i, SystemKey(i), "config"))
           \/ found = {} /\ Reads(r, Resolving(r, "resolve", 0, "none", "oldest"))
        /\ UNCHANGED events

(* ... or else the oldest active provider, or none ... *)
Oldest(r) ==
    /\ req[r].pc = "oldest"
    /\ \/ \E i \in Active :
            /\ \A j \in Active : i <= j
            /\ Reads(r, Resolving(r, "resolve", i, SystemKey(i), "config"))
       \/ Active = {} /\ Reads(r, Resolving(r, "resolve", 0, "none", "resolved"))
    /\ UNCHANGED events

(* ... with the user's configuration of that provider. *)
Config(r) ==
    LET q == req[r]
    IN  /\ q.pc = "config"
        /\ Reads(r, Resolving(r, q.op, q.id, KeyFor(q.id, q.key), "resolved"))
        /\ UNCHANGED events

(* The chat goes on, or is refused for want of a provider or a key. *)
Reply(r) ==
    /\ req[r].pc = "resolved"
    /\ Finish(r)
    /\ UNCHANGED <<table, born, events>>

-----------------------------------------------------------------------------
Start(r) ==
    \/ \E up, down \in SUBSET Flags :
         \/ CreateStart(r, up, down)
         \/ \E i \in Ids : UpdateStart(r, i, up, down) \/ UpsertStart(r, i, up, down)
    \/ \E i \in Ids, t \in Tables : SetDefaultStart(r, t, i) \/ DeleteStart(r, t, i)
    \/ \E i \in Ids : AskStart(r, i)
    \/ ResolveStart(r)

Step(r) ==
    \/ Snapshot(r) \/ Clear(r) \/ Find(r) \/ Write(r) \/ Delete(r)
    \/ SystemDefault(r) \/ Oldest(r) \/ Config(r) \/ Reply(r)

Next == \E r \in Requests : Start(r) \/ Step(r) \/ Fail(r)

Spec == Init /\ [][Next]_vars

-----------------------------------------------------------------------------
(* Properties. *)

(* Switching the default is all or nothing, whoever else switches, writes  *)
(* or fails meanwhile: a table loses its default only to a deletion, or to *)
(* a user's own request not to have one.                                   *)
GivesUp(q) == q.op = "delete" \/ (q.op = "upsert" /\ "def" \in q.down)

DefaultKept ==
    [][\A t \in Tables : Defaults(t) # {} /\ Defaults(t)' = {} =>
         \E r \in Requests : GivesUp(req[r]) /\ req'[r] = Idle]_vars

(* admin-providers.controller.ts:114, "The system default provider cannot  *)
(* be deactivated", :137 (a default has to be active), :166 (it cannot be  *)
(* deleted).  These are checked on a row read before: a usable default is  *)
(* lost only to a request whose row was written after it was read.         *)
Usable == Active \cap Defaults("system") # {}

OnlyStaleWritesUnsettle ==
    [][Usable /\ ~Usable' =>
         \E r \in Requests : /\ req'[r] = Idle
                             /\ <<"system", req[r].id>> \in req[r].missed]_vars

(* A request that passed its checks is refused by the database only if     *)
(* another one committed while it ran: on its own, a switch never runs     *)
(* into the old default (reported to createProvider's caller as a slug     *)
(* that exists).                                                           *)
OnlyOvertakenRefused ==
    \A r \in Requests : req[r].pc = "write" /\ ~Accepted(r) => req[r].missed # {}

(* A transaction that holds the old default never waits for another: of    *)
(* requests that wait there is always one that waits for none of the       *)
(* others.  It is so although a transaction locks its rows in no fixed     *)
(* order (the default, and then whichever row is to be the next one),      *)
(* because of a table only the default is ever held.                       *)
NoCircularWait ==
    \A W \in SUBSET Requests :
      W # {} => \E r \in W : \A q \in W : ~WaitsFor(r, q)

(* providers.service.ts:357, "Priority: explicit providerId -> user        *)
(* default config -> system default.  Key priority: user key for that      *)
(* provider -> system key", and the oldest active provider at last.  Here  *)
(* the choice is the least of an order on providers.  Reads that nothing   *)
(* overtook make that choice, and reads that were overtaken still return   *)
(* an active provider and the right key, unless the very row changed.      *)
Order(i) ==
    IF i \in UserDefaults THEN i
    ELSE IF i \in Defaults("system") THEN MaxProviders + i ELSE 2 * MaxProviders + i

Choice == {i \in Active : \A j \in Active : Order(i) <= Order(j)}

Untouched(q, t) == <<t, q.id>> \notin q.missed

Sound(q) ==
    /\ Untouched(q, "system") => /\ q.id \in Active
                                 /\ q.key = "system" => "key" \in table["system"][q.id]
    /\ Untouched(q, "user") => (q.key = "user" <=> {"on", "key"} \subseteq table["user"][q.id])

ResolutionInOrder ==
    \A r \in Requests :
      LET q == req[r]
      IN  q.pc = "resolved" =>
            /\ q.op = "resolve" /\ q.missed = {} =>
                 IF q.id = 0 THEN Choice = {} ELSE q.id \in Choice
            /\ q.id # 0 => Sound(q)

=============================================================================
