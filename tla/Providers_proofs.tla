--------------------------- MODULE Providers_proofs ---------------------------
(* Proofs about Providers, for any number of requests and providers: what a  *)
(* switch of the default keeps, what a stale write can break, when the       *)
(* database refuses, and what resolveChatCredentials returns.                *)
EXTENDS Providers, TLAPS

-----------------------------------------------------------------------------
(* The helpers of Providers, on tables given as an argument. *)
DefaultsIn(tab, t) == {i \in Ids : "def" \in tab[t][i]}

ActiveIn(tab) == {i \in Ids : "on" \in tab["system"][i]}

UserDefaultsIn(tab) == {i \in ActiveIn(tab) : {"def", "on"} \subseteq tab["user"][i]}

OrderIn(tab, i) ==
    IF i \in UserDefaultsIn(tab) THEN i
    ELSE IF i \in DefaultsIn(tab, "system") THEN MaxProviders + i ELSE 2 * MaxProviders + i

ChoiceIn(tab) ==
    {i \in ActiveIn(tab) : \A j \in ActiveIn(tab) : OrderIn(tab, i) <= OrderIn(tab, j)}

-----------------------------------------------------------------------------
(* What is known of a request by what it is about to do.  What it read is  *)
(* still so unless it missed a write: of its row, or any at all.           *)
Writing == {"snapshot", "clear", "find", "write"}

WriterFits(tab, me) ==
    /\ me.pc # "idle" <=> me.op # "none"
    /\ me.pc \in Writing => me.op \in {"create", "update", "upsert"}
    /\ me.pc = "find" => me.op = "upsert"
    /\ me.pc = "delete" <=> me.op = "delete"
    /\ me.op = "create" => me.t = "system" /\ me.id = 0
    /\ me.op = "upsert" => me.t = "user"
    /\ me.op \in {"update", "upsert", "delete"} => me.id \in Ids
    /\ me.op \in {"create", "update"} =>
         "def" \notin me.down /\ ~("def" \in me.up /\ "on" \in me.down)
    /\ me.seen => me.id \in Ids

RowFits(tab, me) ==
    /\ me.op = "update" /\ Untouched(me, me.t) => me.seen /\ "there" \in tab[me.t][me.id]
    /\ me.op = "update" /\ me.t = "system" /\ Untouched(me, "system") =>
         /\ "def" \in me.up => "on" \in tab["system"][me.id]
         /\ "on" \in me.down => "def" \notin tab["system"][me.id]
    /\ me.op = "delete" /\ me.t = "system" /\ Untouched(me, "system") =>
         "def" \notin tab["system"][me.id]
    /\ me.op = "upsert" /\ Untouched(me, "system") => "there" \in tab["system"][me.id]
    /\ me.seen /\ (me.op = "update" \/ me.pc = "write") => "there" \in tab[me.t][me.id]
    /\ me.op = "upsert" /\ me.pc = "write" /\ ~me.seen /\ Untouched(me, "user") =>
         "there" \notin tab["user"][me.id]

SwitchFits(tab, me) ==
    /\ me.pc \in {"snapshot", "clear"} => "def" \in me.up
    /\ me.pc = "clear" /\ me.missed = {} => DefaultsIn(tab, me.t) \subseteq me.snap
    /\ me.pc \in {"find", "write"} =>
         /\ me.snap \subseteq DefaultsIn(tab, me.t)
         /\ "def" \notin me.up => me.snap = {}
         /\ "def" \in me.up /\ me.missed = {} => DefaultsIn(tab, me.t) \subseteq me.snap

KeyFits(tab, me) ==
    Untouched(me, "system") =>
      /\ me.id \in ActiveIn(tab)
      /\ me.key = "system" => "key" \in tab["system"][me.id]

ResolverFits(tab, me) ==
    /\ me.pc \in {"system", "oldest"} =>
         me.op = "resolve" /\ (me.missed = {} => UserDefaultsIn(tab) = {})
    /\ me.pc = "oldest" /\ me.missed = {} => ActiveIn(tab) \cap DefaultsIn(tab, "system") = {}
    /\ me.pc = "config" =>
         /\ me.op \in {"resolve", "ask"}
         /\ me.id \in Ids /\ me.key # "user" /\ KeyFits(tab, me)
         /\ me.op = "resolve" /\ me.missed = {} => me.id \in ChoiceIn(tab)
    /\ me.pc = "resolved" =>
         /\ me.op = "resolve" /\ me.missed = {} =>
              IF me.id = 0 THEN ChoiceIn(tab) = {} ELSE me.id \in ChoiceIn(tab)
         /\ me.id # 0 =>
              /\ me.id \in Ids /\ KeyFits(tab, me)
              /\ Untouched(me, "user") =>
                   (me.key = "user" <=> {"on", "key"} \subseteq tab["user"][me.id])

Fits(tab, me) ==
    WriterFits(tab, me) /\ RowFits(tab, me) /\ SwitchFits(tab, me) /\ ResolverFits(tab, me)

(* The tables: at most one default each, and no row of providers to come. *)
TablesFit(tab, n) ==
    /\ \A t \in Tables : \A i, j \in DefaultsIn(tab, t) : i = j
    /\ \A i \in Ids : i > n => tab["system"][i] = {}

(* No row is locked twice. *)
Exclusive == \A q, r \in Requests : q # r => Locks(req[q]) \cap Locks(req[r]) = {}

ProvidersInv ==
    /\ TypeOK
    /\ TablesFit(table, born)
    /\ Exclusive
    /\ \A r \in Requests : Fits(table, req[r])

-----------------------------------------------------------------------------
(* A record with the fields of a request, each in its range, is one. *)
Fields == {"op", "pc", "t", "id", "up", "down", "seen", "snap", "key", "missed"}

Whole(me) ==
    me = [op |-> me.op, pc |-> me.pc, t |-> me.t, id |-> me.id, up |-> me.up,
          down |-> me.down, seen |-> me.seen, snap |-> me.snap, key |-> me.key,
          missed |-> me.missed]

Typed(me) ==
    /\ me.op \in Ops /\ me.pc \in Pcs /\ me.t \in Tables /\ me.id \in Nat
    /\ me.up \in Given /\ me.down \in Given /\ me.seen \in BOOLEAN
    /\ me.snap \in SUBSET Ids /\ me.key \in {"none", "system", "user"}
    /\ me.missed \in SUBSET (Tables \X Ids)

LEMMA RequestFields ==
    ASSUME NEW me \in Request
    PROVE  DOMAIN me = Fields /\ Typed(me)
  BY DEF Request, Fields, Typed

LEMMA RequestMade ==
    ASSUME NEW me, Whole(me), Typed(me)
    PROVE  me \in Request
  BY DEF Request, Whole, Typed

LEMMA IdleFits ==
    ASSUME NEW tab
    PROVE  Idle \in Request /\ Fits(tab, Idle) /\ Locks(Idle) = {}
  BY DEF Idle, Request, Ops, Pcs, Tables, Given, Fits, WriterFits, RowFits, SwitchFits,
     ResolverFits, Writing, Locks

LEMMA RowFacts ==
    ASSUME TypeOK, NEW t \in Tables, NEW i \in Ids
    PROVE  /\ table[t][i] \in Row
           /\ table[t][i] # {} => "there" \in table[t][i]
  BY DEF TypeOK, Row

LEMMA Initially == Init => ProvidersInv
  <1> SUFFICES ASSUME Init
               PROVE  ProvidersInv
    OBVIOUS
  <1>1. PICK keyed \in {{"system"}, Tables} :
          table = [t \in Tables |-> [i \in Ids |->
                     IF i > Seeded \/ t \notin keyed THEN {}
                     ELSE {"there", "on", "key"} \cup {f \in {"def"} : t = "system" /\ i = 1}]]
    BY DEF Init
  <1>2. table \in [Tables -> [Ids -> Row]]
    BY <1>1 DEF Row
  <1>3. TypeOK
    BY <1>2, IdleFits, ProvidersAssumption DEF Init, TypeOK
  <1>4. TablesFit(table, born)
    <2>1. ASSUME NEW t \in Tables, NEW i \in Ids, "def" \in table[t][i]
          PROVE  i = 1
      BY <1>1, <2>1
    <2>2. \A i \in Ids : i > born => table["system"][i] = {}
      BY <1>1 DEF Init, Tables
    <2>3. QED
      BY <2>1, <2>2 DEF TablesFit, DefaultsIn
  <1>5. Exclusive /\ \A r \in Requests : Fits(table, req[r])
    BY IdleFits DEF Init, Exclusive
  <1>6. QED
    BY <1>3, <1>4, <1>5 DEF ProvidersInv

-----------------------------------------------------------------------------
(* A request that writes its own record only. *)
LEMMA OwnStep ==
    ASSUME ProvidersInv, NEW r \in Requests, NEW me \in Request,
           req' = [req EXCEPT ![r] = me], UNCHANGED <<table, born>>, events' \in Nat,
           Fits(table, me),
           \A q \in Requests \ {r} : Locks(me) \cap Locks(req[q]) = {}
    PROVE  ProvidersInv'
  <1>1. TypeOK'
    BY DEF ProvidersInv, TypeOK
  <1>2. req'[r] = me /\ \A q \in Requests \ {r} : req'[q] = req[q]
    BY DEF ProvidersInv, TypeOK
  <1>3. Exclusive'
    BY <1>2 DEF ProvidersInv, Exclusive, Locks
  <1>4. \A q \in Requests : Fits(table', req'[q])
    BY <1>2 DEF ProvidersInv
  <1>5. QED
    BY <1>1, <1>3, <1>4 DEF ProvidersInv

(* What the others are left with when the tables become new. *)
LEMMA OthersFit ==
    ASSUME TypeOK, NEW me \in Request, NEW new \in [Tables -> [Ids -> Row]],
           NEW n, n = Missing(me, new), Fits(table, me),
           \A x \in Locks(me) : new[x[1]][x[2]] = table[x[1]][x[2]]
    PROVE  n \in Request /\ Fits(new, n) /\ Locks(n) \subseteq Locks(me)
  <1>1. CASE me.op = "none"
    <2>1. n = me /\ me.pc = "idle"
      BY <1>1 DEF Missing, Fits, WriterFits
    <2>2. QED
      BY <1>1, <2>1 DEF Fits, WriterFits, RowFits, SwitchFits, ResolverFits, Writing
  <1>2. CASE me.op # "none"
    <2> DEFINE changed == {x \in Tables \X Ids : new[x[1]][x[2]] # table[x[1]][x[2]]}
    <2>1. n = [me EXCEPT !.missed = me.missed \cup changed,
                         !.seen = me.seen /\ "there" \in new[me.t][me.id],
                         !.snap = {i \in me.snap : "there" \in new[me.t][i]}]
      BY <1>2 DEF Missing
    <2>2. /\ n.op = me.op /\ n.pc = me.pc /\ n.t = me.t /\ n.id = me.id
          /\ n.up = me.up /\ n.down = me.down /\ n.key = me.key
          /\ n.missed = me.missed \cup changed
          /\ n.seen = (me.seen /\ "there" \in new[me.t][me.id])
          /\ n.snap = {i \in me.snap : "there" \in new[me.t][i]}
      BY <2>1, RequestFields DEF Fields
    <2>3. Typed(me) /\ changed \subseteq Tables \X Ids
      BY RequestFields
    <2>4. Whole(n)
      BY <2>1, <2>2, RequestFields DEF Whole, Fields
    <2>5. Typed(n)
      BY <2>2, <2>3 DEF Typed
    <2>6. n \in Request
      BY <2>4, <2>5, RequestMade
    <2>7. ASSUME NEW t \in Tables, NEW i \in Ids, <<t, i>> \notin n.missed
          PROVE  new[t][i] = table[t][i] /\ <<t, i>> \notin me.missed
      BY <2>2, <2>7
    <2>8. ASSUME n.missed = {}
          PROVE  new = table /\ me.missed = {}
      <3>1. ASSUME NEW t \in Tables
            PROVE  new[t] = table[t]
        <4>1. new[t] \in [Ids -> Row] /\ table[t] \in [Ids -> Row]
          BY DEF TypeOK
        <4>2. \A i \in Ids : new[t][i] = table[t][i]
          BY <2>7, <2>8
        <4>3. QED
          BY <4>1, <4>2
      <3>2. QED
        BY <2>2, <2>8, <3>1 DEF TypeOK
    <2> HIDE DEF changed
    <2>9. WriterFits(new, n)
      BY <2>2 DEF Fits, WriterFits, Writing
    <2>10. RowFits(new, n)
      <3>1. \A t \in Tables : me.id \in Ids /\ Untouched(n, t) =>
              new[t][me.id] = table[t][me.id] /\ Untouched(me, t)
        BY <2>2, <2>7 DEF Untouched
      <3>2. /\ me.t \in Tables /\ "system" \in Tables /\ "user" \in Tables
            /\ me.op \in {"update", "upsert", "delete"} => me.id \in Ids
            /\ RowFits(table, me)
        BY <2>3 DEF Typed, Tables, Fits, WriterFits
      <3>3. me.op = "upsert" /\ me.pc = "write" /\ ~n.seen /\ Untouched(n, "user") =>
              "there" \notin new["user"][me.id]
        <4>1. me.op = "upsert" => me.t = "user"
          BY DEF Fits, WriterFits
        <4>2. QED
          BY <2>2, <3>1, <3>2, <4>1 DEF RowFits
      <3>4. me.op = "update" /\ Untouched(n, me.t) => n.seen /\ "there" \in new[me.t][me.id]
        BY <2>2, <3>1, <3>2 DEF RowFits
      <3>5. me.op \in {"update", "delete", "upsert"} /\ Untouched(n, "system") =>
              new["system"][me.id] = table["system"][me.id] /\ Untouched(me, "system")
        BY <3>1, <3>2
      <3>6. QED
        BY ONLY <2>2, <3>2, <3>3, <3>4, <3>5 DEF RowFits, Untouched
    <2>11. SwitchFits(new, n)
      <3>1. me.pc \in {"find", "write"} =>
              \A i \in me.snap : new[me.t][i] = table[me.t][i] /\ "def" \in table[me.t][i]
        <4>1. ASSUME me.pc \in {"find", "write"}, NEW i \in me.snap
              PROVE  new[me.t][i] = table[me.t][i] /\ "def" \in table[me.t][i]
          <5>1. <<me.t, i>> \in Locks(me)
            BY <4>1 DEF Locks
          <5>2. new[<<me.t, i>>[1]][<<me.t, i>>[2]] = table[<<me.t, i>>[1]][<<me.t, i>>[2]]
            BY <5>1
          <5>3. me.snap \subseteq DefaultsIn(table, me.t)
            BY <4>1 DEF Fits, SwitchFits
          <5>4. QED
            BY <5>2, <5>3 DEF DefaultsIn
        <4>2. QED
          BY <4>1
      <3>2. n.missed = {} => DefaultsIn(new, n.t) = DefaultsIn(table, me.t)
        BY <2>2, <2>8
      <3>3. \A i \in Ids : "def" \in new[me.t][i] => "there" \in new[me.t][i]
        BY <2>3 DEF Typed, Row
      <3>4. me.snap \subseteq Ids
        BY <2>3 DEF Typed
      <3>5. me.pc \in {"find", "write"} => n.snap \subseteq DefaultsIn(new, n.t)
        BY <2>2, <3>1, <3>4 DEF DefaultsIn
      <3>6. n.missed = {} /\ DefaultsIn(table, me.t) \subseteq me.snap =>
              DefaultsIn(new, n.t) \subseteq n.snap
        BY <2>2, <2>8, <3>3 DEF DefaultsIn
      <3>7. QED
        BY <2>2, <2>8, <3>5, <3>6 DEF Fits, SwitchFits
    <2>12. ResolverFits(new, n)
      <3>1. me.id \in Ids /\ KeyFits(table, me) => KeyFits(new, n)
        BY <2>2, <2>7 DEF KeyFits, Untouched, ActiveIn, Tables
      <3>2. me.id \in Ids /\ Untouched(n, "user") =>
              new["user"][me.id] = table["user"][me.id] /\ Untouched(me, "user")
        BY <2>2, <2>7 DEF Untouched, Tables
      <3>3. QED
        BY <2>2, <2>8, <3>1, <3>2 DEF Fits, ResolverFits
    <2>13. Locks(n) \subseteq Locks(me)
      BY <2>2 DEF Locks
    <2>14. QED
      BY <2>6, <2>9, <2>10, <2>11, <2>12, <2>13 DEF Fits
  <1>3. QED
    BY <1>1, <1>2

LEMMA CommitStep ==
    ASSUME ProvidersInv, NEW r \in Requests, NEW new \in [Tables -> [Ids -> Row]],
           Commit(r, new), UNCHANGED events, born' \in 0..MaxProviders, TablesFit(new, born'),
           \A q \in Requests \ {r} : \A x \in Locks(req[q]) :
             new[x[1]][x[2]] = table[x[1]][x[2]]
    PROVE  ProvidersInv'
  <1>1. req'[r] = Idle /\ table' = new /\ DOMAIN req' = Requests
    BY DEF Commit
  <1>2. ASSUME NEW q \in Requests \ {r}
        PROVE  req'[q] \in Request /\ Fits(new, req'[q]) /\ Locks(req'[q]) \subseteq Locks(req[q])
    <2>1. req'[q] = Missing(req[q], new)
      BY <1>2 DEF Commit
    <2>2. req[q] \in Request /\ Fits(table, req[q]) /\ TypeOK
      BY DEF ProvidersInv, TypeOK
    <2>3. QED
      BY <2>1, <2>2, OthersFit
  <1>3. TypeOK'
    <2>1. req' \in [Requests -> Request]
      BY <1>1, <1>2, IdleFits DEF Commit
    <2>2. QED
      BY <1>1, <2>1 DEF ProvidersInv, TypeOK
  <1>4. \A q \in Requests : Fits(table', req'[q])
    BY <1>1, <1>2, IdleFits
  <1>5. \A q, p \in Requests : q # p => Locks(req'[q]) \cap Locks(req'[p]) = {}
    BY <1>1, <1>2, IdleFits DEF ProvidersInv, Exclusive
  <1>6. Exclusive'
    BY <1>5 DEF Exclusive, Locks
  <1>7. QED
    BY <1>1, <1>3, <1>4, <1>6 DEF ProvidersInv

-----------------------------------------------------------------------------
(* Requests that begin to write. *)
LEMMA BegunStep ==
    ASSUME ProvidersInv, NEW r \in Requests, NEW me \in Request, me.snap = {},
           req' = [req EXCEPT ![r] = me], UNCHANGED <<table, born>>, events' = events + 1,
           Fits(table, me)
    PROVE  ProvidersInv'
  <1>1. Locks(me) = {} /\ events' \in Nat
    BY DEF Locks, ProvidersInv, TypeOK
  <1>2. QED
    BY <1>1, OwnStep

LEMMA StartStep ==
    ASSUME ProvidersInv, NEW r \in Requests, NEW up \in SUBSET Flags, NEW down \in SUBSET Flags,
           NEW i \in Ids, NEW t \in Tables,
           \/ CreateStart(r, up, down) \/ UpdateStart(r, i, up, down)
           \/ UpsertStart(r, i, up, down) \/ SetDefaultStart(r, t, i) \/ DeleteStart(r, t, i)
    PROVE  ProvidersInv'
  <1>1. /\ up \in Given /\ down \in Given /\ {} \in Given /\ {"def"} \in Given
        /\ i \in Nat /\ i # 0 /\ 0 \in Nat
        /\ "system" \in Tables /\ "user" \in Tables
    BY ProvidersAssumption DEF Given, Ids, Tables
  <1>2. TypeOK /\ \A tt \in Tables : table[tt][i] # {} => "there" \in table[tt][i]
    BY RowFacts DEF ProvidersInv
  <1> USE DEF Fits, WriterFits, RowFits, SwitchFits, ResolverFits, Writing, Untouched, Tables
  <1>3. CASE CreateStart(r, up, down)
    <2> DEFINE pc == First(up, "write")
    <2> PICK me : me = [op |-> "create", pc |-> pc, t |-> "system", id |-> 0, up |-> up,
                        down |-> down, seen |-> FALSE, snap |-> {}, key |-> "none",
                        missed |-> {}]
      OBVIOUS
    <2>1. pc \in Pcs /\ pc = IF "def" \in up THEN "snapshot" ELSE "write"
      BY DEF First, Pcs
    <2> HIDE DEF pc
    <2>2. Fits(table, me)
      BY <1>3, <2>1 DEF CreateStart
    <2>3. me \in Request /\ me.snap = {}
      BY <1>1, <2>1 DEF Request, Ops
    <2>4. req' = [req EXCEPT ![r] = me] /\ UNCHANGED <<table, born>> /\ events' = events + 1
      BY <1>3 DEF CreateStart, Begin, pc
    <2>5. QED
      BY ONLY <2>2, <2>3, <2>4, BegunStep, ProvidersInv, r \in Requests
  <1>4. CASE UpdateStart(r, i, up, down)
    <2> PICK me : me = [op |-> "update", pc |-> "write", t |-> "system", id |-> i, up |-> up,
                        down |-> down, seen |-> i # 0, snap |-> {}, key |-> "none",
                        missed |-> {}]
      OBVIOUS
    <2>1. Fits(table, me)
      BY <1>1, <1>4 DEF UpdateStart
    <2>2. me \in Request /\ me.snap = {}
      BY <1>1 DEF Request, Ops, Pcs
    <2>3. req' = [req EXCEPT ![r] = me] /\ UNCHANGED <<table, born>> /\ events' = events + 1
      BY <1>4 DEF UpdateStart, Begin
    <2>4. QED
      BY ONLY <2>1, <2>2, <2>3, BegunStep, ProvidersInv, r \in Requests
  <1>5. CASE UpsertStart(r, i, up, down)
    <2> DEFINE pc == First(up, "find")
    <2> PICK me : me = [op |-> "upsert", pc |-> pc, t |-> "user", id |-> i, up |-> up,
                        down |-> down, seen |-> i # 0, snap |-> {}, key |-> "none",
                        missed |-> {}]
      OBVIOUS
    <2>1. pc \in Pcs /\ pc = IF "def" \in up THEN "snapshot" ELSE "find"
      BY DEF First, Pcs
    <2> HIDE DEF pc
    <2>2. Fits(table, me)
      BY <1>1, <1>2, <1>5, <2>1 DEF UpsertStart
    <2>3. me \in Request /\ me.snap = {}
      BY <1>1, <2>1 DEF Request, Ops, Pcs
    <2>4. req' = [req EXCEPT ![r] = me] /\ UNCHANGED <<table, born>> /\ events' = events + 1
      BY <1>5 DEF UpsertStart, Begin, pc
    <2>5. QED
      BY ONLY <2>2, <2>3, <2>4, BegunStep, ProvidersInv, r \in Requests
  <1>6. CASE SetDefaultStart(r, t, i)
    <2> PICK me : me = [op |-> "update", pc |-> "snapshot", t |-> t, id |-> i, up |-> {"def"},
                        down |-> {}, seen |-> i # 0, snap |-> {}, key |-> "none",
                        missed |-> {}]
      OBVIOUS
    <2>1. Fits(table, me)
      BY <1>1, <1>2, <1>6 DEF SetDefaultStart
    <2>2. me \in Request /\ me.snap = {}
      BY <1>1 DEF Request, Ops, Pcs
    <2>3. req' = [req EXCEPT ![r] = me] /\ UNCHANGED <<table, born>> /\ events' = events + 1
      BY <1>6 DEF SetDefaultStart, Begin
    <2>4. QED
      BY ONLY <2>1, <2>2, <2>3, BegunStep, ProvidersInv, r \in Requests
  <1>7. CASE DeleteStart(r, t, i)
    <2> PICK me : me = [op |-> "delete", pc |-> "delete", t |-> t, id |-> i, up |-> {},
                        down |-> {}, seen |-> i # 0, snap |-> {}, key |-> "none",
                        missed |-> {}]
      OBVIOUS
    <2>1. Fits(table, me)
      BY <1>1, <1>7 DEF DeleteStart
    <2>2. me \in Request /\ me.snap = {}
      BY <1>1 DEF Request, Ops, Pcs
    <2>3. req' = [req EXCEPT ![r] = me] /\ UNCHANGED <<table, born>> /\ events' = events + 1
      BY <1>7 DEF DeleteStart, Begin
    <2>4. QED
      BY ONLY <2>1, <2>2, <2>3, BegunStep, ProvidersInv, r \in Requests
  <1>8. QED
    BY <1>3, <1>4, <1>5, <1>6, <1>7

-----------------------------------------------------------------------------
(* The steps of a transaction before the last. *)
LEMMA SnapshotStep ==
    ASSUME ProvidersInv, NEW r \in Requests, Snapshot(r)
    PROVE  ProvidersInv'
  <1> PICK me : me = [req[r] EXCEPT !.pc = "clear", !.snap = Defaults(req[r].t)]
    OBVIOUS
  <1>1. req[r] \in Request /\ Fits(table, req[r])
    BY DEF ProvidersInv, TypeOK
  <1>2. /\ me.op = req[r].op /\ me.pc = "clear" /\ me.t = req[r].t /\ me.id = req[r].id
        /\ me.up = req[r].up /\ me.down = req[r].down /\ me.seen = req[r].seen
        /\ me.snap = Defaults(req[r].t) /\ me.missed = req[r].missed /\ me.key = req[r].key
    BY <1>1, RequestFields DEF Fields
  <1>3. me \in Request
    <2>1. Whole(me)
      BY <1>1, RequestFields DEF Whole, Fields
    <2>2. Typed(me)
      BY <1>1, <1>2, RequestFields DEF Typed, Pcs, Defaults
    <2>3. QED
      BY <2>1, <2>2, RequestMade
  <1>4. Fits(table, me)
    BY <1>1, <1>2 DEF Snapshot, Fits, WriterFits, RowFits, SwitchFits, ResolverFits, Writing,
       Untouched, Defaults, DefaultsIn
  <1>5. Locks(me) = {} /\ req' = [req EXCEPT ![r] = me] /\ events' \in Nat
    BY <1>2 DEF Locks, Snapshot, ProvidersInv, TypeOK
  <1>6. QED
    BY <1>3, <1>4, <1>5, OwnStep DEF Snapshot

LEMMA ClearStep ==
    ASSUME ProvidersInv, NEW r \in Requests, Clear(r)
    PROVE  ProvidersInv'
  <1> PICK me : me = [req[r] EXCEPT !.pc = AfterClear(r),
                                    !.snap = req[r].snap \cap Defaults(req[r].t)]
    OBVIOUS
  <1>1. req[r] \in Request /\ Fits(table, req[r])
    BY DEF ProvidersInv, TypeOK
  <1>2. /\ me.op = req[r].op /\ me.t = req[r].t /\ me.id = req[r].id
        /\ me.pc = IF req[r].op = "upsert" THEN "find" ELSE "write"
        /\ me.up = req[r].up /\ me.down = req[r].down /\ me.seen = req[r].seen
        /\ me.snap = req[r].snap \cap Defaults(req[r].t)
        /\ me.missed = req[r].missed /\ me.key = req[r].key
    BY <1>1, RequestFields DEF Fields, AfterClear
  <1>3. me \in Request
    <2>1. Whole(me)
      BY <1>1, RequestFields DEF Whole, Fields
    <2>2. Typed(me)
      BY <1>1, <1>2, RequestFields DEF Typed, Pcs
    <2>3. QED
      BY <2>1, <2>2, RequestMade
  <1>4. Fits(table, me)
    <2>1. req[r].pc = "clear"
      BY DEF Clear
    <2>2. /\ SwitchFits(table, me) /\ WriterFits(table, me) /\ ResolverFits(table, me)
      BY <1>1, <1>2, <2>1 DEF Fits, WriterFits, SwitchFits, ResolverFits, Writing,
         Defaults, DefaultsIn
    <2>3. RowFits(table, me)
      BY <1>1, <1>2, <2>1 DEF Fits, RowFits, WriterFits, Writing, Untouched, Ids
    <2>4. QED
      BY <2>2, <2>3 DEF Fits
  <1>5. \A q \in Requests \ {r} : Locks(me) \cap Locks(req[q]) = {}
    BY <1>2 DEF Locks, Clear, Waits, WaitsFor, Wanted
  <1>6. req' = [req EXCEPT ![r] = me] /\ events' \in Nat
    BY DEF Clear, ProvidersInv, TypeOK
  <1>7. QED
    BY <1>3, <1>4, <1>5, <1>6, OwnStep DEF Clear

LEMMA FindStep ==
    ASSUME ProvidersInv, NEW r \in Requests, Find(r)
    PROVE  ProvidersInv'
  <1> PICK me : me = [req[r] EXCEPT !.pc = "write",
                                    !.seen = "there" \in table["user"][req[r].id]]
    OBVIOUS
  <1>1. req[r] \in Request /\ Fits(table, req[r])
    BY DEF ProvidersInv, TypeOK
  <1>2. /\ me.op = req[r].op /\ me.pc = "write" /\ me.t = req[r].t /\ me.id = req[r].id
        /\ me.up = req[r].up /\ me.down = req[r].down
        /\ me.seen = ("there" \in table["user"][req[r].id])
        /\ me.snap = req[r].snap /\ me.missed = req[r].missed /\ me.key = req[r].key
    BY <1>1, RequestFields DEF Fields
  <1>3. me \in Request
    <2>1. Whole(me)
      BY <1>1, RequestFields DEF Whole, Fields
    <2>2. Typed(me)
      BY <1>1, <1>2, RequestFields DEF Typed, Pcs
    <2>3. QED
      BY <2>1, <2>2, RequestMade
  <1>4. Fits(table, me)
    BY <1>1, <1>2 DEF Find, Fits, WriterFits, RowFits, SwitchFits, ResolverFits, Writing,
       Untouched
  <1>5. Locks(me) = Locks(req[r]) /\ req' = [req EXCEPT ![r] = me] /\ events' \in Nat
    BY <1>2 DEF Locks, Find, ProvidersInv, TypeOK
  <1>6. \A q \in Requests \ {r} : Locks(me) \cap Locks(req[q]) = {}
    BY <1>5 DEF ProvidersInv, Exclusive
  <1>7. QED
    BY <1>3, <1>4, <1>5, <1>6, OwnStep DEF Find

LEMMA FinishStep ==
    ASSUME ProvidersInv, NEW r \in Requests, Finish(r), UNCHANGED <<table, born, events>>
    PROVE  ProvidersInv'
  BY IdleFits, OwnStep DEF Finish, ProvidersInv, TypeOK

-----------------------------------------------------------------------------
(* The last write of a transaction, row by row. *)
Swept(r, j) == table[req[r].t][j] \ {f \in {"def"} : j \in req[r].snap}

LEMMA WrittenRows ==
    ASSUME ProvidersInv, NEW r \in Requests, req[r].pc = "write",
           req[r].op = "create" => born < MaxProviders
    PROVE  /\ Target(r) \in Ids /\ req[r].t \in Tables
           /\ Written(r) \in [Tables -> [Ids -> Row]]
           /\ \A t \in Tables \ {req[r].t} : Written(r)[t] = table[t]
           /\ Written(r)[req[r].t][Target(r)] = Patched(Swept(r, Target(r)), req[r])
           /\ \A j \in Ids \ {Target(r)} : Written(r)[req[r].t][j] = Swept(r, j)
  <1> DEFINE q == req[r]
             rows == [j \in Ids |-> IF j = Target(r) THEN Patched(Swept(r, j), q) ELSE Swept(r, j)]
  <1>1. q \in Request /\ Fits(table, q) /\ table \in [Tables -> [Ids -> Row]]
        /\ born \in 0..MaxProviders
    BY DEF ProvidersInv, TypeOK
  <1>2. Target(r) \in Ids /\ q.t \in Tables /\ q.up \in Given /\ q.down \in Given
    <2>1. Typed(q)
      BY <1>1, RequestFields
    <2>2. q.op \in {"create", "update", "upsert"}
      BY <1>1 DEF Fits, WriterFits, Writing
    <2>3. q.op \in {"update", "upsert"} => q.id \in Ids
      BY <1>1 DEF Fits, WriterFits
    <2>4. QED
      BY <1>1, <2>1, <2>2, <2>3, ProvidersAssumption DEF Target, Ids, Typed
  <1>3. \A j \in Ids : Swept(r, j) \in Row
    BY <1>1, <1>2 DEF Swept, Row
  <1>4. \A row \in Row : Patched(row, q) \in Row
    BY <1>2 DEF Patched, Row, Given
  <1>5. Written(r) = [table EXCEPT ![q.t] = rows]
    BY <1>1, <1>2 DEF Written, Swept
  <1>6. rows \in [Ids -> Row]
    BY <1>3, <1>4
  <1>7. QED
    BY <1>1, <1>2, <1>5, <1>6

LEMMA WriteStep ==
    ASSUME ProvidersInv, NEW r \in Requests, Write(r)
    PROVE  ProvidersInv'
  <1> DEFINE q == req[r]
             i == Target(r)
  <1>1. CASE ~Accepted(r)
    BY <1>1, FinishStep DEF Write
  <1>2. CASE Accepted(r)
    <2>1. q.pc = "write" /\ (q.op = "create" => born < MaxProviders) /\ Commit(r, Written(r))
          /\ born' = (IF q.op = "create" THEN born + 1 ELSE born) /\ UNCHANGED events
      BY <1>2 DEF Write
    <2>2. /\ i \in Ids /\ q.t \in Tables
          /\ Written(r) \in [Tables -> [Ids -> Row]]
          /\ \A t \in Tables \ {q.t} : Written(r)[t] = table[t]
          /\ Written(r)[q.t][i] = Patched(Swept(r, i), q)
          /\ \A j \in Ids \ {i} : Written(r)[q.t][j] = Swept(r, j)
      BY <2>1, WrittenRows
    <2>3. born \in 0..MaxProviders /\ born' \in 0..MaxProviders /\ TablesFit(table, born)
      BY <2>1, ProvidersAssumption DEF ProvidersInv, TypeOK
    <2>4. Fits(table, q)
      BY DEF ProvidersInv
    <2>5. \A j \in Ids : "def" \in Written(r)[q.t][j] =>
            \/ /\ "def" \in table[q.t][j]
               /\ j # i => j \notin q.snap
            \/ j = i /\ "def" \in q.up
      BY <2>2 DEF Swept, Patched
    <2>6. \A j, k \in DefaultsIn(Written(r), q.t) : j = k
      <3>1. CASE "def" \in q.up
        <4>1. DefaultsIn(table, q.t) \ q.snap \subseteq {i}
          BY <1>2, <3>1 DEF Accepted, Defaults, DefaultsIn
        <4>2. QED
          BY <2>5, <4>1 DEF DefaultsIn
      <3>2. CASE "def" \notin q.up
        BY <2>2, <2>3, <2>5, <3>2 DEF DefaultsIn, TablesFit
      <3>3. QED
        BY <3>1, <3>2
    <2>7. \A t \in Tables : \A j, k \in DefaultsIn(Written(r), t) : j = k
      BY <2>2, <2>3, <2>6 DEF DefaultsIn, TablesFit
    <2>8. \A j \in Ids : j > born' => Written(r)["system"][j] = {}
      <3>1. i > born' => q.t # "system"
        <4>1. CASE q.op = "create"
          BY <2>1, <2>3, <4>1 DEF Target, Ids
        <4>2. CASE q.op # "create" /\ q.t = "system"
          <5>1. q.seen /\ "there" \in table[q.t][q.id] /\ q.id \in Ids
            BY <1>2, <2>1, <2>4, <4>2 DEF Accepted, Fits, WriterFits, RowFits
          <5>2. QED
            BY <2>1, <2>3, <4>2, <5>1 DEF Target, TablesFit
        <4>3. QED
          BY <4>1, <4>2
      <3>2. ASSUME NEW j \in Ids, j > born'
            PROVE  Written(r)["system"][j] = {}
        <4>1. table["system"][j] = {}
          BY <2>1, <2>3, <3>2 DEF TablesFit, Ids
        <4>2. QED
          BY <2>2, <3>1, <3>2, <4>1 DEF Swept, Tables
      <3>3. QED
        BY <3>2
    <2>9. ASSUME NEW p \in Requests \ {r}, NEW x \in Locks(req[p])
          PROVE  Written(r)[x[1]][x[2]] = table[x[1]][x[2]]
      <3>1. PICK j \in req[p].snap : x = <<req[p].t, j>>
        BY <2>9 DEF Locks
      <3>2. req[p].t \in Tables /\ j \in Ids
        BY RequestFields DEF ProvidersInv, TypeOK, Typed
      <3>3. CASE req[p].t # q.t
        BY <2>2, <3>1, <3>2, <3>3
      <3>4. CASE req[p].t = q.t
        <4>1. j # i
          BY <2>9, <3>1, <3>4 DEF Write, Waits, WaitsFor, Wanted
        <4>2. Locks(q) = {q.t} \X q.snap
          BY <2>1 DEF Locks
        <4>3. j \notin q.snap
          BY <2>9, <3>1, <3>4, <4>2 DEF ProvidersInv, Exclusive
        <4>4. Swept(r, j) = table[q.t][j]
          BY <4>3 DEF Swept
        <4>5. Written(r)[q.t][j] = table[q.t][j]
          BY <2>2, <3>2, <4>1, <4>4
        <4>6. QED
          BY <3>1, <3>4, <4>5
      <3>5. QED
        BY <3>3, <3>4
    <2>10. TablesFit(Written(r), born')
      BY <2>7, <2>8 DEF TablesFit
    <2> HIDE DEF i, q
    <2>11. QED
      BY <2>1, <2>2, <2>3, <2>9, <2>10, CommitStep
  <1>3. QED
    BY <1>1, <1>2

LEMMA DeleteStep ==
    ASSUME ProvidersInv, NEW r \in Requests, Delete(r)
    PROVE  ProvidersInv'
  <1> DEFINE q == req[r]
             gone == IF q.t = "system" THEN Tables ELSE {q.t}
             new == [t \in Tables |-> IF t \in gone
                       THEN [table[t] EXCEPT ![q.id] = {}] ELSE table[t]]
  <1>1. CASE ~q.seen
    BY <1>1, FinishStep DEF Delete
  <1>2. CASE q.seen
    <2>1. Commit(r, new) /\ UNCHANGED <<born, events>> /\ ~Waits(r)
          /\ q.pc = "delete"
      BY <1>2 DEF Delete
    <2>2. q.id \in Ids /\ table \in [Tables -> [Ids -> Row]] /\ {} \in Row
      BY <2>1 DEF ProvidersInv, TypeOK, Fits, WriterFits, Row
    <2>3. new \in [Tables -> [Ids -> Row]]
      BY <2>2
    <2>4. \A t \in Tables, j \in Ids :
            new[t][j] = table[t][j] \/ (new[t][j] = {} /\ t \in gone /\ j = q.id)
      BY <2>2
    <2> HIDE DEF new, gone
    <2>5. TablesFit(new, born)
      BY <2>4 DEF ProvidersInv, TablesFit, DefaultsIn, Tables
    <2>6. ASSUME NEW p \in Requests \ {r}, NEW x \in Locks(req[p])
          PROVE  new[x[1]][x[2]] = table[x[1]][x[2]]
      <3>1. PICK j \in req[p].snap : x = <<req[p].t, j>>
        BY <2>6 DEF Locks
      <3>2. req[p].t \in Tables /\ j \in Ids
        BY RequestFields DEF ProvidersInv, TypeOK, Typed
      <3>3. ~(req[p].t \in gone /\ j = q.id)
        BY <2>1, <2>6, <3>1 DEF Waits, WaitsFor, Wanted, gone
      <3>4. QED
        BY <2>4, <3>1, <3>2, <3>3
    <2>7. born' \in 0..MaxProviders /\ TablesFit(new, born')
      BY <2>1, <2>5 DEF ProvidersInv, TypeOK
    <2>8. QED
      BY <2>1, <2>3, <2>6, <2>7, CommitStep
  <1>3. QED
    BY <1>1, <1>2

-----------------------------------------------------------------------------
(* The order of resolution has a least provider wherever the code finds it. *)
LEMMA UserDefaultChosen ==
    ASSUME NEW tab, NEW n, TablesFit(tab, n), NEW i \in UserDefaultsIn(tab)
    PROVE  i \in ChoiceIn(tab)
  <1>1. \A j \in UserDefaultsIn(tab) : j = i
    BY DEF TablesFit, UserDefaultsIn, ActiveIn, DefaultsIn, Tables
  <1>2. i \in ActiveIn(tab) /\ ActiveIn(tab) \subseteq Ids
    BY DEF UserDefaultsIn, ActiveIn
  <1>3. QED
    BY <1>1, <1>2, ProvidersAssumption DEF ChoiceIn, OrderIn, Ids

LEMMA SystemDefaultChosen ==
    ASSUME NEW tab, UserDefaultsIn(tab) = {}, NEW n, TablesFit(tab, n),
           NEW i \in ActiveIn(tab) \cap DefaultsIn(tab, "system")
    PROVE  i \in ChoiceIn(tab)
  <1>1. \A j \in DefaultsIn(tab, "system") : j = i
    BY DEF TablesFit, Tables
  <1>2. i \in ActiveIn(tab) /\ ActiveIn(tab) \subseteq Ids
    BY DEF ActiveIn
  <1>3. QED
    BY <1>1, <1>2, ProvidersAssumption DEF ChoiceIn, OrderIn, Ids

LEMMA OldestChosen ==
    ASSUME NEW tab, UserDefaultsIn(tab) = {}, ActiveIn(tab) \cap DefaultsIn(tab, "system") = {},
           NEW i \in ActiveIn(tab), \A j \in ActiveIn(tab) : i <= j
    PROVE  i \in ChoiceIn(tab)
  <1>1. ActiveIn(tab) \subseteq Ids
    BY DEF ActiveIn
  <1>2. \A j \in ActiveIn(tab) : OrderIn(tab, j) = 2 * MaxProviders + j
    BY DEF OrderIn
  <1>3. QED
    BY <1>1, <1>2, ProvidersAssumption DEF ChoiceIn, Ids

-----------------------------------------------------------------------------
(* The reads of resolveChatCredentials. *)
LEMMA ReadStep ==
    ASSUME ProvidersInv, NEW r \in Requests, NEW op \in {"resolve", "ask"},
           NEW i \in Ids \cup {0}, NEW key \in {"none", "system", "user"},
           NEW pc \in {"system", "oldest", "config", "resolved"},
           NEW me, me = Resolving(r, op, i, key, pc), Reads(r, me),
           events' = events \/ events' = events + 1, ResolverFits(table, me)
    PROVE  ProvidersInv'
  <1>1. req[r].missed \in SUBSET (Tables \X Ids)
    BY RequestFields DEF ProvidersInv, TypeOK, Typed
  <1>2. /\ me.op = op /\ me.pc = pc /\ me.t = "system" /\ me.id = i /\ me.up = {}
        /\ me.down = {} /\ me.seen = FALSE /\ me.snap = {}
    BY DEF Resolving
  <1>3. me \in Request
    BY <1>1, ProvidersAssumption DEF Resolving, Request, Ops, Pcs, Tables, Given, Ids
  <1>4. Fits(table, me)
    BY <1>2 DEF Fits, WriterFits, RowFits, SwitchFits, Writing
  <1>5. Locks(me) = {} /\ events' \in Nat
    BY <1>2 DEF Locks, ProvidersInv, TypeOK
  <1>6. QED
    BY <1>3, <1>4, <1>5, OwnStep DEF Reads

LEMMA Helpers ==
    /\ Active = ActiveIn(table) /\ UserDefaults = UserDefaultsIn(table)
    /\ \A t : Defaults(t) = DefaultsIn(table, t)
    /\ Choice = ChoiceIn(table)
  <1>1. Active = ActiveIn(table)
    BY DEF Active, ActiveIn
  <1>2. UserDefaults = UserDefaultsIn(table)
    BY <1>1 DEF UserDefaults, UserDefaultsIn
  <1>3. \A t : Defaults(t) = DefaultsIn(table, t)
    BY DEF Defaults, DefaultsIn
  <1>4. \A i : Order(i) = OrderIn(table, i)
    BY <1>2, <1>3 DEF Order, OrderIn
  <1>5. QED
    BY <1>1, <1>2, <1>3, <1>4 DEF Choice, ChoiceIn

LEMMA AskStep ==
    ASSUME ProvidersInv, NEW r \in Requests, NEW i \in Ids, AskStart(r, i)
    PROVE  ProvidersInv'
  <1> PICK me : me = Resolving(r, "ask", i, SystemKey(i), "config")
    OBVIOUS
  <1>1. ResolverFits(table, me)
    BY Helpers DEF AskStart, Resolving, ResolverFits, KeyFits, SystemKey
  <1>2. SystemKey(i) \in {"none", "system", "user"}
    BY DEF SystemKey
  <1>3. QED
    BY <1>1, <1>2, ReadStep DEF AskStart

LEMMA ResolveStep ==
    ASSUME ProvidersInv, NEW r \in Requests, ResolveStart(r)
    PROVE  ProvidersInv'
  <1>1. ASSUME NEW i \in UserDefaults,
               Reads(r, Resolving(r, "resolve", i, KeyFor(i, SystemKey(i)), "resolved"))
        PROVE  ProvidersInv'
    <2> PICK me : me = Resolving(r, "resolve", i, KeyFor(i, SystemKey(i)), "resolved")
      OBVIOUS
    <2>1. i \in ChoiceIn(table) /\ i \in ActiveIn(table) /\ i \in Ids /\ i # 0
      BY Helpers, UserDefaultChosen DEF ProvidersInv, UserDefaultsIn, ActiveIn, Ids
    <2>2. ResolverFits(table, me)
      BY <2>1 DEF Resolving, ResolverFits, KeyFits, SystemKey, KeyFor
    <2>3. KeyFor(i, SystemKey(i)) \in {"none", "system", "user"}
      BY DEF SystemKey, KeyFor
    <2>4. QED
      BY <1>1, <2>1, <2>2, <2>3, ReadStep DEF ResolveStart
  <1>2. ASSUME UserDefaults = {}, Reads(r, Resolving(r, "resolve", 0, "none", "system"))
        PROVE  ProvidersInv'
    <2> PICK me : me = Resolving(r, "resolve", 0, "none", "system")
      OBVIOUS
    <2>1. ResolverFits(table, me)
      BY <1>2, Helpers DEF Resolving, ResolverFits
    <2>2. QED
      BY <1>2, <2>1, ReadStep DEF ResolveStart
  <1>3. QED
    BY <1>1, <1>2 DEF ResolveStart

LEMMA SystemDefaultStep ==
    ASSUME ProvidersInv, NEW r \in Requests, SystemDefault(r)
    PROVE  ProvidersInv'
  <1>1. req[r].missed = {} => UserDefaultsIn(table) = {}
    BY DEF SystemDefault, ProvidersInv, Fits, ResolverFits
  <1>2. ASSUME NEW i \in Active \cap Defaults("system"),
               Reads(r, Resolving(r, "resolve", i, SystemKey(i), "config"))
        PROVE  ProvidersInv'
    <2> PICK me : me = Resolving(r, "resolve", i, SystemKey(i), "config")
      OBVIOUS
    <2>1. i \in ActiveIn(table) \cap DefaultsIn(table, "system") /\ i \in Ids
      BY Helpers DEF ActiveIn
    <2>2. me.missed = {} => i \in ChoiceIn(table)
      BY <1>1, <2>1, SystemDefaultChosen DEF Resolving, ProvidersInv
    <2>3. ResolverFits(table, me)
      BY <2>1, <2>2 DEF Resolving, ResolverFits, KeyFits, SystemKey
    <2>4. SystemKey(i) \in {"none", "system", "user"}
      BY DEF SystemKey
    <2>5. QED
      BY <1>2, <2>1, <2>3, <2>4, ReadStep DEF SystemDefault
  <1>3. ASSUME Active \cap Defaults("system") = {},
               Reads(r, Resolving(r, "resolve", 0, "none", "oldest"))
        PROVE  ProvidersInv'
    <2> PICK me : me = Resolving(r, "resolve", 0, "none", "oldest")
      OBVIOUS
    <2>1. ResolverFits(table, me)
      BY <1>1, <1>3, Helpers DEF Resolving, ResolverFits
    <2>2. QED
      BY <1>3, <2>1, ReadStep DEF SystemDefault
  <1>4. QED
    BY <1>2, <1>3 DEF SystemDefault

LEMMA OldestStep ==
    ASSUME ProvidersInv, NEW r \in Requests, Oldest(r)
    PROVE  ProvidersInv'
  <1>1. req[r].missed = {} =>
          /\ UserDefaultsIn(table) = {}
          /\ ActiveIn(table) \cap DefaultsIn(table, "system") = {}
    BY DEF Oldest, ProvidersInv, Fits, ResolverFits
  <1>2. ASSUME NEW i \in Active, \A j \in Active : i <= j,
               Reads(r, Resolving(r, "resolve", i, SystemKey(i), "config"))
        PROVE  ProvidersInv'
    <2> PICK me : me = Resolving(r, "resolve", i, SystemKey(i), "config")
      OBVIOUS
    <2>1. i \in ActiveIn(table) /\ i \in Ids
      BY Helpers DEF ActiveIn
    <2>2. me.missed = {} => i \in ChoiceIn(table)
      BY <1>1, <1>2, <2>1, Helpers, OldestChosen DEF Resolving
    <2>3. ResolverFits(table, me)
      BY <2>1, <2>2 DEF Resolving, ResolverFits, KeyFits, SystemKey
    <2>4. SystemKey(i) \in {"none", "system", "user"}
      BY DEF SystemKey
    <2>5. QED
      BY <1>2, <2>1, <2>3, <2>4, ReadStep DEF Oldest
  <1>3. ASSUME Active = {}, Reads(r, Resolving(r, "resolve", 0, "none", "resolved"))
        PROVE  ProvidersInv'
    <2> PICK me : me = Resolving(r, "resolve", 0, "none", "resolved")
      OBVIOUS
    <2>1. ResolverFits(table, me)
      BY <1>3, Helpers DEF Resolving, ResolverFits, ChoiceIn
    <2>2. QED
      BY <1>3, <2>1, ReadStep DEF Oldest
  <1>4. QED
    BY <1>2, <1>3 DEF Oldest

LEMMA ConfigStep ==
    ASSUME ProvidersInv, NEW r \in Requests, Config(r)
    PROVE  ProvidersInv'
  <1> DEFINE q == req[r]
             key == KeyFor(q.id, q.key)
  <1> PICK me : me = Resolving(r, q.op, q.id, key, "resolved")
    OBVIOUS
  <1>1. /\ q.pc = "config" /\ Fits(table, q) /\ q.key \in {"none", "system", "user"}
        /\ q.op \in Ops
    BY RequestFields DEF Config, ProvidersInv, TypeOK, Typed
  <1>2. /\ q.id \in Ids /\ q.id # 0 /\ q.key # "user" /\ KeyFits(table, q)
        /\ q.op = "resolve" /\ q.missed = {} => q.id \in ChoiceIn(table)
    BY <1>1 DEF Fits, ResolverFits, Ids
  <1>3. q.op \in {"resolve", "ask"}
    BY <1>1 DEF Fits, WriterFits, ResolverFits
  <1>4. /\ me.op = q.op /\ me.id = q.id /\ me.key = key /\ me.missed = q.missed
        /\ me.pc = "resolved"
    BY DEF Resolving
  <1>5. /\ key \in {"none", "system", "user"} /\ (key = "system" => q.key = "system")
        /\ key = "user" <=> {"on", "key"} \subseteq table["user"][q.id]
    BY <1>1, <1>2 DEF KeyFor
  <1> HIDE DEF key, q
  <1>6. ResolverFits(table, me)
    BY <1>2, <1>4, <1>5 DEF ResolverFits, KeyFits, Untouched
  <1>7. Reads(r, me) /\ UNCHANGED events
    BY DEF Config, key, q
  <1>8. QED
    BY <1>2, <1>3, <1>5, <1>6, <1>7, ReadStep

LEMMA ProvidersInvNext ==
    ASSUME ProvidersInv, [Next]_vars
    PROVE  ProvidersInv'
  <1>1. ASSUME NEW r \in Requests, Start(r)
        PROVE  ProvidersInv'
    BY <1>1, StartStep, AskStep, ResolveStep, ProvidersAssumption DEF Start, Ids, Tables
  <1>2. ASSUME NEW r \in Requests, Step(r) \/ Fail(r)
        PROVE  ProvidersInv'
    BY <1>2, SnapshotStep, ClearStep, FindStep, WriteStep, DeleteStep, SystemDefaultStep,
       OldestStep, ConfigStep, FinishStep DEF Step, Fail, Reply
  <1>3. CASE UNCHANGED vars
    BY <1>3 DEF vars, ProvidersInv, TypeOK, Exclusive, Locks
  <1>4. QED
    BY <1>1, <1>2, <1>3 DEF Next

LEMMA ProvidersInvAlways == Spec => []ProvidersInv
  BY Initially, ProvidersInvNext, PTL DEF Spec

-----------------------------------------------------------------------------
(* Every variable keeps its type, and a row that is not there has no flags   *)
(* (the defaults of createProvider and upsertUserProvider).                  *)
THEOREM TypeCorrect == Spec => []TypeOK
  <1>1. ProvidersInv => TypeOK
    BY DEF ProvidersInv
  <1>2. QED
    BY <1>1, ProvidersInvAlways, PTL

(* The partial unique indexes ai_providers_one_default_idx and               *)
(* user_ai_providers_one_default_idx hold of every state others can see.     *)
THEOREM AtMostOneDefault == Spec => [](\A t \in Tables : \A i, j \in Defaults(t) : i = j)
  <1>1. ProvidersInv => \A t \in Tables : \A i, j \in Defaults(t) : i = j
    BY Helpers DEF ProvidersInv, TablesFit
  <1>2. QED
    BY <1>1, ProvidersInvAlways, PTL

(* Only Write and Delete write a table. *)
LEMMA WritersOnly ==
    ASSUME [Next]_vars, table' # table
    PROVE  \E r \in Requests :
             /\ req'[r] = Idle
             /\ \/ Delete(r) /\ req[r].seen
                \/ Write(r) /\ Accepted(r) /\ table' = Written(r)
  <1>1. PICK r \in Requests : Start(r) \/ Step(r) \/ Fail(r)
    BY DEF Next, vars
  <1>2. Start(r) => UNCHANGED table
    BY Zenon DEF Start, CreateStart, UpdateStart, UpsertStart, SetDefaultStart, DeleteStart,
       Begin, AskStart, ResolveStart, Reads
  <1>3. Write(r) \/ Delete(r)
    BY <1>1, <1>2 DEF Step, Fail, Snapshot, Clear, Find, SystemDefault, Oldest, Config, Reply,
       Reads
  <1>4. CASE Delete(r)
    BY <1>4 DEF Delete, Commit
  <1>5. CASE Write(r)
    BY <1>5 DEF Write, Commit
  <1>6. QED
    BY <1>3, <1>4, <1>5

LEMMA DefaultKeptStep ==
    ASSUME ProvidersInv, [Next]_vars, NEW t \in Tables, Defaults(t) # {}, Defaults(t)' = {}
    PROVE  \E r \in Requests : GivesUp(req[r]) /\ req'[r] = Idle
  <1>1. table' # table
    BY DEF Defaults
  <1>2. PICK r \in Requests : /\ req'[r] = Idle
                             /\ \/ Delete(r) /\ req[r].seen
                                \/ Write(r) /\ Accepted(r) /\ table' = Written(r)
    BY <1>1, WritersOnly
  <1>3. CASE Delete(r)
    BY <1>2, <1>3 DEF Delete, ProvidersInv, Fits, WriterFits, GivesUp
  <1>4. CASE Write(r) /\ table' = Written(r)
    <2> DEFINE q == req[r]
    <2>1. q.pc = "write" /\ Fits(table, q) /\ (q.op = "create" => born < MaxProviders)
      BY <1>4 DEF Write, ProvidersInv
    <2>2. /\ Target(r) \in Ids
          /\ \A tt \in Tables \ {q.t} : table'[tt] = table[tt]
          /\ table'[q.t][Target(r)] = Patched(Swept(r, Target(r)), q)
          /\ \A j \in Ids \ {Target(r)} : table'[q.t][j] = Swept(r, j)
      BY <1>4, <2>1, WrittenRows
    <2>3. t = q.t
      BY <2>2 DEF Defaults
    <2>4. "def" \notin q.up
      BY <2>2, <2>3 DEF Defaults, Patched
    <2>5. \A j \in Ids : Swept(r, j) = table[t][j]
      BY <2>1, <2>3, <2>4 DEF Swept, Fits, SwitchFits
    <2>6. PICK i \in Ids : "def" \in table[t][i] /\ "def" \notin table'[t][i]
      BY DEF Defaults
    <2>7. i = Target(r) /\ "def" \in q.down
      BY <2>2, <2>3, <2>5, <2>6, RowFacts DEF Patched, ProvidersInv
    <2>8. q.op = "upsert"
      BY <2>1, <2>7 DEF Fits, WriterFits, Writing
    <2>9. QED
      BY <1>2, <2>7, <2>8 DEF GivesUp
  <1>5. QED
    BY <1>2, <1>3, <1>4

(* Switching the default (setDefaultProvider, createProvider,                *)
(* setUserDefaultProvider, upsertUserProvider) is all or nothing: a table    *)
(* loses its default only to a deletion or to a user who gives it up.        *)
THEOREM DefaultIsKept == Spec => DefaultKept
  <1>1. ProvidersInv /\ [Next]_vars =>
          [\A t \in Tables : Defaults(t) # {} /\ Defaults(t)' = {} =>
             \E r \in Requests : GivesUp(req[r]) /\ req'[r] = Idle]_vars
    BY DefaultKeptStep
  <1>2. QED
    BY <1>1, ProvidersInvAlways, PTL DEF Spec, DefaultKept

LEMMA UnsettleStep ==
    ASSUME ProvidersInv, [Next]_vars, Usable, ~Usable'
    PROVE  \E r \in Requests : req'[r] = Idle /\ <<"system", req[r].id>> \in req[r].missed
  <1> PICK d \in Ids : {"on", "def"} \subseteq table["system"][d]
    BY DEF Usable, Active, Defaults
  <1>1. \A i \in Ids : ~({"on", "def"} \subseteq table'["system"][i])
    BY DEF Usable, Active, Defaults
  <1>2. PICK r \in Requests : /\ req'[r] = Idle
                             /\ \/ Delete(r) /\ req[r].seen
                                \/ Write(r) /\ Accepted(r) /\ table' = Written(r)
    BY <1>1, WritersOnly
  <1> DEFINE q == req[r]
  <1> SUFFICES ASSUME Untouched(q, "system")
               PROVE  FALSE
    BY <1>2 DEF Untouched
  <1>3. Fits(table, q)
    BY DEF ProvidersInv
  <1>4. CASE Delete(r) /\ q.seen
    <2>1. q.op = "delete" /\ q.id \in Ids
      BY <1>3, <1>4 DEF Delete, Fits, WriterFits
    <2>2. CASE q.t = "system"
      <3>1. "def" \notin table["system"][q.id]
        BY <1>3, <2>1, <2>2 DEF Fits, RowFits
      <3>2. table'["system"][d] = table["system"][d]
        BY <1>4, <2>2, <3>1 DEF Delete, Commit, Tables, ProvidersInv, TypeOK
      <3>3. QED
        BY <1>1, <3>2
    <2>3. CASE q.t # "system"
      <3>1. table'["system"] = table["system"]
        BY <1>4, <2>3 DEF Delete, Commit, Tables
      <3>2. QED
        BY <1>1, <3>1
    <2>4. QED
      BY <2>2, <2>3
  <1>5. CASE Write(r) /\ Accepted(r) /\ table' = Written(r)
    <2>1. /\ q.pc = "write" /\ (q.op = "create" => born < MaxProviders)
          /\ q.op \in {"create", "update", "upsert"}
      BY <1>3, <1>5 DEF Write, Fits, WriterFits, Writing
    <2>2. /\ Target(r) \in Ids
          /\ \A tt \in Tables \ {q.t} : table'[tt] = table[tt]
          /\ table'[q.t][Target(r)] = Patched(Swept(r, Target(r)), q)
          /\ \A j \in Ids \ {Target(r)} : table'[q.t][j] = Swept(r, j)
      BY <1>5, <2>1, WrittenRows
    <2>3. q.t = "system" /\ q.op \in {"create", "update"}
      BY <1>1, <1>3, <2>1, <2>2 DEF Tables, Fits, WriterFits
    <2>4. "def" \notin q.down /\ ~("def" \in q.up /\ "on" \in q.down)
      BY <1>3, <2>3 DEF Fits, WriterFits
    <2>5. CASE "def" \in q.up
      <3>1. q.op = "create" => table["system"][Target(r)] = {}
        BY <2>1, <2>2 DEF Target, ProvidersInv, TablesFit, TypeOK, Ids
      <3>2. q.op = "update" => "on" \in table["system"][Target(r)]
        BY <1>3, <2>3, <2>5 DEF Target, Fits, RowFits
      <3>3. {"on", "def"} \subseteq table'["system"][Target(r)]
        BY <2>2, <2>3, <2>4, <2>5, <3>1, <3>2 DEF Patched, Swept
      <3>4. QED
        BY <1>1, <2>2, <3>3
    <2>6. CASE "def" \notin q.up
      <3>1. \A j \in Ids : Swept(r, j) = table["system"][j]
        BY <1>3, <2>1, <2>3, <2>6 DEF Swept, Fits, SwitchFits
      <3>2. d = Target(r)
        BY <1>1, <2>2, <2>3, <3>1
      <3>3. q.op = "update" /\ "on" \notin q.down
        BY <1>3, <2>1, <2>3, <3>2 DEF Target, ProvidersInv, TablesFit, TypeOK, Ids, Fits, RowFits
      <3>4. {"on", "def"} \subseteq table'["system"][d]
        BY <2>2, <2>3, <2>4, <3>1, <3>2, <3>3, RowFacts DEF Patched, ProvidersInv, Tables
      <3>5. QED
        BY <1>1, <3>4
    <2>7. QED
      BY <2>5, <2>6
  <1>6. QED
    BY <1>2, <1>4, <1>5

(* The system default stays usable (updateProvider, setProviderActive,       *)
(* setDefaultProvider, deleteProvider), unless a request decided on a row    *)
(* that was written after it had read it.                                    *)
THEOREM OnlyStaleWritesCanUnsettle == Spec => OnlyStaleWritesUnsettle
  <1>1. ProvidersInv /\ [Next]_vars =>
          [Usable /\ ~Usable' =>
             \E r \in Requests : /\ req'[r] = Idle
                                 /\ <<"system", req[r].id>> \in req[r].missed]_vars
    BY UnsettleStep
  <1>2. QED
    BY <1>1, ProvidersInvAlways, PTL DEF Spec, OnlyStaleWritesUnsettle

(* A switch, an upsert or an update that nothing overtook is not refused by  *)
(* an index, a foreign key or a missing row.                                 *)
THEOREM RefusalsAreRaces == Spec => []OnlyOvertakenRefused
  <1>1. ASSUME ProvidersInv, NEW r \in Requests, req[r].pc = "write", req[r].missed = {}
        PROVE  Accepted(r)
    <2>1. Fits(table, req[r]) /\ Untouched(req[r], "system") /\ Untouched(req[r], "user")
          /\ Untouched(req[r], req[r].t)
      BY <1>1 DEF ProvidersInv, Untouched
    <2>2. "def" \in req[r].up => Defaults(req[r].t) \ req[r].snap \subseteq {Target(r)}
      BY <1>1, <2>1, Helpers DEF Fits, SwitchFits
    <2>3. CASE req[r].op \in {"create", "update"}
      BY <2>1, <2>2, <2>3 DEF Fits, RowFits, Accepted
    <2>4. CASE req[r].op = "upsert"
      BY <1>1, <2>1, <2>2, <2>4 DEF Fits, RowFits, Accepted
    <2>5. QED
      BY <1>1, <2>1, <2>3, <2>4 DEF Fits, WriterFits, Writing
  <1>2. ProvidersInv => OnlyOvertakenRefused
    BY <1>1 DEF OnlyOvertakenRefused
  <1>3. QED
    BY <1>2, ProvidersInvAlways, PTL

(* resolveChatCredentials returns the first provider in the documented order *)
(* and the right key of it, or what was so when the row was read.            *)
THEOREM ResolutionIsInOrder == Spec => []ResolutionInOrder
  <1>1. ASSUME ProvidersInv, NEW r \in Requests, req[r].pc = "resolved"
        PROVE  /\ req[r].op = "resolve" /\ req[r].missed = {} =>
                    IF req[r].id = 0 THEN Choice = {} ELSE req[r].id \in Choice
               /\ req[r].id # 0 => Sound(req[r])
    BY <1>1, Helpers DEF ProvidersInv, Fits, ResolverFits, KeyFits, Sound
  <1>2. ProvidersInv => ResolutionInOrder
    BY <1>1 DEF ResolutionInOrder
  <1>3. QED
    BY <1>2, ProvidersInvAlways, PTL

-----------------------------------------------------------------------------
(* Lock waits.  Of a table only the default is ever locked, by one         *)
(* transaction, which then wants nothing but that and unlocked rows.       *)
LEMMA HolderWaitsForNone ==
    ASSUME ProvidersInv, NEW r \in Requests, Locks(req[r]) # {}, NEW q \in Requests
    PROVE  ~WaitsFor(r, q)
  <1> SUFFICES ASSUME q # r, NEW x, x \in Locks(req[q]), x \in Wanted(r)
               PROVE  FALSE
    BY DEF WaitsFor
  <1>1. req[r].pc = "write" /\ Locks(req[r]) = {req[r].t} \X req[r].snap
    BY DEF Locks, Wanted
  <1>2. \A p \in Requests : Locks(req[p]) # {} =>
          req[p].snap \subseteq Defaults(req[p].t) /\ req[p].t \in Tables
    <2>1. \A p \in Requests : req[p] \in Request /\ Fits(table, req[p])
      BY DEF ProvidersInv, TypeOK
    <2>2. \A p \in Requests : req[p].t \in Tables
      BY <2>1, RequestFields DEF Typed
    <2>3. QED
      BY <2>1, <2>2 DEF Locks, Fits, SwitchFits, Defaults, DefaultsIn
  <1>3. PICK j \in req[q].snap : x = <<req[q].t, j>>
    BY DEF Locks
  <1>4. req[q].t = req[r].t /\ j \in Defaults(req[r].t)
    BY <1>1, <1>2, <1>3 DEF Wanted
  <1>5. PICK k \in req[r].snap : k \in Defaults(req[r].t)
    BY <1>1, <1>2
  <1>6. j = k
    BY <1>1, <1>2, <1>4, <1>5 DEF ProvidersInv, TablesFit, Defaults, DefaultsIn
  <1>7. x \in Locks(req[r])
    BY <1>1, <1>3, <1>4, <1>5, <1>6
  <1>8. QED
    BY <1>7 DEF ProvidersInv, Exclusive

LEMMA NoCircle == ProvidersInv => NoCircularWait
  <1> SUFFICES ASSUME ProvidersInv, NEW W \in SUBSET Requests, W # {}
               PROVE  \E r \in W : \A q \in W : ~WaitsFor(r, q)
    BY DEF NoCircularWait
  <1>1. PICK r \in W : TRUE
    OBVIOUS
  <1>2. CASE \A q \in W : ~WaitsFor(r, q)
    BY <1>2
  <1>3. CASE \E q \in W : WaitsFor(r, q)
    <2>1. PICK q \in W : WaitsFor(r, q)
      BY <1>3
    <2>2. Locks(req[q]) # {}
      BY <2>1 DEF WaitsFor
    <2>3. QED
      BY <2>2, HolderWaitsForNone
  <1>4. QED
    BY <1>2, <1>3

(* Administrators and users who switch defaults, write and delete at once  *)
(* never wait for each other in a circle: the database has no deadlock to  *)
(* break, whatever the number of requests and providers.                   *)
THEOREM WaitsEnd == Spec => []NoCircularWait
  BY NoCircle, ProvidersInvAlways, PTL

=============================================================================
