--------------------------- MODULE Accounts_proofs ---------------------------
(* Proofs about Accounts, for any number of accounts, requests and tokens:   *)
(* what stays true of a row that a request read some statements before it    *)
(* writes, unless the history of the request says it was overtaken.          *)
EXTENDS Accounts, FiniteSetTheorems, TLAPS

-----------------------------------------------------------------------------
(* What is known of a request by what it is about to do, on tables given as  *)
(* arguments.  Rows are never removed, so an account that was found is       *)
(* there; the rest holds of what it read unless others wrote it since.       *)
AccountFits(accounts, me) ==
    /\ me.op = "none" <=> me.pc = "idle"
    /\ me.pc \in {"find", "count"} => me.op = "change"
    /\ me.pc \in {"count", "write"} =>
         /\ "there" \in accounts[me.a]
         /\ me.a \notin me.missed => "deleted" \notin accounts[me.a]
    /\ me.pc = "count" => me.down # {}
    /\ me.pc = "write" => me.op \in {"verify", "change", "delete"}
    /\ me.op = "resend" => "there" \in accounts[me.a]
    /\ me.op = "change" /\ me.pc = "write" /\ me.down # {} /\ ~me.shaken =>
         AdminsOf(accounts) # {me.a}
    /\ me.op = "verify" => me.up = {"verified"} /\ me.down = {}
    /\ me.op = "change" => "deleted" \notin me.up /\ (me.up # {} => me.down = {})
    /\ "verified" \notin me.down

TokensFit(tokens, me) ==
    /\ me.op = "verify" =>
         me.t \in Tokens /\ tokens[me.t].state # "none" /\ tokens[me.t].owner = me.a
    /\ me.op # "verify" => me.t = 0
    /\ \A t \in me.snap : tokens[t].state # "none" /\ tokens[t].owner = me.a
    /\ me.pc \in {"snapshot", "create"} => me.op \in {"register", "resend"}
    /\ me.op = "resend" => me.pc \in {"snapshot", "create"}
    /\ me.op = "resend" /\ me.pc = "create" =>
         \A t \in Tokens \ (me.snap \cup me.late) :
           ~(tokens[t].owner = me.a /\ tokens[t].state \in {"fresh", "expired"})

Fits(accounts, tokens, me) == AccountFits(accounts, me) /\ TokensFit(tokens, me)

(* Tokens of accounts to be registered, and of numbers to come, are none. *)
NoStray(accounts, tokens, n) ==
    \A t \in Tokens : tokens[t].state # "none" => accounts[tokens[t].owner] # {} /\ t <= n

PriorInvalid(tokens) ==
    \A s, t \in Tokens :
      (/\ s < t /\ tokens[s].owner = tokens[t].owner
       /\ tokens[s].state = "fresh" /\ tokens[t].state = "fresh") => s \in tokens[t].beside

Open(tokens, a) ==
    {t \in Tokens : tokens[t].owner = a /\ tokens[t].state \in {"fresh", "expired"}}

LinksKept(accounts, tokens) ==
    \A t \in Tokens : tokens[t].state = "used" =>
      \/ "verified" \in accounts[tokens[t].owner]
      \/ \E n \in Open(tokens, tokens[t].owner) : n > t

AccountsInv ==
    /\ AccountsTypeOK
    /\ NoStray(account, token, born)
    /\ PriorInvalid(token)
    /\ LinksKept(account, token)
    /\ \A r \in Requests : Fits(account, token, req[r])

-----------------------------------------------------------------------------
(* A record with the fields of a request, each in its range, is one. *)
Fields == {"op", "pc", "by", "a", "t", "up", "down", "snap", "missed", "late", "shaken"}

Whole(me) ==
    me = [op |-> me.op, pc |-> me.pc, by |-> me.by, a |-> me.a, t |-> me.t, up |-> me.up,
          down |-> me.down, snap |-> me.snap, missed |-> me.missed, late |-> me.late,
          shaken |-> me.shaken]

Typed(me) ==
    /\ me.op \in Ops /\ me.pc \in {"idle", "find", "count", "snapshot", "create", "write"}
    /\ me.by \in Accounts /\ me.a \in Accounts /\ me.t \in Tokens \cup {0}
    /\ me.up \in SUBSET Flags /\ me.down \in SUBSET Flags
    /\ me.snap \in SUBSET Tokens /\ me.missed \in SUBSET Accounts
    /\ me.late \in SUBSET Tokens /\ me.shaken \in BOOLEAN

LEMMA RequestFields ==
    ASSUME NEW me \in Request
    PROVE  DOMAIN me = Fields /\ Typed(me)
  BY DEF Request, Fields, Typed

LEMMA RequestMade ==
    ASSUME NEW me, Whole(me), Typed(me)
    PROVE  me \in Request
  BY DEF Request, Whole, Typed

LEMMA IdleFits ==
    ASSUME NEW accounts, NEW tokens
    PROVE  Idle \in Request /\ Fits(accounts, tokens, Idle) /\ Idle.op = "none"
  BY AccountsAssumption
     DEF Idle, Request, Ops, Flags, Fits, AccountFits, TokensFit

LEMMA Initially == AccountsInit => AccountsInv
  <1> SUFFICES ASSUME AccountsInit
               PROVE  AccountsInv
    OBVIOUS
  <1>1. PICK promoted \in SUBSET Registered :
          account = [a \in Accounts |->
                      CASE a = Root -> {"there", "active", "admin", "verified"}
                        [] a \in Registered ->
                             {"there", "active"} \cup {f \in {"admin"} : a \in promoted}
                        [] OTHER -> {}]
    BY DEF AccountsInit
  <1>2. account \in [Accounts -> Row]
    <2>1. \A flags \in SUBSET Flags : {"there"} \cup flags \in Row
      BY DEF Row
    <2>2. {"there", "active", "admin", "verified"} \in Row
      <3>1. {"active", "admin", "verified"} \in SUBSET Flags
        BY DEF Flags
      <3>2. {"there", "active", "admin", "verified"}
              = {"there"} \cup {"active", "admin", "verified"}
        OBVIOUS
      <3>3. QED
        BY <2>1, <3>1, <3>2
    <2>3. \A a \in Accounts : {"there", "active"} \cup {f \in {"admin"} : a \in promoted} \in Row
      <3>1. ASSUME NEW a \in Accounts
            PROVE  {"there", "active"} \cup {f \in {"admin"} : a \in promoted} \in Row
        <4>1. {"active"} \cup {f \in {"admin"} : a \in promoted} \in SUBSET Flags
          BY DEF Flags
        <4>2. {"there", "active"} \cup {f \in {"admin"} : a \in promoted}
                = {"there"} \cup ({"active"} \cup {f \in {"admin"} : a \in promoted})
          OBVIOUS
        <4>3. QED
          BY <2>1, <4>1, <4>2
      <3>2. QED
        BY <3>1
    <2>4. {} \in Row
      BY DEF Row
    <2>5. QED
      BY <1>1, <2>2, <2>3, <2>4
  <1>3. token \in [Tokens -> Token]
    BY AccountsAssumption DEF AccountsInit, Token
  <1>4. AccountsTypeOK
    <2>1. req \in [Requests -> Request]
      BY IdleFits DEF AccountsInit
    <2>2. born \in 0..MaxTokens /\ events \in Nat
      BY AccountsAssumption DEF AccountsInit
    <2>3. QED
      BY <1>2, <1>3, <2>1, <2>2 DEF AccountsTypeOK
  <1>5. NoStray(account, token, born) /\ PriorInvalid(token) /\ LinksKept(account, token)
    BY DEF AccountsInit, NoStray, PriorInvalid, LinksKept
  <1>6. \A r \in Requests : Fits(account, token, req[r])
    BY IdleFits DEF AccountsInit
  <1>7. QED
    BY <1>4, <1>5, <1>6 DEF AccountsInv

-----------------------------------------------------------------------------
(* A request that writes its own record only. *)
LEMMA OwnStep ==
    ASSUME AccountsInv, NEW r \in Requests, NEW me \in Request,
           req' = [req EXCEPT ![r] = me], UNCHANGED <<account, token, born>>, events' \in Nat,
           Fits(account, token, me)
    PROVE  AccountsInv'
  <1>1. AccountsTypeOK'
    BY DEF AccountsInv, AccountsTypeOK
  <1>2. req'[r] = me /\ \A q \in Requests \ {r} : req'[q] = req[q]
    BY DEF AccountsInv, AccountsTypeOK
  <1>3. \A q \in Requests : Fits(account', token', req'[q])
    BY <1>2 DEF AccountsInv
  <1>4. QED
    BY <1>1, <1>3 DEF AccountsInv

LEMMA FinishStep ==
    ASSUME AccountsInv, NEW r \in Requests, Finish(r),
           UNCHANGED <<account, token, born, events>>
    PROVE  AccountsInv'
  BY IdleFits, OwnStep DEF Finish, AccountsInv, AccountsTypeOK

(* What the others are left with when the tables become new. *)
LEMMA OthersFit ==
    ASSUME NEW me \in Request, NEW accounts, NEW tokens,
           NEW n, n = Missing(me, accounts, tokens), Fits(account, token, me),
           \A a \in Accounts : "there" \in account[a] => "there" \in accounts[a],
           \A t \in Tokens : token[t].state # "none" =>
             tokens[t].state # "none" /\ tokens[t].owner = token[t].owner
    PROVE  n \in Request /\ Fits(accounts, tokens, n)
  <1>1. CASE me.op = "none"
    <2>1. n = me /\ me.pc = "idle"
      BY <1>1 DEF Missing, Fits, AccountFits
    <2>2. me.snap \subseteq Tokens
      BY RequestFields DEF Typed
    <2>3. QED
      BY <1>1, <2>1, <2>2 DEF Fits, AccountFits, TokensFit
  <1>2. CASE me.op # "none"
    <2> DEFINE wroteA == {a \in Accounts : accounts[a] # account[a]}
               wroteT == {t \in Tokens : tokens[t] # token[t]}
    <2>1. n = [me EXCEPT !.missed = me.missed \cup wroteA, !.late = me.late \cup wroteT,
                         !.shaken = me.shaken \/ AdminsOf(accounts) # Admins]
      BY <1>2 DEF Missing
    <2>2. /\ n.op = me.op /\ n.pc = me.pc /\ n.by = me.by /\ n.a = me.a /\ n.t = me.t
          /\ n.up = me.up /\ n.down = me.down /\ n.snap = me.snap
          /\ n.missed = me.missed \cup wroteA /\ n.late = me.late \cup wroteT
          /\ n.shaken = (me.shaken \/ AdminsOf(accounts) # Admins)
      BY <2>1, RequestFields DEF Fields
    <2>3. Typed(me)
      BY RequestFields
    <2>4. Whole(n)
      BY <2>1, <2>2, RequestFields DEF Whole, Fields
    <2>5. Typed(n)
      BY <2>2, <2>3 DEF Typed
    <2>6. n \in Request
      BY <2>4, <2>5, RequestMade
    <2>7. AccountFits(accounts, n)
      <3>1. n.a \notin n.missed => accounts[n.a] = account[me.a] /\ me.a \notin me.missed
        BY <2>2, <2>3 DEF Typed
      <3>2. ~n.shaken => AdminsOf(accounts) = AdminsOf(account) /\ ~me.shaken
        BY <2>2 DEF Admins
      <3>3. "there" \in account[me.a] => "there" \in accounts[n.a]
        BY <2>2, <2>3 DEF Typed
      <3>4. AccountFits(account, me)
        BY DEF Fits
      <3> HIDE DEF wroteA, wroteT
      <3>5. QED
        BY ONLY <2>2, <3>1, <3>2, <3>3, <3>4 DEF AccountFits
    <2>8. TokensFit(tokens, n)
      <3>1. \A t \in Tokens \ n.late : tokens[t] = token[t] /\ t \notin me.late
        BY <2>2
      <3>2. TokensFit(token, me) /\ me.snap \subseteq Tokens
        BY <2>3 DEF Fits, Typed
      <3> HIDE DEF wroteA, wroteT
      <3>3. QED
        BY <2>2, <3>1, <3>2 DEF TokensFit
    <2>9. QED
      BY <2>6, <2>7, <2>8 DEF Fits
  <1>3. QED
    BY <1>1, <1>2

LEMMA CommitStep ==
    ASSUME AccountsInv, NEW r \in Requests,
           NEW accounts \in [Accounts -> Row], NEW tokens \in [Tokens -> Token],
           Commit(r, accounts, tokens), UNCHANGED events, born' \in 0..MaxTokens,
           \A a \in Accounts : "there" \in account[a] => "there" \in accounts[a],
           \A t \in Tokens : token[t].state # "none" =>
             tokens[t].state # "none" /\ tokens[t].owner = token[t].owner,
           NoStray(accounts, tokens, born'), PriorInvalid(tokens), LinksKept(accounts, tokens)
    PROVE  AccountsInv'
  <1>1. req'[r] = Idle /\ account' = accounts /\ token' = tokens
    BY DEF Commit
  <1>2. ASSUME NEW q \in Requests \ {r}
        PROVE  req'[q] \in Request /\ Fits(accounts, tokens, req'[q])
    <2>1. req'[q] = Missing(req[q], accounts, tokens)
      BY <1>2 DEF Commit
    <2>2. req[q] \in Request /\ Fits(account, token, req[q])
      BY DEF AccountsInv, AccountsTypeOK
    <2>3. QED
      BY <2>1, <2>2, OthersFit
  <1>3. req' \in [Requests -> Request]
    BY <1>1, <1>2, IdleFits DEF Commit
  <1>4. AccountsTypeOK'
    BY <1>1, <1>3 DEF AccountsInv, AccountsTypeOK
  <1>5. \A q \in Requests : Fits(account', token', req'[q])
    BY <1>1, <1>2, IdleFits
  <1>6. QED
    BY <1>1, <1>4, <1>5 DEF AccountsInv

-----------------------------------------------------------------------------
(* Requests that begin. *)
LEMMA BegunStep ==
    ASSUME AccountsInv, NEW r \in Requests, NEW me, Begin(r, me),
           Whole(me), Typed(me), Fits(account, token, me)
    PROVE  AccountsInv'
  BY RequestMade, OwnStep DEF Begin, AccountsInv, AccountsTypeOK

LEMMA RowFacts ==
    ASSUME AccountsTypeOK, NEW a \in Accounts, account[a] # {}
    PROVE  "there" \in account[a]
  BY DEF AccountsTypeOK, Row

LEMMA RegisterBegins ==
    ASSUME AccountsInv, NEW r \in Requests, NEW a \in Accounts, RegisterStart(r, a)
    PROVE  AccountsInv'
  <1> PICK me : me = Asking("register", "create", a, a, 0, {}, {})
    OBVIOUS
  <1>1. /\ me.op = "register" /\ me.pc = "create" /\ me.by = a /\ me.a = a /\ me.t = 0
        /\ me.up = {} /\ me.down = {} /\ me.snap = {} /\ me.missed = {}
        /\ me.late = {} /\ me.shaken = FALSE /\ Whole(me)
    BY DEF Asking, Idle, Whole
  <1>2. Typed(me)
    BY <1>1 DEF Typed, Ops
  <1>3. Fits(account, token, me)
    BY <1>1 DEF Fits, AccountFits, TokensFit
  <1>4. QED
    BY <1>1, <1>2, <1>3, BegunStep DEF RegisterStart

LEMMA ResendBegins ==
    ASSUME AccountsInv, NEW r \in Requests, NEW a \in Accounts, ResendStart(r, a)
    PROVE  AccountsInv'
  <1> PICK me : me = Asking("resend", "snapshot", a, a, 0, {}, {})
    OBVIOUS
  <1>1. /\ me.op = "resend" /\ me.pc = "snapshot" /\ me.by = a /\ me.a = a /\ me.t = 0
        /\ me.up = {} /\ me.down = {} /\ me.snap = {} /\ me.missed = {}
        /\ me.late = {} /\ me.shaken = FALSE /\ Whole(me)
    BY DEF Asking, Idle, Whole
  <1>2. Typed(me)
    BY <1>1 DEF Typed, Ops
  <1>3. "there" \in account[a]
    BY RowFacts DEF ResendStart, AccountsInv
  <1>4. Fits(account, token, me)
    BY <1>1, <1>3 DEF Fits, AccountFits, TokensFit
  <1>5. QED
    BY <1>1, <1>2, <1>4, BegunStep DEF ResendStart

LEMMA VerifyBegins ==
    ASSUME AccountsInv, NEW r \in Requests, NEW t \in Tokens, VerifyStart(r, t)
    PROVE  AccountsInv'
  <1> DEFINE a == token[t].owner
  <1> PICK me : me = Asking("verify", "write", a, a, t, {"verified"}, {})
    OBVIOUS
  <1>1. /\ me.op = "verify" /\ me.pc = "write" /\ me.by = a /\ me.a = a /\ me.t = t
        /\ me.up = {"verified"} /\ me.down = {} /\ me.snap = {} /\ me.missed = {}
        /\ me.late = {} /\ me.shaken = FALSE /\ Whole(me)
    BY DEF Asking, Idle, Whole
  <1>2. a \in Accounts /\ token[t].state = "fresh" /\ "deleted" \notin account[a]
    BY DEF VerifyStart, ValidToken, AccountsInv, AccountsTypeOK, Token
  <1>3. "there" \in account[a]
    BY <1>2, RowFacts DEF AccountsInv, NoStray
  <1>4. Typed(me)
    BY <1>1, <1>2 DEF Typed, Ops, Flags
  <1>5. Fits(account, token, me)
    BY <1>1, <1>2, <1>3 DEF Fits, AccountFits, TokensFit
  <1>6. QED
    BY <1>1, <1>4, <1>5, BegunStep DEF VerifyStart

LEMMA DeleteBegins ==
    ASSUME AccountsInv, NEW r \in Requests, NEW a \in Accounts, DeleteStart(r, a)
    PROVE  AccountsInv'
  <1> PICK me : me = Asking("delete", "write", a, a, 0, {"deleted"}, {"active"})
    OBVIOUS
  <1>1. /\ me.op = "delete" /\ me.pc = "write" /\ me.by = a /\ me.a = a /\ me.t = 0
        /\ me.up = {"deleted"} /\ me.down = {"active"} /\ me.snap = {} /\ me.missed = {}
        /\ me.late = {} /\ me.shaken = FALSE /\ Whole(me)
    BY DEF Asking, Idle, Whole
  <1>2. "there" \in account[a] /\ "deleted" \notin account[a]
    BY RowFacts DEF DeleteStart, AccountsInv
  <1>3. Typed(me)
    BY <1>1 DEF Typed, Ops, Flags
  <1>4. Fits(account, token, me)
    BY <1>1, <1>2 DEF Fits, AccountFits, TokensFit
  <1>5. QED
    BY <1>1, <1>3, <1>4, BegunStep DEF DeleteStart

LEMMA ChangeBegins ==
    ASSUME AccountsInv, NEW r \in Requests, NEW by \in Accounts, NEW a \in Accounts,
           NEW f \in {"active", "admin"}, ChangeStart(r, by, a, f)
    PROVE  AccountsInv'
  <1>1. PICK up \in {{}, {f}}, down \in {{}, {f}} :
          (up = {} \/ down = {}) /\ Begin(r, Asking("change", "find", by, a, 0, up, down))
    BY DEF ChangeStart
  <1> PICK me : me = Asking("change", "find", by, a, 0, up, down)
    OBVIOUS
  <1>2. /\ me.op = "change" /\ me.pc = "find" /\ me.by = by /\ me.a = a /\ me.t = 0
        /\ me.up = up /\ me.down = down /\ me.snap = {} /\ me.missed = {}
        /\ me.late = {} /\ me.shaken = FALSE /\ Whole(me)
    BY DEF Asking, Idle, Whole
  <1>3. /\ up \in SUBSET Flags /\ down \in SUBSET Flags
        /\ "deleted" \notin up /\ "verified" \notin down
    BY DEF Flags
  <1>4. Typed(me)
    BY <1>2, <1>3 DEF Typed, Ops
  <1>5. Fits(account, token, me)
    BY <1>1, <1>2, <1>3 DEF Fits, AccountFits, TokensFit
  <1>6. QED
    BY <1>1, <1>2, <1>4, <1>5, BegunStep

-----------------------------------------------------------------------------
(* A request that goes on, with nothing of what it knows changed but pc. *)
LEMMA MovedOn ==
    ASSUME AccountsInv, NEW r \in Requests, NEW pc \in {"count", "write"}, Goto(r, pc),
           UNCHANGED <<account, token, born, events>>,
           NEW me, me = [req[r] EXCEPT !.pc = pc], Fits(account, token, me)
    PROVE  AccountsInv'
  <1>1. req[r] \in Request
    BY DEF AccountsInv, AccountsTypeOK
  <1>2. me \in Request
    BY <1>1 DEF Request
  <1>3. req' = [req EXCEPT ![r] = me]
    BY <1>1, RequestFields DEF Goto
  <1>4. QED
    BY <1>2, <1>3, OwnStep DEF AccountsInv, AccountsTypeOK

LEMMA FindStep ==
    ASSUME AccountsInv, NEW r \in Requests, Find(r)
    PROVE  AccountsInv'
  <1> DEFINE q == req[r]
  <1>1. CASE Finish(r)
    BY <1>1, FinishStep DEF Find
  <1>2. CASE ~Finish(r)
    <2> DEFINE pc == IF q.down # {} /\ "admin" \in account[q.a] THEN "count" ELSE "write"
    <2>1. /\ q.pc = "find" /\ account[q.a] # {} /\ "deleted" \notin account[q.a]
          /\ Goto(r, pc) /\ UNCHANGED <<account, token, born, events>>
      BY <1>2 DEF Find, NotFound
    <2>2. q \in Request /\ Fits(account, token, q)
      BY DEF AccountsInv, AccountsTypeOK
    <2> PICK me : me = [q EXCEPT !.pc = pc]
      OBVIOUS
    <2>3. /\ me.op = q.op /\ me.pc = pc /\ me.by = q.by /\ me.a = q.a /\ me.t = q.t
          /\ me.up = q.up /\ me.down = q.down /\ me.snap = q.snap
          /\ me.missed = q.missed /\ me.late = q.late /\ me.shaken = q.shaken
      BY <2>2, RequestFields DEF Fields
    <2>4. q.op = "change" /\ q.a \in Accounts
      BY <2>1, <2>2, RequestFields DEF Fits, AccountFits, Typed
    <2>5. "there" \in account[q.a]
      BY <2>1, <2>4, RowFacts DEF AccountsInv
    <2>6. pc = "write" /\ q.down # {} => AdminsOf(account) # {q.a}
      BY DEF AdminsOf
    <2>7. AccountFits(account, me)
      BY <2>1, <2>2, <2>3, <2>4, <2>5, <2>6 DEF Fits, AccountFits
    <2>8. TokensFit(token, me)
      BY <2>2, <2>3, <2>4 DEF Fits, TokensFit
    <2>9. QED
      BY <2>1, <2>7, <2>8, MovedOn DEF Fits
  <1>3. QED
    BY <1>1, <1>2

(* Two administrators or more are not one. *)
LEMMA NotTheLast ==
    ASSUME AccountsAssumption, ~IsLast, NEW a
    PROVE  Admins # {a}
  <1>1. Admins \subseteq Accounts
    BY DEF Admins, AdminsOf
  <1>2. Cardinality({a}) = 1
    BY FS_Singleton
  <1>3. QED
    BY <1>2 DEF IsLast

LEMMA CountStep ==
    ASSUME AccountsInv, NEW r \in Requests, CountAdmins(r)
    PROVE  AccountsInv'
  <1> DEFINE q == req[r]
  <1>1. CASE Finish(r)
    BY <1>1, FinishStep DEF CountAdmins
  <1>2. CASE ~Finish(r)
    <2>1. /\ q.pc = "count" /\ ~IsLast /\ Goto(r, "write")
          /\ UNCHANGED <<account, token, born, events>>
      BY <1>2 DEF CountAdmins
    <2>2. q \in Request /\ Fits(account, token, q)
      BY DEF AccountsInv, AccountsTypeOK
    <2> PICK me : me = [q EXCEPT !.pc = "write"]
      OBVIOUS
    <2>3. /\ me.op = q.op /\ me.pc = "write" /\ me.by = q.by /\ me.a = q.a /\ me.t = q.t
          /\ me.up = q.up /\ me.down = q.down /\ me.snap = q.snap
          /\ me.missed = q.missed /\ me.late = q.late /\ me.shaken = q.shaken
      BY <2>2, RequestFields DEF Fields
    <2>4. AdminsOf(account) # {q.a}
      BY <2>1, NotTheLast, AccountsAssumption DEF Admins
    <2>5. AccountFits(account, me)
      BY <2>1, <2>2, <2>3, <2>4 DEF Fits, AccountFits
    <2>6. TokensFit(token, me)
      BY <2>1, <2>2, <2>3 DEF Fits, AccountFits, TokensFit
    <2>7. QED
      BY <2>1, <2>5, <2>6, MovedOn DEF Fits
  <1>3. QED
    BY <1>1, <1>2

LEMMA SnapshotStep ==
    ASSUME AccountsInv, NEW r \in Requests, Snapshot(r)
    PROVE  AccountsInv'
  <1> DEFINE q == req[r]
             unused == Unused(q.a)
  <1> PICK me : me = [q EXCEPT !.pc = "create", !.snap = unused]
    OBVIOUS
  <1>1. q.pc = "snapshot" /\ q \in Request /\ Fits(account, token, q)
    BY DEF Snapshot, AccountsInv, AccountsTypeOK
  <1>2. /\ me.op = q.op /\ me.pc = "create" /\ me.by = q.by /\ me.a = q.a /\ me.t = q.t
        /\ me.up = q.up /\ me.down = q.down /\ me.snap = unused
        /\ me.missed = q.missed /\ me.late = q.late /\ me.shaken = q.shaken
    BY <1>1, RequestFields DEF Fields
  <1>3. me \in Request
    BY <1>1 DEF Request, Unused
  <1>4. AccountFits(account, me)
    BY <1>1, <1>2 DEF Fits, AccountFits, TokensFit
  <1>5. TokensFit(token, me)
    BY <1>1, <1>2 DEF Fits, TokensFit, Unused
  <1>6. req' = [req EXCEPT ![r] = me] /\ UNCHANGED <<account, token, born, events>>
    BY <1>1, RequestFields DEF Snapshot
  <1>7. QED
    BY <1>3, <1>4, <1>5, <1>6, OwnStep DEF Fits, AccountsInv, AccountsTypeOK

LEMMA ExpireStep ==
    ASSUME AccountsInv, NEW t \in Tokens, Expire(t)
    PROVE  AccountsInv'
  <1>1. token' \in [Tokens -> Token]
    BY DEF Expire, AccountsInv, AccountsTypeOK, Token
  <1>2. ASSUME NEW s \in Tokens
        PROVE  /\ token'[s].owner = token[s].owner /\ token'[s].beside = token[s].beside
               /\ s # t => token'[s].state = token[s].state
               /\ s = t => token[s].state = "fresh" /\ token'[s].state = "expired"
    BY DEF Expire, AccountsInv, AccountsTypeOK, Token
  <1>3. NoStray(account, token', born) /\ PriorInvalid(token')
    BY <1>2 DEF AccountsInv, NoStray, PriorInvalid
  <1> PICK tokens : tokens = token'
    OBVIOUS
  <1>6. LinksKept(account, tokens)
    <2>1. \A a : Open(tokens, a) = Open(token, a)
      BY <1>2 DEF Open
    <2>2. \A s \in Tokens : tokens[s].state = "used" => token[s].state = "used"
      BY <1>2
    <2>3. QED
      BY <1>2, <2>1, <2>2 DEF AccountsInv, LinksKept
  <1>4. ASSUME NEW q \in Requests
        PROVE  Fits(account, token', req[q])
    <2>1. Fits(account, token, req[q]) /\ req[q].snap \subseteq Tokens
      BY RequestFields DEF AccountsInv, AccountsTypeOK, Typed
    <2>2. QED
      BY <1>2, <2>1 DEF Fits, TokensFit
  <1>5. QED
    BY <1>1, <1>3, <1>4, <1>6 DEF AccountsInv, AccountsTypeOK, Expire

(* Flags are added to a row and taken from it, but never that it is there. *)
LEMMA ChangedRow ==
    ASSUME AccountsTypeOK, NEW me, Typed(me), "there" \in account[me.a]
    PROVE  Changed(me)[me.a] \in Row /\ "there" \in Changed(me)[me.a]
  <1> DEFINE row == account[me.a]
  <1>1. row \in Row /\ Changed(me)[me.a] = (row \cup me.up) \ me.down
    BY DEF Changed, AccountsTypeOK, Typed
  <1>2. me.up \subseteq Flags /\ me.down \subseteq Flags /\ "there" \notin Flags
    BY DEF Typed, Flags
  <1>3. PICK flags \in SUBSET Flags : row = {"there"} \cup flags
    BY <1>1 DEF Row
  <1>4. (row \cup me.up) \ me.down = {"there"} \cup ((flags \cup me.up) \ me.down)
    BY <1>2, <1>3
  <1>5. (flags \cup me.up) \ me.down \in SUBSET Flags
    BY <1>2
  <1>6. QED
    BY <1>1, <1>4, <1>5 DEF Row

LEMMA WriteStep ==
    ASSUME AccountsInv, NEW r \in Requests, WriteById(r)
    PROVE  AccountsInv'
  <1> DEFINE q == req[r]
             accounts == Changed(q)
             tokens == [t \in Tokens |->
                          IF t = q.t THEN [token[t] EXCEPT !.state = "used"] ELSE token[t]]
  <1>1. q.pc = "write" /\ Commit(r, accounts, tokens) /\ UNCHANGED <<born, events>>
    BY DEF WriteById
  <1>2. Typed(q) /\ Fits(account, token, q)
    BY RequestFields DEF AccountsInv, AccountsTypeOK
  <1>3. /\ accounts \in [Accounts -> Row]
        /\ \A a \in Accounts : "there" \in account[a] => "there" \in accounts[a]
    <2>1. q.a \in Accounts /\ "there" \in account[q.a]
      BY <1>1, <1>2 DEF Typed, Fits, AccountFits
    <2>2. account \in [Accounts -> Row]
      BY DEF AccountsInv, AccountsTypeOK
    <2>3. accounts[q.a] \in Row /\ "there" \in accounts[q.a]
      BY <1>2, <2>1, ChangedRow DEF AccountsInv
    <2>4. QED
      BY <2>1, <2>2, <2>3 DEF Changed
  <1>4. tokens \in [Tokens -> Token]
    BY DEF AccountsInv, AccountsTypeOK, Token
  <1>5. ASSUME NEW t \in Tokens
        PROVE  /\ tokens[t].owner = token[t].owner /\ tokens[t].beside = token[t].beside
               /\ tokens[t].state \in {token[t].state, "used"}
               /\ token[t].state = "none" <=> tokens[t].state = "none"
    <2>1. t = q.t => token[t].state # "none"
      BY <1>2 DEF Fits, TokensFit, Tokens
    <2>2. token[t] \in Token
      BY DEF AccountsInv, AccountsTypeOK
    <2>3. QED
      BY <2>1, <2>2 DEF Token
  <1> HIDE DEF tokens, accounts
  <1>6. NoStray(accounts, tokens, born)
    <2>1. \A t \in Tokens : token[t].owner \in Accounts
      BY DEF AccountsInv, AccountsTypeOK, Token
    <2>2. \A a \in Accounts : account[a] # {} => accounts[a] # {}
      BY <1>3, RowFacts DEF AccountsInv
    <2>3. QED
      BY <1>5, <2>1, <2>2 DEF AccountsInv, NoStray
  <1>7. PriorInvalid(tokens)
    BY <1>5 DEF AccountsInv, PriorInvalid
  <1>8. born' \in 0..MaxTokens /\ NoStray(accounts, tokens, born')
    BY <1>1, <1>6 DEF AccountsInv, AccountsTypeOK
  <1>9. \A a \in Accounts : "verified" \in account[a] => "verified" \in accounts[a]
    BY <1>2 DEF accounts, Changed, Fits, AccountFits, AccountsInv, AccountsTypeOK
  <1>10. LinksKept(accounts, tokens)
    <2>1. ASSUME NEW t \in Tokens, tokens[t].state = "used",
                 "verified" \notin accounts[tokens[t].owner]
          PROVE  \E n \in Open(tokens, tokens[t].owner) : n > t
      <3>1. tokens[t].owner = token[t].owner /\ token[t].owner \in Accounts
        BY <1>5 DEF AccountsInv, AccountsTypeOK, Token
      <3>2. \A s \in Tokens : token[s].owner = token[t].owner => s # q.t
        <4>1. ASSUME q.t \in Tokens, token[q.t].owner = token[t].owner
              PROVE  FALSE
          <5>1. q.op = "verify" /\ q.a = token[t].owner /\ q.up = {"verified"} /\ q.down = {}
            BY <1>2, <4>1 DEF Fits, TokensFit, AccountFits, Tokens
          <5>2. "verified" \in accounts[token[t].owner]
            BY <3>1, <5>1 DEF accounts, Changed, AccountsInv, AccountsTypeOK
          <5>3. QED
            BY <2>1, <3>1, <5>2
        <4>2. QED
          BY <4>1
      <3>3. \A s \in Tokens : token[s].owner = token[t].owner =>
               tokens[s].state = token[s].state /\ tokens[s].owner = token[s].owner
        BY <3>2 DEF tokens
      <3>4. Open(tokens, token[t].owner) = Open(token, token[t].owner)
        BY <1>5, <3>3 DEF Open
      <3>5. "verified" \notin account[token[t].owner] /\ token[t].state = "used"
        BY <1>9, <2>1, <3>1, <3>3
      <3>6. QED
        BY <3>1, <3>4, <3>5 DEF AccountsInv, LinksKept
    <2>2. QED
      BY <2>1 DEF LinksKept
  <1>11. QED
    BY <1>1, <1>3, <1>4, <1>5, <1>7, <1>8, <1>10, CommitStep

LEMMA CreateStep ==
    ASSUME AccountsInv, NEW r \in Requests, Create(r)
    PROVE  AccountsInv'
  <1> DEFINE q == req[r]
             accounts == [account EXCEPT ![q.a] =
                            IF q.op = "register" THEN {"there", "active"} ELSE @]
             tokens == Sent(r, q.a, q.snap)
  <1>1. CASE Finish(r) /\ UNCHANGED <<account, token, born>>
    BY <1>1, FinishStep DEF Create
  <1>2. CASE ~(Finish(r) /\ UNCHANGED <<account, token, born>>)
    <2>1. /\ q.pc = "create" /\ born < MaxTokens /\ born' = born + 1
          /\ Commit(r, accounts, tokens) /\ UNCHANGED events
          /\ q.op = "register" => account[q.a] = {}
      BY <1>2 DEF Create
    <2>2. Typed(q) /\ Fits(account, token, q)
      BY RequestFields DEF AccountsInv, AccountsTypeOK
    <2>3. /\ q.a \in Accounts /\ q.snap \subseteq Tokens /\ q.late \subseteq Tokens
          /\ born + 1 \in Tokens /\ born \in Nat /\ born' \in 0..MaxTokens
          /\ q.op \in {"register", "resend"}
      BY <2>1, <2>2, AccountsAssumption
         DEF Typed, Fits, TokensFit, AccountsInv, AccountsTypeOK, Tokens
    <2>4. /\ accounts \in [Accounts -> Row]
          /\ \A a \in Accounts : "there" \in account[a] => "there" \in accounts[a]
          /\ \A a \in Accounts : account[a] # {} => accounts[a] # {}
          /\ accounts[q.a] # {}
          /\ \A a \in Accounts : "verified" \in account[a] => "verified" \in accounts[a]
      <3>1. account \in [Accounts -> Row]
        BY DEF AccountsInv, AccountsTypeOK
      <3>2. {"there", "active"} \in Row
        <4>1. {"active"} \in SUBSET Flags /\ {"there", "active"} = {"there"} \cup {"active"}
          BY DEF Flags
        <4>2. QED
          BY <4>1 DEF Row
      <3>3. q.op = "resend" => "there" \in account[q.a]
        BY <2>2 DEF Fits, AccountFits
      <3>4. QED
        BY <2>1, <2>3, <3>1, <3>2, <3>3
    <2>5. tokens \in [Tokens -> Token]
      BY <2>3 DEF Sent, AccountsInv, AccountsTypeOK, Token
    <2>6. tokens[born + 1] = [owner |-> q.a, state |-> "fresh", beside |-> q.late]
      BY <2>3 DEF Sent
    <2>7. ASSUME NEW t \in Tokens, t # born + 1
          PROVE  /\ tokens[t].owner = token[t].owner /\ tokens[t].beside = token[t].beside
                 /\ tokens[t].state = IF t \in q.snap THEN "used" ELSE token[t].state
      <3>1. token[t] \in Token
        BY DEF AccountsInv, AccountsTypeOK
      <3>2. QED
        BY <2>7, <3>1 DEF Sent, Token
    <2>8. \A t \in q.snap : token[t].state # "none"
      BY <2>2 DEF Fits, TokensFit
    <2>9. \A t \in Tokens : token[t].owner \in Accounts
      BY DEF AccountsInv, AccountsTypeOK, Token
    <2>10. \A t \in Tokens : token[t].state # "none" =>
              account[token[t].owner] # {} /\ t <= born /\ t # born + 1
      BY <2>3 DEF AccountsInv, NoStray, Tokens
    <2> HIDE DEF tokens, accounts
    <2>11. NoStray(accounts, tokens, born')
      <3>1. ASSUME NEW t \in Tokens, tokens[t].state # "none"
            PROVE  accounts[tokens[t].owner] # {} /\ t <= born + 1
        <4>1. CASE t = born + 1
          BY <2>3, <2>4, <2>6, <4>1
        <4>2. CASE t # born + 1
          <5>1. token[t].state # "none" /\ tokens[t].owner = token[t].owner
            BY <2>7, <2>8, <3>1, <4>2
          <5>2. account[token[t].owner] # {} /\ t <= born
            BY <2>10, <5>1
          <5>3. QED
            BY <2>3, <2>4, <2>9, <5>1, <5>2 DEF Tokens
        <4>3. QED
          BY <4>1, <4>2
      <3>2. QED
        BY <2>1, <3>1 DEF NoStray
    <2>12. PriorInvalid(tokens)
      <3>1. ASSUME NEW s \in Tokens, NEW t \in Tokens, s < t,
                   tokens[s].owner = tokens[t].owner,
                   tokens[s].state = "fresh", tokens[t].state = "fresh"
            PROVE  s \in tokens[t].beside
        <4>1. CASE t = born + 1
          <5>1. s # born + 1
            BY <3>1, <4>1 DEF Tokens
          <5>2. s \notin q.snap /\ token[s].state = "fresh" /\ token[s].owner = q.a
            BY <2>6, <2>7, <3>1, <4>1, <5>1
          <5>3. q.op = "resend"
            BY <2>1, <2>3, <2>10, <5>2
          <5>4. s \in q.late
            BY <2>1, <2>2, <5>2, <5>3 DEF Fits, TokensFit
          <5>5. QED
            BY <2>6, <4>1, <5>4
        <4>2. CASE t # born + 1
          <5>1. token[t].state = "fresh"
            BY <2>7, <3>1, <4>2
          <5>2. s # born + 1
            BY <2>3, <2>10, <3>1, <5>1 DEF Tokens
          <5>3. token[s].state = "fresh" /\ token[s].owner = token[t].owner
            BY <2>7, <3>1, <4>2, <5>2
          <5>4. QED
            BY <2>7, <3>1, <4>2, <5>1, <5>3 DEF AccountsInv, PriorInvalid
        <4>3. QED
          BY <4>1, <4>2
      <3>2. QED
        BY <3>1 DEF PriorInvalid
    <2>13. \A t \in Tokens : token[t].state # "none" =>
              tokens[t].state # "none" /\ tokens[t].owner = token[t].owner
      BY <2>7, <2>10
    <2>14. LinksKept(accounts, tokens)
      <3>1. ASSUME NEW t \in Tokens, tokens[t].state = "used",
                   "verified" \notin accounts[tokens[t].owner]
            PROVE  \E n \in Open(tokens, tokens[t].owner) : n > t
        <4>1. t # born + 1
          BY <2>6, <3>1
        <4>2. tokens[t].owner = token[t].owner /\ token[t].state # "none"
          BY <2>7, <2>8, <3>1, <4>1
        <4>3. t <= born /\ token[t].owner \in Accounts
          BY <2>9, <2>10, <4>2
        <4>4. CASE token[t].owner = q.a
          <5>1. born + 1 \in Open(tokens, q.a)
            BY <2>3, <2>6 DEF Open
          <5>2. born + 1 > t
            BY <2>3, <4>3 DEF Tokens
          <5>3. QED
            BY <4>2, <4>4, <5>1, <5>2
        <4>5. CASE token[t].owner # q.a
          <5>1. token[t].state = "used" /\ "verified" \notin account[token[t].owner]
            BY <2>2, <2>4, <2>7, <3>1, <4>1, <4>2, <4>3, <4>5 DEF Fits, TokensFit
          <5>2. PICK n \in Open(token, token[t].owner) : n > t
            BY <5>1 DEF AccountsInv, LinksKept
          <5>3. n \in Tokens /\ n # born + 1 /\ n \notin q.snap
            BY <2>2, <2>10, <4>5, <5>2 DEF Open, Fits, TokensFit
          <5>4. n \in Open(tokens, tokens[t].owner)
            BY <2>7, <4>2, <5>2, <5>3 DEF Open
          <5>5. QED
            BY <5>2, <5>4
        <4>6. QED
          BY <4>4, <4>5
      <3>2. QED
        BY <3>1 DEF LinksKept
    <2>15. QED
      BY <2>1, <2>3, <2>4, <2>5, <2>11, <2>12, <2>13, <2>14, CommitStep
  <1>3. QED
    BY <1>1, <1>2

LEMMA AccountsInvNext ==
    ASSUME AccountsInv, [AccountsNext]_accountsVars
    PROVE  AccountsInv'
  <1>1. ASSUME NEW r \in Requests, Start(r)
        PROVE  AccountsInv'
    BY <1>1, RegisterBegins, ResendBegins, DeleteBegins, VerifyBegins, ChangeBegins DEF Start
  <1>2. ASSUME NEW r \in Requests, Step(r) \/ Fail(r)
        PROVE  AccountsInv'
    BY <1>2, FindStep, CountStep, WriteStep, SnapshotStep, CreateStep, FinishStep
       DEF Step, Fail
  <1>3. CASE UNCHANGED accountsVars
    BY <1>3 DEF accountsVars, AccountsInv, AccountsTypeOK
  <1>4. QED
    BY <1>1, <1>2, <1>3, ExpireStep DEF AccountsNext

LEMMA AccountsInvAlways == AccountsSpec => []AccountsInv
  BY Initially, AccountsInvNext, PTL DEF AccountsSpec

-----------------------------------------------------------------------------
(* Every variable keeps its type, and what is not there has no flags: an     *)
(* administrator changes only accounts that exist (updateUserStatus,         *)
(* updateUserRole).                                                          *)
THEOREM TypeCorrect == AccountsSpec => []AccountsTypeOK
  <1>1. AccountsInv => AccountsTypeOK
    BY DEF AccountsInv
  <1>2. QED
    BY <1>1, AccountsInvAlways, PTL

(* resendVerification invalidates every token that was there when it began.  *)
THEOREM PriorTokensAreInvalid == AccountsSpec => []PriorTokensInvalid
  <1>1. AccountsInv => PriorTokensInvalid
    BY DEF AccountsInv, PriorInvalid, PriorTokensInvalid
  <1>2. QED
    BY <1>1, AccountsInvAlways, PTL

(* verifyEmail and resendVerification, overlapping or failing as they may,   *)
(* use no link up for nothing.                                               *)
THEOREM LinksAreKept == AccountsSpec => []NoLinkLost
  <1>1. AccountsInv => NoLinkLost
    BY DEF AccountsInv, LinksKept, Open, Unused, NoLinkLost
  <1>2. QED
    BY <1>1, AccountsInvAlways, PTL

(* Only WriteById changes an account that is there. *)
LEMMA WritersOnly ==
    ASSUME AccountsInv, [AccountsNext]_accountsVars, NEW a \in Accounts, account'[a] # account[a]
    PROVE  \E r \in Requests :
             /\ req'[r] = Idle
             /\ \/ WriteById(r) /\ a = req[r].a /\ account' = Changed(req[r])
                \/ account[a] = {} /\ a = req[r].a
  <1>1. PICK r \in Requests : Start(r) \/ Step(r) \/ Fail(r)
    BY DEF AccountsNext, accountsVars, Expire
  <1>2. Start(r) => UNCHANGED account
    BY Zenon DEF Start, RegisterStart, ResendStart, DeleteStart, VerifyStart, ChangeStart, Begin
  <1>3. WriteById(r) \/ Create(r)
    BY <1>1, <1>2 DEF Step, Fail, Find, CountAdmins, Snapshot
  <1>4. CASE WriteById(r)
    BY <1>4 DEF WriteById, Commit, Changed, AccountsInv, AccountsTypeOK
  <1>5. CASE Create(r)
    BY <1>5 DEF Create, Commit, AccountsInv, AccountsTypeOK
  <1>6. QED
    BY <1>3, <1>4, <1>5

LEMMA AdminsKeptStep ==
    ASSUME AccountsInv, [AccountsNext]_accountsVars, Admins # {}, Admins' = {}
    PROVE  \E r \in Requests :
             req'[r] = Idle /\ (req[r].op = "delete" \/ req[r].shaken)
  <1>1. PICK a \in Admins : TRUE
    OBVIOUS
  <1>2. a \in Accounts /\ account'[a] # account[a] /\ account[a] # {}
    BY <1>1 DEF Admins, AdminsOf
  <1>3. PICK r \in Requests :
          req'[r] = Idle /\ WriteById(r) /\ a = req[r].a /\ account' = Changed(req[r])
    BY <1>2, WritersOnly
  <1> DEFINE q == req[r]
  <1>4. q.pc = "write" /\ AccountFits(account, q) /\ account \in [Accounts -> Row]
    BY <1>3 DEF WriteById, AccountsInv, AccountsTypeOK, Fits
  <1>5. account'[a] = (account[a] \cup q.up) \ q.down
        /\ \A b \in Accounts \ {a} : account'[b] = account[b]
    BY <1>2, <1>3, <1>4 DEF Changed
  <1>6. CASE q.op = "verify"
    <2>1. account'[a] = account[a] \cup {"verified"}
      BY <1>4, <1>5, <1>6 DEF AccountFits
    <2>2. a \in Admins'
      BY <1>1, <1>2, <2>1 DEF Admins, AdminsOf
    <2>3. QED
      BY <2>2
  <1>7. CASE q.op = "change" /\ ~q.shaken
    <2>1. q.down # {}
      <3>1. q.down = {} => a \in Admins'
        BY <1>1, <1>2, <1>4, <1>5, <1>7 DEF Admins, AdminsOf, AccountFits
      <3>2. QED
        BY <3>1
    <2>2. Admins # {a}
      BY <1>3, <1>4, <1>7, <2>1 DEF AccountFits, Admins
    <2>3. PICK b \in Admins : b # a
      BY <1>1, <2>2
    <2>4. b \in Admins'
      BY <1>5, <2>3 DEF Admins, AdminsOf
    <2>5. QED
      BY <2>4
  <1>8. QED
    BY <1>3, <1>4, <1>6, <1>7 DEF AccountFits

(* updateUserStatus and updateUserRole leave an administrator, unless the    *)
(* administrators changed while they ran.                                    *)
THEOREM AdminsAreKept == AccountsSpec => AdminsKept
  <1>1. AccountsInv /\ [AccountsNext]_accountsVars => [Admins # {} /\ Admins' = {} =>
          \E r \in Requests :
            /\ req'[r] = Idle
            /\ req[r].op = "delete" \/ req[r].shaken]_accountsVars
    BY AdminsKeptStep
  <1>2. QED
    BY <1>1, AccountsInvAlways, PTL DEF AccountsSpec, AdminsKept

LEMMA DeletedStep ==
    ASSUME AccountsInv, [AccountsNext]_accountsVars, NEW a \in Accounts,
           "deleted" \in account[a], account'[a] # account[a]
    PROVE  \E r \in Requests : req'[r] = Idle /\ a \in req[r].missed
  <1>1. PICK r \in Requests : req'[r] = Idle /\ WriteById(r) /\ a = req[r].a
    BY WritersOnly
  <1>2. AccountFits(account, req[r]) /\ req[r].pc = "write"
    BY <1>1 DEF WriteById, AccountsInv, Fits
  <1>3. QED
    BY <1>1, <1>2 DEF AccountFits

(* Nothing is written to an account after softDeleteAccount but by requests  *)
(* that read it before.                                                      *)
THEOREM DeletionIsFinal == AccountsSpec => DeletedIsFinal
  <1>1. AccountsInv /\ [AccountsNext]_accountsVars =>
          [\A a \in Accounts : "deleted" \in account[a] /\ account'[a] # account[a] =>
             \E r \in Requests : req'[r] = Idle /\ a \in req[r].missed]_accountsVars
    BY DeletedStep
  <1>2. QED
    BY <1>1, AccountsInvAlways, PTL DEF AccountsSpec, DeletedIsFinal

=============================================================================
