------------------------------ MODULE Accounts ------------------------------
(***************************************************************************)
(* The accounts of the system (table users) and their e-mail verification  *)
(* tokens, with registration, verification, the resending of tokens, the   *)
(* deletion of an account by its owner, and the administrators, who change *)
(* the status and the role of accounts, their own and each other's.        *)
(*                                                                         *)
(* A request acts on rows it read some statements earlier.  A transaction  *)
(* is one action, its last statement, where nothing in it can be refused   *)
(* or overtaken; the updateMany of a resend is two, because what it writes *)
(* is in the snapshot it took when it began.                               *)
(*                                                                         *)
(* An account goes by its e-mail address; it is the set of its flags, and  *)
(* empty before it is registered.  Sessions of accounts are in Sessions,   *)
(* their first subscription in Subscriptions.                              *)
(***************************************************************************)
EXTENDS Naturals, FiniteSets

CONSTANTS
    Accounts,    \* the e-mail addresses
    Root,        \* the administrator of seed.ts
    Registered,  \* bound: the other accounts there are to begin with
    Requests,    \* the HTTP requests that can be in flight at once
    MaxTokens,   \* bound: verification tokens ever made
    MaxEvents    \* bound: requests started

ASSUME AccountsAssumption ==
    /\ IsFiniteSet(Accounts)
    /\ Registered \subseteq Accounts /\ Root \in Accounts \ Registered
    /\ MaxTokens \in Nat /\ MaxEvents \in Nat

VARIABLES
    account,  \* the table users
    token,    \* the table email_verification_tokens
    born,     \* tokens made so far
    req,      \* what each request is doing and what it remembers
    events    \* the requests counted against MaxEvents

accountsVars == <<account, token, born, req, events>>

-----------------------------------------------------------------------------
Tokens == 1..MaxTokens

(* active is isActive, admin the role ADMIN, verified isEmailVerified,     *)
(* deleted says that deletedAt is not null.                                *)
Flags == {"active", "admin", "verified", "deleted"}
Row == {{}} \cup {{"there"} \cup flags : flags \in SUBSET Flags}

(* used: usedAt is not null.  beside is history: the tokens that others    *)
(* wrote while the request that made this one was running.                 *)
Token == [owner : Accounts, state : {"none", "fresh", "expired", "used"},
          beside : SUBSET Tokens]

Ops == {"none", "register", "verify", "resend", "change", "delete"}

Request == [op : Ops, pc : {"idle", "find", "count", "snapshot", "create", "write"},
            by : Accounts,               \* who asks for it
            a : Accounts,                \* the account it is about
            t : Tokens \cup {0},         \* the token it verifies with
            up : SUBSET Flags, down : SUBSET Flags,   \* the flags it changes
            snap : SUBSET Tokens,        \* the tokens its transaction invalidates
            missed : SUBSET Accounts,    \* the accounts and the tokens that others
            late : SUBSET Tokens,        \* wrote since it began, and whether there
            shaken : BOOLEAN]            \* were other administrators meanwhile

(* missed, late and shaken are history: the code keeps no such thing. *)
Idle == [op |-> "none", pc |-> "idle", by |-> Root, a |-> Root, t |-> 0, up |-> {},
         down |-> {}, snap |-> {}, missed |-> {}, late |-> {},
         shaken |-> FALSE]

AccountsTypeOK ==
    /\ account \in [Accounts -> Row]
    /\ token \in [Tokens -> Token]
    /\ born \in 0..MaxTokens
    /\ req \in [Requests -> Request]
    /\ events \in Nat

(* After the seed, some registrations and perhaps promotions. *)
AccountsInit ==
    /\ \E promoted \in SUBSET Registered :
         account = [a \in Accounts |->
                      CASE a = Root -> {"there", "active", "admin", "verified"}
                        [] a \in Registered ->
                             {"there", "active"} \cup {f \in {"admin"} : a \in promoted}
                        [] OTHER -> {}]
    /\ token = [t \in Tokens |-> [owner |-> Root, state |-> "none", beside |-> {}]]
    /\ born = 0
    /\ req = [r \in Requests |-> Idle]
    /\ events = 0

AdminsOf(accounts) ==
    {a \in Accounts : {"active", "admin"} \subseteq accounts[a] /\ "deleted" \notin accounts[a]}

Admins == AdminsOf(account)

Finish(r) == req' = [req EXCEPT ![r] = Idle]

Goto(r, pc) == req' = [req EXCEPT ![r].pc = pc]

(* What a request in flight misses when the tables become new. *)
Missing(q, accounts, tokens) ==
    IF q.op = "none" THEN q ELSE
    [q EXCEPT !.missed = @ \cup {a \in Accounts : accounts[a] # account[a]},
              !.late = @ \cup {t \in Tokens : tokens[t] # token[t]},
              !.shaken = @ \/ AdminsOf(accounts) # Admins]

Commit(r, accounts, tokens) ==
    /\ account' = accounts /\ token' = tokens
    /\ req' = [q \in Requests |->
                 IF q = r THEN Idle ELSE Missing(req[q], accounts, tokens)]

(* A token sent to a, which invalidates those of invalid. *)
Sent(r, a, invalid) ==
    [t \in Tokens |->
       IF t = born + 1 THEN [owner |-> a, state |-> "fresh", beside |-> req[r].late]
       ELSE IF t \in invalid THEN [token[t] EXCEPT !.state = "used"]
       ELSE token[t]]

-----------------------------------------------------------------------------
(* Requests begin with what they read first and the checks they make on it. *)
Begin(r, me) ==
    /\ req[r].pc = "idle"
    /\ events < MaxEvents /\ events' = events + 1
    /\ req' = [req EXCEPT ![r] = me]
    /\ UNCHANGED <<account, token, born>>

Asking(op, pc, by, a, t, up, down) ==
    [Idle EXCEPT !.op = op, !.pc = pc, !.by = by, !.a = a, !.t = t, !.up = up, !.down = down]

RegisterStart(r, a) ==
    /\ account[a] = {}
    /\ Begin(r, Asking("register", "create", a, a, 0, {}, {}))

ValidToken(t) == token[t].state = "fresh"

VerifyStart(r, t) ==
    /\ ValidToken(t) /\ "deleted" \notin account[token[t].owner]
    /\ Begin(r, Asking("verify", "write", token[t].owner, token[t].owner, t, {"verified"}, {}))

ResendStart(r, a) ==
    /\ "active" \in account[a] /\ account[a] \cap {"deleted", "verified"} = {}
    /\ Begin(r, Asking("resend", "snapshot", a, a, 0, {}, {}))

DeleteStart(r, a) ==
    /\ "active" \in account[a] /\ "deleted" \notin account[a]
    /\ Begin(r, Asking("delete", "write", a, a, 0, {"deleted"}, {"active"}))

(* JwtStrategy and RolesGuard have let an administrator in, to grant or    *)
(* withdraw the flag f: updateUserStatus and updateUserRole.               *)
ChangeStart(r, by, a, f) ==
    /\ by \in Admins
    /\ \/ Begin(r, Asking("change", "find", by, a, 0, {f}, {}))
       \/ Begin(r, Asking("change", "find", by, a, 0, {}, {f}))

-----------------------------------------------------------------------------
(* Mutant: whether it is deleted is not asked. *)
NotFoundAbsent(row) == row = {}

NotFound(row) == row = {} \/ "deleted" \in row

(* A role that is there already ends the request. *)
Find(r) ==
    LET q == req[r] row == account[q.a]
    IN  /\ q.pc = "find"
        /\ IF \/ NotFound(row)
              \/ (q.up = {"admin"} /\ "admin" \in row)
              \/ (q.down = {"admin"} /\ "admin" \notin row)
             THEN Finish(r)
             ELSE Goto(r, IF q.down # {} /\ "admin" \in row THEN "count" ELSE "write")
        /\ UNCHANGED <<account, token, born, events>>

(* Mutant: one administrator is enough. *)
IsLastOne == Cardinality(Admins) < 1

IsLast == Cardinality(Admins) <= 1

(* The last active administrator stays, and none demotes himself. *)
CountAdmins(r) ==
    LET q == req[r]
    IN  /\ q.pc = "count"
        /\ IF IsLast \/ (q.down = {"admin"} /\ q.by = q.a)
             THEN Finish(r) ELSE Goto(r, "write")
        /\ UNCHANGED <<account, token, born, events>>

Changed(q) == [account EXCEPT ![q.a] = (@ \cup q.up) \ q.down]

(* The update by id, and of the token that is verified with. *)
WriteById(r) ==
    LET q == req[r]
    IN  /\ q.pc = "write"
        /\ Commit(r, Changed(q), [t \in Tokens |->
                    IF t = q.t THEN [token[t] EXCEPT !.state = "used"] ELSE token[t]])
        /\ UNCHANGED <<born, events>>

(* Mutant: only the tokens that have expired are invalidated. *)
UnusedExpired(a) == {t \in Tokens : token[t].owner = a /\ token[t].state = "expired"}

(* The tokens of an account with usedAt null. *)
Unused(a) ==
    {t \in Tokens : token[t].owner = a /\ token[t].state \in {"fresh", "expired"}}

(* Mutant: the updateMany is committed before the new token is. *)
SnapshotAtOnce(r) ==
    LET used == Unused(req[r].a)
    IN  /\ req[r].pc = "snapshot"
        /\ token' = [t \in Tokens |->
                       IF t \in used THEN [token[t] EXCEPT !.state = "used"] ELSE token[t]]
        /\ req' = [req EXCEPT ![r].pc = "create"]
        /\ UNCHANGED <<account, born, events>>

Snapshot(r) ==
    /\ req[r].pc = "snapshot"
    /\ req' = [req EXCEPT ![r].pc = "create", ![r].snap = Unused(req[r].a)]
    /\ UNCHANGED <<account, token, born, events>>

(* A new account or a resend, with a token whose mail may arrive at any    *)
(* time or never.  An address that is taken by now is refused (P2002).     *)
Create(r) ==
    LET q == req[r]
    IN  /\ q.pc = "create"
        /\ born < MaxTokens
        /\ IF q.op = "register" /\ account[q.a] # {}
             THEN Finish(r) /\ UNCHANGED <<account, token, born>>
             ELSE /\ Commit(r, [account EXCEPT ![q.a] =
                                  IF q.op = "register" THEN {"there", "active"} ELSE @],
                               Sent(r, q.a, q.snap))
                  /\ born' = born + 1
        /\ UNCHANGED events

(* A statement fails or the server dies. *)
Fail(r) ==
    /\ req[r].pc # "idle"
    /\ Finish(r)
    /\ UNCHANGED <<account, token, born, events>>

Expire(t) ==
    /\ token[t].state = "fresh"
    /\ token' = [token EXCEPT ![t].state = "expired"]
    /\ UNCHANGED <<account, born, req, events>>

-----------------------------------------------------------------------------
Start(r) ==
    \/ \E a \in Accounts : RegisterStart(r, a) \/ ResendStart(r, a) \/ DeleteStart(r, a)
    \/ \E t \in Tokens : VerifyStart(r, t)
    \/ \E by, a \in Accounts, f \in {"active", "admin"} : ChangeStart(r, by, a, f)

Step(r) == Find(r) \/ CountAdmins(r) \/ WriteById(r) \/ Snapshot(r) \/ Create(r)

AccountsNext ==
    \/ \E r \in Requests : Start(r) \/ Step(r) \/ Fail(r)
    \/ \E t \in Tokens : Expire(t)

AccountsSpec == AccountsInit /\ [][AccountsNext]_accountsVars

-----------------------------------------------------------------------------
(* Properties. *)

(* admin.controller.ts:95 and :115, "Cannot deactivate (demote) the last   *)
(* active administrator".  The administrators are counted before the       *)
(* write: nobody is left only if the last one deletes his own account, or  *)
(* if the administrators changed while the request ran.                    *)
AdminsKept ==
    [][Admins # {} /\ Admins' = {} =>
         \E r \in Requests :
            /\ req'[r] = Idle
            /\ req[r].op = "delete" \/ req[r].shaken]_accountsVars

(* A deleted account is written again only by a request that read it       *)
(* before: its deletion is final, and it is not activated, promoted or     *)
(* verified by anyone who could know.                                      *)
DeletedIsFinal ==
    [][\A a \in Accounts : "deleted" \in account[a] /\ account'[a] # account[a] =>
         \E r \in Requests : req'[r] = Idle /\ a \in req[r].missed]_accountsVars

(* auth.service.ts:443, "Generates and dispatches a new verification       *)
(* token, invalidating prior tokens": of two tokens of an account that can *)
(* be used, the older one was made while the newer one's request ran.      *)
PriorTokensInvalid ==
    \A s, t \in Tokens :
      (/\ s < t /\ token[s].owner = token[t].owner
       /\ token[s].state = "fresh" /\ token[t].state = "fresh") => s \in token[t].beside

(* auth.service.ts:427 and :474: verifyEmail and resendVerification use    *)
(* links up in transactions.  Whatever overlaps, fails or dies, no link is *)
(* used up for nothing: its account is verified, or has a newer link that  *)
(* is not used.                                                            *)
NoLinkLost ==
    \A t \in Tokens : token[t].state = "used" =>
      \/ "verified" \in account[token[t].owner]
      \/ \E n \in Unused(token[t].owner) : n > t

(* schema.prisma:109, "A token is single-use: once usedAt is set, it       *)
(* cannot be reused": an account is verified with a token whose usedAt is  *)
(* null.                                                                   *)
TokenSingleUse ==
    [][\A r \in Requests :
         (/\ req[r].op = "verify" /\ req'[r] = Idle
          /\ account'[req[r].a] # account[req[r].a]) =>
            token[req[r].t].state # "used"]_accountsVars

=============================================================================
