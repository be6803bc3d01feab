------------------------------ MODULE Sessions ------------------------------
(***************************************************************************)
(* The refresh-token sessions of one account: login, refresh with token    *)
(* rotation, logout, and the account operations that revoke sessions       *)
(* (changePassword, softDeleteAccount, updateUserStatus), run by           *)
(* concurrent HTTP requests.                                               *)
(*                                                                         *)
(* Postgres runs at READ COMMITTED, which is what this module is about.    *)
(* updateMany({userId, revokedAt: null}) first takes a snapshot of the     *)
(* matching rows (Snapshot), then waits for the row locks others hold on   *)
(* them, re-evaluates its condition and writes (Sweep).  A row that a      *)
(* transaction in progress is going to insert is in no snapshot.  What a   *)
(* transaction wrote is seen by others when it commits, so its writes are  *)
(* in its last step, and before it the rows it has locked are those its    *)
(* program counter says.                                                   *)
(*                                                                         *)
(* A password is the number of the change that set it.  Access tokens are  *)
(* left out: they only admit a request to the operations below.            *)
(***************************************************************************)
EXTENDS Naturals, Sequences, FiniteSets

CONSTANTS
    Requests,      \* the HTTP requests that can be in flight at once
    MaxSessions,   \* bound: rows of table sessions
    MaxEvents      \* bound: account operations, logouts, failures, expiries

ASSUME BoundsAssumption == MaxSessions \in Nat /\ MaxEvents \in Nat

VARIABLES
    account,   \* the row of table users
    sessions,  \* the account's rows of table sessions, oldest first
    req,       \* what each request is doing and what it remembers
    events     \* the operations counted against MaxEvents

vars == <<account, sessions, req, events>>

-----------------------------------------------------------------------------
Account == [pwd : Nat, active : BOOLEAN, deleted : BOOLEAN]

(* parent and family are not columns: the session whose rotation created   *)
(* this one (0 for a login) and the login it descends from.  pwd is the    *)
(* password that login was let in by, raced is explained at Born.          *)
Session == [live : BOOLEAN, expired : BOOLEAN, family : Nat, parent : Nat,
            pwd : Nat, raced : BOOLEAN]

Ops == {"none", "login", "refresh", "logout", "password", "delete", "disable", "enable"}

(* Transactions that update the users row before they revoke sessions. *)
AccountOps == {"password", "delete", "disable"}

Pcs == {"idle", "create", "claim", "insert", "snapshot", "sweep", "enable"}

Request == [op : Ops, pc : Pcs,
            id : Nat,            \* the session presented, 0 for none
            pwd : Nat,           \* the password that was verified
            snap : SUBSET (Nat \ {0})]   \* the sessions updateMany is to write

Idle == [op |-> "none", pc |-> "idle", id |-> 0, pwd |-> 0, snap |-> {}]

TypeOK ==
    /\ account \in Account
    /\ sessions \in Seq(Session)
    /\ req \in [Requests -> Request]
    /\ events \in Nat

Init ==
    /\ account = [pwd |-> 0, active |-> TRUE, deleted |-> FALSE]
    /\ sessions = <<>>
    /\ req = [r \in Requests |-> Idle]
    /\ events = 0

Spend == events < MaxEvents /\ events' = events + 1

Finish(r) == req' = [req EXCEPT ![r] = Idle]

Goto(r, pc) == req' = [req EXCEPT ![r].pc = pc]

Revoking(r) == req[r].pc = "sweep" /\ req[r].op \in AccountOps

UserLocked == \E r \in Requests : Revoking(r)

(* Row locks, 0 being the users row: between two statements a rotation     *)
(* holds its session and an account operation the user ...                 *)
Held(r) ==
    CASE req[r].pc = "insert" -> {req[r].id}
      [] Revoking(r)          -> {0}
      [] OTHER                -> {}

(* Mutant: the rotation locks the users row before it commits. *)
WantedByRotation(r) ==
    CASE req[r].pc = "claim"                                  -> {req[r].id}
      [] req[r].pc = "snapshot" /\ req[r].op \in AccountOps   -> {0}
      [] req[r].pc = "sweep"                                  -> req[r].snap
      [] req[r].pc \in {"enable", "insert"}                   -> {0}
      [] OTHER                                                -> {}

(* ... and the rows the next statement of a request writes. *)
Wanted(r) ==
    CASE req[r].pc = "claim"                                  -> {req[r].id}
      [] req[r].pc = "snapshot" /\ req[r].op \in AccountOps   -> {0}
      [] req[r].pc = "sweep"                                  -> req[r].snap
      [] req[r].pc = "enable"                                 -> {0}
      [] OTHER                                                -> {}

WaitsFor(r, q) == q # r /\ Held(q) \cap Wanted(r) # {}

Waits(r) == \E q \in Requests : WaitsFor(r, q)

Live == {i \in DOMAIN sessions : sessions[i].live}

(* A new row.  It is raced when it comes too late for a revocation that    *)
(* should have caught it: its request read the account before an account   *)
(* operation committed, or commits while one is revoking.  A descendant of *)
(* a raced session is raced.                                               *)
Born(family, parent, pwd, raced) ==
    [live |-> TRUE, expired |-> FALSE, family |-> family, parent |-> parent, pwd |-> pwd,
     raced |-> raced \/ UserLocked \/ pwd # account.pwd \/ ~account.active \/ account.deleted]

-----------------------------------------------------------------------------
(* login: the account is read and checked, with the current password ...   *)
LoginFind(r) ==
    /\ req[r].pc = "idle"
    /\ account.active /\ ~account.deleted
    /\ req' = [req EXCEPT ![r] = [Idle EXCEPT !.op = "login", !.pc = "create",
                                              !.pwd = account.pwd]]
    /\ UNCHANGED <<account, sessions, events>>

(* ... and the session is created later, whatever happened meanwhile. *)
LoginCreate(r) ==
    /\ req[r].pc = "create"
    /\ Len(sessions) < MaxSessions
    /\ sessions' = Append(sessions, Born(Len(sessions) + 1, 0, req[r].pwd, FALSE))
    /\ Finish(r)
    /\ UNCHANGED <<account, events>>

-----------------------------------------------------------------------------
(* refresh with the token of session i: a rotated or revoked one revokes   *)
(* everything; an expired one, or a closed account, is refused.            *)
AfterRefreshFind(i) ==
    IF ~sessions[i].live THEN "snapshot" ELSE "claim"

RefreshFind(r, i) ==
    /\ req[r].pc = "idle"
    /\ sessions[i].live => ~sessions[i].expired /\ account.active /\ ~account.deleted
    /\ req' = [req EXCEPT ![r] = [Idle EXCEPT !.op = "refresh", !.id = i,
                                              !.pc = AfterRefreshFind(i)]]
    /\ UNCHANGED <<account, sessions, events>>

(* Mutant: update by id alone, whether the session is live or not. *)
RotateClaimAny(r) ==
    /\ req[r].pc = "claim"
    /\ ~Waits(r)
    /\ Goto(r, "insert")
    /\ UNCHANGED <<account, sessions, events>>

(* The rotation begins: updateMany({id, revokedAt: null}) waits for the    *)
(* row, and counts 1 and keeps the lock, or counts 0.                      *)
RotateClaim(r) ==
    /\ req[r].pc = "claim"
    /\ ~Waits(r)
    /\ Goto(r, IF sessions[req[r].id].live THEN "insert" ELSE "snapshot")
    /\ UNCHANGED <<account, sessions, events>>

(* The new session is inserted and the rotation commits. *)
RotateCommit(r) ==
    LET i == req[r].id
    IN  /\ req[r].pc = "insert"
        /\ ~Waits(r)
        /\ Len(sessions) < MaxSessions
        /\ sessions' = Append([sessions EXCEPT ![i].live = FALSE],
                              Born(sessions[i].family, i, sessions[i].pwd, sessions[i].raced))
        /\ Finish(r)
        /\ UNCHANGED <<account, events>>

-----------------------------------------------------------------------------
(* Mutant: changing the password revokes no session. *)
SnapshotForgets(r) ==
    /\ req[r].pc = "snapshot"
    /\ ~Waits(r)
    /\ req' = [req EXCEPT ![r].pc = "sweep",
                          ![r].snap = IF req[r].op = "logout" /\ req[r].id # 0
                                        THEN Live \cap {req[r].id}
                                      ELSE IF req[r].op = "password" THEN {} ELSE Live]
    /\ UNCHANGED <<account, sessions, events>>

(* Revocation.  An account operation first updates the users row, waiting  *)
(* for its lock; a logout names one session or none.                       *)
Snapshot(r) ==
    /\ req[r].pc = "snapshot"
    /\ ~Waits(r)
    /\ req' = [req EXCEPT ![r].pc = "sweep",
                          ![r].snap = IF req[r].op = "logout" /\ req[r].id # 0
                                        THEN Live \cap {req[r].id} ELSE Live]
    /\ UNCHANGED <<account, sessions, events>>

(* What an account operation leaves in the users row. *)
Updated(op) ==
    CASE op = "password" -> [account EXCEPT !.pwd = @ + 1]
      [] op = "delete"   -> [account EXCEPT !.deleted = TRUE, !.active = FALSE]
      [] op = "disable"  -> [account EXCEPT !.active = FALSE]
      [] OTHER           -> account

(* The sessions are revoked and the users row committed with them. *)
Sweep(r) ==
    /\ req[r].pc = "sweep"
    /\ ~Waits(r)
    /\ sessions' = [i \in DOMAIN sessions |->
                      IF i \in req[r].snap THEN [sessions[i] EXCEPT !.live = FALSE]
                                           ELSE sessions[i]]
    /\ account' = Updated(req[r].op)
    /\ Finish(r)
    /\ UNCHANGED events

(* logout is open to whoever holds an access token. *)
LogoutStart(r, i) ==
    /\ req[r].pc = "idle"
    /\ Spend
    /\ req' = [req EXCEPT ![r] = [Idle EXCEPT !.op = "logout", !.pc = "snapshot", !.id = i]]
    /\ UNCHANGED <<account, sessions>>

(* changePassword and softDeleteAccount: validateAccountStatus on the row  *)
(* read here, never again.                                                 *)
OwnerStart(r, op) ==
    /\ req[r].pc = "idle"
    /\ account.active /\ ~account.deleted
    /\ Spend
    /\ req' = [req EXCEPT ![r] = [Idle EXCEPT !.op = op, !.pc = "snapshot"]]
    /\ UNCHANGED <<account, sessions>>

(* updateUserStatus, of an account that is not deleted when read. *)
StatusStart(r, op) ==
    /\ req[r].pc = "idle"
    /\ ~account.deleted
    /\ Spend
    /\ req' = [req EXCEPT ![r] = [Idle EXCEPT !.op = op,
                                    !.pc = IF op = "disable" THEN "snapshot" ELSE "enable"]]
    /\ UNCHANGED <<account, sessions>>

Enable(r) ==
    /\ req[r].pc = "enable"
    /\ ~Waits(r)
    /\ account' = [account EXCEPT !.active = TRUE]
    /\ Finish(r)
    /\ UNCHANGED <<sessions, events>>

-----------------------------------------------------------------------------
(* A statement fails or the server dies: the transaction is rolled back    *)
(* and its locks are released.                                             *)
Fail(r) ==
    /\ req[r].pc # "idle"
    /\ Spend
    /\ Finish(r)
    /\ UNCHANGED <<account, sessions>>

(* expiresAt passes. *)
Expire(i) ==
    /\ ~sessions[i].expired
    /\ Spend
    /\ sessions' = [sessions EXCEPT ![i].expired = TRUE]
    /\ UNCHANGED <<account, req>>

Step(r) ==
    \/ LoginCreate(r) \/ RotateClaim(r) \/ RotateCommit(r)
    \/ Snapshot(r) \/ Sweep(r) \/ Enable(r)

Start(r) ==
    \/ LoginFind(r)
    \/ \E i \in DOMAIN sessions : RefreshFind(r, i)
    \/ \E i \in {0} \cup DOMAIN sessions : LogoutStart(r, i)
    \/ \E op \in {"password", "delete"} : OwnerStart(r, op)
    \/ \E op \in {"disable", "enable"} : StatusStart(r, op)

Next ==
    \/ \E r \in Requests : Start(r) \/ Step(r) \/ Fail(r)
    \/ \E i \in DOMAIN sessions : Expire(i)

(* The event loop and the database serve a request that has started. *)
Spec == Init /\ [][Next]_vars /\ \A r \in Requests : WF_vars(Step(r))

-----------------------------------------------------------------------------
(* Properties. *)

(* auth.service.ts:312, "so two parallel refreshes cannot both succeed":   *)
(* a session is rotated at most once, and at most one session of a login   *)
(* is live, whatever refreshes, logouts and revocations overlap.  A stolen *)
(* token and its owner's can thus never both stay in use.                  *)
OneSuccessor ==
    \A i, j \in DOMAIN sessions :
      sessions[i].parent # 0 /\ sessions[i].parent = sessions[j].parent => i = j

OneLivePerLogin ==
    \A i, j \in Live : sessions[i].family = sessions[j].family => i = j

RotationExclusive == OneSuccessor /\ OneLivePerLogin

(* Rotation is what TokenChain says: tokens take each other's place in one *)
(* step, and none of them, nor a login without one, ever comes back.       *)
Good == {[login |-> sessions[i].family, serial |-> i] : i \in Live}

Chain == INSTANCE TokenChain WITH good <- Good, issued <- Len(sessions)

ImplementsChain == Chain!Spec

(* A session that should be gone (an older password let it in, or the      *)
(* account is deactivated or deleted) is live only if it was created in    *)
(* the very window of a revocation, by a request that overlapped it, or    *)
(* descends from one that was.  No other session survives.                 *)
Stale(i) == sessions[i].pwd # account.pwd \/ ~account.active \/ account.deleted

OnlyRacedSurvive == \A i \in Live : Stale(i) => sessions[i].raced

(* users.service.ts:150, "revokes all active refresh-token sessions in a   *)
(* transaction": every live session was let in by the current password.    *)
(* One that a login or a rotation inserts around the transaction was not.  *)
SessionsMatchPassword == \A i \in Live : sessions[i].pwd = account.pwd

(* Rotations lock a session, account operations the users row and then     *)
(* sessions: among requests that wait there is always one that waits for   *)
(* none of the others, so the database never has a deadlock to break.      *)
NoCircularWait ==
    \A W \in SUBSET Requests :
      W # {} => \E r \in W : \A q \in W : ~WaitsFor(r, q)

(* So no request waits for a lock forever.  (Requests past the bound on    *)
(* rows are left out.)                                                     *)
Answered ==
    \A r \in Requests :
      req[r].pc # "idle" ~> req[r].pc = "idle" \/ Len(sessions) = MaxSessions

=============================================================================
