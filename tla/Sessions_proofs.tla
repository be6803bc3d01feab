--------------------------- MODULE Sessions_proofs ---------------------------
(* Proofs about Sessions, for any number of concurrent requests and any      *)
(* bounds: rotations exclude each other, and a revocation misses no session  *)
(* but those that raced it.                                                  *)
EXTENDS Sessions, TLAPS

-----------------------------------------------------------------------------
(* What the table of sessions keeps.  A session that has a successor is    *)
(* not live any more, and families are numbered by their first session.    *)
Linked ==
    \A i \in DOMAIN sessions :
      /\ sessions[i].family \in DOMAIN sessions
      /\ sessions[i].parent # 0 =>
           sessions[i].parent \in DOMAIN sessions /\ ~sessions[sessions[i].parent].live

TableInv == sessions \in Seq(Session) /\ Linked /\ OneSuccessor /\ OneLivePerLogin

(* What the locks guarantee: a rotation under way holds a live session,    *)
(* alone.                                                                  *)
Holder(me) ==
    /\ me.pc \in {"claim", "insert"} => me.id \in DOMAIN sessions
    /\ me.pc = "insert" => sessions[me.id].live

HoldersAlone ==
    \A r, q \in Requests :
      req[r].pc = "insert" /\ req[q].pc = "insert" /\ req[r].id = req[q].id => r = q

(* While an account operation revokes, its snapshot has every live session *)
(* but the raced ones: what is inserted meanwhile is raced.                *)
SnapshotInv(r) ==
    Revoking(r) => \A i \in Live : sessions[i].raced \/ i \in req[r].snap

SessionsInv ==
    /\ TypeOK
    /\ TableInv
    /\ HoldersAlone
    /\ \A r \in Requests : Holder(req[r]) /\ SnapshotInv(r)
    /\ OnlyRacedSurvive

-----------------------------------------------------------------------------
(* The two ways a step writes the table: revoking or expiring rows, and    *)
(* appending a live one, which starts a family or succeeds a session that  *)
(* this same step revokes.                                                 *)
Rewritten(old) ==
    /\ old \in [DOMAIN sessions -> Session]
    /\ \A i \in DOMAIN sessions :
         /\ old[i].family = sessions[i].family
         /\ old[i].parent = sessions[i].parent
         /\ old[i].pwd = sessions[i].pwd
         /\ old[i].raced = sessions[i].raced
         /\ old[i].live => sessions[i].live

LEMMA TableRewritten ==
    ASSUME TableInv, Rewritten(sessions')
    PROVE  TableInv' /\ DOMAIN sessions' = DOMAIN sessions
  <1>1. DOMAIN sessions = 1 .. Len(sessions) /\ Len(sessions) \in Nat
    BY DEF TableInv
  <1>2. DOMAIN sessions' = DOMAIN sessions /\ sessions' \in Seq(Session)
    BY <1>1 DEF Rewritten
  <1>3. Linked'
    BY <1>1, <1>2 DEF TableInv, Linked, Rewritten
  <1>4. OneSuccessor'
    BY <1>2 DEF TableInv, OneSuccessor, Rewritten
  <1>5. OneLivePerLogin'
    BY <1>2 DEF TableInv, OneLivePerLogin, Live, Rewritten
  <1>6. QED
    BY <1>2, <1>3, <1>4, <1>5 DEF TableInv

LEMMA TableAppended ==
    ASSUME TableInv, NEW old, Rewritten(old), NEW new \in Session,
           sessions' = Append(old, new),
           \/ new.parent = 0 /\ new.family = Len(sessions) + 1
           \/ /\ new.parent \in DOMAIN sessions
              /\ sessions[new.parent].live /\ ~old[new.parent].live
              /\ new.family = sessions[new.parent].family
    PROVE  /\ TableInv' /\ DOMAIN sessions' = 1 .. Len(sessions) + 1
           /\ DOMAIN sessions \subseteq DOMAIN sessions'
           /\ \A i \in DOMAIN sessions : sessions'[i] = old[i]
           /\ sessions'[Len(sessions) + 1] = new
  <1>1. /\ DOMAIN sessions = 1 .. Len(sessions) /\ Len(sessions) \in Nat
        /\ old \in Seq(Session) /\ Len(old) = Len(sessions)
    BY DEF TableInv, Rewritten
  <1>2. /\ sessions' \in Seq(Session)
        /\ DOMAIN sessions' = 1 .. Len(sessions) + 1
        /\ sessions'[Len(sessions) + 1] = new
        /\ \A i \in 1 .. Len(sessions) : sessions'[i] = old[i]
    BY <1>1
  <1>3. Linked'
    <2>1. ASSUME NEW i \in DOMAIN sessions
          PROVE  /\ sessions'[i].family \in DOMAIN sessions'
                 /\ sessions'[i].parent # 0 => /\ sessions'[i].parent \in DOMAIN sessions'
                                               /\ ~sessions'[sessions'[i].parent].live
      <3>1. /\ sessions'[i].parent = sessions[i].parent
            /\ sessions'[i].family = sessions[i].family
            /\ sessions[i].family \in DOMAIN sessions
        BY <1>1, <1>2 DEF TableInv, Linked, Rewritten
      <3>2. CASE sessions[i].parent # 0
        <4> DEFINE p == sessions[i].parent
        <4>1. p \in DOMAIN sessions /\ ~sessions[p].live
          BY <3>2 DEF TableInv, Linked
        <4>2. sessions'[p] = old[p] /\ ~old[p].live
          BY <1>1, <1>2, <4>1 DEF Rewritten
        <4>3. QED
          BY <1>1, <1>2, <3>1, <4>1, <4>2
      <3>3. QED
        BY <1>1, <1>2, <3>1, <3>2
    <2>2. /\ new.family \in DOMAIN sessions'
          /\ new.parent # 0 => /\ new.parent \in DOMAIN sessions'
                               /\ ~sessions'[new.parent].live
      BY <1>1, <1>2 DEF TableInv, Linked
    <2>3. QED
      BY <1>1, <1>2, <2>1, <2>2 DEF Linked
  <1>4. OneSuccessor'
    <2>1. ASSUME NEW i \in DOMAIN sessions, sessions'[i].parent # 0
          PROVE  /\ sessions'[i].parent = sessions[i].parent
                 /\ sessions'[i].parent = new.parent => FALSE
      <3>1. sessions'[i].parent = sessions[i].parent
        BY <1>1, <1>2 DEF Rewritten
      <3>2. sessions[i].parent \in DOMAIN sessions /\ ~sessions[sessions[i].parent].live
        BY <2>1, <3>1 DEF TableInv, Linked
      <3>3. QED
        BY <3>1, <3>2, <2>1
    <2>2. QED
      BY <1>1, <1>2, <2>1 DEF TableInv, OneSuccessor
  <1>5. OneLivePerLogin'
    BY <1>1, <1>2 DEF TableInv, Linked, OneLivePerLogin, Live, Rewritten
  <1>6. QED
    BY <1>1, <1>2, <1>3, <1>4, <1>5 DEF TableInv

-----------------------------------------------------------------------------
(* A live row after the step was live before, or is raced, or came when no *)
(* account operation was revoking.                                         *)
NewcomersRaced ==
    \A i \in Live' :
      \/ i \in Live /\ sessions'[i].raced = sessions[i].raced
      \/ sessions'[i].raced
      \/ ~UserLocked

(* A step of request r keeps the whole invariant if it keeps that of the   *)
(* table and of r, does not take a locked row from another request, and    *)
(* lets no session in that a snapshot in use misses.                       *)
LEMMA StepOf ==
    ASSUME SessionsInv, NEW r \in Requests, TypeOK', TableInv',
           DOMAIN sessions \subseteq DOMAIN sessions',
           req' = [req EXCEPT ![r] = req'[r]],
           Holder(req[r])', SnapshotInv(r)', OnlyRacedSurvive', NewcomersRaced,
           \A q \in Requests \ {r} : req[q].pc = "insert" =>
             /\ sessions'[req[q].id].live
             /\ req'[r].pc = "insert" => req'[r].id # req[q].id
    PROVE  SessionsInv'
  <1>1. \A q \in Requests \ {r} : req'[q] = req[q]
    BY DEF SessionsInv, TypeOK
  <1>2. HoldersAlone'
    BY <1>1 DEF SessionsInv, HoldersAlone
  <1>3. ASSUME NEW q \in Requests \ {r}
        PROVE  Holder(req[q])' /\ SnapshotInv(q)'
    <2>1. req'[q] = req[q] /\ Holder(req[q]) /\ SnapshotInv(q)
      BY <1>1 DEF SessionsInv
    <2>2. Holder(req[q])'
      BY <2>1 DEF Holder
    <2>3. SnapshotInv(q)'
      <3> SUFFICES ASSUME Revoking(q), NEW i \in Live'
                   PROVE  sessions'[i].raced \/ i \in req[q].snap
        BY <2>1 DEF SnapshotInv, Revoking
      <3>1. UserLocked
        BY DEF UserLocked
      <3>2. QED
        BY <2>1, <3>1 DEF NewcomersRaced, SnapshotInv
    <2>4. QED
      BY <2>2, <2>3
  <1>4. QED
    BY <1>2, <1>3 DEF SessionsInv

(* Nothing of the table changes. *)
LEMMA TableUnchanged ==
    ASSUME SessionsInv, UNCHANGED sessions
    PROVE  /\ TableInv' /\ NewcomersRaced /\ Live' = Live
           /\ UNCHANGED account => OnlyRacedSurvive'
           /\ \A q \in Requests : req[q].pc = "insert" => sessions'[req[q].id].live
  BY DEF SessionsInv, TableInv, Linked, OneSuccessor, OneLivePerLogin, Live, NewcomersRaced,
         OnlyRacedSurvive, Stale, Holder

LEMMA SessionsInvFacts ==
    ASSUME SessionsInv, NEW r \in Requests
    PROVE  /\ TypeOK /\ TableInv /\ req[r] \in Request /\ account \in Account /\ events \in Nat
           /\ Holder(req[r]) /\ SnapshotInv(r)
           /\ \A i \in DOMAIN sessions : sessions[i] \in Session
           /\ DOMAIN sessions = 1 .. Len(sessions) /\ Len(sessions) \in Nat
  <1>1. sessions \in Seq(Session)
    BY DEF SessionsInv, TypeOK
  <1>2. QED
    BY <1>1 DEF SessionsInv, TypeOK

(* What a request holds and wants, by what it is about to do. *)
LEMMA LocksFacts ==
    ASSUME NEW r \in Requests
    PROVE  /\ req[r].pc = "insert" => Held(r) = {req[r].id} /\ Wanted(r) = {}
           /\ req[r].pc # "insert" => Held(r) = IF Revoking(r) THEN {0} ELSE {}
           /\ req[r].pc = "claim" => Wanted(r) = {req[r].id}
           /\ req[r].pc = "sweep" => Wanted(r) = req[r].snap
  BY DEF Held, Wanted, Revoking

LEMMA IdleIsRequest == Idle \in Request
  BY DEF Idle, Request, Ops, Pcs

-----------------------------------------------------------------------------
(* The steps that only move a request on. *)
LEMMA MovingKeeps ==
    ASSUME SessionsInv, NEW r \in Requests, NEW me \in Request,
           req' = [req EXCEPT ![r] = me], UNCHANGED <<account, sessions>>, events' \in Nat,
           me.pc \in {"claim", "insert"} => me.id \in DOMAIN sessions,
           me.pc = "insert" =>
             /\ sessions[me.id].live
             /\ \A q \in Requests \ {r} : req[q].pc = "insert" => req[q].id # me.id,
           me.pc = "sweep" /\ me.op \in AccountOps => me.snap = Live
    PROVE  SessionsInv'
  <1>1. TypeOK' /\ req'[r] = me
    BY DEF SessionsInv, TypeOK
  <1>2. /\ TableInv' /\ NewcomersRaced /\ Live' = Live /\ OnlyRacedSurvive'
        /\ \A q \in Requests : req[q].pc = "insert" => sessions'[req[q].id].live
    BY TableUnchanged
  <1>3. Holder(req[r])'
    BY <1>1 DEF Holder
  <1>4. SnapshotInv(r)'
    BY <1>1, <1>2 DEF SnapshotInv, Revoking
  <1>5. \A q \in Requests \ {r} :
             req[q].pc = "insert" /\ req'[r].pc = "insert" => req'[r].id # req[q].id
    BY <1>1
  <1>6. QED
    BY <1>1, <1>2, <1>3, <1>4, <1>5, StepOf

LEMMA FinishKeeps ==
    ASSUME SessionsInv, NEW r \in Requests, Finish(r), UNCHANGED <<account, sessions>>,
           events' \in Nat
    PROVE  SessionsInv'
  BY MovingKeeps, IdleIsRequest DEF Finish, Idle

LEMMA LoginFindKeeps ==
    ASSUME SessionsInv, NEW r \in Requests, LoginFind(r)
    PROVE  SessionsInv'
  <1> DEFINE me == [Idle EXCEPT !.op = "login", !.pc = "create", !.pwd = account.pwd]
  <1>1. me \in Request /\ me.pc = "create"
    BY SessionsInvFacts DEF Idle, Request, Ops, Pcs, Account
  <1>2. QED
    BY <1>1, SessionsInvFacts, MovingKeeps DEF LoginFind

LEMMA RefreshFindKeeps ==
    ASSUME SessionsInv, NEW r \in Requests, NEW i \in DOMAIN sessions, RefreshFind(r, i)
    PROVE  SessionsInv'
  <1> DEFINE me == [Idle EXCEPT !.op = "refresh", !.id = i, !.pc = AfterRefreshFind(i)]
  <1> i \in Nat
    BY SessionsInvFacts
  <1>1. me \in Request /\ me.pc \in {"snapshot", "claim"} /\ me.id = i
    BY DEF Idle, Request, Ops, Pcs, AfterRefreshFind
  <1>2. QED
    BY <1>1, SessionsInvFacts, MovingKeeps DEF RefreshFind

LEMMA RotateClaimKeeps ==
    ASSUME SessionsInv, NEW r \in Requests, RotateClaim(r)
    PROVE  SessionsInv'
  <1> DEFINE pc == IF sessions[req[r].id].live THEN "insert" ELSE "snapshot"
             me == [req[r] EXCEPT !.pc = pc]
  <1>1. req[r] \in Request /\ req[r].pc = "claim" /\ req[r].id \in DOMAIN sessions
    BY SessionsInvFacts DEF RotateClaim, Holder
  <1>2. /\ me \in Request /\ me.id = req[r].id /\ me.pc \in {"insert", "snapshot"}
        /\ me.pc = "insert" => sessions[me.id].live
    BY <1>1 DEF Request, Pcs
  <1>3. req' = [req EXCEPT ![r] = me]
    BY SessionsInvFacts DEF RotateClaim, Goto, TypeOK
  <1>4. \A q \in Requests \ {r} : req[q].pc = "insert" => req[q].id # me.id
    BY <1>1, <1>2, LocksFacts DEF RotateClaim, Waits, WaitsFor
  <1>5. QED
    BY <1>1, <1>2, <1>3, <1>4, SessionsInvFacts, MovingKeeps DEF RotateClaim

LEMMA SnapshotKeeps ==
    ASSUME SessionsInv, NEW r \in Requests, Snapshot(r)
    PROVE  SessionsInv'
  <1> DEFINE snap == IF req[r].op = "logout" /\ req[r].id # 0
                       THEN Live \cap {req[r].id} ELSE Live
             me == [req[r] EXCEPT !.pc = "sweep", !.snap = snap]
  <1>1. req[r] \in Request
    BY SessionsInvFacts
  <1>2. snap \in SUBSET (Nat \ {0})
    BY SessionsInvFacts DEF Live
  <1>3. /\ me \in Request /\ me.pc = "sweep"
        /\ me.op \in AccountOps => me.snap = Live
    BY <1>1, <1>2 DEF Request, Pcs, AccountOps
  <1>4. req' = [req EXCEPT ![r] = me]
    BY SessionsInvFacts DEF Snapshot, TypeOK
  <1>5. QED
    BY <1>3, <1>4, SessionsInvFacts, MovingKeeps DEF Snapshot

LEMMA StartKeeps ==
    ASSUME SessionsInv, NEW r \in Requests, Start(r)
    PROVE  SessionsInv'
  <1>1. CASE LoginFind(r)
    BY <1>1, LoginFindKeeps
  <1>2. CASE \E i \in DOMAIN sessions : RefreshFind(r, i)
    BY <1>2, RefreshFindKeeps
  <1>3. CASE \E i \in {0} \cup DOMAIN sessions : LogoutStart(r, i)
    <2> PICK i \in {0} \cup DOMAIN sessions : LogoutStart(r, i)
      BY <1>3
    <2> DEFINE me == [Idle EXCEPT !.op = "logout", !.pc = "snapshot", !.id = i]
    <2> i \in Nat
      BY SessionsInvFacts
    <2>1. me \in Request /\ me.pc = "snapshot"
      BY DEF Idle, Request, Ops, Pcs
    <2>2. events' \in Nat
      BY SessionsInvFacts DEF LogoutStart, Spend
    <2>3. QED
      BY <2>1, <2>2, MovingKeeps DEF LogoutStart
  <1>4. CASE \E op \in {"password", "delete"} : OwnerStart(r, op)
    <2> PICK op \in {"password", "delete"} : OwnerStart(r, op)
      BY <1>4
    <2> DEFINE me == [Idle EXCEPT !.op = op, !.pc = "snapshot"]
    <2>1. me \in Request /\ me.pc = "snapshot"
      BY DEF Idle, Request, Ops, Pcs
    <2>2. events' \in Nat
      BY SessionsInvFacts DEF OwnerStart, Spend
    <2>3. QED
      BY <2>1, <2>2, MovingKeeps DEF OwnerStart
  <1>5. CASE \E op \in {"disable", "enable"} : StatusStart(r, op)
    <2> PICK op \in {"disable", "enable"} : StatusStart(r, op)
      BY <1>5
    <2> DEFINE pc == IF op = "disable" THEN "snapshot" ELSE "enable"
               me == [Idle EXCEPT !.op = op, !.pc = pc]
    <2>1. me \in Request /\ me.pc \in {"snapshot", "enable"}
      BY DEF Idle, Request, Ops, Pcs
    <2>2. events' \in Nat
      BY SessionsInvFacts DEF StatusStart, Spend
    <2>3. QED
      BY <2>1, <2>2, MovingKeeps DEF StatusStart
  <1>6. QED
    BY <1>1, <1>2, <1>3, <1>4, <1>5 DEF Start

-----------------------------------------------------------------------------
(* The steps that write. *)
LEMMA UserLockedIsBoolean == UserLocked \in BOOLEAN
  BY DEF UserLocked

(* Both appends at once: what r inserts, having rewritten the table.       *)
LEMMA AppendKeeps ==
    ASSUME SessionsInv, NEW r \in Requests, Finish(r), UNCHANGED <<account, events>>,
           NEW old, Rewritten(old), NEW new \in Session, sessions' = Append(old, new),
           \/ new.parent = 0 /\ new.family = Len(sessions) + 1
           \/ /\ new.parent \in DOMAIN sessions
              /\ sessions[new.parent].live /\ ~old[new.parent].live
              /\ new.family = sessions[new.parent].family,
           UserLocked => new.raced,
           new.pwd # account.pwd \/ ~account.active \/ account.deleted => new.raced,
           \A q \in Requests \ {r} : req[q].pc = "insert" => old[req[q].id].live
    PROVE  SessionsInv'
  <1>1. /\ TableInv' /\ DOMAIN sessions' = 1 .. Len(sessions) + 1
        /\ DOMAIN sessions \subseteq DOMAIN sessions'
        /\ \A i \in DOMAIN sessions : sessions'[i] = old[i]
        /\ sessions'[Len(sessions) + 1] = new
    BY TableAppended DEF SessionsInv
  <1>2. /\ DOMAIN sessions = 1 .. Len(sessions) /\ Len(sessions) \in Nat
        /\ \A q \in Requests : Holder(req[q])
    BY SessionsInvFacts
  <1>3. req' = [req EXCEPT ![r] = Idle] /\ req'[r] = Idle
    BY DEF SessionsInv, TypeOK, Finish
  <1>4. TypeOK'
    BY <1>1, <1>3, IdleIsRequest DEF SessionsInv, TypeOK, TableInv
  <1>5. Holder(req[r])' /\ SnapshotInv(r)'
    BY <1>3 DEF Holder, SnapshotInv, Revoking, Idle
  <1>6. \A i \in Live' : \/ i \in Live /\ sessions'[i].raced = sessions[i].raced
                                       /\ sessions'[i].pwd = sessions[i].pwd
                         \/ i = Len(sessions) + 1 /\ sessions'[i] = new
    BY <1>1, <1>2 DEF Live, Rewritten
  <1>7. NewcomersRaced
    BY <1>6 DEF NewcomersRaced
  <1>8. OnlyRacedSurvive'
    BY <1>6 DEF SessionsInv, OnlyRacedSurvive, Stale
  <1>9. req'[r].pc # "insert"
    BY <1>3 DEF Idle
  <1>10. \A q \in Requests \ {r} : req[q].pc = "insert" =>
             /\ sessions'[req[q].id].live
             /\ req'[r].pc = "insert" => req'[r].id # req[q].id
    BY <1>1, <1>2, <1>9 DEF Holder
  <1>11. req' = [req EXCEPT ![r] = req'[r]]
    BY <1>3
  <1>12. QED
    BY <1>1, <1>4, <1>5, <1>7, <1>8, <1>10, <1>11, StepOf

LEMMA LoginCreateKeeps ==
    ASSUME SessionsInv, NEW r \in Requests, LoginCreate(r)
    PROVE  SessionsInv'
  <1> DEFINE new == Born(Len(sessions) + 1, 0, req[r].pwd, FALSE)
  <1>0. Len(sessions) + 1 \in Nat /\ 0 \in Nat /\ FALSE \in BOOLEAN
    BY SessionsInvFacts
  <1>1. /\ account \in Account /\ Len(sessions) \in Nat /\ req[r].pwd \in Nat
        /\ sessions \in [DOMAIN sessions -> Session]
        /\ \A q \in Requests : Holder(req[q])
    BY SessionsInvFacts DEF Request, SessionsInv, TypeOK
  <1>2. /\ new \in Session /\ new.parent = 0 /\ new.family = Len(sessions) + 1
        /\ UserLocked => new.raced
        /\ new.pwd # account.pwd \/ ~account.active \/ account.deleted => new.raced
    BY <1>0, <1>1, UserLockedIsBoolean DEF Born, Session, Account
  <1>3. Rewritten(sessions)
    BY <1>1 DEF Rewritten
  <1>4. \A q \in Requests \ {r} : req[q].pc = "insert" => sessions[req[q].id].live
    BY <1>1 DEF Holder
  <1>5. sessions' = Append(sessions, new) /\ Finish(r) /\ UNCHANGED <<account, events>>
    BY DEF LoginCreate
  <1> HIDE DEF new
  <1>6. QED
    BY <1>2, <1>3, <1>4, <1>5, AppendKeeps

LEMMA RotateCommitKeeps ==
    ASSUME SessionsInv, NEW r \in Requests, RotateCommit(r)
    PROVE  SessionsInv'
  <1> DEFINE i   == req[r].id
             old == [sessions EXCEPT ![i].live = FALSE]
             new == Born(sessions[i].family, i, sessions[i].pwd, sessions[i].raced)
  <1>1. /\ account \in Account /\ req[r].pc = "insert"
        /\ i \in DOMAIN sessions /\ i \in Nat /\ sessions[i] \in Session /\ sessions[i].live
        /\ sessions \in [DOMAIN sessions -> Session]
    BY SessionsInvFacts DEF RotateCommit, Holder, SessionsInv, TypeOK
  <1>0. /\ sessions[i].family \in Nat /\ sessions[i].pwd \in Nat
        /\ sessions[i].raced \in BOOLEAN
    BY <1>1 DEF Session
  <1>2. /\ new \in Session /\ new.parent = i /\ new.family = sessions[i].family
        /\ UserLocked => new.raced
        /\ new.pwd # account.pwd \/ ~account.active \/ account.deleted => new.raced
    BY <1>0, <1>1, UserLockedIsBoolean DEF Born, Session, Account
  <1>3. Rewritten(old) /\ ~old[i].live
    BY <1>1 DEF Rewritten, Session
  <1>4. ASSUME NEW q \in Requests \ {r}, req[q].pc = "insert"
        PROVE  old[req[q].id].live
    <2>1. req[q].id # i
      BY <1>1, <1>4 DEF SessionsInv, HoldersAlone
    <2>2. req[q].id \in DOMAIN sessions /\ sessions[req[q].id].live
      BY <1>4 DEF SessionsInv, Holder
    <2>3. QED
      BY <2>1, <2>2
  <1>5. sessions' = Append(old, new) /\ Finish(r) /\ UNCHANGED <<account, events>>
    BY DEF RotateCommit
  <1> HIDE DEF new, old
  <1>6. QED
    BY <1>1, <1>2, <1>3, <1>4, <1>5, AppendKeeps

(* A sweep rewrites the table; what it leaves live after an account        *)
(* operation is raced, because the snapshot had everything else.           *)
LEMMA SweepKeeps ==
    ASSUME SessionsInv, NEW r \in Requests, Sweep(r)
    PROVE  SessionsInv'
  <1>1. /\ req[r] \in Request /\ req[r].pc = "sweep" /\ account \in Account
        /\ SnapshotInv(r) /\ TableInv /\ events' \in Nat
        /\ sessions \in [DOMAIN sessions -> Session]
        /\ \A q \in Requests : Holder(req[q])
    BY SessionsInvFacts DEF Sweep, SessionsInv, TypeOK
  <1>2. Rewritten(sessions') /\ \A i \in req[r].snap : i \in Live' => FALSE
    BY <1>1 DEF Sweep, Rewritten, Session, Live
  <1>3. TableInv' /\ DOMAIN sessions' = DOMAIN sessions
    BY <1>1, <1>2, TableRewritten
  <1>4. req' = [req EXCEPT ![r] = Idle] /\ req'[r] = Idle
    BY DEF Sweep, Finish, SessionsInv, TypeOK
  <1>5. account' \in Account
    <2>1. account' = Updated(req[r].op)
      BY DEF Sweep
    <2>2. CASE req[r].op = "password"
      BY <1>1, <2>1, <2>2 DEF Updated, Account
    <2>3. CASE req[r].op = "delete"
      BY <1>1, <2>1, <2>3 DEF Updated, Account
    <2>4. CASE req[r].op = "disable"
      BY <1>1, <2>1, <2>4 DEF Updated, Account
    <2>5. CASE req[r].op \notin AccountOps
      BY <1>1, <2>1, <2>5 DEF Updated, AccountOps
    <2>6. QED
      BY <2>2, <2>3, <2>4, <2>5 DEF AccountOps
  <1>6. TypeOK'
    BY <1>1, <1>3, <1>4, <1>5, IdleIsRequest DEF SessionsInv, TypeOK, TableInv
  <1>7. Holder(req[r])' /\ SnapshotInv(r)'
    BY <1>4 DEF Holder, SnapshotInv, Revoking, Idle
  <1>8. \A i \in Live' : /\ i \in Live /\ sessions'[i].raced = sessions[i].raced
                         /\ sessions'[i].pwd = sessions[i].pwd
    BY <1>2, <1>3 DEF Rewritten, Live
  <1>9. NewcomersRaced
    BY <1>8 DEF NewcomersRaced
  <1>10. OnlyRacedSurvive'
    <2>1. CASE req[r].op \in AccountOps
      <3>1. \A i \in Live' : sessions'[i].raced
        BY <1>1, <1>2, <1>8, <2>1 DEF SnapshotInv, Revoking
      <3>2. QED
        BY <3>1 DEF OnlyRacedSurvive
    <2>2. CASE req[r].op \notin AccountOps
      <3>1. account' = account
        BY <2>2 DEF Sweep, Updated, AccountOps
      <3>2. QED
        BY <1>8, <3>1 DEF SessionsInv, OnlyRacedSurvive, Stale
    <2>3. QED
      BY <2>1, <2>2
  <1>11. ASSUME NEW q \in Requests \ {r}, req[q].pc = "insert"
         PROVE  sessions'[req[q].id].live
    <2>1. req[q].id \in DOMAIN sessions /\ sessions[req[q].id].live
      BY <1>1, <1>11 DEF Holder
    <2>2. req[q].id \notin req[r].snap
      BY <1>1, <1>11, LocksFacts DEF Sweep, Waits, WaitsFor
    <2>3. sessions'[req[q].id] = sessions[req[q].id]
      BY <2>1, <2>2 DEF Sweep
    <2>4. QED
      BY <2>1, <2>3
  <1>12. req'[r].pc # "insert"
    BY <1>4 DEF Idle
  <1>13. req' = [req EXCEPT ![r] = req'[r]]
    BY <1>4
  <1>14. QED
    BY <1>3, <1>6, <1>7, <1>9, <1>10, <1>11, <1>12, <1>13, StepOf

(* Activating an account makes no session stale. *)
LEMMA EnableKeeps ==
    ASSUME SessionsInv, NEW r \in Requests, Enable(r)
    PROVE  SessionsInv'
  <1>1. account \in Account /\ events' \in Nat /\ UNCHANGED sessions
    BY SessionsInvFacts DEF Enable
  <1>2. req' = [req EXCEPT ![r] = Idle] /\ req'[r] = Idle
    BY DEF Enable, Finish, SessionsInv, TypeOK
  <1>3. TypeOK'
    BY <1>1, <1>2, IdleIsRequest DEF Enable, SessionsInv, TypeOK, Account
  <1>4. /\ TableInv' /\ NewcomersRaced /\ Live' = Live
        /\ \A q \in Requests : req[q].pc = "insert" => sessions'[req[q].id].live
    BY <1>1, TableUnchanged
  <1>5. Holder(req[r])' /\ SnapshotInv(r)'
    BY <1>2 DEF Holder, SnapshotInv, Revoking, Idle
  <1>6. \A i : Stale(i)' => Stale(i)
    BY <1>1 DEF Stale, Enable, Account
  <1>7. OnlyRacedSurvive'
    BY <1>1, <1>4, <1>6 DEF SessionsInv, OnlyRacedSurvive
  <1>8. req'[r].pc # "insert"
    BY <1>2 DEF Idle
  <1>9. req' = [req EXCEPT ![r] = req'[r]]
    BY <1>2
  <1>10. QED
    BY <1>1, <1>3, <1>4, <1>5, <1>7, <1>8, <1>9, StepOf

LEMMA ExpireKeeps ==
    ASSUME SessionsInv, NEW e \in DOMAIN sessions, Expire(e)
    PROVE  SessionsInv'
  <1>1. /\ TableInv /\ events' \in Nat /\ UNCHANGED <<account, req>>
        /\ sessions \in [DOMAIN sessions -> Session]
    BY DEF Expire, Spend, SessionsInv, TypeOK
  <1>2. Rewritten(sessions') /\ \A i \in DOMAIN sessions : sessions'[i].live = sessions[i].live
    BY <1>1 DEF Expire, Rewritten, Session
  <1>3. TableInv' /\ DOMAIN sessions' = DOMAIN sessions
    BY <1>1, <1>2, TableRewritten
  <1>4. Live' = Live /\ \A i \in DOMAIN sessions : /\ sessions'[i].raced = sessions[i].raced
                                                   /\ sessions'[i].pwd = sessions[i].pwd
    BY <1>2, <1>3 DEF Live, Rewritten
  <1>5. TypeOK'
    BY <1>1, <1>3 DEF SessionsInv, TypeOK, TableInv
  <1>6. HoldersAlone' /\ OnlyRacedSurvive'
    BY <1>1, <1>3, <1>4 DEF SessionsInv, HoldersAlone, OnlyRacedSurvive, Stale, Live
  <1>7. ASSUME NEW r \in Requests
        PROVE  Holder(req[r])' /\ SnapshotInv(r)'
    BY <1>1, <1>2, <1>3, <1>4 DEF SessionsInv, Holder, SnapshotInv, Revoking, Live
  <1>8. QED
    BY <1>3, <1>5, <1>6, <1>7 DEF SessionsInv

-----------------------------------------------------------------------------
LEMMA StepKeeps ==
    ASSUME SessionsInv, NEW r \in Requests, Step(r)
    PROVE  SessionsInv'
  BY LoginCreateKeeps, RotateClaimKeeps, RotateCommitKeeps, SnapshotKeeps, SweepKeeps,
     EnableKeeps DEF Step

LEMMA NextKeeps == SessionsInv /\ [Next]_vars => SessionsInv'
  <1> SUFFICES ASSUME SessionsInv, [Next]_vars
               PROVE  SessionsInv'
    OBVIOUS
  <1>1. ASSUME NEW r \in Requests, Start(r) \/ Step(r)
        PROVE  SessionsInv'
    BY <1>1, StartKeeps, StepKeeps
  <1>2. ASSUME NEW r \in Requests, Fail(r)
        PROVE  SessionsInv'
    <2>1. events' \in Nat
      BY <1>2 DEF Fail, Spend, SessionsInv, TypeOK
    <2>2. QED
      BY <1>2, <2>1, FinishKeeps DEF Fail
  <1>3. ASSUME NEW i \in DOMAIN sessions, Expire(i)
        PROVE  SessionsInv'
    BY <1>3, ExpireKeeps
  <1>4. CASE UNCHANGED vars
    BY <1>4 DEF vars, SessionsInv, TypeOK, TableInv, Linked, OneSuccessor, OneLivePerLogin,
                Live, HoldersAlone, Holder, SnapshotInv, Revoking, OnlyRacedSurvive, Stale
  <1>5. QED
    BY <1>1, <1>2, <1>3, <1>4 DEF Next

LEMMA InitKeeps == Init => SessionsInv
  BY IdleIsRequest DEF Init, SessionsInv, TypeOK, Account, TableInv, Linked, OneSuccessor,
     OneLivePerLogin, Live, HoldersAlone, Holder, SnapshotInv, Revoking, OnlyRacedSurvive, Idle

LEMMA Invariant == Spec => []SessionsInv
  BY InitKeeps, NextKeeps, PTL DEF Spec

(* Type correctness. *)
THEOREM TypeCorrect == Spec => []TypeOK
  <1>1. SessionsInv => TypeOK
    BY DEF SessionsInv
  <1>2. QED
    BY <1>1, Invariant, PTL

(* Rotation is exclusive: a session has at most one successor and a login  *)
(* at most one live session, for any number of concurrent requests.        *)
THEOREM RotationIsExclusive == Spec => []RotationExclusive
  <1>1. SessionsInv => RotationExclusive
    BY DEF SessionsInv, TableInv, RotationExclusive
  <1>2. QED
    BY <1>1, Invariant, PTL

(* Revocation is complete but for the race: a session an older password    *)
(* let in, or one of a closed account, is live only if it was created      *)
(* around a revocation.                                                    *)
THEOREM RevocationMissesOnlyRaced == Spec => []OnlyRacedSurvive
  <1>1. SessionsInv => OnlyRacedSurvive
    BY DEF SessionsInv
  <1>2. QED
    BY <1>1, Invariant, PTL

-----------------------------------------------------------------------------
(* Lock waits.  Who holds a session waits for none, and who holds the      *)
(* users row waits only for sessions.                                      *)
LEMMA NoCircle == TypeOK => NoCircularWait
  <1> SUFFICES ASSUME TypeOK, NEW W \in SUBSET Requests, W # {}
               PROVE  \E r \in W : \A q \in W : ~WaitsFor(r, q)
    BY DEF NoCircularWait
  <1>1. ASSUME NEW r \in Requests, req[r].pc = "insert", NEW q \in Requests
        PROVE  ~WaitsFor(r, q)
    BY <1>1, LocksFacts DEF WaitsFor
  <1>2. ASSUME NEW r \in Requests, Revoking(r), NEW q \in Requests, WaitsFor(r, q)
        PROVE  req[q].pc = "insert"
    <2>1. Wanted(r) = req[r].snap /\ 0 \notin req[r].snap
      BY <1>2, LocksFacts DEF Revoking, TypeOK, Request
    <2>2. QED
      BY <1>2, <2>1, LocksFacts DEF WaitsFor
  <1>3. ASSUME NEW r \in Requests, NEW q \in Requests, WaitsFor(r, q)
        PROVE  req[q].pc = "insert" \/ Revoking(q)
    BY <1>3, LocksFacts DEF WaitsFor
  <1>4. QED
    BY <1>1, <1>2, <1>3

(* Refreshes, logouts and account operations never wait for each other in  *)
(* a circle: a rotation waits for nothing once it holds its session, and   *)
(* account operations lock the users row before any session.               *)
THEOREM WaitsEnd == Spec => []NoCircularWait
  BY NoCircle, TypeCorrect, PTL

-----------------------------------------------------------------------------
(* Rotation implements TokenChain.  A live session is a good token, with   *)
(* the login it descends from and its number.                              *)
GoodToken(i) == [login |-> sessions[i].family, serial |-> i]

LEMMA GoodTokens ==
    ASSUME NEW i \in DOMAIN sessions
    PROVE  GoodToken(i) \in Good <=> i \in Live
  BY DEF Good, GoodToken, Live

(* A table that is only rewritten loses tokens and gets none. *)
LEMMA RewrittenRevokes ==
    ASSUME TableInv, Rewritten(sessions')
    PROVE  Chain!Revoke
  <1>1. TableInv' /\ DOMAIN sessions' = DOMAIN sessions
    BY TableRewritten
  <1>2. Len(sessions') = Len(sessions)
    BY <1>1 DEF TableInv
  <1>3. Good' \subseteq Good
    BY <1>1 DEF Good, Live, Rewritten
  <1>4. QED
    BY <1>2, <1>3 DEF Chain!Revoke

(* A row appended is a token issued, all others staying as they are but    *)
(* the one that is rotated.                                                *)
LEMMA LoginIssues ==
    ASSUME SessionsInv, NEW r \in Requests, LoginCreate(r)
    PROVE  Chain!Login
  <1> DEFINE new == Born(Len(sessions) + 1, 0, req[r].pwd, FALSE)
  <1>1. /\ DOMAIN sessions = 1 .. Len(sessions) /\ Len(sessions) \in Nat
        /\ sessions \in Seq(Session)
    BY SessionsInvFacts DEF TypeOK
  <1>2. new.live /\ new.family = Len(sessions) + 1
    BY DEF Born
  <1>3. sessions' = Append(sessions, new)
    BY DEF LoginCreate
  <1> HIDE DEF new
  <1>4. /\ Len(sessions') = Len(sessions) + 1 /\ DOMAIN sessions' = 1 .. Len(sessions) + 1
        /\ sessions'[Len(sessions) + 1] = new
        /\ \A i \in DOMAIN sessions : sessions'[i] = sessions[i]
    BY <1>1, <1>3
  <1>5. Live' = Live \cup {Len(sessions) + 1}
    BY <1>1, <1>2, <1>4 DEF Live
  <1>6. Good' = Good \cup {[login |-> Len(sessions) + 1, serial |-> Len(sessions) + 1]}
    <2>1. Good' = {[login |-> sessions'[i].family, serial |-> i] : i \in Live \cup {Len(sessions) + 1}}
      BY <1>5 DEF Good
    <2>2. \A i \in Live : sessions'[i].family = sessions[i].family
      BY <1>4 DEF Live
    <2>3. QED
      BY <1>2, <1>4, <2>1, <2>2 DEF Good
  <1>7. QED
    BY <1>4, <1>6 DEF Chain!Login, Chain!Token

LEMMA CommitRotates ==
    ASSUME SessionsInv, NEW r \in Requests, RotateCommit(r)
    PROVE  Chain!Rotate
  <1> DEFINE k   == req[r].id
             n   == Len(sessions) + 1
             new == Born(sessions[k].family, k, sessions[k].pwd, sessions[k].raced)
  <1>1. /\ DOMAIN sessions = 1 .. Len(sessions) /\ Len(sessions) \in Nat
        /\ sessions \in Seq(Session) /\ k \in Live /\ k \in DOMAIN sessions
    BY SessionsInvFacts DEF TypeOK, RotateCommit, Holder, Live
  <1>2. new.live /\ new.family = sessions[k].family
    BY DEF Born
  <1>3. sessions' = Append([sessions EXCEPT ![k].live = FALSE], new)
    BY DEF RotateCommit
  <1> HIDE DEF new, k
  <1>4. /\ Len(sessions') = n /\ DOMAIN sessions' = 1 .. n /\ sessions'[n] = new
        /\ \A i \in DOMAIN sessions \ {k} : sessions'[i] = sessions[i]
        /\ ~sessions'[k].live
    <2> DEFINE old == [sessions EXCEPT ![k].live = FALSE]
    <2>1. sessions \in [DOMAIN sessions -> Session] /\ sessions[k] \in Session
      BY <1>1
    <2>2. /\ old \in [1 .. Len(sessions) -> Session] /\ ~old[k].live
          /\ \A i \in DOMAIN sessions \ {k} : old[i] = sessions[i]
      BY <1>1, <2>1 DEF Session
    <2>3. old \in Seq(Session) /\ Len(old) = Len(sessions)
      BY <1>1, <2>2
    <2> HIDE DEF old
    <2>4. QED
      BY <1>1, <1>3, <2>2, <2>3 DEF old
  <1>5. Live' = (Live \ {k}) \cup {n}
    BY <1>1, <1>2, <1>4 DEF Live
  <1>6. Good' = (Good \ {GoodToken(k)}) \cup {[login |-> GoodToken(k).login, serial |-> n]}
    <2>1. Good' = {[login |-> sessions'[i].family, serial |-> i] : i \in (Live \ {k}) \cup {n}}
      BY <1>5 DEF Good
    <2>2. \A i \in Live \ {k} : sessions'[i].family = sessions[i].family
      BY <1>4 DEF Live
    <2>3. sessions'[n].family = GoodToken(k).login
      BY <1>2, <1>4 DEF GoodToken
    <2>4. Good \ {GoodToken(k)} = {GoodToken(i) : i \in Live \ {k}}
      BY DEF Good, GoodToken
    <2>5. QED
      BY <2>1, <2>2, <2>3, <2>4 DEF GoodToken
  <1>7. GoodToken(k) \in Good
    BY <1>1, GoodTokens
  <1>8. QED
    BY <1>4, <1>6, <1>7 DEF Chain!Rotate, Chain!Token

LEMMA NextRefines == SessionsInv /\ [Next]_vars => [Chain!Next]_(Chain!vars)
  <1> SUFFICES ASSUME SessionsInv, [Next]_vars
               PROVE  [Chain!Next]_(Chain!vars)
    OBVIOUS
  <1>1. TableInv /\ sessions \in [DOMAIN sessions -> Session]
    BY DEF SessionsInv, TypeOK
  <1>2. CASE UNCHANGED sessions
    BY <1>2 DEF Chain!vars, Good, Live
  <1>3. ASSUME NEW r \in Requests, Step(r)
        PROVE  [Chain!Next]_(Chain!vars)
    <2>1. CASE LoginCreate(r)
      BY <2>1, LoginIssues DEF Chain!Next
    <2>2. CASE RotateCommit(r)
      BY <2>2, CommitRotates DEF Chain!Next
    <2>3. CASE Sweep(r)
      <3>1. Rewritten(sessions')
        BY <1>1, <2>3 DEF Sweep, Rewritten, Session
      <3>2. QED
        BY <1>1, <3>1, RewrittenRevokes DEF Chain!Next
    <2>4. CASE RotateClaim(r) \/ Snapshot(r) \/ Enable(r)
      BY <1>2, <2>4 DEF RotateClaim, Snapshot, Enable
    <2>5. QED
      BY <1>3, <2>1, <2>2, <2>3, <2>4 DEF Step
  <1>4. ASSUME NEW r \in Requests, Start(r) \/ Fail(r)
        PROVE  UNCHANGED sessions
    BY <1>4 DEF Start, LoginFind, RefreshFind, LogoutStart, OwnerStart, StatusStart, Fail
  <1>5. ASSUME NEW i \in DOMAIN sessions, Expire(i)
        PROVE  [Chain!Next]_(Chain!vars)
    <2>1. Rewritten(sessions')
      BY <1>1, <1>5 DEF Expire, Rewritten, Session
    <2>2. QED
      BY <1>1, <2>1, RewrittenRevokes DEF Chain!Next
  <1>6. QED
    BY <1>2, <1>3, <1>4, <1>5 DEF Next, vars

LEMMA InitRefines == Init => Chain!Init
  BY DEF Init, Chain!Init, Good, Live

(* Every behaviour of the sessions is one of TokenChain: refreshes, with   *)
(* their row locks, overlapping logouts and revocations, never make a      *)
(* token good but by a login or in place of one that was good.             *)
THEOREM RotationImplementsChain == Spec => ImplementsChain
  <1>1. Init /\ SessionsInv => Chain!Init
    BY InitRefines
  <1>2. QED
    BY <1>1, InitRefines, NextRefines, Invariant, PTL DEF Spec, ImplementsChain, Chain!Spec

(* What TokenChain promises follows: a login has at most one live session, *)
(* one that was rotated or revoked is never live again, and a login that   *)
(* has none left never gets one, which is what a logout, or a theft that   *)
(* was noticed, relies on.                                                 *)
THEOREM ChainIsKept == Spec => []Chain!OneGood /\ Chain!NeverAgain
  <1>1. SessionsInv => Chain!OneGood
    <2> SUFFICES ASSUME SessionsInv, NEW s \in Good, NEW u \in Good, s.login = u.login
                 PROVE  s = u
      BY DEF Chain!OneGood
    <2>1. PICK i \in Live, j \in Live : s = GoodToken(i) /\ u = GoodToken(j)
      BY DEF Good, GoodToken
    <2>2. i = j
      BY <2>1 DEF GoodToken, SessionsInv, TableInv, OneLivePerLogin
    <2>3. QED
      BY <2>1, <2>2
  <1> DEFINE Kept == /\ \A t \in Good' \ Good : t.serial > Len(sessions)
                     /\ \A t \in Good' : t.login <= Len(sessions) =>
                          \E s \in Good : s.login = t.login
  <1>2. SessionsInv /\ [Next]_vars => [Kept]_(Chain!vars)
    <2> SUFFICES ASSUME SessionsInv, [Chain!Next]_(Chain!vars)
                 PROVE  Kept \/ UNCHANGED Chain!vars
      BY NextRefines
    <2>1. Len(sessions) \in Nat
      BY DEF SessionsInv, TypeOK
    <2>2. CASE Chain!Login
      BY <2>1, <2>2 DEF Chain!Login, Chain!Token
    <2>3. CASE Chain!Rotate
      <3>1. PICK t \in Good : Good' = (Good \ {t}) \cup {Chain!Token(t.login, Len(sessions) + 1)}
        BY <2>3 DEF Chain!Rotate
      <3>2. QED
        BY <2>1, <3>1 DEF Chain!Token
    <2>4. CASE Chain!Revoke
      BY <2>4 DEF Chain!Revoke
    <2>5. QED
      BY <2>2, <2>3, <2>4 DEF Chain!Next
  <1>3. Spec => [][Kept]_(Chain!vars)
    BY <1>2, Invariant, PTL DEF Spec
  <1>4. QED
    BY <1>1, <1>3, Invariant, PTL DEF Chain!NeverAgain

-----------------------------------------------------------------------------
(* One request at a time.  What it read is still so when it writes, and    *)
(* then no session is raced.                                               *)
Current(me) ==
    /\ me.pc = "create" => me.pwd = account.pwd
    /\ me.pc \in {"create", "claim", "insert"} => account.active /\ ~account.deleted

AloneInv ==
    /\ SessionsInv
    /\ \A r \in Requests : Current(req[r])
    /\ \A i \in DOMAIN sessions : ~sessions[i].raced

NoneStale == \A i \in Live : ~Stale(i)

LEMMA AloneNoneStale == AloneInv => NoneStale
  BY DEF AloneInv, SessionsInv, OnlyRacedSurvive, NoneStale, Live

LEMMA AloneNext ==
    ASSUME NEW one, Requests = {one}, AloneInv, [Next]_vars
    PROVE  AloneInv'
  <1>1. /\ SessionsInv' /\ one \in Requests /\ req[one] \in Request
        /\ sessions \in Seq(Session) /\ Len(sessions) \in Nat
        /\ DOMAIN sessions = 1 .. Len(sessions) /\ account \in Account
        /\ req \in [Requests -> Request] /\ Holder(req[one])
    BY NextKeeps, SessionsInvFacts DEF AloneInv, SessionsInv, TypeOK
  <1>2. \A i \in Live : sessions[i].pwd = account.pwd /\ account.active /\ ~account.deleted
    BY AloneNoneStale DEF NoneStale, Stale
  <1>3. CASE Start(one)
    <2>1. Current(req'[one])
      <3>1. CASE LoginFind(one)
        BY <1>1, <3>1 DEF LoginFind, Current, Idle
      <3>2. ASSUME NEW i \in DOMAIN sessions, RefreshFind(one, i)
            PROVE  Current(req'[one])
        BY <1>1, <3>2 DEF RefreshFind, AfterRefreshFind, Current, Idle
      <3>3. ASSUME NEW i \in {0} \cup DOMAIN sessions, LogoutStart(one, i)
            PROVE  Current(req'[one])
        BY <1>1, <3>3 DEF LogoutStart, Current, Idle
      <3>4. ASSUME NEW op \in {"password", "delete"}, OwnerStart(one, op)
            PROVE  Current(req'[one])
        BY <1>1, <3>4 DEF OwnerStart, Current, Idle
      <3>5. ASSUME NEW op \in {"disable", "enable"}, StatusStart(one, op)
            PROVE  Current(req'[one])
        BY <1>1, <3>5 DEF StatusStart, Current, Idle
      <3>6. QED
        BY <1>3, <3>1, <3>2, <3>3, <3>4, <3>5 DEF Start
    <2>2. UNCHANGED <<account, sessions>>
      BY <1>3 DEF Start, LoginFind, RefreshFind, LogoutStart, OwnerStart, StatusStart
    <2>3. QED
      BY <1>1, <2>1, <2>2 DEF AloneInv, Current
  <1>4. CASE RotateClaim(one) \/ Snapshot(one)
    <2>1. UNCHANGED <<account, sessions>>
      BY <1>4 DEF RotateClaim, Snapshot
    <2>2. Current(req'[one])
      <3>1. CASE RotateClaim(one)
        <4>1. account.active /\ ~account.deleted
          BY <1>1, <3>1 DEF AloneInv, RotateClaim, Current
        <4>2. req'[one].pc # "create"
          BY <1>1, <3>1 DEF RotateClaim, Goto
        <4>3. QED
          BY <2>1, <4>1, <4>2 DEF Current
      <3>2. CASE Snapshot(one)
        <4>1. req'[one].pc = "sweep"
          BY <1>1, <3>2 DEF Snapshot, Request
        <4>2. QED
          BY <4>1 DEF Current
      <3>3. QED
        BY <1>4, <3>1, <3>2
    <2>3. QED
      BY <1>1, <2>1, <2>2 DEF AloneInv, Current
  <1>5. CASE LoginCreate(one)
    <2> DEFINE new == Born(Len(sessions) + 1, 0, req[one].pwd, FALSE)
    <2>1. ~UserLocked /\ ~new.raced
      BY <1>1, <1>5 DEF UserLocked, Revoking, LoginCreate, AloneInv, Current, Born
    <2>2. sessions' = Append(sessions, new) /\ req'[one] = Idle
      BY <1>1, <1>5 DEF LoginCreate, Finish
    <2> HIDE DEF new
    <2>3. \A i \in DOMAIN sessions' : ~sessions'[i].raced
      BY <1>1, <2>1, <2>2 DEF AloneInv
    <2>4. QED
      BY <1>1, <2>2, <2>3 DEF AloneInv, Current, Idle
  <1>6. CASE RotateCommit(one)
    <2> DEFINE k   == req[one].id
               new == Born(sessions[k].family, k, sessions[k].pwd, sessions[k].raced)
               old == [sessions EXCEPT ![k].live = FALSE]
    <2>1. k \in Live /\ k \in DOMAIN sessions /\ sessions[k] \in Session
      BY <1>1, <1>6 DEF RotateCommit, Holder, Live
    <2>2. ~UserLocked /\ ~new.raced
      BY <1>1, <1>2, <1>6, <2>1 DEF UserLocked, Revoking, RotateCommit, AloneInv, Born
    <2>3. sessions' = Append(old, new) /\ req'[one] = Idle
      BY <1>1, <1>6 DEF RotateCommit, Finish
    <2>4. /\ old \in [1 .. Len(sessions) -> Session]
          /\ \A i \in DOMAIN sessions : ~old[i].raced
      <3>1. sessions \in [1 .. Len(sessions) -> Session]
        BY <1>1
      <3>2. QED
        BY <1>1, <2>1, <3>1 DEF AloneInv, Session
    <2>5. old \in Seq(Session) /\ Len(old) = Len(sessions)
      BY <1>1, <2>4
    <2> HIDE DEF new, old
    <2>6. \A i \in DOMAIN sessions' : ~sessions'[i].raced
      BY <1>1, <2>2, <2>3, <2>4, <2>5
    <2>7. QED
      BY <1>1, <2>3, <2>6 DEF AloneInv, Current, Idle
  <1>7. CASE Sweep(one)
    <2>1. \A i \in DOMAIN sessions' : ~sessions'[i].raced
      BY <1>1, <1>7 DEF Sweep, AloneInv, Session
    <2>2. req'[one] = Idle
      BY <1>1, <1>7 DEF Sweep, Finish
    <2>3. QED
      BY <1>1, <2>1, <2>2 DEF AloneInv, Current, Idle
  <1>8. CASE Enable(one) \/ Fail(one)
    <2>1. UNCHANGED sessions /\ req'[one] = Idle
      BY <1>1, <1>8 DEF Enable, Fail, Finish
    <2>2. QED
      BY <1>1, <2>1 DEF AloneInv, Current, Idle
  <1>9. ASSUME NEW i \in DOMAIN sessions, Expire(i)
        PROVE  AloneInv'
    <2>1. \A j \in DOMAIN sessions' : ~sessions'[j].raced
      BY <1>1, <1>9 DEF Expire, AloneInv, Session
    <2>2. UNCHANGED <<account, req>>
      BY <1>9 DEF Expire
    <2>3. QED
      BY <1>1, <2>1, <2>2 DEF AloneInv, Current
  <1>10. CASE UNCHANGED vars
    BY <1>1, <1>10 DEF vars, AloneInv, Current
  <1>11. QED
    BY <1>1, <1>3, <1>4, <1>5, <1>6, <1>7, <1>8, <1>9, <1>10 DEF Next, Step

(* The sessions that survive a revocation are the work of overlapping      *)
(* requests only: with one request at a time every live session was let in *)
(* by the current password, and a closed account has none.                 *)
THEOREM AloneRevokesAll ==
    ASSUME NEW one, Requests = {one}
    PROVE  Spec => [](SessionsMatchPassword /\ (Live # {} => account.active /\ ~account.deleted))
  <1>1. Init => AloneInv
    BY InitKeeps DEF Init, AloneInv, Current, Idle
  <1>2. AloneInv /\ [Next]_vars => AloneInv'
    BY AloneNext
  <1>3. AloneInv => SessionsMatchPassword /\ (Live # {} => account.active /\ ~account.deleted)
    BY AloneNoneStale DEF NoneStale, Stale, SessionsMatchPassword
  <1>4. QED
    BY <1>1, <1>2, <1>3, PTL DEF Spec

=============================================================================
