---------------------------- MODULE Subscriptions ----------------------------
(***************************************************************************)
(* The subscription life cycle of one user: every operation of             *)
(* SubscriptionsService that reads or writes the user's rows, run by       *)
(* concurrent HTTP requests against one Postgres database.                 *)
(*                                                                         *)
(* A request alternates between awaited Prisma statements and local code.  *)
(* Each statement is a step of its own, so whatever other requests commit  *)
(* between two of them is interleaved; the rows a request read before are  *)
(* kept in its record and used stale, as the code does.  A $transaction is *)
(* one step: every transaction here starts by writing the rows it replaces *)
(* and ends in the partial unique index, so concurrent ones serialise on   *)
(* the row lock or the index, and the one that cannot is rolled back with  *)
(* no effect, which Fail also models.                                      *)
(*                                                                         *)
(* Dates are ticks; a plan's billing cycle is a whole number of ticks (the *)
(* calendar arithmetic is module BillingPeriod).  canceledAt is kept as    *)
(* whether it is null; endDate, which no code reads back, is left out.     *)
(***************************************************************************)
EXTENDS Naturals, Sequences, FiniteSets

CONSTANTS
    Requests,      \* the HTTP requests that can be in flight at once
    Plans,         \* plan slugs
    Free,          \* the slug 'free'
    None,          \* null
    InitialPlans,  \* the plan table at the start: [Plans -> Setting \cup {None}]
    PlanWrites,    \* what admins may store: a set of <<plan, setting>>
    AdminStatuses, \* the statuses admins set
    MaxTime,       \* bound: the clock stops there
    MaxEvents      \* bound: plan changes, admin writes and failures in a run

Statuses == {"ACTIVE", "CANCELED", "EXPIRED", "PAST_DUE", "TRIALING"}

(* requestLimit null (unlimited) is 0, which the DTOs refuse (Min 1). *)
Unlimited == 0

Setting == [active : BOOLEAN, price : Nat, limit : Nat, cycle : Nat \ {0}]

ASSUME ConstantsAssumption ==
    /\ Free \in Plans
    /\ None \notin Plans
    /\ None \notin Setting
    /\ InitialPlans \in [Plans -> Setting \cup {None}]
    /\ PlanWrites \subseteq Plans \X Setting
    /\ AdminStatuses \subseteq Statuses
    /\ MaxTime \in Nat
    /\ MaxEvents \in Nat

VARIABLES
    now,     \* the clock
    plans,   \* table subscription_plans, None where no such plan exists
    subs,    \* the user's rows of table subscriptions, oldest first
    req,     \* what each request is doing and what it remembers
    events   \* plan changes, admin writes and failures so far (bounded)

vars == <<now, plans, subs, req, events>>

-----------------------------------------------------------------------------
(* Rows and plans. *)

Row == [status : Statuses, plan : Plans, since : Nat, start : Nat, end : Nat,
        canceled : BOOLEAN, scheduled : Plans \cup {None}]

ActiveRows == {i \in DOMAIN subs : subs[i].status = "ACTIVE"}

(* findFirst({status: ACTIVE}, orderBy createdAt desc). *)
IsCurrent(i) == i \in ActiveRows /\ \A j \in ActiveRows : j <= i

(* A row created now for plan p, whose period is one cycle from t on. *)
NewRow(p, t) ==
    [status |-> "ACTIVE", plan |-> p, since |-> t, start |-> t,
     end |-> t + plans[p].cycle, canceled |-> FALSE, scheduled |-> None]

Canceled(row) == [row EXCEPT !.status = "CANCELED", !.canceled = TRUE]

(* isHigherPlan: price first, then the limit, null being the largest. *)
IsHigherPlan(candidate, baseline) ==
    \/ candidate.price > baseline.price
    \/ /\ candidate.price = baseline.price
       /\ baseline.limit # Unlimited
       /\ candidate.limit = Unlimited \/ candidate.limit > baseline.limit

(* resolveScheduledPlan: the scheduled plan if it is there and active,    *)
(* else Free.                                                             *)
ScheduledPlan(p) ==
    IF p # None /\ plans[p] # None /\ plans[p].active THEN p ELSE Free

-----------------------------------------------------------------------------
(* Requests. *)

Ops == {"none", "read", "upgrade", "downgrade", "admin"}

Pcs == {"idle", "find", "provision", "insert", "adopt", "decide", "switch",
        "roll", "resolved", "restore", "replace", "schedule", "apply"}

Request ==
    [op : Ops, pc : Pcs,
     target : Plans \cup {None},      \* the slug asked for
     goal : Setting \cup {None},      \* targetPlan, as read at the start
     status : Statuses \cup {None},   \* the status an admin asked for
     id : Nat,                        \* position of the row it works on
     row : Row \cup {None},           \* that row, as last read
     plan : Setting \cup {None},      \* and its plan, as last read
     at : Nat]                        \* the clock, as last sampled

Idle == [op |-> "none", pc |-> "idle", target |-> None, goal |-> None,
         status |-> None, id |-> 0, row |-> None, plan |-> None, at |-> 0]

TypeOK ==
    /\ now \in Nat
    /\ plans \in [Plans -> Setting \cup {None}]
    /\ subs \in Seq(Row)
    /\ req \in [Requests -> Request]
    /\ events \in Nat

(* The user has just registered, or was seeded without a subscription. *)
Init ==
    /\ now = 0
    /\ plans = InitialPlans
    /\ subs \in {<<>>} \cup (IF plans[Free] = None THEN {} ELSE {<<NewRow(Free, 0)>>})
    /\ req = [r \in Requests |-> Idle]
    /\ events = 0

Spend == events < MaxEvents /\ events' = events + 1

(* The request is over, answered or thrown: it remembers nothing. *)
Finish(r) == req' = [req EXCEPT ![r] = Idle]

Goto(r, pc) == req' = [req EXCEPT ![r].pc = pc]

(* The request now holds row i as the database has it after this step. *)
Hold(r, i, pc) ==
    req' = [req EXCEPT ![r].pc = pc, ![r].id = i, ![r].row = subs'[i],
                       ![r].plan = plans[subs'[i].plan]]

-----------------------------------------------------------------------------
(* getCurrentSubscription: the part every operation starts with. *)

ReadStart(r) ==
    /\ req[r].pc = "idle"
    /\ req' = [req EXCEPT ![r].op = "read", ![r].pc = "find"]
    /\ UNCHANGED <<now, plans, subs, events>>

(* findFirst: the newest ACTIVE row, with its plan.  With none,            *)
(* createDefaultFreeSubscription takes over.                               *)
FindActive(r) ==
    /\ req[r].pc = "find"
    /\ UNCHANGED <<now, plans, subs, events>>
    /\ \/ \E i \in ActiveRows : IsCurrent(i) /\ Hold(r, i, "decide")
       \/ ActiveRows = {} /\ Goto(r, "provision")

(* createDefaultFreeSubscription: the plan is looked up, without it the    *)
(* code throws, and the new row is computed from it and the clock.         *)
Provision(r) ==
    /\ req[r].pc = "provision"
    /\ UNCHANGED <<now, plans, subs, events>>
    /\ IF plans[Free] = None THEN Finish(r)
       ELSE req' = [req EXCEPT ![r].pc = "insert", ![r].row = NewRow(Free, now)]

(* ... and that row is created, by then in the past; a P2002 of the unique *)
(* index means that another request has provisioned meanwhile.             *)
Insert(r) ==
    /\ req[r].pc = "insert"
    /\ UNCHANGED <<now, plans, events>>
    /\ \/ ActiveRows # {} /\ Goto(r, "adopt") /\ UNCHANGED subs
       \/ /\ ActiveRows = {}
          /\ subs' = Append(subs, req[r].row)
          /\ Hold(r, Len(subs'), "decide")

(* ... and its row is the answer, if it is still there. *)
Adopt(r) ==
    /\ req[r].pc = "adopt"
    /\ UNCHANGED <<now, plans, subs, events>>
    /\ \/ \E i \in ActiveRows : Hold(r, i, "decide")
       \/ ActiveRows = {} /\ Finish(r)

(* Mutant: a pending downgrade is carried out without waiting for the end. *)
AfterDecisionEager(row, t) ==
    CASE row.canceled                  -> "switch"
      [] ~row.canceled /\ t < row.end  -> "resolved"
      [] ~row.canceled /\ t >= row.end -> "roll"

(* now = new Date(), and what the row read before calls for. *)
AfterDecision(row, t) ==
    CASE t < row.end                   -> "resolved"
      [] t >= row.end /\ row.canceled  -> "switch"
      [] t >= row.end /\ ~row.canceled -> "roll"

Decide(r) ==
    /\ req[r].pc = "decide"
    /\ req' = [req EXCEPT ![r].pc = AfterDecision(req[r].row, now), ![r].at = now]
    /\ UNCHANGED <<now, plans, subs, events>>

(* Mutant: without the transaction, the row is cancelled first.            *)
SwitchInTwoSteps(r) ==
    /\ req[r].pc = "switch"
    /\ subs' = [subs EXCEPT ![req[r].id].status = "CANCELED"]
    /\ Goto(r, "provision")
    /\ UNCHANGED <<now, plans, events>>

(* The scheduled change is due: cancel the row, activate the next plan.    *)
(* When another row is ACTIVE, the insert breaks the unique index and the  *)
(* transaction is aborted; the recovery query of the P2002 handler runs in *)
(* the aborted transaction, so it throws too and everything is undone.     *)
Switch(r) ==
    LET me   == req[r]
        next == ScheduledPlan(me.row.scheduled)
    IN  /\ me.pc = "switch"
        /\ UNCHANGED <<now, plans, events>>
        /\ \/ /\ ActiveRows \subseteq {me.id} /\ plans[next] # None
              /\ subs' = Append([subs EXCEPT ![me.id].status = "CANCELED"],
                                NewRow(next, me.at))
              /\ Hold(r, Len(subs'), "resolved")
           \/ /\ ~(ActiveRows \subseteq {me.id}) \/ plans[next] = None
              /\ Finish(r) /\ UNCHANGED subs

(* Mutant: the new period starts when the request comes. *)
RollFromNow(r) ==
    LET me == req[r]
    IN  /\ me.pc = "roll"
        /\ subs' = [subs EXCEPT ![me.id].start = me.at,
                                ![me.id].end = me.at + me.plan.cycle]
        /\ Hold(r, me.id, "resolved")
        /\ UNCHANGED <<now, plans, events>>

(* Mutant: the next end is computed from the start of the old period. *)
RollFromStart(r) ==
    LET me == req[r]
    IN  /\ me.pc = "roll"
        /\ subs' = [subs EXCEPT ![me.id].end = me.row.start + me.plan.cycle]
        /\ Hold(r, me.id, "resolved")
        /\ UNCHANGED <<now, plans, events>>

(* Rollover: update by id, from the row as it was read.  One cycle only,   *)
(* however long ago the period ended.                                      *)
Roll(r) ==
    LET me == req[r]
    IN  /\ me.pc = "roll"
        /\ subs' = [subs EXCEPT ![me.id].start = me.row.end,
                                ![me.id].end = me.row.end + me.plan.cycle]
        /\ Hold(r, me.id, "resolved")
        /\ UNCHANGED <<now, plans, events>>

(* A read (GET subscription, status, the allowance check) ends here. *)
Reply(r) ==
    /\ req[r].op = "read" /\ req[r].pc = "resolved"
    /\ Finish(r)
    /\ UNCHANGED <<now, plans, subs, events>>

-----------------------------------------------------------------------------
(* upgrade and downgrade. *)

(* The target plan is looked up first; without it, or inactive, 404. *)
ChangeStart(r, op, p) ==
    /\ req[r].pc = "idle"
    /\ plans[p] # None /\ plans[p].active
    /\ Spend
    /\ req' = [req EXCEPT ![r].op = op, ![r].pc = "find",
                          ![r].target = p, ![r].goal = plans[p]]
    /\ UNCHANGED <<now, plans, subs>>

OnTarget(me) == me.row.plan = me.target /\ me.row.status = "ACTIVE"

(* What upgrade does next: 409 for the plan one is on, unless a downgrade  *)
(* is pending, which is then cancelled; 400 unless the target is higher.   *)
AfterUpgradeCheck(me) ==
    CASE OnTarget(me) /\ me.row.canceled  -> "restore"
      [] OnTarget(me) /\ ~me.row.canceled -> "idle"
      [] ~OnTarget(me) /\ IsHigherPlan(me.goal, me.plan)  -> "replace"
      [] ~OnTarget(me) /\ ~IsHigherPlan(me.goal, me.plan) -> "idle"

(* And downgrade: 400 for the same or a higher plan, 409 if one is pending. *)
AfterDowngradeCheck(me) ==
    IF /\ me.row.plan # me.target
       /\ IsHigherPlan(me.plan, me.goal)
       /\ ~me.row.canceled
      THEN "schedule" ELSE "idle"

Check(r) ==
    LET pc == IF req[r].op = "upgrade" THEN AfterUpgradeCheck(req[r])
                                       ELSE AfterDowngradeCheck(req[r])
    IN  /\ req[r].op \in {"upgrade", "downgrade"} /\ req[r].pc = "resolved"
        /\ IF pc = "idle" THEN Finish(r)
           ELSE req' = [req EXCEPT ![r].pc = pc, ![r].at = now]
        /\ UNCHANGED <<now, plans, subs, events>>

(* Mutant: scheduledPlanId is not reset. *)
RestoreKeepsPlan(r) ==
    /\ req[r].pc = "restore"
    /\ subs' = [subs EXCEPT ![req[r].id].canceled = FALSE]
    /\ Finish(r)
    /\ UNCHANGED <<now, plans, events>>

(* upgrade to the plan one is on: the pending downgrade is cancelled. *)
Restore(r) ==
    /\ req[r].pc = "restore"
    /\ subs' = [subs EXCEPT ![req[r].id].canceled = FALSE,
                            ![req[r].id].scheduled = None]
    /\ Finish(r)
    /\ UNCHANGED <<now, plans, events>>

(* upgrade: cancel the row (if it was ACTIVE when read) and insert the     *)
(* new one; the unique index aborts both when another row is ACTIVE.       *)
Replace(r) ==
    LET me   == req[r]
        mine == IF me.row.status = "ACTIVE" THEN {me.id} ELSE {}
    IN  /\ me.pc = "replace"
        /\ \/ /\ ActiveRows \subseteq mine
              /\ subs' = Append([i \in DOMAIN subs |->
                                   IF i \in mine THEN Canceled(subs[i]) ELSE subs[i]],
                                [NewRow(me.target, me.at) EXCEPT !.end = me.at + me.goal.cycle])
           \/ ~(ActiveRows \subseteq mine) /\ UNCHANGED subs
        /\ Finish(r)
        /\ UNCHANGED <<now, plans, events>>

(* downgrade: the change is scheduled on the row that was read, by id. *)
Schedule(r) ==
    /\ req[r].pc = "schedule"
    /\ subs' = [subs EXCEPT ![req[r].id].canceled = TRUE,
                            ![req[r].id].scheduled = req[r].target]
    /\ Finish(r)
    /\ UNCHANGED <<now, plans, events>>

-----------------------------------------------------------------------------
(* Admins. *)

AdminStart(r, i, s) ==
    /\ req[r].pc = "idle"
    /\ i \in DOMAIN subs
    /\ Spend
    /\ req' = [req EXCEPT ![r].op = "admin", ![r].pc = "apply", ![r].id = i,
                          ![r].row = subs[i], ![r].status = s]
    /\ UNCHANGED <<now, plans, subs>>

(* adminUpdateSubscriptionStatus: activating a row that was not ACTIVE     *)
(* when read cancels the others; either way the unique index has the last  *)
(* word.  canceledAt and scheduledPlanId of the row stay as they are.      *)
AdminApply(r) ==
    LET me     == req[r]
        others == IF me.status = "ACTIVE" /\ me.row.status # "ACTIVE"
                    THEN ActiveRows \ {me.id} ELSE {}
        after  == [i \in DOMAIN subs |->
                     IF i = me.id THEN [subs[i] EXCEPT !.status = me.status]
                     ELSE IF i \in others THEN Canceled(subs[i]) ELSE subs[i]]
    IN  /\ me.pc = "apply"
        /\ subs' = IF me.status = "ACTIVE" /\ ActiveRows \ (others \cup {me.id}) # {}
                     THEN subs ELSE after
        /\ Finish(r)
        /\ UNCHANGED <<now, plans, events>>

(* adminCreatePlan, adminUpdatePlan: plans are never deleted. *)
AdminWritePlan(p, s) ==
    /\ plans[p] # s
    /\ Spend
    /\ plans' = [plans EXCEPT ![p] = s]
    /\ UNCHANGED <<now, subs, req>>

-----------------------------------------------------------------------------
(* A statement of the request fails or its server dies: what it committed  *)
(* before stays, the rest never happens.                                   *)
Fail(r) ==
    /\ req[r].pc # "idle"
    /\ Spend
    /\ Finish(r)
    /\ UNCHANGED <<now, plans, subs>>

Tick ==
    /\ now < MaxTime
    /\ now' = now + 1
    /\ UNCHANGED <<plans, subs, req, events>>

(* What request r does of its own once started. *)
Step(r) ==
    \/ FindActive(r) \/ Provision(r) \/ Insert(r) \/ Adopt(r) \/ Decide(r)
    \/ Switch(r) \/ Roll(r) \/ Reply(r) \/ Check(r) \/ Restore(r) \/ Replace(r)
    \/ Schedule(r) \/ AdminApply(r)

Start(r) ==
    \/ ReadStart(r)
    \/ \E op \in {"upgrade", "downgrade"}, p \in Plans : ChangeStart(r, op, p)
    \/ \E i \in DOMAIN subs, s \in AdminStatuses : AdminStart(r, i, s)

Next ==
    \/ \E r \in Requests : Start(r) \/ Step(r) \/ Fail(r)
    \/ \E w \in PlanWrites : AdminWritePlan(w[1], w[2])
    \/ Tick

(* The event loop and the database serve a request that has started. *)
Spec == Init /\ [][Next]_vars /\ \A r \in Requests : WF_vars(Step(r))

-----------------------------------------------------------------------------
(* Properties. *)

(* At most one row is ACTIVE, and a plan is only ever scheduled on a row   *)
(* whose cancellation is pending (canceledAt set), so that restoring a row *)
(* forgets the scheduled plan and no later cancellation picks it up again. *)
OneActive == \A i, j \in ActiveRows : i = j
ScheduledIsPending == \A i \in DOMAIN subs : subs[i].scheduled # None => subs[i].canceled

RowsCoherent == OneActive /\ ScheduledIsPending

(* No admin ever writes another billing cycle for plan p. *)
CycleIsFixed(p) == \A w \in PlanWrites : w[1] = p => w[2].cycle = InitialPlans[p].cycle

(* Billing windows tile time from the row's first day on: whatever stale   *)
(* rows concurrent rollovers write, a window is one cycle long, starts a   *)
(* whole number of cycles after the row was created, and never before it   *)
(* is due.  So no instant is metered twice or by none of the windows.      *)
WindowsOnGrid ==
    \A i \in DOMAIN subs :
      LET row == subs[i] IN
      (plans[row.plan] # None /\ CycleIsFixed(row.plan)) =>
        /\ row.end = row.start + plans[row.plan].cycle
        /\ row.start \in row.since .. now
        /\ (row.start - row.since) % plans[row.plan].cycle = 0

(* A user with an ACTIVE subscription never loses it to a plan change, a   *)
(* rollover, a failure or a race of them: only an admin can take it away.  *)
CoverageKept ==
    [][ActiveRows # {} => ActiveRows' # {} \/ \E r \in Requests : AdminApply(r)]_vars

(* In this step row i stops being ACTIVE before its period is over, and    *)
(* the user is left with a lower plan or none, by nobody's order.          *)
LostEarly(i) ==
    /\ subs[i].status = "ACTIVE" /\ subs'[i].status # "ACTIVE"
    /\ now < subs[i].end
    /\ \A j \in ActiveRows' :
          IsHigherPlan(plans[subs[i].plan], plans[subs'[j].plan])
    /\ ~\E r \in Requests : AdminApply(r)

(* Since request r read the two plans of its upgrade, an administrator has *)
(* rewritten the price or the limit of one of them.                        *)
SameRank(s, t) == s.price = t.price /\ s.limit = t.limit

Repriced(r) ==
    \/ ~SameRank(req[r].goal, plans[req[r].target])
    \/ ~SameRank(req[r].plan, plans[req[r].row.plan])

(* The entitlement of a period is lost early only to a switch that read    *)
(* the row when its downgrade was due and commits after another request    *)
(* has rolled the row into a new period, or to an upgrade that read the    *)
(* plans before an administrator repriced one: no downgrade, rollover or   *)
(* failure, and no other race of them, takes a plan away in mid-period.    *)
KeptForThePeriod ==
    [][\A i \in DOMAIN subs :
         LostEarly(i) =>
           \E r \in Requests :
             /\ req[r].id = i
             /\ \/ Switch(r) /\ req[r].row.end < subs[i].end
                \/ Replace(r) /\ Repriced(r)]_vars

(* subscriptions.controller.ts:98 on downgrade: "at the end of the current *)
(* billing cycle".  A row with a pending downgrade is thus never moved     *)
(* into another period.  It can be: a request that read the row before the *)
(* downgrade and the clock after the period's end rolls it over by id.     *)
DowngradeOnTime ==
    [][\A i \in ActiveRows :
         subs[i].scheduled # None =>
           subs'[i].end = subs[i].end \/ subs'[i].scheduled = None]_vars

(* However long a user stayed away and however requests race, a user who   *)
(* keeps coming back ends up in the billing window the clock is in, with   *)
(* every due rollover and every due downgrade carried out.  (Failures are  *)
(* bounded and the clock stops, so this asks for it once both have.)       *)
InCurrentWindow ==
    \E i \in ActiveRows : subs[i].start <= now /\ now < subs[i].end

CatchesUp ==
    ([]<><<\E r \in Requests : ReadStart(r)>>_vars /\ [](plans[Free] # None))
      => <>[]InCurrentWindow

=============================================================================
