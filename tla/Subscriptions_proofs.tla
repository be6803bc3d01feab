------------------------- MODULE Subscriptions_proofs -------------------------
(* Proofs about Subscriptions, for any number of concurrent requests, any    *)
(* plans and settings, and any bounds: the rows are well typed and coherent. *)
EXTENDS Subscriptions, TLAPS

-----------------------------------------------------------------------------
(* What a request remembers at each point: a row that exists, with its     *)
(* plan, from FindActive on, or one it is about to create; a target plan   *)
(* during upgrade and downgrade.                                           *)
Holding == {"decide", "switch", "roll", "resolved", "restore", "replace", "schedule"}

RequestInv(me) ==
    /\ me.pc \in Holding =>
         me.id \in DOMAIN subs /\ me.row \in Row /\ me.plan \in Setting
    /\ me.pc = "insert" =>
         me.row \in Row /\ me.row.scheduled = None /\ plans[me.row.plan] # None
    /\ me.pc = "apply" =>
         me.id \in DOMAIN subs /\ me.row \in Row /\ me.status \in Statuses
    /\ me.op \in {"upgrade", "downgrade"} =>
         me.target \in Plans /\ plans[me.target] # None /\ me.goal \in Setting
    /\ me.pc \in {"restore", "replace", "schedule"} => me.op \in {"upgrade", "downgrade"}

(* Plans are never deleted, so a row's plan is always there. *)
RowsHavePlans == \A i \in DOMAIN subs : plans[subs[i].plan] # None

SubsInv ==
    /\ TypeOK
    /\ OneActive
    /\ ScheduledIsPending
    /\ RowsHavePlans
    /\ \A r \in Requests : RequestInv(req[r])

-----------------------------------------------------------------------------
(* A new row is a row, on a plan that is there. *)
LEMMA NewRowIsRow ==
    ASSUME TypeOK, NEW p \in Plans, plans[p] # None, NEW t \in Nat
    PROVE  /\ NewRow(p, t) \in Row
           /\ NewRow(p, t).status = "ACTIVE" /\ NewRow(p, t).plan = p
           /\ NewRow(p, t).scheduled = None
  <1>1. plans[p].cycle \in Nat
    BY DEF TypeOK, Setting
  <1>2. QED
    BY <1>1 DEF NewRow, Row, Statuses

LEMMA ScheduledPlanIsPlan ==
    ASSUME NEW p \in Plans \cup {None}
    PROVE  ScheduledPlan(p) \in Plans
  BY ConstantsAssumption DEF ScheduledPlan

LEMMA CanceledIsRow ==
    ASSUME NEW row \in Row
    PROVE  /\ Canceled(row) \in Row /\ Canceled(row).status = "CANCELED"
           /\ Canceled(row).plan = row.plan /\ Canceled(row).canceled
           /\ Canceled(row).scheduled = row.scheduled
  BY DEF Canceled, Row, Statuses

-----------------------------------------------------------------------------
(* The four ways a step changes the table: not at all, one field of a row, *)
(* cancelling rows, and cancelling rows while appending an ACTIVE one.     *)
(* Each keeps what the invariant says of the table.                        *)
TableInv ==
    /\ subs \in Seq(Row)
    /\ OneActive
    /\ ScheduledIsPending
    /\ RowsHavePlans

(* Every row that was there is still there. *)
Grown == DOMAIN subs \subseteq DOMAIN subs'

LEMMA TableAppend ==
    ASSUME TableInv, plans' = plans,
           NEW old \in [DOMAIN subs -> Row], NEW new \in Row,
           subs' = Append(old, new),
           \A i \in DOMAIN subs : /\ old[i].status # "ACTIVE"
                                  /\ old[i].plan = subs[i].plan
                                  /\ old[i].scheduled # None => old[i].canceled,
           new.scheduled = None, plans[new.plan] # None
    PROVE  TableInv' /\ Grown /\ Len(subs') \in DOMAIN subs'
  <1>1. /\ DOMAIN subs = 1 .. Len(subs) /\ Len(subs) \in Nat /\ old \in Seq(Row)
        /\ Len(old) = Len(subs)
    BY DEF TableInv
  <1>2. /\ subs' \in Seq(Row) /\ DOMAIN subs' = 1 .. Len(subs) + 1
        /\ Len(subs') = Len(subs) + 1
        /\ subs'[Len(subs) + 1] = new
        /\ \A i \in 1 .. Len(subs) : subs'[i] = old[i]
    BY <1>1
  <1>3. OneActive'
    BY <1>1, <1>2 DEF OneActive, ActiveRows
  <1>4. ScheduledIsPending' /\ RowsHavePlans'
    BY <1>1, <1>2 DEF ScheduledIsPending, RowsHavePlans, TableInv
  <1>5. QED
    BY <1>1, <1>2, <1>3, <1>4 DEF TableInv, Grown

LEMMA TableUpdate ==
    ASSUME TableInv, plans' = plans, subs' \in [DOMAIN subs -> Row], OneActive',
           \A i \in DOMAIN subs : /\ subs'[i].plan = subs[i].plan
                                  /\ subs'[i].scheduled # None => subs'[i].canceled
    PROVE  TableInv' /\ Grown
  <1>1. DOMAIN subs = 1 .. Len(subs) /\ Len(subs) \in Nat
    BY DEF TableInv
  <1>2. subs' \in Seq(Row) /\ DOMAIN subs' = DOMAIN subs
    BY <1>1
  <1>3. ScheduledIsPending' /\ RowsHavePlans'
    BY <1>1, <1>2 DEF ScheduledIsPending, RowsHavePlans, TableInv
  <1>4. QED
    BY <1>2, <1>3 DEF TableInv, Grown

-----------------------------------------------------------------------------
(* A step of request r keeps the whole invariant as soon as it keeps that  *)
(* of the table and leaves r itself in a state that has it: what the other *)
(* requests hold are rows, and no row ever goes away.                      *)
LEMMA StepOf ==
    ASSUME SubsInv, NEW r \in Requests,
           TableInv', Grown, plans' = plans, now' \in Nat, events' \in Nat,
           req' = [req EXCEPT ![r] = req'[r]], req'[r] \in Request, RequestInv(req[r])'
    PROVE  SubsInv'
  <1>1. req' \in [Requests -> Request]
    BY DEF SubsInv, TypeOK
  <1>2. ASSUME NEW q \in Requests
        PROVE  RequestInv(req[q])'
    <2>1. CASE q = r
      BY <2>1
    <2>2. CASE q # r
      <3>1. req'[q] = req[q] /\ req[q] \in Request /\ RequestInv(req[q])
        BY <2>2 DEF SubsInv, TypeOK
      <3>2. QED
        BY <3>1 DEF RequestInv, Grown
    <2>3. QED
      BY <2>1, <2>2
  <1>3. QED
    BY <1>1, <1>2 DEF SubsInv, TypeOK, TableInv

LEMMA TableUnchanged ==
    ASSUME SubsInv, UNCHANGED <<subs, plans>>
    PROVE  TableInv /\ TableInv' /\ Grown
  BY DEF SubsInv, TypeOK, TableInv, Grown, OneActive, ActiveRows,
         ScheduledIsPending, RowsHavePlans

LEMMA SubsInvFacts ==
    ASSUME SubsInv, NEW r \in Requests
    PROVE  /\ TableInv /\ TypeOK
           /\ req[r] \in Request /\ RequestInv(req[r])
           /\ \A i \in DOMAIN subs : /\ subs[i] \in Row
                                     /\ plans[subs[i].plan] \in Setting
           /\ \A p \in Plans : plans[p] # None => plans[p] \in Setting
  <1>1. /\ TableInv /\ TypeOK /\ req[r] \in Request /\ RequestInv(req[r])
        /\ \A i \in DOMAIN subs : subs[i] \in Row
        /\ \A p \in Plans : plans[p] # None => plans[p] \in Setting
    BY DEF SubsInv, TypeOK, TableInv
  <1>2. ASSUME NEW i \in DOMAIN subs
        PROVE  plans[subs[i].plan] \in Setting
    <2>1. subs[i].plan \in Plans
      BY <1>1 DEF Row
    <2>2. QED
      BY <1>1, <2>1 DEF TableInv, RowsHavePlans
  <1>3. QED
    BY <1>1, <1>2

-----------------------------------------------------------------------------
(* A request that finishes, goes to a point where it holds nothing, or     *)
(* holds a row after the step.                                             *)
LEMMA Finishing ==
    ASSUME SubsInv, NEW r \in Requests, Finish(r),
           TableInv', Grown, plans' = plans, now' \in Nat, events' \in Nat
    PROVE  SubsInv'
  <1>1. req'[r] = Idle /\ Idle \in Request
    BY DEF Finish, SubsInv, TypeOK, Idle, Request, Ops, Pcs
  <1>2. RequestInv(req[r])'
    BY <1>1 DEF RequestInv, Idle, Holding
  <1>3. QED
    BY <1>1, <1>2, StepOf DEF Finish

LEMMA HoldingRow ==
    ASSUME SubsInv, NEW r \in Requests, NEW i \in DOMAIN subs',
           NEW pc \in {"decide", "resolved"}, Hold(r, i, pc),
           TableInv', Grown, plans' = plans, now' \in Nat, events' \in Nat
    PROVE  SubsInv'
  <1>1. /\ subs'[i] \in Row /\ plans[subs'[i].plan] \in Setting /\ i \in Nat
    <2>1. subs' \in Seq(Row) /\ plans \in [Plans -> Setting \cup {None}]
      BY DEF TableInv, SubsInv, TypeOK
    <2>2. subs'[i] \in Row /\ i \in Nat
      BY <2>1
    <2>3. subs'[i].plan \in Plans
      BY <2>2 DEF Row
    <2>4. QED
      BY <2>1, <2>2, <2>3 DEF TableInv, RowsHavePlans
  <1>2. req[r] \in Request /\ RequestInv(req[r])
    BY SubsInvFacts
  <1>3. /\ req'[r] \in Request
        /\ req'[r].pc = pc /\ req'[r].op = req[r].op
        /\ req'[r].target = req[r].target /\ req'[r].goal = req[r].goal
        /\ req'[r].id = i /\ req'[r].row = subs'[i]
        /\ req'[r].plan = plans[subs'[i].plan]
    BY <1>1, <1>2 DEF Hold, Request, Pcs, SubsInv, TypeOK
  <1>4. RequestInv(req[r])'
    BY <1>1, <1>2, <1>3 DEF RequestInv, Request, Holding
  <1>5. req' = [req EXCEPT ![r] = req'[r]]
    BY DEF Hold, SubsInv, TypeOK
  <1>6. QED
    BY <1>3, <1>4, <1>5, StepOf

-----------------------------------------------------------------------------
(* One lemma per action.  Those of getCurrentSubscription: *)

LEMMA ReadStartKeeps ==
    ASSUME SubsInv, NEW r \in Requests, ReadStart(r)
    PROVE  SubsInv'
  <1>1. TableInv' /\ Grown
    BY TableUnchanged DEF ReadStart
  <1>2. /\ req' = [req EXCEPT ![r] = req'[r]] /\ req'[r] \in Request
        /\ RequestInv(req[r])'
    BY SubsInvFacts DEF ReadStart, SubsInv, TypeOK, RequestInv, Request, Holding, Ops, Pcs
  <1>3. QED
    BY <1>1, <1>2, StepOf DEF ReadStart, SubsInv, TypeOK

LEMMA FindActiveKeeps ==
    ASSUME SubsInv, NEW r \in Requests, FindActive(r)
    PROVE  SubsInv'
  <1>1. TableInv' /\ Grown /\ subs' = subs /\ plans' = plans
    BY TableUnchanged DEF FindActive
  <1>2. ASSUME NEW i \in ActiveRows, Hold(r, i, "decide")
        PROVE  SubsInv'
    <2>1. i \in DOMAIN subs'
      BY <1>1, <1>2 DEF ActiveRows
    <2>2. QED
      BY <1>1, <1>2, <2>1, HoldingRow DEF FindActive, SubsInv, TypeOK
  <1>3. CASE Goto(r, "provision")
    <2>1. /\ req' = [req EXCEPT ![r] = req'[r]] /\ req'[r] \in Request
          /\ RequestInv(req[r])'
      BY <1>1, <1>3, SubsInvFacts
         DEF Goto, SubsInv, TypeOK, RequestInv, Request, Holding, Pcs
    <2>2. QED
      BY <1>1, <2>1, StepOf DEF FindActive, SubsInv, TypeOK
  <1>4. QED
    BY <1>2, <1>3 DEF FindActive

LEMMA ProvisionKeeps ==
    ASSUME SubsInv, NEW r \in Requests, Provision(r)
    PROVE  SubsInv'
  <1>0. now' \in Nat /\ events' \in Nat /\ plans' = plans /\ now \in Nat
    BY DEF Provision, SubsInv, TypeOK
  <1>1. UNCHANGED subs
    BY DEF Provision
  <1>2. CASE Finish(r)
    BY <1>0, <1>1, <1>2, TableUnchanged, Finishing
  <1>3. CASE /\ plans[Free] # None
             /\ req' = [req EXCEPT ![r].pc = "insert", ![r].row = NewRow(Free, now)]
    <2>1. /\ NewRow(Free, now) \in Row /\ NewRow(Free, now).scheduled = None
          /\ NewRow(Free, now).plan = Free
      BY <1>0, <1>3, NewRowIsRow, ConstantsAssumption DEF SubsInv
    <2>2. req[r] \in Request /\ RequestInv(req[r]) /\ req[r].pc = "provision"
      BY SubsInvFacts DEF Provision
    <2> DEFINE new == NewRow(Free, now)
               me  == [req[r] EXCEPT !.pc = "insert", !.row = new]
    <2>3. /\ req' = [req EXCEPT ![r] = req'[r]] /\ req'[r] \in Request
          /\ req'[r].pc = "insert" /\ req'[r].row = NewRow(Free, now)
          /\ req'[r].op = req[r].op /\ req'[r].target = req[r].target
          /\ req'[r].goal = req[r].goal
      <3>1. new \in Row
        BY <2>1
      <3>2. req \in [Requests -> Request] /\ req' = [req EXCEPT ![r] = me]
        BY <1>3, <2>2 DEF SubsInv, TypeOK, Request
      <3> HIDE DEF new
      <3>3. /\ me \in Request /\ me.pc = "insert" /\ me.row = new /\ me.op = req[r].op
            /\ me.target = req[r].target /\ me.goal = req[r].goal
        BY <2>2, <3>1 DEF Request, Pcs
      <3> HIDE DEF me
      <3>4. QED
        BY <3>2, <3>3 DEF new
    <2>4. RequestInv(req[r])'
      BY <1>0, <1>3, <2>1, <2>2, <2>3 DEF RequestInv, Holding
    <2>5. QED
      BY <1>0, <1>1, <2>3, <2>4, TableUnchanged, StepOf
  <1>4. QED
    BY <1>2, <1>3 DEF Provision

LEMMA InsertKeeps ==
    ASSUME SubsInv, NEW r \in Requests, Insert(r)
    PROVE  SubsInv'
  <1>0. /\ now' \in Nat /\ events' \in Nat /\ plans' = plans
        /\ req[r].pc = "insert" /\ RequestInv(req[r])
    BY SubsInvFacts DEF Insert, SubsInv, TypeOK
  <1>1. CASE Goto(r, "adopt") /\ UNCHANGED subs
    <2>1. /\ req' = [req EXCEPT ![r] = req'[r]] /\ req'[r] \in Request
          /\ req'[r].pc = "adopt" /\ req'[r].op = req[r].op
          /\ req'[r].target = req[r].target /\ req'[r].goal = req[r].goal
      BY <1>1, SubsInvFacts DEF Goto, SubsInv, TypeOK, Request, Pcs
    <2>2. RequestInv(req[r])'
      BY <1>0, <2>1 DEF RequestInv, Holding
    <2>3. QED
      BY <1>0, <1>1, <2>1, <2>2, TableUnchanged, StepOf
  <1>2. CASE /\ ActiveRows = {}
             /\ subs' = Append(subs, req[r].row)
             /\ Hold(r, Len(subs'), "decide")
    <2>1. /\ req[r].row \in Row /\ req[r].row.scheduled = None
          /\ plans[req[r].row.plan] # None
      BY <1>0 DEF RequestInv
    <2>2. TableInv /\ subs \in [DOMAIN subs -> Row]
      BY SubsInvFacts DEF TableInv
    <2>3. TableInv' /\ Grown /\ Len(subs') \in DOMAIN subs'
      BY <1>0, <1>2, <2>1, <2>2, TableAppend DEF ActiveRows, TableInv, ScheduledIsPending
    <2>4. QED
      BY <1>0, <1>2, <2>3, HoldingRow
  <1>3. QED
    BY <1>1, <1>2 DEF Insert

LEMMA AdoptKeeps ==
    ASSUME SubsInv, NEW r \in Requests, Adopt(r)
    PROVE  SubsInv'
  <1>1. /\ TableInv' /\ Grown /\ subs' = subs /\ plans' = plans
        /\ now' \in Nat /\ events' \in Nat
    BY TableUnchanged DEF Adopt, SubsInv, TypeOK
  <1>2. ASSUME NEW i \in ActiveRows, Hold(r, i, "decide")
        PROVE  SubsInv'
    <2>1. i \in DOMAIN subs'
      BY <1>1, <1>2 DEF ActiveRows
    <2>2. QED
      BY <1>1, <1>2, <2>1, HoldingRow
  <1>3. CASE Finish(r)
    BY <1>1, <1>3, Finishing
  <1>4. QED
    BY <1>2, <1>3 DEF Adopt

LEMMA DecideKeeps ==
    ASSUME SubsInv, NEW r \in Requests, Decide(r)
    PROVE  SubsInv'
  <1>1. /\ TableInv' /\ Grown /\ subs' = subs /\ plans' = plans
        /\ now' \in Nat /\ events' \in Nat /\ now \in Nat
    BY TableUnchanged DEF Decide, SubsInv, TypeOK
  <1>2. /\ req[r] \in Request /\ RequestInv(req[r])
        /\ req[r].row.end \in Nat /\ req[r].row.canceled \in BOOLEAN
    <2>1. req[r] \in Request /\ RequestInv(req[r])
      BY SubsInvFacts
    <2>2. req[r].row \in Row
      BY <2>1 DEF Decide, RequestInv, Holding
    <2>3. QED
      BY <2>1, <2>2 DEF Row
  <1>3. AfterDecision(req[r].row, now) \in {"resolved", "switch", "roll"}
    BY <1>1, <1>2 DEF AfterDecision
  <1>4. /\ req' = [req EXCEPT ![r] = req'[r]] /\ req'[r] \in Request
        /\ RequestInv(req[r])'
    BY <1>1, <1>2, <1>3
       DEF Decide, SubsInv, TypeOK, RequestInv, Request, Holding, Pcs
  <1>5. QED
    BY <1>1, <1>4, StepOf

LEMMA SwitchKeeps ==
    ASSUME SubsInv, NEW r \in Requests, Switch(r)
    PROVE  SubsInv'
  <1> DEFINE me   == req[r]
             next == ScheduledPlan(me.row.scheduled)
             old  == [subs EXCEPT ![me.id].status = "CANCELED"]
             new  == NewRow(next, me.at)
  <1>0. now' \in Nat /\ events' \in Nat /\ plans' = plans
    BY DEF Switch, SubsInv, TypeOK
  <1>1. /\ me \in Request /\ TableInv /\ TypeOK
        /\ me.id \in DOMAIN subs /\ me.row \in Row
        /\ \A i \in DOMAIN subs : subs[i] \in Row
    BY SubsInvFacts DEF Switch, RequestInv, Holding
  <1>2. next \in Plans /\ me.at \in Nat
    BY <1>1, ScheduledPlanIsPlan DEF Row, Request
  <1>3. CASE Finish(r) /\ UNCHANGED subs
    BY <1>0, <1>3, TableUnchanged, Finishing
  <1>4. CASE /\ ActiveRows \subseteq {me.id} /\ plans[next] # None
             /\ subs' = Append(old, new)
             /\ Hold(r, Len(subs'), "resolved")
    <2>1. new \in Row /\ new.scheduled = None /\ new.plan = next
      BY <1>1, <1>2, <1>4, NewRowIsRow
    <2>2. old \in [DOMAIN subs -> Row]
      BY <1>1 DEF Row, Statuses
    <2>3. ASSUME NEW i \in DOMAIN subs
          PROVE  /\ old[i].status # "ACTIVE"
                 /\ old[i].plan = subs[i].plan
                 /\ old[i].scheduled # None => old[i].canceled
      <3>1. subs[i] \in Row /\ (subs[i].scheduled # None => subs[i].canceled)
        BY <1>1 DEF TableInv, ScheduledIsPending
      <3>2. i # me.id => subs[i].status # "ACTIVE"
        BY <1>4 DEF ActiveRows
      <3>3. QED
        BY <3>1, <3>2 DEF Row
    <2>4. TableInv' /\ Grown /\ Len(subs') \in DOMAIN subs'
      <3> HIDE DEF old, new, next
      <3>1. QED
        BY <1>0, <1>1, <1>4, <2>1, <2>2, <2>3, TableAppend
    <2>5. QED
      BY <1>0, <1>4, <2>4, HoldingRow
  <1>5. QED
    BY <1>3, <1>4 DEF Switch

LEMMA RollKeeps ==
    ASSUME SubsInv, NEW r \in Requests, Roll(r)
    PROVE  SubsInv'
  <1> DEFINE me == req[r]
  <1>0. now' \in Nat /\ events' \in Nat /\ plans' = plans
    BY DEF Roll, SubsInv, TypeOK
  <1>1. /\ me \in Request /\ TableInv
        /\ me.id \in DOMAIN subs /\ me.row \in Row /\ me.plan \in Setting
        /\ \A i \in DOMAIN subs : subs[i] \in Row
    BY SubsInvFacts DEF Roll, RequestInv, Holding
  <1>2. /\ subs' \in [DOMAIN subs -> Row]
        /\ \A i \in DOMAIN subs : /\ subs'[i].status = subs[i].status
                                  /\ subs'[i].plan = subs[i].plan
                                  /\ subs'[i].canceled = subs[i].canceled
                                  /\ subs'[i].scheduled = subs[i].scheduled
    <2>1. me.row.end \in Nat /\ me.row.end + me.plan.cycle \in Nat
      BY <1>1 DEF Row, Setting
    <2>2. QED
      BY <1>1, <2>1 DEF Roll, Row
  <1>3. OneActive'
    BY <1>1, <1>2 DEF TableInv, OneActive, ActiveRows
  <1>4. TableInv' /\ Grown
    BY <1>0, <1>1, <1>2, <1>3, TableUpdate DEF TableInv, ScheduledIsPending
  <1>5. me.id \in DOMAIN subs' /\ Hold(r, me.id, "resolved")
    BY <1>1, <1>4 DEF Roll, Grown
  <1>6. QED
    BY <1>0, <1>4, <1>5, HoldingRow

LEMMA ReplyKeeps ==
    ASSUME SubsInv, NEW r \in Requests, Reply(r)
    PROVE  SubsInv'
  BY TableUnchanged, Finishing DEF Reply, SubsInv, TypeOK

-----------------------------------------------------------------------------
(* upgrade and downgrade. *)

LEMMA ChangeStartKeeps ==
    ASSUME SubsInv, NEW r \in Requests,
           NEW op \in {"upgrade", "downgrade"}, NEW p \in Plans, ChangeStart(r, op, p)
    PROVE  SubsInv'
  <1>1. /\ TableInv' /\ Grown /\ plans' = plans /\ plans[p] \in Setting
        /\ now' \in Nat /\ events' \in Nat
    BY TableUnchanged, SubsInvFacts DEF ChangeStart, Spend, SubsInv, TypeOK
  <1>2. /\ req' = [req EXCEPT ![r] = req'[r]] /\ req'[r] \in Request
        /\ RequestInv(req[r])'
    BY <1>1, SubsInvFacts
       DEF ChangeStart, SubsInv, TypeOK, RequestInv, Request, Holding, Pcs, Ops
  <1>3. QED
    BY <1>1, <1>2, StepOf

LEMMA CheckKeeps ==
    ASSUME SubsInv, NEW r \in Requests, Check(r)
    PROVE  SubsInv'
  <1> DEFINE me == req[r]
             pc == IF me.op = "upgrade" THEN AfterUpgradeCheck(me)
                                        ELSE AfterDowngradeCheck(me)
  <1>1. /\ TableInv' /\ Grown /\ subs' = subs /\ plans' = plans
        /\ now' \in Nat /\ events' \in Nat /\ now \in Nat
    BY TableUnchanged DEF Check, SubsInv, TypeOK
  <1>2. /\ me \in Request /\ RequestInv(me) /\ me.row \in Row
        /\ me.op \in {"upgrade", "downgrade"} /\ me.pc = "resolved"
    BY SubsInvFacts DEF Check, RequestInv, Holding
  <1>3. pc \in {"idle", "restore", "replace", "schedule"}
    <2>1. me.row.canceled \in BOOLEAN /\ IsHigherPlan(me.goal, me.plan) \in BOOLEAN
      <3>1. me.row.canceled \in BOOLEAN
        BY <1>2 DEF Row
      <3>2. QED
        BY <3>1 DEF IsHigherPlan
    <2>2. OnTarget(me) \in BOOLEAN
      BY DEF OnTarget
    <2>3. AfterUpgradeCheck(me) \in {"idle", "restore", "replace"}
      BY <2>1, <2>2 DEF AfterUpgradeCheck
    <2>4. AfterDowngradeCheck(me) \in {"idle", "schedule"}
      BY DEF AfterDowngradeCheck
    <2>5. QED
      BY <2>3, <2>4
  <1>4. CASE pc = "idle"
    BY <1>1, <1>4, Finishing DEF Check
  <1>5. CASE pc # "idle"
    <2>1. req' = [req EXCEPT ![r].pc = pc, ![r].at = now]
      BY <1>5 DEF Check
    <2> HIDE DEF pc
    <2>2. /\ req' = [req EXCEPT ![r] = req'[r]] /\ req'[r] \in Request
          /\ RequestInv(req[r])'
      BY <1>1, <1>2, <1>3, <1>5, <2>1
         DEF SubsInv, TypeOK, RequestInv, Request, Holding, Pcs
    <2>3. QED
      BY <1>1, <2>2, StepOf
  <1>6. QED
    BY <1>4, <1>5

(* What Restore and Schedule do to the row they hold. *)
LEMMA PendingSet ==
    ASSUME SubsInv, NEW r \in Requests, req[r].pc \in {"restore", "schedule"},
           plans' = plans, NEW c \in BOOLEAN, NEW s \in Plans \cup {None},
           s # None => c,
           subs' = [subs EXCEPT ![req[r].id].canceled = c, ![req[r].id].scheduled = s]
    PROVE  TableInv' /\ Grown
  <1>1. /\ TableInv /\ req[r].id \in DOMAIN subs
        /\ \A i \in DOMAIN subs : subs[i] \in Row
    BY SubsInvFacts DEF RequestInv, Holding
  <1>2. /\ subs' \in [DOMAIN subs -> Row]
        /\ \A i \in DOMAIN subs :
             /\ subs'[i].status = subs[i].status /\ subs'[i].plan = subs[i].plan
             /\ i # req[r].id => subs'[i] = subs[i]
             /\ i = req[r].id => subs'[i].canceled = c /\ subs'[i].scheduled = s
    BY <1>1 DEF Row
  <1>3. OneActive'
    BY <1>1, <1>2 DEF TableInv, OneActive, ActiveRows
  <1>4. QED
    BY <1>1, <1>2, <1>3, TableUpdate DEF TableInv, ScheduledIsPending

LEMMA RestoreKeeps ==
    ASSUME SubsInv, NEW r \in Requests, Restore(r)
    PROVE  SubsInv'
  <1>1. TableInv' /\ Grown
    BY PendingSet DEF Restore
  <1>2. QED
    BY <1>1, Finishing DEF Restore, SubsInv, TypeOK

LEMMA ScheduleKeeps ==
    ASSUME SubsInv, NEW r \in Requests, Schedule(r)
    PROVE  SubsInv'
  <1>1. req[r].target \in Plans
    BY SubsInvFacts DEF Schedule, RequestInv
  <1>2. TableInv' /\ Grown
    BY <1>1, PendingSet DEF Schedule
  <1>3. QED
    BY <1>2, Finishing DEF Schedule, SubsInv, TypeOK

LEMMA ReplaceKeeps ==
    ASSUME SubsInv, NEW r \in Requests, Replace(r)
    PROVE  SubsInv'
  <1> DEFINE me   == req[r]
             mine == IF me.row.status = "ACTIVE" THEN {me.id} ELSE {}
             old  == [i \in DOMAIN subs |-> IF i \in mine THEN Canceled(subs[i]) ELSE subs[i]]
             new  == [NewRow(me.target, me.at) EXCEPT !.end = me.at + me.goal.cycle]
  <1>0. now' \in Nat /\ events' \in Nat /\ plans' = plans /\ Finish(r)
    BY DEF Replace, SubsInv, TypeOK
  <1>1. /\ me \in Request /\ TableInv /\ TypeOK
        /\ \A i \in DOMAIN subs : subs[i] \in Row
        /\ me.target \in Plans /\ plans[me.target] # None /\ me.goal \in Setting
    BY SubsInvFacts DEF Replace, RequestInv
  <1>2. CASE UNCHANGED subs
    BY <1>0, <1>2, TableUnchanged, Finishing
  <1>3. CASE ActiveRows \subseteq mine /\ subs' = Append(old, new)
    <2>1. new \in Row /\ new.scheduled = None /\ new.plan = me.target
      <3>1. me.at \in Nat /\ me.goal.cycle \in Nat
        BY <1>1 DEF Request, Setting
      <3>2. /\ NewRow(me.target, me.at) \in Row
            /\ NewRow(me.target, me.at).scheduled = None
            /\ NewRow(me.target, me.at).plan = me.target
        BY <1>1, <3>1, NewRowIsRow
      <3>3. QED
        BY <3>1, <3>2 DEF Row
    <2>2. ASSUME NEW i \in DOMAIN subs
          PROVE  /\ old[i] \in Row
                 /\ old[i].status # "ACTIVE"
                 /\ old[i].plan = subs[i].plan
                 /\ old[i].scheduled # None => old[i].canceled
      <3>1. subs[i] \in Row /\ (subs[i].scheduled # None => subs[i].canceled)
        BY <1>1 DEF TableInv, ScheduledIsPending
      <3>2. i \notin mine => subs[i].status # "ACTIVE"
        BY <1>3 DEF ActiveRows
      <3>3. QED
        BY <3>1, <3>2, CanceledIsRow
    <2>3. TableInv' /\ Grown
      <3>1. old \in [DOMAIN subs -> Row]
        BY <2>2
      <3> HIDE DEF old, new
      <3>2. QED
        BY <1>0, <1>1, <1>3, <2>1, <2>2, <3>1, TableAppend
    <2>4. QED
      BY <1>0, <2>3, Finishing
  <1>4. QED
    BY <1>2, <1>3 DEF Replace

-----------------------------------------------------------------------------
(* Admins, failures and the clock. *)

LEMMA AdminStartKeeps ==
    ASSUME SubsInv, NEW r \in Requests,
           NEW i \in DOMAIN subs, NEW s \in AdminStatuses, AdminStart(r, i, s)
    PROVE  SubsInv'
  <1>1. /\ TableInv' /\ Grown /\ plans' = plans /\ subs' = subs
        /\ now' \in Nat /\ events' \in Nat
    BY TableUnchanged DEF AdminStart, Spend, SubsInv, TypeOK
  <1>2. i \in Nat /\ subs[i] \in Row /\ s \in Statuses
    <2>1. subs \in Seq(Row)
      BY DEF SubsInv, TypeOK
    <2>2. QED
      BY <2>1, ConstantsAssumption
  <1>3. /\ req' = [req EXCEPT ![r] = req'[r]] /\ req'[r] \in Request
        /\ RequestInv(req[r])'
    BY <1>1, <1>2, SubsInvFacts
       DEF AdminStart, SubsInv, TypeOK, RequestInv, Request, Holding, Pcs, Ops
  <1>4. QED
    BY <1>1, <1>3, StepOf

LEMMA AdminApplyKeeps ==
    ASSUME SubsInv, NEW r \in Requests, AdminApply(r)
    PROVE  SubsInv'
  <1> DEFINE me     == req[r]
             others == IF me.status = "ACTIVE" /\ me.row.status # "ACTIVE"
                         THEN ActiveRows \ {me.id} ELSE {}
             after  == [i \in DOMAIN subs |->
                          IF i = me.id THEN [subs[i] EXCEPT !.status = me.status]
                          ELSE IF i \in others THEN Canceled(subs[i]) ELSE subs[i]]
  <1>0. now' \in Nat /\ events' \in Nat /\ plans' = plans /\ Finish(r)
    BY DEF AdminApply, SubsInv, TypeOK
  <1>1. /\ TableInv /\ me.status \in Statuses
        /\ \A i \in DOMAIN subs : subs[i] \in Row
    BY SubsInvFacts DEF AdminApply, RequestInv
  <1>2. CASE UNCHANGED subs
    BY <1>0, <1>2, TableUnchanged, Finishing
  <1>3. CASE /\ ~(me.status = "ACTIVE" /\ ActiveRows \ (others \cup {me.id}) # {})
             /\ subs' = after
    <2>1. ASSUME NEW i \in DOMAIN subs
          PROVE  /\ after[i] \in Row
                 /\ after[i].plan = subs[i].plan
                 /\ after[i].scheduled # None => after[i].canceled
                 /\ i = me.id => after[i].status = me.status
                 /\ i # me.id /\ after[i].status = "ACTIVE" => i \in ActiveRows \ others
      <3>1. subs[i] \in Row /\ (subs[i].scheduled # None => subs[i].canceled)
        BY <1>1 DEF TableInv, ScheduledIsPending
      <3>2. CASE i = me.id
        BY <1>1, <3>1, <3>2 DEF Row
      <3>3. CASE i # me.id
        BY <3>1, <3>3, CanceledIsRow DEF ActiveRows
      <3>4. QED
        BY <3>2, <3>3
    <2>2. subs' \in [DOMAIN subs -> Row] /\ DOMAIN subs' = DOMAIN subs
      BY <1>3, <2>1
    <2>3. OneActive'
      <3>1. CASE me.status = "ACTIVE"
        <4>1. ActiveRows' \subseteq {me.id}
          BY <1>3, <2>1, <2>2, <3>1 DEF ActiveRows
        <4>2. QED
          BY <4>1 DEF OneActive
      <3>2. CASE me.status # "ACTIVE"
        <4>1. ActiveRows' \subseteq ActiveRows
          BY <1>3, <2>1, <2>2, <3>2 DEF ActiveRows
        <4>2. QED
          BY <4>1, <1>1 DEF OneActive, TableInv
      <3>3. QED
        BY <3>1, <3>2
    <2>4. TableInv' /\ Grown
      <3> HIDE DEF after
      <3>1. QED
        BY <1>0, <1>1, <1>3, <2>1, <2>2, <2>3, TableUpdate
    <2>5. QED
      BY <1>0, <2>4, Finishing
  <1>4. QED
    BY <1>2, <1>3 DEF AdminApply

LEMMA AdminWritePlanKeeps ==
    ASSUME SubsInv, NEW w \in PlanWrites, AdminWritePlan(w[1], w[2])
    PROVE  SubsInv'
  <1>1. w[1] \in Plans /\ w[2] \in Setting /\ w[2] # None
    BY ConstantsAssumption
  <1>2. /\ plans' \in [Plans -> Setting \cup {None}]
        /\ \A p \in Plans : plans[p] # None => plans'[p] # None
        /\ now' \in Nat /\ events' \in Nat /\ subs' = subs /\ req' = req
    BY <1>1 DEF AdminWritePlan, Spend, SubsInv, TypeOK
  <1>3. \A i \in DOMAIN subs : subs[i].plan \in Plans
    <2>1. subs \in Seq(Row)
      BY DEF SubsInv, TypeOK
    <2>2. ASSUME NEW i \in DOMAIN subs
          PROVE  subs[i] \in Row
      BY <2>1
    <2>3. QED
      BY <2>2 DEF Row
  <1>4. RowsHavePlans' /\ OneActive' /\ ScheduledIsPending'
    BY <1>2, <1>3
       DEF SubsInv, RowsHavePlans, OneActive, ScheduledIsPending, ActiveRows
  <1>5. \A r \in Requests : RequestInv(req[r])'
    <2>1. \A row \in Row : row.plan \in Plans
      BY DEF Row
    <2>2. QED
      BY <1>2, <2>1 DEF SubsInv, RequestInv
  <1>6. QED
    BY <1>2, <1>4, <1>5 DEF SubsInv, TypeOK

LEMMA FailKeeps ==
    ASSUME SubsInv, NEW r \in Requests, Fail(r)
    PROVE  SubsInv'
  BY TableUnchanged, Finishing DEF Fail, Spend, SubsInv, TypeOK

LEMMA ClockKeeps ==
    ASSUME SubsInv, now' \in Nat, UNCHANGED <<plans, subs, req, events>>
    PROVE  SubsInv'
  BY DEF SubsInv, TypeOK, RowsHavePlans, OneActive, ScheduledIsPending,
         ActiveRows, RequestInv

-----------------------------------------------------------------------------
LEMMA InitHolds == Init => SubsInv
  <1> SUFFICES ASSUME Init
               PROVE  SubsInv
    OBVIOUS
  <1>1. /\ now \in Nat /\ events \in Nat
        /\ plans \in [Plans -> Setting \cup {None}]
    BY ConstantsAssumption DEF Init
  <1>2. Idle \in Request
    BY DEF Idle, Request, Ops, Pcs
  <1>3. req \in [Requests -> Request] /\ \A r \in Requests : req[r] = Idle
    BY <1>2 DEF Init
  <1>4. \A r \in Requests : RequestInv(req[r])
    BY <1>3 DEF RequestInv, Idle, Holding
  <1>5. /\ subs \in Seq(Row) /\ OneActive /\ ScheduledIsPending /\ RowsHavePlans
    <2>1. CASE subs = <<>>
      BY <2>1 DEF OneActive, ActiveRows, ScheduledIsPending, RowsHavePlans
    <2>2. CASE plans[Free] # None /\ subs = <<NewRow(Free, 0)>>
      <3>1. /\ NewRow(Free, 0) \in Row
            /\ NewRow(Free, 0).plan = Free /\ NewRow(Free, 0).scheduled = None
        <4>1. plans[Free].cycle \in Nat /\ Free \in Plans
          BY <1>1, <2>2, ConstantsAssumption DEF Setting
        <4>2. QED
          BY <4>1 DEF NewRow, Row, Statuses
      <3>2. subs \in Seq(Row) /\ DOMAIN subs = {1} /\ subs[1] = NewRow(Free, 0)
        BY <2>2, <3>1
      <3>3. QED
        BY <2>2, <3>1, <3>2
           DEF OneActive, ActiveRows, ScheduledIsPending, RowsHavePlans
    <2>3. QED
      BY <2>1, <2>2 DEF Init
  <1>6. QED
    BY <1>1, <1>3, <1>4, <1>5 DEF SubsInv, TypeOK

LEMMA NextKeeps == SubsInv /\ [Next]_vars => SubsInv'
  <1> SUFFICES ASSUME SubsInv, [Next]_vars
               PROVE  SubsInv'
    OBVIOUS
  <1>1. ASSUME NEW r \in Requests, Start(r)
        PROVE  SubsInv'
    BY <1>1, ReadStartKeeps, ChangeStartKeeps, AdminStartKeeps DEF Start
  <1>2. ASSUME NEW r \in Requests, Step(r)
        PROVE  SubsInv'
    BY <1>2, FindActiveKeeps, ProvisionKeeps, InsertKeeps, AdoptKeeps, DecideKeeps, SwitchKeeps,
       RollKeeps, ReplyKeeps, CheckKeeps, RestoreKeeps, ReplaceKeeps, ScheduleKeeps,
       AdminApplyKeeps DEF Step
  <1>3. ASSUME NEW r \in Requests, Fail(r)
        PROVE  SubsInv'
    BY <1>3, FailKeeps
  <1>4. ASSUME NEW w \in PlanWrites, AdminWritePlan(w[1], w[2])
        PROVE  SubsInv'
    BY <1>4, AdminWritePlanKeeps
  <1>5. CASE Tick
    BY <1>5, ClockKeeps DEF Tick, SubsInv, TypeOK
  <1>6. CASE UNCHANGED vars
    BY <1>6, ClockKeeps DEF vars, SubsInv, TypeOK
  <1>7. QED
    BY <1>1, <1>2, <1>3, <1>4, <1>5, <1>6 DEF Next

(* The variables keep their types, whatever requests interleave. *)
THEOREM TypeCorrect == Spec => []TypeOK
  <1>1. SubsInv => TypeOK
    BY DEF SubsInv
  <1>2. QED
    BY <1>1, InitHolds, NextKeeps, PTL DEF Spec

(* However the requests of a user and of admins interleave and fail, at    *)
(* most one row is ACTIVE, and a plan is scheduled only on rows whose      *)
(* cancellation is pending.                                                *)
THEOREM CoherentRows == Spec => []RowsCoherent
  <1>1. SubsInv => RowsCoherent
    BY DEF SubsInv, RowsCoherent
  <1>2. QED
    BY <1>1, InitHolds, NextKeeps, PTL DEF Spec

-----------------------------------------------------------------------------
(* Coverage.  A step that inserts a row leaves an ACTIVE one, and so does  *)
(* one that keeps the status of every row.                                 *)
LEMMA InsertCovers ==
    ASSUME subs \in Seq(Row), NEW old \in [DOMAIN subs -> Row], NEW new \in Row,
           new.status = "ACTIVE", subs' = Append(old, new)
    PROVE  ActiveRows' # {}
  <1>1. DOMAIN subs = 1 .. Len(subs) /\ Len(subs) \in Nat /\ old \in Seq(Row)
        /\ Len(old) = Len(subs)
    OBVIOUS
  <1>2. Len(subs) + 1 \in DOMAIN subs' /\ subs'[Len(subs) + 1] = new
    BY <1>1
  <1>3. QED
    BY <1>2 DEF ActiveRows

LEMMA StatusCovers ==
    ASSUME ActiveRows # {}, DOMAIN subs' = DOMAIN subs,
           \A i \in DOMAIN subs : subs'[i].status = subs[i].status
    PROVE  ActiveRows' # {}
  BY DEF ActiveRows

LEMMA SwitchCovers ==
    ASSUME SubsInv, ActiveRows # {}, NEW r \in Requests, Switch(r)
    PROVE  ActiveRows' # {}
  <1> DEFINE me   == req[r]
             next == ScheduledPlan(me.row.scheduled)
             old  == [subs EXCEPT ![me.id].status = "CANCELED"]
             new  == NewRow(next, me.at)
  <1>1. CASE UNCHANGED subs
    BY <1>1, StatusCovers
  <1>2. CASE plans[next] # None /\ subs' = Append(old, new)
    <2>1. /\ TypeOK /\ subs \in Seq(Row) /\ me \in Request /\ me.row \in Row
          /\ \A i \in DOMAIN subs : subs[i] \in Row
      BY SubsInvFacts DEF Switch, RequestInv, Holding, TypeOK
    <2>2. next \in Plans /\ me.at \in Nat
      BY <2>1, ScheduledPlanIsPlan DEF Row, Request
    <2>3. new \in Row /\ new.status = "ACTIVE"
      BY <1>2, <2>1, <2>2, NewRowIsRow
    <2>4. old \in [DOMAIN subs -> Row]
      BY <2>1 DEF Row, Statuses
    <2> HIDE DEF old, new, next
    <2>5. QED
      BY <1>2, <2>1, <2>3, <2>4, InsertCovers
  <1>3. QED
    BY <1>1, <1>2 DEF Switch

LEMMA ReplaceCovers ==
    ASSUME SubsInv, ActiveRows # {}, NEW r \in Requests, Replace(r)
    PROVE  ActiveRows' # {}
  <1> DEFINE me   == req[r]
             mine == IF me.row.status = "ACTIVE" THEN {me.id} ELSE {}
             old  == [i \in DOMAIN subs |-> IF i \in mine THEN Canceled(subs[i]) ELSE subs[i]]
             new  == [NewRow(me.target, me.at) EXCEPT !.end = me.at + me.goal.cycle]
  <1>1. CASE UNCHANGED subs
    BY <1>1, StatusCovers
  <1>2. CASE subs' = Append(old, new)
    <2>1. /\ TypeOK /\ subs \in Seq(Row) /\ me \in Request
          /\ me.target \in Plans /\ plans[me.target] # None /\ me.goal \in Setting
          /\ \A i \in DOMAIN subs : subs[i] \in Row
      BY SubsInvFacts DEF Replace, RequestInv, TypeOK
    <2>2. me.at \in Nat /\ me.at + me.goal.cycle \in Nat
      BY <2>1 DEF Request, Setting
    <2>3. NewRow(me.target, me.at) \in Row /\ NewRow(me.target, me.at).status = "ACTIVE"
      BY <2>1, <2>2, NewRowIsRow
    <2>4. new \in Row /\ new.status = "ACTIVE"
      BY <2>2, <2>3 DEF Row
    <2>5. old \in [DOMAIN subs -> Row]
      BY <2>1, CanceledIsRow
    <2> HIDE DEF old, new
    <2>6. QED
      BY <1>2, <2>1, <2>4, <2>5, InsertCovers
  <1>3. QED
    BY <1>1, <1>2 DEF Replace

(* A provisioned row adds to the table: what was ACTIVE still is.          *)
LEMMA ProvisionCovers ==
    ASSUME SubsInv, ActiveRows # {}, NEW r \in Requests, Insert(r)
    PROVE  ActiveRows' # {}
  BY StatusCovers DEF Insert

LEMMA RollCovers ==
    ASSUME SubsInv, ActiveRows # {}, NEW r \in Requests,
           Roll(r) \/ Restore(r) \/ Schedule(r)
    PROVE  ActiveRows' # {}
  <1>1. \A i \in DOMAIN subs : subs[i] \in Row
    BY SubsInvFacts
  <1>2. /\ DOMAIN subs' = DOMAIN subs
        /\ \A i \in DOMAIN subs : subs'[i].status = subs[i].status
    BY <1>1 DEF Roll, Restore, Schedule, Row
  <1>3. QED
    BY <1>2, StatusCovers

(* Only an administrator takes the last ACTIVE row from a user: no upgrade, *)
(* downgrade, rollover, switch or failure does, however they race.          *)
THEOREM CoverageIsKept == Spec => CoverageKept
  <1>1. SubsInv /\ [Next]_vars
          => [ActiveRows # {} => ActiveRows' # {} \/ \E r \in Requests : AdminApply(r)]_vars
    <2> SUFFICES ASSUME SubsInv, Next, ActiveRows # {},
                        ~\E r \in Requests : AdminApply(r)
                 PROVE  ActiveRows' # {}
      OBVIOUS
    <2>1. CASE UNCHANGED subs
      BY <2>1, StatusCovers
    <2>2. CASE \E r \in Requests : Switch(r) \/ Replace(r) \/ Insert(r)
      BY <2>2, SwitchCovers, ReplaceCovers, ProvisionCovers
    <2>3. CASE \E r \in Requests : Roll(r) \/ Restore(r) \/ Schedule(r)
      BY <2>3, RollCovers
    <2>4. ASSUME NEW r \in Requests, Start(r)
          PROVE  UNCHANGED subs
      BY <2>4 DEF Start, ReadStart, ChangeStart, AdminStart
    <2>5. ASSUME NEW r \in Requests,
                 \/ FindActive(r) \/ Provision(r) \/ Adopt(r) \/ Decide(r) \/ Reply(r)
                 \/ Check(r) \/ Fail(r)
          PROVE  UNCHANGED subs
      BY <2>5 DEF FindActive, Provision, Adopt, Decide, Reply, Check, Fail
    <2>6. ASSUME NEW w \in PlanWrites, AdminWritePlan(w[1], w[2])
          PROVE  UNCHANGED subs
      BY <2>6 DEF AdminWritePlan
    <2>7. Tick => UNCHANGED subs
      BY DEF Tick
    <2>8. QED
      BY <2>1, <2>2, <2>3, <2>4, <2>5, <2>6, <2>7 DEF Next, Step
  <1>2. QED
    BY <1>1, InitHolds, NextKeeps, PTL DEF Spec, CoverageKept

-----------------------------------------------------------------------------
(* Windows.  Two facts of arithmetic: a number is its quotient times the   *)
(* divisor plus the rest, and one more cycle leaves the rest as it is.     *)
LEMMA QuotientUnique ==
    ASSUME NEW k \in Nat, NEW x \in Nat, NEW c \in Nat \ {0},
           k * c <= x, x < k * c + c
    PROVE  x \div c = k
  OBVIOUS

LEMMA QuotientAndRest ==
    ASSUME NEW a \in Nat, NEW c \in Nat \ {0}
    PROVE  /\ a = (a \div c) * c + (a % c)
           /\ a % c \in Nat /\ a % c < c /\ a \div c \in Nat
  OBVIOUS

LEMMA OneMoreCycle ==
    ASSUME NEW a \in Nat, NEW c \in Nat \ {0}
    PROVE  (a + c) % c = a % c
  <1> DEFINE q == a \div c
             m == a % c
  <1>1. a = q * c + m /\ m \in Nat /\ m < c /\ q \in Nat
    BY QuotientAndRest
  <1>2. (q + 1) * c = q * c + c /\ q * c \in Nat
    BY <1>1
  <1> HIDE DEF q, m
  <1>3. (a + c) \div c = q + 1
    BY <1>1, <1>2, QuotientUnique
  <1>4. a + c = (q + 1) * c + ((a + c) % c) /\ (a + c) % c \in Nat
    <2>1. a + c \in Nat
      OBVIOUS
    <2>2. QED
      BY <1>3, <2>1, QuotientAndRest
  <1>5. (a + c) % c = m
    BY <1>1, <1>2, <1>4
  <1>6. QED
    BY <1>5 DEF m

(* A row is on its grid when its window is one cycle long and starts, not  *)
(* in the future, a whole number of cycles after the row was created.      *)
Cycle(p) == InitialPlans[p].cycle

OnGrid(row) ==
    CycleIsFixed(row.plan) =>
      /\ row.end = row.start + Cycle(row.plan)
      /\ row.since <= row.start /\ row.start <= now
      /\ (row.start - row.since) % Cycle(row.plan) = 0

(* What a request remembers of windows: the row it holds is, or was, a     *)
(* row of that plan and that first day on its grid; the settings it holds  *)
(* have the plan's one cycle; a row it is about to create is on its grid;  *)
(* a rollover or switch is only begun when it is due, and an upgrade only  *)
(* to a plan that was higher when read.                                    *)
RequestGrid(me) ==
    /\ me.at <= now
    /\ me.pc \in Holding =>
         /\ OnGrid(me.row)
         /\ me.row.plan = subs[me.id].plan /\ me.row.since = subs[me.id].since
         /\ CycleIsFixed(me.row.plan) => me.plan.cycle = Cycle(me.row.plan)
    /\ me.pc = "insert" => OnGrid(me.row)
    /\ me.pc \in {"switch", "roll"} => me.row.end <= me.at
    /\ me.pc = "replace" => IsHigherPlan(me.goal, me.plan)
    /\ me.op \in {"upgrade", "downgrade"} =>
         (CycleIsFixed(me.target) => me.goal.cycle = Cycle(me.target))

(* The settings of a plan have its one cycle. *)
PlanCycles ==
    \A p \in Plans : plans[p] # None /\ CycleIsFixed(p) => plans[p].cycle = Cycle(p)

GridInv ==
    /\ PlanCycles
    /\ \A i \in DOMAIN subs : OnGrid(subs[i])
    /\ \A r \in Requests : RequestGrid(req[r])

(* A fixed cycle is a positive number of ticks. *)
LEMMA CycleIsPositive ==
    ASSUME SubsInv, GridInv, NEW p \in Plans, plans[p] # None, CycleIsFixed(p)
    PROVE  Cycle(p) \in Nat \ {0}
  <1>1. plans[p] \in Setting
    BY DEF SubsInv, TypeOK
  <1>2. QED
    BY <1>1 DEF Setting, GridInv, PlanCycles

(* A row created at a past instant t for a plan that is there is on its    *)
(* grid.                                                                   *)
LEMMA NewRowOnGrid ==
    ASSUME SubsInv, GridInv, NEW p \in Plans, plans[p] # None,
           NEW t \in Nat, t <= now
    PROVE  OnGrid(NewRow(p, t))
  <1>1. SUFFICES ASSUME CycleIsFixed(p)
                 PROVE  OnGrid(NewRow(p, t))
    BY DEF OnGrid, NewRow
  <1>2. Cycle(p) \in Nat \ {0} /\ plans[p].cycle = Cycle(p)
    BY <1>1, CycleIsPositive DEF GridInv, PlanCycles
  <1>3. (t - t) % Cycle(p) = 0
    BY <1>2
  <1>4. QED
    BY <1>2, <1>3 DEF OnGrid, NewRow

(* Existing rows keep their plan and their first day. *)
SameRows == \A i \in DOMAIN subs : /\ i \in DOMAIN subs'
                                   /\ subs'[i].plan = subs[i].plan
                                   /\ subs'[i].since = subs[i].since

LEMMA GridStep ==
    ASSUME SubsInv, GridInv, SameRows, NEW r \in Requests,
           plans' = plans, now' = now,
           \A i \in DOMAIN subs' : OnGrid(subs'[i]),
           req' = [req EXCEPT ![r] = req'[r]], RequestGrid(req[r])'
    PROVE  GridInv'
  <1>1. PlanCycles'
    BY DEF GridInv, PlanCycles
  <1>2. ASSUME NEW i \in DOMAIN subs'
        PROVE  OnGrid(subs[i])'
    BY DEF OnGrid
  <1>3. ASSUME NEW q \in Requests
        PROVE  RequestGrid(req[q])'
    <2>1. CASE q = r
      BY <2>1
    <2>2. CASE q # r
      <3>1. req'[q] = req[q] /\ RequestGrid(req[q]) /\ RequestInv(req[q])
        BY <2>2 DEF SubsInv, TypeOK, GridInv
      <3>2. QED
        BY <3>1 DEF RequestGrid, RequestInv, SameRows, OnGrid
    <2>3. QED
      BY <2>1, <2>2
  <1>4. QED
    BY <1>1, <1>2, <1>3 DEF GridInv

LEMMA GridFinish ==
    ASSUME SubsInv, GridInv, SameRows, NEW r \in Requests, Finish(r),
           plans' = plans, now' = now, \A i \in DOMAIN subs' : OnGrid(subs'[i])
    PROVE  GridInv'
  <1>1. req'[r] = Idle /\ req' = [req EXCEPT ![r] = req'[r]] /\ now' \in Nat
    BY DEF Finish, SubsInv, TypeOK
  <1>2. RequestGrid(req[r])'
    BY <1>1 DEF RequestGrid, Idle, Holding
  <1>3. QED
    BY <1>1, <1>2, GridStep

LEMMA GridHold ==
    ASSUME SubsInv, GridInv, SameRows, SubsInv', NEW r \in Requests,
           NEW i \in DOMAIN subs', NEW pc \in {"decide", "resolved"}, Hold(r, i, pc),
           plans' = plans, now' = now, \A j \in DOMAIN subs' : OnGrid(subs'[j])
    PROVE  GridInv'
  <1>1. subs'[i].plan \in Plans /\ plans[subs'[i].plan] # None
    <2>1. subs' \in Seq(Row) /\ plans[subs'[i].plan] # None
      BY DEF SubsInv, TypeOK, RowsHavePlans
    <2>2. subs'[i] \in Row
      BY <2>1
    <2>3. QED
      BY <2>1, <2>2 DEF Row
  <1>2. CycleIsFixed(subs'[i].plan) => plans[subs'[i].plan].cycle = Cycle(subs'[i].plan)
    BY <1>1 DEF GridInv, PlanCycles
  <1>3. req[r] \in Request /\ RequestGrid(req[r])
    BY SubsInvFacts DEF GridInv
  <1>4. /\ req' = [req EXCEPT ![r] = req'[r]]
        /\ req'[r].pc = pc /\ req'[r].op = req[r].op /\ req'[r].at = req[r].at
        /\ req'[r].target = req[r].target /\ req'[r].goal = req[r].goal
        /\ req'[r].id = i /\ req'[r].row = subs'[i]
        /\ req'[r].plan = plans[subs'[i].plan]
    BY <1>3 DEF Hold, Request, SubsInv, TypeOK
  <1>5. RequestGrid(req[r])'
    BY <1>2, <1>3, <1>4 DEF RequestGrid, OnGrid
  <1>6. QED
    BY <1>4, <1>5, GridStep

(* Steps that leave the table alone. *)
LEMMA GridTableUnchanged ==
    ASSUME SubsInv, GridInv, UNCHANGED subs
    PROVE  SameRows /\ \A i \in DOMAIN subs' : OnGrid(subs'[i])
  BY DEF SameRows, GridInv

LEMMA GridGoto ==
    ASSUME SubsInv, GridInv, NEW r \in Requests, NEW pc \in {"provision", "adopt"},
           Goto(r, pc), UNCHANGED <<now, plans, subs>>
    PROVE  GridInv'
  <1>1. req[r] \in Request /\ RequestGrid(req[r])
    BY SubsInvFacts DEF GridInv
  <1>2. req' = [req EXCEPT ![r] = req'[r]] /\ RequestGrid(req[r])'
    BY <1>1 DEF Goto, RequestGrid, Request, Holding, SubsInv, TypeOK
  <1>3. QED
    BY <1>2, GridTableUnchanged, GridStep

LEMMA GridStart ==
    ASSUME SubsInv, GridInv, NEW r \in Requests, Start(r)
    PROVE  GridInv'
  <1>1. UNCHANGED <<now, plans, subs>>
    BY DEF Start, ReadStart, ChangeStart, AdminStart
  <1>2. req[r] \in Request /\ RequestGrid(req[r])
    BY SubsInvFacts DEF GridInv
  <1>3. req' = [req EXCEPT ![r] = req'[r]] /\ RequestGrid(req[r])'
    <2>1. CASE ReadStart(r)
      BY <1>1, <1>2, <2>1 DEF ReadStart, RequestGrid, Request, Holding, SubsInv, TypeOK
    <2>2. ASSUME NEW op \in {"upgrade", "downgrade"}, NEW p \in Plans, ChangeStart(r, op, p)
          PROVE  req' = [req EXCEPT ![r] = req'[r]] /\ RequestGrid(req[r])'
      <3>1. CycleIsFixed(p) => plans[p].cycle = Cycle(p)
        BY <2>2 DEF ChangeStart, GridInv, PlanCycles
      <3>2. QED
        BY <1>1, <1>2, <2>2, <3>1
           DEF ChangeStart, RequestGrid, Request, Holding, SubsInv, TypeOK
    <2>3. ASSUME NEW i \in DOMAIN subs, NEW t \in AdminStatuses, AdminStart(r, i, t)
          PROVE  req' = [req EXCEPT ![r] = req'[r]] /\ RequestGrid(req[r])'
      BY <1>1, <1>2, <2>3 DEF AdminStart, RequestGrid, Request, Holding, SubsInv, TypeOK
    <2>4. QED
      BY <2>1, <2>2, <2>3 DEF Start
  <1>4. QED
    BY <1>1, <1>3, GridTableUnchanged, GridStep

LEMMA GridFind ==
    ASSUME SubsInv, SubsInv', GridInv, NEW r \in Requests, FindActive(r) \/ Adopt(r)
    PROVE  GridInv'
  <1>1. UNCHANGED <<now, plans, subs>> /\ SameRows /\ \A i \in DOMAIN subs' : OnGrid(subs'[i])
    BY GridTableUnchanged DEF FindActive, Adopt
  <1>2. ActiveRows \subseteq DOMAIN subs'
    BY <1>1 DEF ActiveRows
  <1>3. QED
    BY <1>1, <1>2, GridHold, GridGoto, GridFinish DEF FindActive, Adopt

(* A row appended on its grid leaves every row on its grid. *)
LEMMA GridAppend ==
    ASSUME SubsInv, GridInv, NEW old \in [DOMAIN subs -> Row], NEW new \in Row,
           OnGrid(new), subs' = Append(old, new),
           \A i \in DOMAIN subs : /\ old[i].plan = subs[i].plan
                                  /\ old[i].since = subs[i].since
                                  /\ old[i].start = subs[i].start
                                  /\ old[i].end = subs[i].end
    PROVE  SameRows /\ \A i \in DOMAIN subs' : OnGrid(subs'[i])
  <1>1. DOMAIN subs = 1 .. Len(subs) /\ Len(subs) \in Nat
    BY DEF SubsInv, TypeOK
  <1>2. old \in Seq(Row) /\ Len(old) = Len(subs)
    BY <1>1
  <1>3. /\ DOMAIN subs' = 1 .. Len(subs) + 1 /\ subs'[Len(subs) + 1] = new
        /\ \A i \in DOMAIN subs : subs'[i] = old[i]
    BY <1>1, <1>2
  <1>4. \A i \in DOMAIN subs : OnGrid(old[i])
    BY DEF GridInv, OnGrid
  <1>5. QED
    BY <1>1, <1>3, <1>4 DEF SameRows

LEMMA GridProvision ==
    ASSUME SubsInv, SubsInv', GridInv, NEW r \in Requests, Provision(r)
    PROVE  GridInv'
  <1>0. UNCHANGED <<now, plans, subs>> /\ now \in Nat /\ Free \in Plans
    BY ConstantsAssumption DEF Provision, SubsInv, TypeOK
  <1>1. CASE Finish(r)
    BY <1>0, <1>1, GridTableUnchanged, GridFinish
  <1> DEFINE new == NewRow(Free, now)
  <1>2. CASE /\ plans[Free] # None
             /\ req' = [req EXCEPT ![r].pc = "insert", ![r].row = new]
    <2>1. new \in Row /\ OnGrid(new)
      BY <1>0, <1>2, NewRowIsRow, NewRowOnGrid DEF SubsInv
    <2> HIDE DEF new
    <2>2. req[r] \in Request /\ RequestGrid(req[r])
      BY SubsInvFacts DEF GridInv
    <2>3. req' = [req EXCEPT ![r] = req'[r]] /\ RequestGrid(req[r])'
      BY <1>0, <1>2, <2>1, <2>2 DEF RequestGrid, OnGrid, Request, Holding, SubsInv, TypeOK
    <2>4. QED
      BY <1>0, <2>3, GridTableUnchanged, GridStep
  <1>3. QED
    BY <1>1, <1>2 DEF Provision

LEMMA GridInsert ==
    ASSUME SubsInv, SubsInv', GridInv, NEW r \in Requests, Insert(r)
    PROVE  GridInv'
  <1> DEFINE new == req[r].row
  <1>0. /\ UNCHANGED <<now, plans>>
        /\ new \in Row /\ OnGrid(new) /\ subs \in Seq(Row)
    BY SubsInvFacts DEF Insert, RequestInv, GridInv, RequestGrid, TypeOK
  <1>1. CASE Goto(r, "adopt") /\ UNCHANGED subs
    BY <1>0, <1>1, GridGoto
  <1>2. CASE subs' = Append(subs, new) /\ Hold(r, Len(subs'), "decide")
    <2> HIDE DEF new
    <2>1. subs \in [DOMAIN subs -> Row] /\ Len(subs') \in DOMAIN subs'
      BY <1>0, <1>2
    <2>2. SameRows /\ \A i \in DOMAIN subs' : OnGrid(subs'[i])
      BY <1>0, <1>2, <2>1, GridAppend
    <2>3. QED
      BY <1>0, <1>2, <2>1, <2>2, GridHold
  <1>3. QED
    BY <1>1, <1>2 DEF Insert

LEMMA GridDecide ==
    ASSUME SubsInv, GridInv, NEW r \in Requests, Decide(r)
    PROVE  GridInv'
  <1>1. UNCHANGED <<now, plans, subs>> /\ now \in Nat
    BY DEF Decide, SubsInv, TypeOK
  <1>2. req[r] \in Request /\ RequestGrid(req[r]) /\ req[r].row \in Row
    BY SubsInvFacts DEF GridInv, Decide, RequestInv, Holding
  <1>3. req[r].row.end \in Nat /\ req[r].row.canceled \in BOOLEAN
    BY <1>2 DEF Row
  <1> DEFINE pc == AfterDecision(req[r].row, now)
  <1>4. /\ pc \in {"resolved", "switch", "roll"}
        /\ pc \in {"switch", "roll"} => req[r].row.end <= now
    BY <1>1, <1>3 DEF AfterDecision
  <1>5. /\ req' = [req EXCEPT ![r] = [req[r] EXCEPT !.pc = pc, !.at = now]]
        /\ req[r].pc \in Holding
    BY <1>2 DEF Decide, Holding, Request, SubsInv, TypeOK
  <1> HIDE DEF pc
  <1>6. req' = [req EXCEPT ![r] = req'[r]] /\ RequestGrid(req[r])'
    <2>1. /\ req'[r].pc = pc /\ req'[r].op = req[r].op /\ req'[r].at = now
          /\ req'[r].target = req[r].target /\ req'[r].goal = req[r].goal
          /\ req'[r].id = req[r].id /\ req'[r].row = req[r].row
          /\ req'[r].plan = req[r].plan /\ req' = [req EXCEPT ![r] = req'[r]]
      BY <1>2, <1>5 DEF Request, SubsInv, TypeOK
    <2>2. QED
      BY <1>1, <1>2, <1>4, <1>5, <2>1 DEF RequestGrid, OnGrid
  <1>7. QED
    BY <1>1, <1>6, GridTableUnchanged, GridStep

LEMMA GridSwitch ==
    ASSUME SubsInv, SubsInv', GridInv, NEW r \in Requests, Switch(r)
    PROVE  GridInv'
  <1> DEFINE me   == req[r]
             next == ScheduledPlan(me.row.scheduled)
             old  == [subs EXCEPT ![me.id].status = "CANCELED"]
             new  == NewRow(next, me.at)
  <1>1. UNCHANGED <<now, plans>>
    BY DEF Switch
  <1>2. CASE Finish(r) /\ UNCHANGED subs
    BY <1>1, <1>2, GridTableUnchanged, GridFinish
  <1>3. CASE /\ plans[next] # None /\ subs' = Append(old, new)
             /\ Hold(r, Len(subs'), "resolved")
    <2>1. /\ TypeOK /\ me \in Request /\ me.row \in Row /\ me.at <= now
          /\ \A i \in DOMAIN subs : subs[i] \in Row
      BY SubsInvFacts DEF Switch, RequestInv, Holding, GridInv, RequestGrid
    <2>2. next \in Plans /\ me.at \in Nat
      BY <2>1, ScheduledPlanIsPlan DEF Row, Request
    <2>3. new \in Row /\ OnGrid(new)
      <3> HIDE DEF next
      <3>1. QED
        BY <1>3, <2>1, <2>2, NewRowIsRow, NewRowOnGrid
    <2>4. /\ old \in [DOMAIN subs -> Row]
          /\ \A i \in DOMAIN subs : /\ old[i].plan = subs[i].plan
                                     /\ old[i].since = subs[i].since
                                     /\ old[i].start = subs[i].start
                                     /\ old[i].end = subs[i].end
      BY <2>1 DEF Row, Statuses
    <2> HIDE DEF old, new, next
    <2>5. SameRows /\ \A i \in DOMAIN subs' : OnGrid(subs'[i])
      BY <1>3, <2>3, <2>4, GridAppend
    <2>6. Len(subs') \in DOMAIN subs'
      <3>1. DOMAIN old = 1 .. Len(subs) /\ Len(subs) \in Nat
        BY <2>1, <2>4 DEF TypeOK
      <3>2. old \in Seq(Row)
        BY <2>4, <3>1
      <3>3. QED
        BY <1>3, <2>3, <3>2
    <2>7. QED
      BY <1>1, <1>3, <2>5, <2>6, GridHold
  <1>4. QED
    BY <1>2, <1>3 DEF Switch

(* The next window begins where the one that was read ended: one cycle     *)
(* further on the same grid.                                               *)
LEMMA NextWindow ==
    ASSUME SubsInv, GridInv, NEW r \in Requests, Roll(r)
    PROVE  LET me == req[r]
           IN  OnGrid([subs[me.id] EXCEPT !.start = me.row.end,
                                          !.end = me.row.end + me.plan.cycle])
  <1> DEFINE me  == req[r]
             p   == me.row.plan
             new == [subs[me.id] EXCEPT !.start = me.row.end,
                                        !.end = me.row.end + me.plan.cycle]
  <1>1. /\ me.id \in DOMAIN subs /\ subs[me.id] \in Row /\ me.row \in Row
        /\ RequestGrid(me) /\ me \in Request /\ now \in Nat
        /\ plans[subs[me.id].plan] # None
    BY SubsInvFacts
       DEF Roll, RequestInv, Holding, GridInv, TypeOK, SubsInv, RowsHavePlans
  <1>2. /\ new.start = me.row.end /\ new.end = me.row.end + me.plan.cycle
        /\ new.plan = p /\ new.since = me.row.since
    BY <1>1 DEF Row, RequestGrid, Roll, Holding
  <1>3. /\ OnGrid(me.row) /\ me.row.end <= me.at /\ me.at <= now
        /\ CycleIsFixed(p) => me.plan.cycle = Cycle(p)
    BY <1>1 DEF RequestGrid, Roll, Holding
  <1>4. SUFFICES ASSUME CycleIsFixed(p)
                 PROVE  OnGrid(new)
    BY <1>2 DEF OnGrid
  <1>5. p \in Plans /\ plans[p] # None
    BY <1>1 DEF Row, RequestGrid, Roll, Holding
  <1>6. Cycle(p) \in Nat \ {0}
    BY <1>4, <1>5, CycleIsPositive
  <1>7. /\ me.row.since \in Nat /\ me.row.start \in Nat /\ me.row.end \in Nat
        /\ me.at \in Nat
    BY <1>1 DEF Row, Request
  <1>8. /\ me.row.end = me.row.start + Cycle(p) /\ me.row.since <= me.row.start
        /\ (me.row.start - me.row.since) % Cycle(p) = 0
    BY <1>3, <1>4 DEF OnGrid
  <1> HIDE DEF p
  <1>9. (me.row.end - me.row.since) % Cycle(p) = 0
    <2>1. me.row.start - me.row.since \in Nat
      BY <1>7, <1>8
    <2>2. me.row.end - me.row.since = (me.row.start - me.row.since) + Cycle(p)
      BY <1>6, <1>7, <1>8
    <2>3. QED
      BY <1>6, <1>8, <2>1, <2>2, OneMoreCycle
  <1>10. me.row.since <= me.row.end /\ me.row.end <= now
    BY <1>1, <1>3, <1>6, <1>7, <1>8
  <1> HIDE DEF new, me
  <1>11. QED
    BY <1>2, <1>3, <1>4, <1>9, <1>10 DEF OnGrid

LEMMA GridRoll ==
    ASSUME SubsInv, SubsInv', GridInv, NEW r \in Requests, Roll(r)
    PROVE  GridInv'
  <1> DEFINE me  == req[r]
             new == [subs[me.id] EXCEPT !.start = me.row.end,
                                        !.end = me.row.end + me.plan.cycle]
  <1>1. /\ UNCHANGED <<now, plans>> /\ Hold(r, me.id, "resolved")
        /\ me.id \in DOMAIN subs
    BY SubsInvFacts DEF Roll, RequestInv, Holding
  <1>2. subs' = [subs EXCEPT ![me.id] = new] /\ OnGrid(new)
    BY NextWindow DEF Roll
  <1>3. \A i \in DOMAIN subs : subs[i] \in Row
    BY SubsInvFacts
  <1>4. new.plan = subs[me.id].plan /\ new.since = subs[me.id].since
    BY <1>1, <1>3 DEF Row
  <1> HIDE DEF new
  <1>5. SameRows /\ \A i \in DOMAIN subs' : OnGrid(subs'[i])
    BY <1>1, <1>2, <1>4 DEF SameRows, GridInv
  <1>6. me.id \in DOMAIN subs'
    BY <1>1, <1>2
  <1>7. QED
    BY <1>1, <1>5, <1>6, GridHold

LEMMA GridCheck ==
    ASSUME SubsInv, GridInv, NEW r \in Requests, Check(r)
    PROVE  GridInv'
  <1> DEFINE me == req[r]
             pc == IF me.op = "upgrade" THEN AfterUpgradeCheck(me)
                                        ELSE AfterDowngradeCheck(me)
  <1>1. UNCHANGED <<now, plans, subs>> /\ now \in Nat
    BY DEF Check, SubsInv, TypeOK
  <1>2. CASE Finish(r)
    BY <1>1, <1>2, GridTableUnchanged, GridFinish
  <1>3. CASE req' = [req EXCEPT ![r].pc = pc, ![r].at = now]
    <2>1. /\ me \in Request /\ RequestGrid(me) /\ me.row \in Row
          /\ me.pc = "resolved"
      BY SubsInvFacts DEF GridInv, Check, RequestInv, Holding
    <2>2. /\ pc \in {"restore", "idle", "replace", "schedule"}
          /\ pc = "replace" => IsHigherPlan(me.goal, me.plan)
      <3>1. me.row.canceled \in BOOLEAN
        BY <2>1 DEF Row
      <3>2. QED
        BY <3>1 DEF AfterUpgradeCheck, AfterDowngradeCheck
    <2> HIDE DEF pc
    <2>3. /\ req'[r].pc = pc /\ req'[r].op = me.op /\ req'[r].at = now
          /\ req'[r].target = me.target /\ req'[r].goal = me.goal
          /\ req'[r].id = me.id /\ req'[r].row = me.row
          /\ req'[r].plan = me.plan /\ req' = [req EXCEPT ![r] = req'[r]]
      BY <1>3, <2>1 DEF Request, SubsInv, TypeOK
    <2>4. RequestGrid(req[r])'
      BY <1>1, <2>1, <2>2, <2>3 DEF RequestGrid, OnGrid, Holding
    <2>5. QED
      BY <1>1, <2>3, <2>4, GridTableUnchanged, GridStep
  <1>4. QED
    BY <1>2, <1>3 DEF Check

(* Steps that only touch statuses and pending downgrades, and finish. *)
LEMMA GridMark ==
    ASSUME SubsInv, GridInv, NEW r \in Requests,
           Restore(r) \/ Schedule(r) \/ AdminApply(r) \/ Reply(r) \/ Fail(r)
    PROVE  GridInv'
  <1>1. UNCHANGED <<now, plans>> /\ Finish(r)
    BY DEF Restore, Schedule, AdminApply, Reply, Fail
  <1>2. /\ DOMAIN subs' = DOMAIN subs
        /\ \A i \in DOMAIN subs : /\ subs'[i].plan = subs[i].plan
                                   /\ subs'[i].since = subs[i].since
                                   /\ subs'[i].start = subs[i].start
                                   /\ subs'[i].end = subs[i].end
    <2>1. \A i \in DOMAIN subs : subs[i] \in Row
      BY SubsInvFacts
    <2>2. CASE Reply(r) \/ Fail(r)
      BY <2>2 DEF Reply, Fail
    <2>3. CASE Restore(r) \/ Schedule(r)
      BY <2>1, <2>3 DEF Restore, Schedule, Row
    <2>4. CASE AdminApply(r) /\ ~UNCHANGED subs
      <3>1. PICK others \in SUBSET DOMAIN subs :
              subs' = [i \in DOMAIN subs |->
                         IF i = req[r].id THEN [subs[i] EXCEPT !.status = req[r].status]
                         ELSE IF i \in others THEN Canceled(subs[i]) ELSE subs[i]]
        BY <2>4 DEF AdminApply, ActiveRows
      <3>2. QED
        BY <2>1, <3>1 DEF Canceled, Row
    <2>5. QED
      BY <2>2, <2>3, <2>4
  <1>3. SameRows /\ \A i \in DOMAIN subs' : OnGrid(subs'[i])
    BY <1>2 DEF SameRows, GridInv, OnGrid
  <1>4. QED
    BY <1>1, <1>3, GridFinish

LEMMA GridReplace ==
    ASSUME SubsInv, GridInv, NEW r \in Requests, Replace(r)
    PROVE  GridInv'
  <1> DEFINE me   == req[r]
             mine == IF me.row.status = "ACTIVE" THEN {me.id} ELSE {}
             old  == [i \in DOMAIN subs |-> IF i \in mine THEN Canceled(subs[i]) ELSE subs[i]]
             new  == [NewRow(me.target, me.at) EXCEPT !.end = me.at + me.goal.cycle]
  <1>1. UNCHANGED <<now, plans>> /\ Finish(r)
    BY DEF Replace
  <1>2. CASE UNCHANGED subs
    BY <1>1, <1>2, GridTableUnchanged, GridFinish
  <1>3. CASE subs' = Append(old, new)
    <2>1. /\ TypeOK /\ me \in Request /\ me.at <= now
          /\ me.target \in Plans /\ plans[me.target] # None /\ me.goal \in Setting
          /\ CycleIsFixed(me.target) => me.goal.cycle = Cycle(me.target)
          /\ \A i \in DOMAIN subs : subs[i] \in Row
      BY SubsInvFacts DEF Replace, RequestInv, GridInv, RequestGrid
    <2>2. me.at \in Nat /\ me.at + me.goal.cycle \in Nat
      BY <2>1 DEF Request, Setting
    <2>3. NewRow(me.target, me.at) \in Row /\ OnGrid(NewRow(me.target, me.at))
      BY <2>1, <2>2, NewRowIsRow, NewRowOnGrid
    <2>4. new \in Row /\ OnGrid(new)
      BY <2>1, <2>2, <2>3 DEF Row, OnGrid, NewRow
    <2>5. /\ old \in [DOMAIN subs -> Row]
          /\ \A i \in DOMAIN subs : /\ old[i].plan = subs[i].plan
                                     /\ old[i].since = subs[i].since
                                     /\ old[i].start = subs[i].start
                                     /\ old[i].end = subs[i].end
      BY <2>1, CanceledIsRow DEF Canceled, Row
    <2> HIDE DEF old, new
    <2>6. SameRows /\ \A i \in DOMAIN subs' : OnGrid(subs'[i])
      BY <1>3, <2>4, <2>5, GridAppend
    <2>7. QED
      BY <1>1, <2>6, GridFinish
  <1>4. QED
    BY <1>2, <1>3 DEF Replace

LEMMA GridWritePlan ==
    ASSUME SubsInv, GridInv, NEW w \in PlanWrites, AdminWritePlan(w[1], w[2])
    PROVE  GridInv'
  <1>1. UNCHANGED <<now, subs, req>> /\ plans' = [plans EXCEPT ![w[1]] = w[2]]
    BY DEF AdminWritePlan
  <1>2. PlanCycles'
    BY <1>1 DEF GridInv, PlanCycles, CycleIsFixed, Cycle, SubsInv, TypeOK
  <1>3. QED
    BY <1>1, <1>2 DEF GridInv, OnGrid, RequestGrid

LEMMA GridClock ==
    ASSUME SubsInv, GridInv, now' \in Nat, now <= now', UNCHANGED <<plans, subs, req>>
    PROVE  GridInv'
  <1>1. now \in Nat
    BY DEF SubsInv, TypeOK
  <1>2. ASSUME NEW row \in Row, OnGrid(row)
        PROVE  OnGrid(row)'
    BY <1>1, <1>2 DEF OnGrid, Row
  <1>3. \A i \in DOMAIN subs : subs[i] \in Row
    BY DEF SubsInv, TypeOK
  <1>4. ASSUME NEW r \in Requests
        PROVE  RequestGrid(req[r])'
    <2>1. req[r] \in Request /\ RequestInv(req[r]) /\ RequestGrid(req[r])
      BY SubsInvFacts DEF GridInv
    <2>2. req[r].at <= now'
      BY <1>1, <2>1 DEF RequestGrid, Request
    <2>3. QED
      BY <1>2, <2>1, <2>2 DEF RequestGrid, RequestInv
  <1>5. QED
    BY <1>2, <1>3, <1>4 DEF GridInv, PlanCycles

LEMMA GridInit ==
    ASSUME Init, SubsInv
    PROVE  GridInv
  <1>1. PlanCycles
    BY DEF Init, PlanCycles, Cycle
  <1>2. \A r \in Requests : RequestGrid(req[r])
    BY DEF Init, RequestGrid, Idle, Holding
  <1>3. \A i \in DOMAIN subs : OnGrid(subs[i])
    <2>1. CASE subs = <<>>
      BY <2>1
    <2>2. CASE plans[Free] # None /\ subs = <<NewRow(Free, 0)>>
      <3>1. /\ Free \in Plans /\ now = 0
            /\ DOMAIN subs = {1} /\ subs[1] = NewRow(Free, 0)
        BY <2>2, ConstantsAssumption DEF Init
      <3>2. ASSUME CycleIsFixed(Free)
            PROVE  plans[Free].cycle = Cycle(Free) /\ 0 % Cycle(Free) = 0
        <4>1. plans[Free].cycle = Cycle(Free) /\ plans[Free] \in Setting
          BY <1>1, <2>2, <3>1, <3>2 DEF PlanCycles, SubsInv, TypeOK
        <4>2. QED
          BY <4>1 DEF Setting
      <3>3. QED
        BY <3>1, <3>2 DEF OnGrid, NewRow
    <2>3. QED
      BY <2>1, <2>2 DEF Init
  <1>4. QED
    BY <1>1, <1>2, <1>3 DEF GridInv

LEMMA GridKept == SubsInv /\ GridInv /\ [Next]_vars => GridInv'
  <1> SUFFICES ASSUME SubsInv, GridInv, [Next]_vars
               PROVE  GridInv'
    OBVIOUS
  <1>0. SubsInv' /\ now \in Nat
    BY NextKeeps DEF SubsInv, TypeOK
  <1>1. ASSUME NEW r \in Requests, Start(r) \/ Step(r) \/ Fail(r)
        PROVE  GridInv'
    BY <1>0, <1>1, GridStart, GridFind, GridProvision, GridInsert, GridDecide, GridSwitch,
       GridRoll, GridCheck, GridReplace, GridMark DEF Step
  <1>2. ASSUME NEW w \in PlanWrites, AdminWritePlan(w[1], w[2])
        PROVE  GridInv'
    BY <1>2, GridWritePlan
  <1>3. CASE Tick
    BY <1>0, <1>3, GridClock DEF Tick
  <1>4. CASE UNCHANGED vars
    BY <1>0, <1>4, GridClock DEF vars
  <1>5. QED
    BY <1>1, <1>2, <1>3, <1>4 DEF Next

(* Billing windows stay on the grid of their row: one cycle long, a whole  *)
(* number of cycles after the first day, never in the future, however many *)
(* requests roll rows over from what they read before.                     *)
THEOREM WindowsTile == Spec => []WindowsOnGrid
  <1>1. SubsInv /\ GridInv => WindowsOnGrid
    <2> SUFFICES ASSUME SubsInv, GridInv, NEW i \in DOMAIN subs,
                        CycleIsFixed(subs[i].plan)
                 PROVE  /\ subs[i].end = subs[i].start + plans[subs[i].plan].cycle
                        /\ subs[i].start \in subs[i].since .. now
                        /\ (subs[i].start - subs[i].since) % plans[subs[i].plan].cycle = 0
      BY DEF WindowsOnGrid
    <2>1. subs[i] \in Row /\ plans[subs[i].plan] # None /\ now \in Nat /\ OnGrid(subs[i])
      BY DEF SubsInv, TypeOK, RowsHavePlans, GridInv
    <2>2. /\ subs[i].plan \in Plans /\ subs[i].start \in Nat /\ subs[i].since \in Nat
      BY <2>1 DEF Row
    <2>3. plans[subs[i].plan].cycle = Cycle(subs[i].plan)
      BY <2>1, <2>2 DEF GridInv, PlanCycles
    <2>4. QED
      BY <2>1, <2>2, <2>3 DEF OnGrid
  <1>2. Init => SubsInv /\ GridInv
    BY InitHolds, GridInit
  <1>3. QED
    BY <1>1, <1>2, NextKeeps, GridKept, PTL DEF Spec

-----------------------------------------------------------------------------
(* Entitlement.  A plan cannot be both higher and lower than another, and  *)
(* only what the plans cost and allow decides which it is.                 *)
LEMMA HigherIsNotLower ==
    ASSUME NEW s \in Setting, NEW t \in Setting, IsHigherPlan(s, t)
    PROVE  ~IsHigherPlan(t, s)
  BY DEF IsHigherPlan, Setting, Unlimited

LEMMA HigherByRank ==
    ASSUME NEW s1, NEW s2, NEW t1, NEW t2, SameRank(s1, s2), SameRank(t1, t2),
           IsHigherPlan(s1, t1)
    PROVE  IsHigherPlan(s2, t2)
  BY DEF IsHigherPlan, SameRank

(* A row that a switch ends too early has been rolled over in between:     *)
(* what the switch had read was due.                                       *)
LEMMA SwitchLoses ==
    ASSUME SubsInv, GridInv, NEW r \in Requests, Switch(r),
           NEW i \in DOMAIN subs, LostEarly(i)
    PROVE  req[r].id = i /\ req[r].row.end < subs[i].end
  <1> DEFINE me   == req[r]
             next == ScheduledPlan(me.row.scheduled)
             old  == [subs EXCEPT ![me.id].status = "CANCELED"]
             new  == NewRow(next, me.at)
  <1>1. /\ subs \in Seq(Row) /\ me \in Request /\ me.row \in Row /\ now \in Nat
        /\ me.row.end <= me.at /\ me.at <= now /\ subs[i] \in Row
        /\ \A j \in DOMAIN subs : subs[j] \in Row
    BY SubsInvFacts DEF Switch, RequestInv, Holding, GridInv, RequestGrid, TypeOK
  <1>2. subs' = Append(old, new)
    BY DEF Switch, LostEarly
  <1>3. subs'[i] = old[i]
    <2>1. old \in Seq(Row) /\ Len(old) = Len(subs) /\ i \in 1 .. Len(subs)
      <3>1. \A j \in DOMAIN subs : [subs[j] EXCEPT !.status = "CANCELED"] \in Row
        BY <1>1 DEF Row, Statuses
      <3>2. old \in [DOMAIN subs -> Row]
        BY <1>1, <3>1
      <3>3. DOMAIN subs = 1 .. Len(subs) /\ Len(subs) \in Nat
        BY <1>1
      <3> HIDE DEF old
      <3>4. QED
        BY <3>2, <3>3
    <2> HIDE DEF old, new
    <2>2. QED
      BY <1>2, <2>1
  <1>4. me.id = i
    BY <1>3 DEF LostEarly
  <1>5. me.row.end < subs[i].end
    <2>1. now < subs[i].end
      BY DEF LostEarly
    <2>2. me.row.end \in Nat /\ subs[i].end \in Nat /\ me.at \in Nat
      BY <1>1 DEF Row, Request
    <2> HIDE DEF me
    <2>3. QED
      BY <1>1, <2>1, <2>2
  <1>6. QED
    BY <1>4, <1>5

(* An upgrade goes to what was the higher plan when it read the two.       *)
LEMMA ReplaceLoses ==
    ASSUME SubsInv, GridInv, NEW r \in Requests, Replace(r),
           NEW i \in DOMAIN subs, LostEarly(i)
    PROVE  req[r].id = i /\ Repriced(r)
  <1> DEFINE me   == req[r]
             mine == IF me.row.status = "ACTIVE" THEN {me.id} ELSE {}
             old  == [j \in DOMAIN subs |-> IF j \in mine THEN Canceled(subs[j]) ELSE subs[j]]
             new  == [NewRow(me.target, me.at) EXCEPT !.end = me.at + me.goal.cycle]
  <1>1. /\ TypeOK /\ subs \in Seq(Row) /\ me \in Request /\ me.row \in Row
        /\ me.target \in Plans /\ plans[me.target] # None
        /\ me.goal \in Setting /\ me.plan \in Setting
        /\ IsHigherPlan(me.goal, me.plan)
        /\ me.row.plan = subs[me.id].plan
        /\ plans[me.target] \in Setting
        /\ \A j \in DOMAIN subs : subs[j] \in Row /\ plans[subs[j].plan] \in Setting
    BY SubsInvFacts DEF Replace, RequestInv, Holding, GridInv, RequestGrid, TypeOK
  <1>2. subs' = Append(old, new)
    BY DEF Replace, LostEarly
  <1>3. old \in [DOMAIN subs -> Row] /\ old \in Seq(Row) /\ Len(old) = Len(subs)
    <2>1. old \in [DOMAIN subs -> Row]
      BY <1>1, CanceledIsRow
    <2>2. DOMAIN subs = 1 .. Len(subs) /\ Len(subs) \in Nat
      BY <1>1
    <2> HIDE DEF old
    <2>3. QED
      BY <2>1, <2>2
  <1>4. new.plan = me.target /\ new.status = "ACTIVE"
    BY DEF NewRow
  <1>5. /\ subs'[i] = old[i] /\ Len(subs) + 1 \in DOMAIN subs'
        /\ subs'[Len(subs) + 1] = new
    <2>1. i \in 1 .. Len(subs)
      BY <1>1
    <2> HIDE DEF old, new
    <2>2. QED
      BY <1>2, <1>3, <2>1
  <1>6. me.id = i
    BY <1>5 DEF LostEarly
  <1>7. IsHigherPlan(plans[subs[i].plan], plans[me.target])
    BY <1>4, <1>5 DEF LostEarly, ActiveRows
  <1>8. ~IsHigherPlan(plans[me.target], plans[subs[i].plan])
    BY <1>1, <1>7, HigherIsNotLower
  <1>9. Repriced(r)
    <2>1. SUFFICES ASSUME SameRank(me.goal, plans[me.target]),
                          SameRank(me.plan, plans[me.row.plan])
                   PROVE  FALSE
      BY DEF Repriced
    <2>2. QED
      BY <1>1, <1>6, <1>8, <2>1, HigherByRank
  <1>10. QED
    BY <1>6, <1>9

(* Nobody loses a period that is running but to a switch that another      *)
(* request has overtaken by a rollover, or to an upgrade whose plans an    *)
(* administrator repriced meanwhile.                                       *)
THEOREM PeriodsAreKept == Spec => KeptForThePeriod
  <1>1. ASSUME SubsInv, GridInv, Next, NEW i \in DOMAIN subs, LostEarly(i)
        PROVE  \E r \in Requests :
                 /\ req[r].id = i
                 /\ \/ Switch(r) /\ req[r].row.end < subs[i].end
                    \/ Replace(r) /\ Repriced(r)
    <2>1. CASE \E r \in Requests : Switch(r)
      BY <1>1, <2>1, SwitchLoses
    <2>2. CASE \E r \in Requests : Replace(r)
      BY <1>1, <2>2, ReplaceLoses
    <2>3. subs'[i].status # subs[i].status /\ subs[i] \in Row
      BY <1>1 DEF LostEarly, SubsInv, TypeOK
    <2>4. ~UNCHANGED subs
      BY <2>3
    <2>5. ASSUME NEW r \in Requests, Insert(r)
          PROVE  FALSE
      <3>1. subs \in Seq(Row) /\ req[r].row \in Row
        BY <1>1, <2>5, SubsInvFacts DEF Insert, RequestInv, TypeOK
      <3>2. QED
        BY <2>3, <2>4, <2>5, <3>1 DEF Insert
    <2>6. ASSUME NEW r \in Requests, Roll(r) \/ Restore(r) \/ Schedule(r)
          PROVE  FALSE
      BY <2>3, <2>6 DEF Roll, Restore, Schedule, Row
    <2>7. ASSUME NEW r \in Requests, AdminApply(r)
          PROVE  FALSE
      BY <1>1, <2>7 DEF LostEarly
    <2>8. ASSUME NEW r \in Requests,
                 \/ FindActive(r) \/ Provision(r) \/ Adopt(r) \/ Decide(r) \/ Reply(r)
                 \/ Check(r) \/ Fail(r) \/ Start(r)
          PROVE  FALSE
      BY <2>4, <2>8 DEF FindActive, Provision, Adopt, Decide, Reply, Check, Fail, Start, ReadStart,
                        ChangeStart, AdminStart
    <2>9. UNCHANGED subs \/ \E r \in Requests : Start(r) \/ Step(r) \/ Fail(r)
      BY <1>1 DEF Next, AdminWritePlan, Tick
    <2>10. QED
      BY <2>1, <2>2, <2>4, <2>5, <2>6, <2>7, <2>8, <2>9 DEF Step
  <1>2. SubsInv /\ GridInv /\ [Next]_vars
          => [\A i \in DOMAIN subs :
                LostEarly(i) =>
                  \E r \in Requests :
                    /\ req[r].id = i
                    /\ \/ Switch(r) /\ req[r].row.end < subs[i].end
                       \/ Replace(r) /\ Repriced(r)]_vars
    BY <1>1
  <1>3. Init => SubsInv /\ GridInv
    BY InitHolds, GridInit
  <1>4. QED
    BY <1>2, <1>3, NextKeeps, GridKept, PTL DEF Spec, KeptForThePeriod

-----------------------------------------------------------------------------
(* Downgrades.  Only a rollover changes the end of a row, and it is begun  *)
(* only on a copy of the row that had no downgrade pending.                *)
LEMMA OnlyRollMovesEnd ==
    ASSUME SubsInv, Next, NEW i \in DOMAIN subs,
           ~\E r \in Requests : Roll(r) /\ req[r].id = i
    PROVE  subs'[i].end = subs[i].end
  <1>1. /\ subs \in Seq(Row) /\ \A k \in DOMAIN subs : subs[k] \in Row
        /\ DOMAIN subs = 1 .. Len(subs) /\ Len(subs) \in Nat
    BY DEF SubsInv, TypeOK
  <1>2. ASSUME NEW old, old \in [DOMAIN subs -> Row], NEW new, new \in Row,
               subs' = Append(old, new), old[i].end = subs[i].end
        PROVE  subs'[i].end = subs[i].end
    <2>1. old \in Seq(Row) /\ Len(old) = Len(subs)
      BY <1>1, <1>2
    <2>2. QED
      BY <1>1, <1>2, <2>1
  <1>3. CASE UNCHANGED subs
    BY <1>3
  <1>4. ASSUME NEW r \in Requests, Roll(r) \/ Restore(r) \/ Schedule(r)
        PROVE  subs'[i].end = subs[i].end
    <2>1. CASE Roll(r)
      <3>1. req[r].id # i
        BY <2>1
      <3>2. QED
        BY <1>1, <2>1, <3>1 DEF Roll
    <2>2. CASE Restore(r)
      BY <1>1, <2>2 DEF Restore, Row
    <2>3. CASE Schedule(r)
      BY <1>1, <2>3 DEF Schedule, Row
    <2>4. QED
      BY <1>4, <2>1, <2>2, <2>3
  <1>5. ASSUME NEW r \in Requests, Insert(r)
        PROVE  subs'[i].end = subs[i].end
    <2>1. req[r].row \in Row
      BY <1>5, SubsInvFacts DEF Insert, RequestInv
    <2>2. QED
      BY <1>1, <1>2, <1>3, <1>5, <2>1 DEF Insert
  <1>6. ASSUME NEW r \in Requests, Switch(r)
        PROVE  subs'[i].end = subs[i].end
    <2> DEFINE next == ScheduledPlan(req[r].row.scheduled)
               old  == [subs EXCEPT ![req[r].id].status = "CANCELED"]
               new  == NewRow(next, req[r].at)
    <2>1. CASE plans[next] # None /\ subs' = Append(old, new)
      <3>1. req[r] \in Request /\ req[r].row \in Row
        BY <1>6, SubsInvFacts DEF Switch, RequestInv, Holding
      <3>2. next \in Plans /\ req[r].at \in Nat
        BY <3>1, ScheduledPlanIsPlan DEF Row, Request
      <3>3. new \in Row
        BY <2>1, <3>2, NewRowIsRow DEF SubsInv
      <3>4. old \in [DOMAIN subs -> Row] /\ old[i].end = subs[i].end
        BY <1>1 DEF Row, Statuses
      <3> HIDE DEF old, new, next
      <3>5. QED
        BY <1>2, <2>1, <3>3, <3>4
    <2>2. QED
      BY <1>3, <1>6, <2>1 DEF Switch
  <1>7. ASSUME NEW r \in Requests, Replace(r)
        PROVE  subs'[i].end = subs[i].end
    <2> DEFINE me   == req[r]
               mine == IF me.row.status = "ACTIVE" THEN {me.id} ELSE {}
               old  == [k \in DOMAIN subs |-> IF k \in mine THEN Canceled(subs[k]) ELSE subs[k]]
               new  == [NewRow(me.target, me.at) EXCEPT !.end = me.at + me.goal.cycle]
    <2>1. CASE subs' = Append(old, new)
      <3>1. /\ me \in Request /\ me.target \in Plans /\ plans[me.target] # None
            /\ me.goal \in Setting
        BY <1>7, SubsInvFacts DEF Replace, RequestInv
      <3>2. me.at \in Nat /\ me.at + me.goal.cycle \in Nat
        BY <3>1 DEF Request, Setting
      <3>3. NewRow(me.target, me.at) \in Row
        BY <3>1, <3>2, NewRowIsRow DEF SubsInv
      <3>4. new \in Row
        BY <3>2, <3>3 DEF Row
      <3>5. old \in [DOMAIN subs -> Row] /\ old[i].end = subs[i].end
        BY <1>1, CanceledIsRow DEF Canceled, Row
      <3> HIDE DEF old, new
      <3>6. QED
        BY <1>2, <2>1, <3>4, <3>5
    <2>2. QED
      BY <1>3, <1>7, <2>1 DEF Replace
  <1>8. ASSUME NEW r \in Requests, AdminApply(r)
        PROVE  subs'[i].end = subs[i].end
    BY <1>1, <1>8 DEF AdminApply, Canceled, Row
  <1>9. ASSUME NEW r \in Requests, Start(r)
        PROVE  UNCHANGED subs
    BY <1>9 DEF Start, ReadStart, ChangeStart, AdminStart
  <1>10. ASSUME NEW r \in Requests,
                \/ FindActive(r) \/ Provision(r) \/ Adopt(r) \/ Decide(r) \/ Reply(r)
                \/ Check(r) \/ Fail(r)
         PROVE  UNCHANGED subs
    BY <1>10 DEF FindActive, Provision, Adopt, Decide, Reply, Check, Fail
  <1>11. (\E w \in PlanWrites : AdminWritePlan(w[1], w[2])) \/ Tick => UNCHANGED subs
    BY DEF AdminWritePlan, Tick
  <1>12. QED
    BY <1>3, <1>4, <1>5, <1>6, <1>7, <1>8, <1>9, <1>10, <1>11 DEF Next, Step

(* A request that is to roll a row over has a copy without a downgrade.    *)
RollsUncanceled == \A r \in Requests : req[r].pc = "roll" => ~req[r].row.canceled

(* What a step does to the requests: at most one of them moves, and only   *)
(* Decide leads to a rollover, from a copy that it keeps.                  *)
LEMMA OnlyDecideRolls ==
    ASSUME SubsInv, [Next]_vars, NEW r \in Requests
    PROVE  \/ req'[r] = req[r]
           \/ /\ Decide(r) /\ req'[r].row = req[r].row /\ req'[r].id = req[r].id
              /\ req'[r].pc = AfterDecision(req[r].row, now)
           \/ req'[r].pc \notin {"roll", "decide"}
           \/ /\ req'[r].pc = "decide" /\ req'[r].row = subs'[req'[r].id]
  <1>1. req \in [Requests -> Request] /\ req[r] \in Request
    BY DEF SubsInv, TypeOK
  <1>2. ASSUME NEW q \in Requests \ {r}, Start(q) \/ Step(q) \/ Fail(q)
        PROVE  req'[r] = req[r]
    BY <1>1, <1>2 DEF Start, Step, Fail, ReadStart, ChangeStart, AdminStart, FindActive,
       Provision, Insert, Adopt, Decide, Switch, Roll, Reply, Check, Restore, Replace, Schedule,
       AdminApply, Hold, Goto, Finish
  <1>3. ASSUME NEW i, NEW pc, Hold(r, i, pc)
        PROVE  req'[r].pc = pc /\ req'[r].id = i /\ req'[r].row = subs'[i]
    BY <1>1, <1>3 DEF Hold, Request
  <1>4. Finish(r) => req'[r].pc = "idle"
    BY <1>1 DEF Finish, Idle
  <1>5. \A pc : Goto(r, pc) => req'[r].pc = pc
    BY <1>1 DEF Goto, Request
  <1>6. CASE Start(r)
    <2>1. ReadStart(r) => req'[r].pc = "find"
      BY <1>1 DEF ReadStart, Request
    <2>2. ASSUME NEW op, NEW p, ChangeStart(r, op, p)
          PROVE  req'[r].pc = "find"
      BY <1>1, <2>2 DEF ChangeStart, Request
    <2>3. ASSUME NEW i, NEW s, AdminStart(r, i, s)
          PROVE  req'[r].pc = "apply"
      BY <1>1, <2>3 DEF AdminStart, Request
    <2>4. QED
      BY <1>6, <2>1, <2>2, <2>3 DEF Start
  <1>7. CASE Decide(r)
    BY <1>1, <1>7 DEF Decide, Request
  <1>8. CASE FindActive(r) \/ Provision(r) \/ Insert(r) \/ Adopt(r)
    <2>1. req' = [req EXCEPT ![r].pc = "insert", ![r].row = NewRow(Free, now)]
            => req'[r].pc = "insert"
      BY <1>1 DEF Request
    <2>2. QED
      BY <1>3, <1>4, <1>5, <1>8, <2>1 DEF FindActive, Provision, Insert, Adopt
  <1>9. CASE Switch(r) \/ Roll(r)
    BY <1>3, <1>4, <1>9 DEF Switch, Roll
  <1>10. CASE Reply(r) \/ Restore(r) \/ Replace(r) \/ Schedule(r) \/ AdminApply(r) \/ Fail(r)
    BY <1>4, <1>10 DEF Reply, Restore, Replace, Schedule, AdminApply, Fail
  <1>11. CASE Check(r)
    <2> DEFINE pc == IF req[r].op = "upgrade" THEN AfterUpgradeCheck(req[r])
                                              ELSE AfterDowngradeCheck(req[r])
    <2>1. Finish(r) \/ req' = [req EXCEPT ![r].pc = pc, ![r].at = now]
      BY <1>11 DEF Check
    <2>2. pc \in {"idle", "restore", "replace", "schedule"}
      <3>1. req[r].row \in Row /\ req[r].row.canceled \in BOOLEAN
        BY <1>11, SubsInvFacts DEF Check, RequestInv, Holding, Row
      <3>2. OnTarget(req[r]) \in BOOLEAN /\ IsHigherPlan(req[r].goal, req[r].plan) \in BOOLEAN
        BY DEF OnTarget, IsHigherPlan
      <3>3. QED
        BY <3>1, <3>2 DEF AfterUpgradeCheck, AfterDowngradeCheck
    <2> HIDE DEF pc
    <2>3. QED
      BY <1>1, <1>4, <2>1, <2>2 DEF Request
  <1>12. (\E w \in PlanWrites : AdminWritePlan(w[1], w[2])) \/ Tick \/ UNCHANGED vars
           => req'[r] = req[r]
    BY DEF AdminWritePlan, Tick, vars
  <1>13. QED
    BY <1>2, <1>6, <1>7, <1>8, <1>9, <1>10, <1>11, <1>12 DEF Next, Step

LEMMA RollsStayUncanceled ==
    ASSUME SubsInv, RollsUncanceled, [Next]_vars
    PROVE  RollsUncanceled'
  <1> SUFFICES ASSUME NEW r \in Requests, req'[r].pc = "roll"
               PROVE  ~req'[r].row.canceled
    BY DEF RollsUncanceled
  <1>1. CASE Decide(r) /\ req'[r].row = req[r].row /\ req'[r].pc = AfterDecision(req[r].row, now)
    <2>1. req[r].row.canceled \in BOOLEAN /\ req[r].row.end \in Nat /\ now \in Nat
      BY <1>1, SubsInvFacts DEF Decide, RequestInv, Holding, Row, SubsInv, TypeOK
    <2>2. QED
      BY <1>1, <2>1 DEF AfterDecision
  <1>2. QED
    BY <1>1, OnlyDecideRolls DEF RollsUncanceled

(* A pending downgrade is carried into another period only by a request    *)
(* that rolls the row over from a copy in which it was not yet pending: it *)
(* read the row before the downgrade was scheduled.                        *)
THEOREM DowngradesLateOnlyInRaces ==
    Spec => [][\A i \in ActiveRows : subs[i].scheduled # None =>
                 \/ subs'[i].end = subs[i].end
                 \/ \E r \in Requests : /\ Roll(r) /\ req[r].id = i
                                        /\ subs[i].canceled /\ ~req[r].row.canceled]_vars
  <1> DEFINE Moved == \A i \in ActiveRows : subs[i].scheduled # None =>
                        \/ subs'[i].end = subs[i].end
                        \/ \E r \in Requests : /\ Roll(r) /\ req[r].id = i
                                               /\ subs[i].canceled /\ ~req[r].row.canceled
  <1>1. Init => RollsUncanceled
    BY DEF Init, RollsUncanceled, Idle
  <1>2. SubsInv /\ RollsUncanceled /\ [Next]_vars => [Moved]_vars
    <2> SUFFICES ASSUME SubsInv, RollsUncanceled, Next,
                        NEW i \in ActiveRows, subs[i].scheduled # None,
                        subs'[i].end # subs[i].end
                 PROVE  \E r \in Requests : /\ Roll(r) /\ req[r].id = i
                                            /\ subs[i].canceled /\ ~req[r].row.canceled
      OBVIOUS
    <2>1. i \in DOMAIN subs /\ subs[i].canceled
      BY DEF ActiveRows, SubsInv, ScheduledIsPending
    <2>2. PICK r \in Requests : Roll(r) /\ req[r].id = i
      BY <2>1, OnlyRollMovesEnd
    <2>3. ~req[r].row.canceled
      BY <2>2 DEF Roll, RollsUncanceled
    <2>4. QED
      BY <2>1, <2>2, <2>3
  <1>3. SubsInv /\ RollsUncanceled /\ [Next]_vars => RollsUncanceled'
    BY RollsStayUncanceled
  <1>4. QED
    BY <1>1, <1>2, <1>3, InitHolds, NextKeeps, PTL DEF Spec

-----------------------------------------------------------------------------
(* One request at a time: until it has resolved the row, its copy is what  *)
(* the table has.                                                          *)
CopyIsFresh ==
    \A r \in Requests : req[r].pc \in {"decide", "roll"} => req[r].row = subs[req[r].id]

LEMMA CopyStaysFresh ==
    ASSUME NEW one, Requests = {one}, SubsInv, CopyIsFresh, [Next]_vars
    PROVE  CopyIsFresh'
  <1> SUFFICES ASSUME req'[one].pc \in {"decide", "roll"}
               PROVE  req'[one].row = subs'[req'[one].id]
    BY DEF CopyIsFresh
  <1>1. CASE Decide(one) /\ req'[one].row = req[one].row /\ req'[one].id = req[one].id
    BY <1>1 DEF Decide, CopyIsFresh
  <1>2. CASE req'[one] = req[one]
    <2>1. req[one] \in Request /\ req \in [Requests -> Request]
      BY DEF SubsInv, TypeOK
    <2>2. ASSUME Finish(one)
          PROVE  FALSE
      BY <2>1, <2>2 DEF Finish, Idle
    <2>3. UNCHANGED subs
      <3>1. CASE Start(one)
        BY <3>1 DEF Start, ReadStart, ChangeStart, AdminStart
      <3>2. CASE Step(one)
        <4>1. Switch(one) => UNCHANGED subs
          BY <1>2 DEF Switch
        <4>2. ~Roll(one)
          BY <1>2, <2>1 DEF Roll, Hold, Request
        <4>3. Insert(one) => UNCHANGED subs
          BY <1>2, <2>1 DEF Insert, Hold, Request
        <4>4. QED
          BY <2>2, <3>2, <4>1, <4>2, <4>3
             DEF Step, FindActive, Provision, Adopt, Decide, Reply, Check, Restore, Replace,
                 Schedule, AdminApply
      <3>3. CASE Fail(one) \/ Tick \/ \E w \in PlanWrites : AdminWritePlan(w[1], w[2])
        BY <3>3 DEF Fail, Tick, AdminWritePlan
      <3>4. CASE UNCHANGED vars
        BY <3>4 DEF vars
      <3>5. QED
        BY <3>1, <3>2, <3>3, <3>4 DEF Next
    <2>4. QED
      BY <1>2, <2>3 DEF CopyIsFresh
  <1>3. QED
    BY <1>1, <1>2, OnlyDecideRolls

(* So with one request at a time every downgrade is carried out on time,   *)
(* as the documentation says: what `DowngradeOnTime` is violated by is the *)
(* overlap of two requests, and nothing else.                              *)
THEOREM AloneDowngradesOnTime ==
    ASSUME NEW one, Requests = {one}
    PROVE  Spec => DowngradeOnTime
  <1> DEFINE OnTime == \A i \in ActiveRows : subs[i].scheduled # None =>
                         subs'[i].end = subs[i].end \/ subs'[i].scheduled = None
  <1>1. Init => RollsUncanceled /\ CopyIsFresh
    BY DEF Init, RollsUncanceled, CopyIsFresh, Idle
  <1>2. SubsInv /\ RollsUncanceled /\ CopyIsFresh /\ [Next]_vars => [OnTime]_vars
    <2> SUFFICES ASSUME SubsInv, RollsUncanceled, CopyIsFresh, Next,
                        NEW i \in ActiveRows, subs[i].scheduled # None
                 PROVE  subs'[i].end = subs[i].end
      OBVIOUS
    <2>1. i \in DOMAIN subs /\ subs[i].canceled
      BY DEF ActiveRows, SubsInv, ScheduledIsPending
    <2>2. ASSUME NEW r \in Requests, Roll(r), req[r].id = i
          PROVE  FALSE
      BY <2>1, <2>2 DEF Roll, RollsUncanceled, CopyIsFresh
    <2>3. QED
      BY <2>1, <2>2, OnlyRollMovesEnd
  <1>3. SubsInv /\ RollsUncanceled /\ [Next]_vars => RollsUncanceled'
    BY RollsStayUncanceled
  <1>4. SubsInv /\ CopyIsFresh /\ [Next]_vars => CopyIsFresh'
    BY CopyStaysFresh
  <1>5. QED
    BY <1>1, <1>2, <1>3, <1>4, InitHolds, NextKeeps, PTL DEF Spec, DowngradeOnTime

(* The part of CatchesUp that needs no fairness: with one request at a     *)
(* time, a window that moves moves on to the next one, which has begun, so *)
(* every rollover of getCurrentSubscription brings the user nearer to the  *)
(* current window and none overshoots it.  (A stale copy of an overlapping *)
(* request may take the row back, along the grid: WindowsTile.)            *)
THEOREM AloneRollsForward ==
    ASSUME NEW one, Requests = {one}
    PROVE  Spec => [][\A i \in DOMAIN subs : subs'[i].end # subs[i].end =>
                         /\ subs'[i].start = subs[i].end
                         /\ subs[i].end < subs'[i].end
                         /\ subs[i].end <= now]_vars
  <1> DEFINE Forward == \A i \in DOMAIN subs : subs'[i].end # subs[i].end =>
                          /\ subs'[i].start = subs[i].end
                          /\ subs[i].end < subs'[i].end
                          /\ subs[i].end <= now
  <1>1. Init => CopyIsFresh
    BY DEF Init, CopyIsFresh, Idle
  <1>2. SubsInv /\ GridInv /\ CopyIsFresh /\ [Next]_vars => [Forward]_vars
    <2> SUFFICES ASSUME SubsInv, GridInv, CopyIsFresh, Next,
                        NEW i \in DOMAIN subs, subs'[i].end # subs[i].end
                 PROVE  /\ subs'[i].start = subs[i].end
                        /\ subs[i].end < subs'[i].end
                        /\ subs[i].end <= now
      OBVIOUS
    <2> PICK r \in Requests : Roll(r) /\ req[r].id = i
      BY OnlyRollMovesEnd
    <2>1. /\ req[r].pc = "roll" /\ req[r].row = subs[i]
          /\ subs' = [subs EXCEPT ![i].start = req[r].row.end,
                                  ![i].end = req[r].row.end + req[r].plan.cycle]
      BY DEF Roll, CopyIsFresh
    <2>2. subs[i] \in Row /\ req[r].plan \in Setting /\ req[r].at \in Nat /\ now \in Nat
      BY <2>1, SubsInvFacts DEF SubsInv, TypeOK, RequestInv, Holding, Request
    <2>3. subs'[i].start = subs[i].end /\ subs'[i].end = subs[i].end + req[r].plan.cycle
      BY <2>1, <2>2 DEF Row, SubsInv, TypeOK
    <2>4. subs[i].end <= req[r].at /\ req[r].at <= now
      BY <2>1 DEF GridInv, RequestGrid
    <2>5. QED
      BY <2>2, <2>3, <2>4 DEF Row, Setting
  <1>3. SubsInv /\ CopyIsFresh /\ [Next]_vars => CopyIsFresh'
    BY CopyStaysFresh
  <1>4. Init => SubsInv /\ GridInv
    BY InitHolds, GridInit
  <1>5. QED
    BY <1>1, <1>2, <1>3, <1>4, NextKeeps, GridKept, PTL DEF Spec

=============================================================================
