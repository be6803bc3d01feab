--------------------------- MODULE Metering_proofs ---------------------------
(* Proofs about Metering and the gate it implements. *)
EXTENDS Metering, Subscriptions_proofs, FiniteSetTheorems

-----------------------------------------------------------------------------
(* The gate counts as this module does. *)
LEMMA GateCounts ==
    /\ \A S : Gate!IsFiniteSet(S) <=> IsFiniteSet(S)
    /\ \A S : Gate!Cardinality(S) = Cardinality(S)
  <1>1. \A S : Gate!IsFiniteSet(S) <=> IsFiniteSet(S)
    BY DEF Gate!IsFiniteSet, IsFiniteSet
  <1>2. \A S : Gate!Cardinality(S) = Cardinality(S)
    BY DEF Gate!Cardinality, Cardinality
  <1>3. QED
    BY <1>1, <1>2

(* The committed calls are finitely many, never more than the workers; and *)
(* a call that moves into or out of the set changes its size by one.       *)
LEMMA CommittedFinite ==
    ASSUME Gate!GateAssumption
    PROVE  /\ IsFiniteSet(Gate!Committed)
           /\ Cardinality(Gate!Committed) \in Nat
           /\ Cardinality(Requests) \in Nat
           /\ Cardinality(Gate!Committed) <= Cardinality(Requests)
  <1>1. Gate!Committed \subseteq Requests
    BY DEF Gate!Committed
  <1>2. QED
    BY GateCounts, <1>1, FS_Subset, FS_CardinalityType DEF Gate!GateAssumption

LEMMA GateTypes == Gate!Spec => []Gate!TypeOK
  <1>1. Gate!Init => Gate!TypeOK
    BY DEF Gate!Init, Gate!TypeOK, Gate!Phases
  <1>2. Gate!TypeOK /\ [Gate!Next]_Gate!vars => Gate!TypeOK'
    <2> SUFFICES ASSUME Gate!TypeOK, [Gate!Next]_Gate!vars
                 PROVE  Gate!TypeOK'
      OBVIOUS
    <2> USE DEF Gate!TypeOK, Gate!Phases
    <2>1. ASSUME NEW w \in Requests, Gate!Check(w) \/ Gate!Admit(w) \/ Gate!Leave(w) \/ Gate!Charge(w)
          PROVE  Gate!TypeOK'
      BY <2>1 DEF Gate!Check, Gate!Admit, Gate!Leave, Gate!Charge, Gate!Move
    <2>2. CASE Gate!NewWindow
      BY <2>2 DEF Gate!NewWindow
    <2>3. CASE UNCHANGED Gate!vars
      BY <2>3 DEF Gate!vars
    <2>4. QED
      BY <2>1, <2>2, <2>3 DEF Gate!Next
  <1>3. QED
    BY <1>1, <1>2, PTL DEF Gate!Spec

(* One step of the gate keeps the bound.  Admission is the step that needs *)
(* the guard: the admitted call is not yet committed and used < Limit, so  *)
(* at most Cardinality(Workers) committed calls are added to less than     *)
(* Limit charges.  A charge trades a committed call for a charge, and a    *)
(* new window starts over with at most every worker committed.             *)
LEMMA GateStep ==
    ASSUME Gate!GateAssumption, Gate!GateInv, Gate!TypeOK', [Gate!Next]_Gate!vars
    PROVE  Gate!GateInv'
  <1> DEFINE size == Cardinality(Gate!Committed)
             workers == Cardinality(Requests)
  <1> USE DEF Gate!GateInv
  <1>0. /\ InitialPlans[Free].limit \in Nat \ {0} /\ Used \in Nat /\ Used' \in Nat
        /\ IsFiniteSet(Gate!Committed) /\ size \in Nat /\ workers \in Nat
        /\ size <= workers
    BY CommittedFinite DEF Gate!GateAssumption, Gate!TypeOK
  <1>1. /\ IsFiniteSet(Gate!Committed') /\ size' \in Nat /\ size' <= workers
    <2>1. Gate!Committed' \subseteq Requests
      BY DEF Gate!Committed
    <2>2. QED
      BY GateCounts, <2>1, FS_Subset, FS_CardinalityType DEF Gate!GateAssumption
  <1>2. ASSUME NEW w \in Requests, Gate!Check(w)
        PROVE  Gate!GateInv'
    <2>1. Gate!Committed' = Gate!Committed
      BY <1>2 DEF Gate!Check, Gate!Move, Gate!Committed, Gate!TypeOK
    <2>2. QED
      BY <2>1, <1>2, <1>0 DEF Gate!Check
  <1>3. ASSUME NEW w \in Requests, Gate!Admit(w)
        PROVE  Gate!GateInv'
    <2>1. CASE Phase[w] = "checking" /\ Used < InitialPlans[Free].limit
      BY GateCounts, <2>1, <1>3, <1>0, <1>1 DEF Gate!Admit
    <2>2. CASE Phase[w] = "stale"
      <3>1. Gate!Committed' = Gate!Committed
        BY <2>2, <1>3 DEF Gate!Admit, Gate!Move, Gate!Committed, Gate!TypeOK
      <3>2. QED
        BY <3>1, <1>3, <1>0 DEF Gate!Admit
    <2>3. QED
      BY <2>1, <2>2, <1>3 DEF Gate!Admit, Gate!Move
  <1>4. ASSUME NEW w \in Requests, Gate!Leave(w)
        PROVE  Gate!GateInv'
    <2>1. Gate!Committed' \subseteq Gate!Committed
      BY <1>4 DEF Gate!Leave, Gate!Move, Gate!Committed, Gate!TypeOK
    <2>2. size' <= size
      BY <2>1, <1>0, FS_Subset
    <2>3. QED
      BY GateCounts, <2>2, <1>4, <1>0, <1>1 DEF Gate!Leave
  <1>5. ASSUME NEW w \in Requests, Gate!Charge(w)
        PROVE  Gate!GateInv'
    <2>1. w \in Gate!Committed /\ Gate!Committed' = Gate!Committed \ {w}
      BY <1>5 DEF Gate!Charge, Gate!Move, Gate!Committed, Gate!TypeOK
    <2>2. size' = size - 1
      BY <2>1, <1>0, FS_RemoveElement
    <2>3. QED
      BY GateCounts, <2>2, <1>5, <1>0, <1>1 DEF Gate!Charge
  <1>6. CASE Gate!NewWindow
    BY GateCounts, <1>6, <1>0, <1>1 DEF Gate!NewWindow
  <1>7. CASE UNCHANGED Gate!vars
    <2>1. Gate!Committed' = Gate!Committed
      BY <1>7 DEF Gate!vars, Gate!Committed
    <2>2. QED
      BY <2>1, <1>7, <1>0 DEF Gate!vars
  <1>8. QED
    BY <1>2, <1>3, <1>4, <1>5, <1>6, <1>7 DEF Gate!Next

(* The charges of a window exceed the plan's limit by at most the number   *)
(* of other calls that can be in flight, whatever the limit, the number of *)
(* calls and the moments at which windows end.                             *)
THEOREM UsageIsBounded ==
    ASSUME Gate!GateAssumption
    PROVE  Gate!Spec => []Gate!UsageBounded
  <1>1. Gate!Init => Gate!GateInv
    <2> SUFFICES ASSUME Gate!Init PROVE Gate!GateInv
      OBVIOUS
    <2>1. Gate!TypeOK /\ Gate!Committed = {}
      BY DEF Gate!Init, Gate!TypeOK, Gate!Phases, Gate!Committed
    <2>2. Cardinality(Gate!Committed) = 0
      BY <2>1, FS_EmptySet
    <2>3. Cardinality(Requests) \in Nat
      BY CommittedFinite
    <2>4. QED
      BY GateCounts, <2>1, <2>2, <2>3 DEF Gate!GateInv, Gate!Init, Gate!GateAssumption
  <1>2. Gate!GateInv /\ Gate!TypeOK' /\ [Gate!Next]_Gate!vars => Gate!GateInv'
    BY GateStep
  <1>3. Gate!GateInv => Gate!UsageBounded
    BY GateCounts, CommittedFinite DEF Gate!GateInv, Gate!TypeOK, Gate!UsageBounded, Gate!GateAssumption
  <1>4. QED
    BY <1>1, <1>2, <1>3, GateTypes, PTL DEF Gate!Spec

-----------------------------------------------------------------------------
(* The steps of metered calls, as steps of Subscriptions: those of the     *)
(* check are its own, the others leave its state alone, but for the guard  *)
(* that hands over to the handler, and a call that dies.                   *)
LEMMA MeterStep ==
    ASSUME MeterNext
    PROVE  \/ [Next]_vars
           \/ \E r \in Requests : PassGuard(r) \/ Die(r)
  BY DEF MeterNext, CallStart, CallStep, Resolve, Refuse, PassCheck, Answer, Store, Record,
         PassTime, Next, Start, Step

LEMMA PassGuardKeeps ==
    ASSUME SubsInv, NEW r \in Requests, PassGuard(r)
    PROVE  SubsInv'
  <1>1. /\ UNCHANGED <<now, plans, subs, events>>
        /\ req' = [req EXCEPT ![r] = [Idle EXCEPT !.op = "read", !.pc = "find"]]
    BY DEF PassGuard
  <1>2. /\ req' = [req EXCEPT ![r] = req'[r]] /\ req'[r] \in Request
        /\ RequestInv(req[r])'
    BY <1>1 DEF SubsInv, TypeOK, Idle, Request, Ops, Pcs, RequestInv, Holding
  <1>3. QED
    BY <1>1, <1>2, TableUnchanged, StepOf DEF SubsInv, TypeOK

LEMMA DieKeeps ==
    ASSUME SubsInv, NEW r \in Requests, Die(r)
    PROVE  SubsInv'
  BY TableUnchanged, Finishing DEF Die, Spend, SubsInv, TypeOK

LEMMA MeterKeepsSubs == SubsInv /\ [MeterNext]_allVars => SubsInv'
  <1>1. UNCHANGED allVars => UNCHANGED vars
    BY DEF allVars, vars
  <1>2. QED
    BY <1>1, MeterStep, NextKeeps, PassGuardKeeps, DieKeeps

MeterTypes ==
    /\ SubsInv
    /\ stage \in [Requests -> Stages] /\ logs \in Seq(Log)
    /\ stored \in Nat /\ calls \in Nat

LEMMA MeterTypesKept == MeterTypes /\ [MeterNext]_allVars => MeterTypes'
  <1> SUFFICES ASSUME MeterTypes, [MeterNext]_allVars
               PROVE  MeterTypes'
    OBVIOUS
  <1>1. SubsInv' /\ now \in Nat
    BY MeterKeepsSubs DEF MeterTypes, SubsInv, TypeOK
  <1>2. ASSUME NEW r \in Requests, CallStart(r) \/ CallStep(r) \/ Die(r)
        PROVE  /\ stage' \in [Requests -> Stages] /\ logs' \in Seq(Log)
               /\ stored' \in Nat /\ calls' \in Nat
    <2>1. CASE CallStart(r) \/ Die(r)
      BY <2>1 DEF MeterTypes, CallStart, Die, Advance, Stages
    <2>2. CASE Resolve(r) \/ Refuse(r) \/ PassGuard(r) \/ PassCheck(r)
      BY <2>2 DEF MeterTypes, Resolve, Refuse, PassGuard, PassCheck, Advance, Stages
    <2>3. CASE Answer(r) \/ Store(r)
      BY <2>3 DEF MeterTypes, Answer, Store, Advance, Stages
    <2>4. CASE Record(r)
      <3>1. [at |-> now, status |-> IF stage[r] = "record" THEN 200 ELSE 502] \in Log
        BY <1>1 DEF Log
      <3>2. QED
        BY <2>4, <3>1 DEF MeterTypes, Record, Advance, Stages
    <2>5. QED
      BY <1>2, <2>1, <2>2, <2>3, <2>4 DEF CallStep
  <1>3. CASE PassTime \/ UNCHANGED allVars
    BY <1>1, <1>3 DEF PassTime, allVars, meterVars, MeterTypes
  <1>4. QED
    BY <1>1, <1>2, <1>3 DEF MeterNext, MeterTypes

LEMMA MeterTypesInit == MeterInit => MeterTypes
  BY InitHolds DEF MeterInit, MeterTypes, Stages

(* The variables of the metered calls keep their types, with those of the  *)
(* subscriptions they check.                                               *)
THEOREM MeterTypeCorrect == MeterSpec => []MeterTypeOK
  <1>1. MeterTypes => MeterTypeOK
    BY DEF MeterTypes, MeterTypeOK, SubsInv
  <1>2. QED
    BY <1>1, MeterTypesInit, MeterTypesKept, PTL DEF MeterSpec

-----------------------------------------------------------------------------
(* Counting.  The successful calls of a window are finitely many; a new    *)
(* log adds one if it is a success of the window, and none otherwise.      *)
Successes(from, to) ==
    {i \in DOMAIN logs : /\ from <= logs[i].at /\ logs[i].at < to
                         /\ 200 <= logs[i].status /\ logs[i].status < 400}

LEMMA CountIsNat ==
    ASSUME logs \in Seq(Log), NEW from, NEW to
    PROVE  /\ IsFiniteSet(Successes(from, to))
           /\ UsageCount(from, to) = Cardinality(Successes(from, to))
           /\ UsageCount(from, to) \in Nat
  <1>1. IsFiniteSet(1 .. Len(logs)) /\ Successes(from, to) \subseteq 1 .. Len(logs)
    BY FS_Interval DEF Successes
  <1>2. QED
    BY <1>1, FS_Subset, FS_CardinalityType DEF UsageCount, Successes

LEMMA CountAppend ==
    ASSUME logs \in Seq(Log), NEW e \in Log, logs' = Append(logs, e),
           NEW from \in Nat, NEW to \in Nat
    PROVE  /\ from <= e.at /\ e.at < to /\ e.status = 200
                => UsageCount(from, to)' = UsageCount(from, to) + 1
           /\ ~(from <= e.at /\ e.at < to /\ e.status = 200)
                => UsageCount(from, to)' = UsageCount(from, to)
  <1> DEFINE n == Len(logs) + 1
  <1>1. /\ DOMAIN logs = 1 .. Len(logs) /\ Len(logs) \in Nat
        /\ DOMAIN logs' = 1 .. n /\ logs'[n] = e
        /\ \A i \in 1 .. Len(logs) : logs'[i] = logs[i]
        /\ logs' \in Seq(Log) /\ e.status \in {200, 502}
    BY DEF Log
  <1>2. CASE from <= e.at /\ e.at < to /\ e.status = 200
    <2>1. Successes(from, to)' = Successes(from, to) \cup {n} /\ n \notin Successes(from, to)
      BY <1>1, <1>2 DEF Successes
    <2>2. Cardinality(Successes(from, to)') = Cardinality(Successes(from, to)) + 1
      BY <2>1, CountIsNat, FS_AddElement
    <2>3. QED
      BY <1>1, <1>2, <2>2, CountIsNat DEF UsageCount, Successes
  <1>3. CASE ~(from <= e.at /\ e.at < to /\ e.status = 200)
    <2>1. Successes(from, to)' = Successes(from, to)
      BY <1>1, <1>3 DEF Successes
    <2>2. QED
      BY <1>3, <2>1 DEF UsageCount, Successes
  <1>4. QED
    BY <1>2, <1>3

-----------------------------------------------------------------------------
(* A step of one call leaves what the other calls do and remember alone.   *)
LEMMA OthersUntouched ==
    ASSUME MeterTypes, NEW r \in Requests, CallStart(r) \/ CallStep(r) \/ Die(r),
           NEW q \in Requests \ {r}
    PROVE  req'[q] = req[q] /\ stage'[q] = stage[q]
  <1>1. req \in [Requests -> Request] /\ stage \in [Requests -> Stages]
    BY DEF MeterTypes, SubsInv, TypeOK
  <1>2. stage'[q] = stage[q]
    BY <1>1 DEF CallStart, CallStep, Resolve, Refuse, PassGuard, PassCheck, Answer, Store,
                Record, Die, Advance
  <1>3. CASE Answer(r) \/ Store(r) \/ Record(r)
    BY <1>3, <1>2 DEF Answer, Store, Record, vars
  <1>4. CASE CallStart(r) \/ Refuse(r) \/ PassGuard(r) \/ PassCheck(r) \/ Die(r)
    BY <1>1, <1>2, <1>4 DEF CallStart, Refuse, PassGuard, PassCheck, Die, ReadStart, Reply,
                            Finish
  <1>5. CASE Resolve(r)
    BY <1>1, <1>2, <1>5 DEF Resolve, FindActive, Provision, Insert, Adopt, Decide, Switch,
                            Roll, Hold, Goto, Finish
  <1>6. QED
    BY <1>3, <1>4, <1>5 DEF CallStep

(* Subscriptions are only looked up during the two checks. *)
InCheck == \A r \in Requests : req[r].pc # "idle" => stage[r] \in {"guard", "handler"}

LEMMA InCheckKept == MeterTypes /\ InCheck /\ [MeterNext]_allVars => InCheck'
  <1> SUFFICES ASSUME MeterTypes, InCheck, [MeterNext]_allVars
               PROVE  InCheck'
    OBVIOUS
  <1>1. req \in [Requests -> Request] /\ stage \in [Requests -> Stages]
    BY DEF MeterTypes, SubsInv, TypeOK
  <1>2. ASSUME NEW r \in Requests, CallStart(r) \/ CallStep(r) \/ Die(r)
        PROVE  InCheck'
    <2>1. req'[r].pc # "idle" => stage'[r] \in {"guard", "handler"}
      <3>1. CASE CallStart(r) \/ PassGuard(r)
        BY <1>1, <3>1 DEF CallStart, PassGuard, Advance
      <3>2. CASE Refuse(r) \/ PassCheck(r) \/ Die(r)
        BY <1>1, <3>2 DEF Refuse, PassCheck, Die, Reply, Finish, Idle
      <3>3. CASE Resolve(r)
        <4>1. stage'[r] = IF req'[r].pc = "idle" THEN "none" ELSE stage[r]
          BY <1>1, <3>3 DEF Resolve, Advance
        <4>2. req[r].pc # "idle"
          BY <3>3 DEF Resolve, FindActive, Provision, Insert, Adopt, Decide, Switch, Roll
        <4>3. QED
          BY <4>1, <4>2 DEF InCheck
      <3>4. CASE Answer(r) \/ Store(r) \/ Record(r)
        BY <3>4 DEF Answer, Store, Record, vars, InCheck
      <3>5. QED
        BY <1>2, <3>1, <3>2, <3>3, <3>4 DEF CallStep
    <2>2. ASSUME NEW q \in Requests \ {r}
          PROVE  req'[q] = req[q] /\ stage'[q] = stage[q]
      BY <1>2, OthersUntouched
    <2>3. QED
      BY <2>1, <2>2 DEF InCheck
  <1>3. CASE PassTime \/ UNCHANGED allVars
    BY <1>3 DEF PassTime, Tick, meterVars, allVars, InCheck
  <1>4. QED
    BY <1>2, <1>3 DEF MeterNext

-----------------------------------------------------------------------------
(* Accuracy.  What was stored is what has been charged, the calls about to *)
(* be logged, and at most one answer for each failure.                     *)
Recording == {r \in Requests : stage[r] = "record"}

AccurateInv ==
    /\ MeterTypes /\ InCheck
    /\ now <= MaxTime
    /\ IsFiniteSet(Recording)
    /\ Charges + Cardinality(Recording) <= stored
    /\ stored <= Charges + Cardinality(Recording) + events

LEMMA RecordingMoves ==
    ASSUME MeterTypes, IsFiniteSet(Recording), NEW r \in Requests, NEW s \in Stages,
           Advance(r, s)
    PROVE  /\ IsFiniteSet(Recording') /\ Cardinality(Recording) \in Nat
           /\ stage[r] # "record" /\ s # "record" => Recording' = Recording
           /\ stage[r] = "record" /\ s # "record"
                => /\ Cardinality(Recording') = Cardinality(Recording) - 1
                   /\ Cardinality(Recording') \in Nat
           /\ stage[r] # "record" /\ s = "record"
                => Cardinality(Recording') = Cardinality(Recording) + 1
           /\ stage[r] = "record" /\ s = "record" => Recording' = Recording
  <1>1. stage' = [stage EXCEPT ![r] = s] /\ stage \in [Requests -> Stages]
    BY DEF Advance, MeterTypes
  <1>2. CASE stage[r] # "record" /\ s = "record"
    <2>1. Recording' = Recording \cup {r} /\ r \notin Recording
      BY <1>1, <1>2 DEF Recording
    <2>2. QED
      BY <1>2, <2>1, FS_AddElement, FS_CardinalityType
  <1>3. CASE stage[r] = "record" /\ s # "record"
    <2>1. Recording' = Recording \ {r} /\ r \in Recording
      BY <1>1, <1>3 DEF Recording
    <2>2. QED
      BY <1>3, <2>1, FS_RemoveElement, FS_CardinalityType
  <1>4. CASE stage[r] = "record" <=> s = "record"
    <2>1. Recording' = Recording
      BY <1>1, <1>4 DEF Recording
    <2>2. QED
      BY <1>4, <2>1, FS_CardinalityType
  <1>5. QED
    BY <1>2, <1>3, <1>4

LEMMA AccurateKept == AccurateInv /\ [MeterNext]_allVars => AccurateInv'
  <1> SUFFICES ASSUME AccurateInv, [MeterNext]_allVars
               PROVE  AccurateInv'
    OBVIOUS
  <1> DEFINE size == Cardinality(Recording)
  <1>1. MeterTypes' /\ InCheck' /\ MeterTypes
    BY MeterTypesKept, InCheckKept DEF AccurateInv
  <1>2. /\ Charges \in Nat /\ size \in Nat /\ stored \in Nat /\ events \in Nat
        /\ now \in Nat /\ MaxTime \in Nat /\ logs \in Seq(Log)
    <2>1. logs \in Seq(Log) /\ IsFiniteSet(Recording)
      BY <1>1 DEF MeterTypes, AccurateInv
    <2>2. QED
      BY <1>1, <2>1, CountIsNat, FS_CardinalityType, ConstantsAssumption
         DEF Charges, MeterTypes, SubsInv, TypeOK
  <1>3. UNCHANGED logs => Charges' = Charges
    BY DEF Charges, UsageCount
  <1>4. now' <= MaxTime
    <2>1. now' = now \/ Tick
      BY DEF MeterNext, CallStart, CallStep, Resolve, Refuse, PassGuard, PassCheck, Answer,
             Store, Record, Die, PassTime, ReadStart, FindActive, Provision, Insert, Adopt,
             Decide, Switch, Roll, Reply, vars, allVars
    <2>2. QED
      BY <1>2, <2>1 DEF AccurateInv, Tick
  <1>5. ASSUME NEW r \in Requests, CallStart(r) \/ CallStep(r) \/ Die(r)
        PROVE  AccurateInv'
    <2>1. CASE CallStart(r) \/ Refuse(r) \/ PassGuard(r) \/ PassCheck(r) \/ Answer(r)
      <3>1. PICK s \in Stages \ {"record"} : Advance(r, s) /\ stage[r] # "record"
        BY <2>1 DEF CallStart, Refuse, PassGuard, PassCheck, Answer, Stages
      <3>2. UNCHANGED <<logs, stored, events>>
        BY <2>1 DEF CallStart, Refuse, PassGuard, PassCheck, Answer, ReadStart, Reply, vars
      <3>3. QED
        BY <1>1, <1>3, <1>4, <3>1, <3>2, RecordingMoves DEF AccurateInv
    <2>2. CASE Resolve(r)
      <3>1. stage[r] \in {"guard", "handler"}
        BY <2>2 DEF Resolve, FindActive, Provision, Insert, Adopt, Decide, Switch, Roll,
                    AccurateInv, InCheck
      <3>2. PICK s \in Stages \ {"record"} : Advance(r, s)
        BY <2>2, <3>1 DEF Resolve, Stages
      <3>3. UNCHANGED <<logs, stored, events>>
        BY <2>2 DEF Resolve, FindActive, Provision, Insert, Adopt, Decide, Switch, Roll
      <3>4. QED
        BY <1>1, <1>3, <1>4, <3>1, <3>2, <3>3, RecordingMoves DEF AccurateInv
    <2>3. CASE Store(r)
      <3>1. size' = size + 1 /\ IsFiniteSet(Recording')
        BY <1>1, <2>3, RecordingMoves DEF Store, AccurateInv, Stages
      <3>2. UNCHANGED <<logs, events>> /\ stored' = stored + 1
        BY <2>3 DEF Store, vars
      <3>3. QED
        BY <1>1, <1>2, <1>3, <1>4, <3>1, <3>2 DEF AccurateInv
    <2>4. CASE Record(r)
      <3> DEFINE e == [at |-> now, status |-> IF stage[r] = "record" THEN 200 ELSE 502]
      <3>1. e \in Log /\ logs' = Append(logs, e) /\ UNCHANGED <<stored, events>>
        BY <1>2, <2>4 DEF Record, Log, vars
      <3>2. 0 <= e.at /\ e.at < MaxTime + 1 /\ MaxTime + 1 \in Nat
        BY <1>2 DEF AccurateInv
      <3>3. CASE stage[r] = "record"
        <4>1. Charges' = Charges + 1
          BY <1>2, <3>1, <3>2, <3>3, CountAppend DEF Charges
        <4>2. size' = size - 1 /\ size' \in Nat /\ IsFiniteSet(Recording')
          BY <1>1, <2>4, <3>3, RecordingMoves DEF Record, AccurateInv, Stages
        <4>3. QED
          BY <1>1, <1>2, <1>4, <3>1, <4>1, <4>2 DEF AccurateInv
      <3>4. CASE stage[r] # "record"
        <4>1. Charges' = Charges
          BY <1>2, <3>1, <3>2, <3>4, CountAppend DEF Charges
        <4>2. Recording' = Recording
          BY <1>1, <2>4, <3>4, RecordingMoves DEF Record, AccurateInv, Stages
        <4>3. QED
          BY <1>1, <1>2, <1>4, <3>1, <4>1, <4>2 DEF AccurateInv
      <3>5. QED
        BY <3>3, <3>4
    <2>5. CASE Die(r)
      <3>1. /\ UNCHANGED <<logs, stored>> /\ events' = events + 1
        BY <2>5 DEF Die, Spend
      <3>2. size' \in {size, size - 1} /\ size' \in Nat /\ IsFiniteSet(Recording')
        BY <1>1, <1>2, <2>5, RecordingMoves DEF Die, AccurateInv, Stages
      <3>3. QED
        BY <1>1, <1>2, <1>3, <1>4, <3>1, <3>2 DEF AccurateInv
    <2>6. QED
      BY <1>5, <2>1, <2>2, <2>3, <2>4, <2>5 DEF CallStep
  <1>6. CASE PassTime \/ UNCHANGED allVars
    <2>1. UNCHANGED <<stage, logs, stored, events>>
      BY <1>6 DEF PassTime, meterVars, allVars, Tick
    <2>2. QED
      BY <1>1, <1>3, <1>4, <2>1 DEF AccurateInv, Recording
  <1>7. QED
    BY <1>5, <1>6 DEF MeterNext

(* Failed calls are never charged, and an answer escapes its charge only   *)
(* while it is about to be logged or when a failure has lost its log,      *)
(* however many calls run at once.                                         *)
THEOREM MeteringIsAccurate == MeterSpec => []MeteringAccurate
  <1>1. MeterInit => AccurateInv
    <2> SUFFICES ASSUME MeterInit
                 PROVE  AccurateInv
      OBVIOUS
    <2>1. MeterTypes /\ now = 0 /\ stored = 0 /\ events = 0 /\ logs = <<>>
      BY MeterTypesInit DEF MeterInit, Init
    <2>2. InCheck
      BY DEF MeterInit, Init, Idle, InCheck
    <2>3. Successes(0, MaxTime + 1) = {} /\ Recording = {}
      BY <2>1 DEF Successes, MeterInit, Recording
    <2>4. Charges = 0 /\ Cardinality(Recording) = 0 /\ IsFiniteSet(Recording)
      BY <2>3, FS_EmptySet DEF Charges, UsageCount, Successes
    <2>5. QED
      BY <2>1, <2>2, <2>4, ConstantsAssumption DEF AccurateInv
  <1>2. AccurateInv => MeteringAccurate
    <2> SUFFICES ASSUME AccurateInv
                 PROVE  MeteringAccurate
      OBVIOUS
    <2>1. Charges \in Nat /\ Cardinality(Recording) \in Nat /\ stored \in Nat
      BY CountIsNat, FS_CardinalityType DEF AccurateInv, Charges, MeterTypes
    <2>2. QED
      BY <2>1 DEF AccurateInv, MeteringAccurate, Recording
  <1>3. QED
    BY <1>1, <1>2, AccurateKept, PTL DEF MeterSpec

-----------------------------------------------------------------------------
(* The refinement.  Calls only read, so there is at most one row, on plan  *)
(* Free, ACTIVE and with no downgrade pending, and plans never change.     *)
Reading == {"idle", "find", "provision", "insert", "adopt", "decide", "roll", "resolved"}

ReaderInv(me) ==
    /\ me.op \in {"none", "read"} /\ me.pc \in Reading
    /\ me.pc \in Holding => ~me.row.canceled /\ me.row.plan = Free /\ me.plan = plans[Free]
    /\ me.pc = "insert" =>
         me.row.status = "ACTIVE" /\ me.row.plan = Free /\ ~me.row.canceled

OneRow ==
    /\ Len(subs) <= 1
    /\ \A i \in DOMAIN subs :
         subs[i].status = "ACTIVE" /\ subs[i].plan = Free /\ ~subs[i].canceled

(* Logs are of the past; the first call to pass the guard finds a row.     *)
LogsOfThePast ==
    /\ \A i \in DOMAIN logs : logs[i].at <= now
    /\ subs = <<>> => logs = <<>> /\ \A r \in Requests : stage[r] \in {"none", "guard"}

CallsInv ==
    /\ MeterTypes /\ GridInv
    /\ plans = InitialPlans /\ now <= MaxTime
    /\ OneRow
    /\ \A r \in Requests : ReaderInv(req[r])
    /\ LogsOfThePast

(* Sequences of no and of one element. *)
LEMMA ShortSequences ==
    ASSUME NEW S, NEW s \in Seq(S)
    PROVE  /\ DOMAIN s = 1 .. Len(s) /\ Len(s) \in Nat
           /\ DOMAIN s = {} => s = <<>>
           /\ DOMAIN s = {1} => Len(s) = 1 /\ s # <<>>
           /\ s # <<>> /\ Len(s) <= 1 => Len(s) = 1 /\ DOMAIN s = {1}
  <1>1. DOMAIN s = 1 .. Len(s) /\ Len(s) \in Nat
    OBVIOUS
  <1>2. Len(s) = 0 => s = <<>>
    OBVIOUS
  <1>3. Len(s) # 0 => 1 \in DOMAIN s
    BY <1>1
  <1>4. DOMAIN s = {1} => Len(s) = 1
    <2>1. SUFFICES ASSUME DOMAIN s = {1}
                   PROVE  Len(s) = 1
      OBVIOUS
    <2>2. 1 \in 1 .. Len(s)
      BY <1>1, <2>1
    <2>3. Len(s) \in 1 .. Len(s)
      BY <1>1, <2>2
    <2>4. QED
      BY <1>1, <2>1, <2>3
  <1>5. QED
    BY <1>1, <1>2, <1>3, <1>4

(* The steps of the check keep the one row, and its first day once it is   *)
(* there; whatever a request then holds is a copy of it.                   *)
LEMMA ReaderHolds ==
    ASSUME CallsInv, OneRow', NEW r \in Requests, NEW i \in DOMAIN subs',
           NEW pc \in {"decide", "resolved"}, Hold(r, i, pc), plans' = plans
    PROVE  ReaderInv(req[r])'
  <1>1. req[r] \in Request /\ ReaderInv(req[r])
    BY SubsInvFacts DEF CallsInv, MeterTypes
  <1>2. /\ req'[r].pc = pc /\ req'[r].op = req[r].op
        /\ req'[r].row = subs'[i] /\ req'[r].plan = plans[subs'[i].plan]
    BY <1>1 DEF Hold, Request, CallsInv, MeterTypes, SubsInv, TypeOK
  <1>3. QED
    BY <1>1, <1>2 DEF ReaderInv, OneRow, Reading, Holding

SameFirstDay == subs # <<>> => subs' # <<>> /\ subs'[1].since = subs[1].since

LEMMA ResolveReads ==
    ASSUME CallsInv, NEW r \in Requests, Resolve(r)
    PROVE  /\ OneRow' /\ SameFirstDay /\ ReaderInv(req[r])'
           /\ UNCHANGED <<now, plans, events>>
           /\ UNCHANGED subs \/ (subs = <<>> /\ subs' # <<>>) \/ Roll(r)
  <1>1. /\ SubsInv /\ req[r] \in Request /\ ReaderInv(req[r]) /\ RequestInv(req[r])
        /\ subs \in Seq(Row) /\ OneRow
        /\ \A i \in DOMAIN subs : subs[i] \in Row /\ i = 1
    <2>1. subs \in Seq(Row) /\ OneRow
      BY DEF CallsInv, MeterTypes, SubsInv, TypeOK
    <2>2. QED
      BY <2>1, SubsInvFacts DEF CallsInv, MeterTypes, OneRow
  <1>2. UNCHANGED <<now, plans, events>>
    BY DEF Resolve, FindActive, Provision, Insert, Adopt, Decide, Switch, Roll
  <1>3. UNCHANGED subs => OneRow' /\ SameFirstDay
    BY <1>1 DEF OneRow, SameFirstDay
  <1>4. ActiveRows = DOMAIN subs
    BY <1>1 DEF OneRow, ActiveRows
  <1>5. Finish(r) => ReaderInv(req[r])'
    BY DEF Finish, Idle, ReaderInv, Reading, Holding, CallsInv, MeterTypes, SubsInv, TypeOK
  <1>6. \A pc \in {"provision", "adopt"} : Goto(r, pc) => ReaderInv(req[r])'
    BY <1>1 DEF Goto, ReaderInv, Reading, Holding, Request, SubsInv, TypeOK
  <1>7. CASE FindActive(r) \/ Adopt(r)
    <2>1. UNCHANGED subs
      BY <1>7 DEF FindActive, Adopt
    <2>2. QED
      BY <1>2, <1>3, <1>4, <1>5, <1>6, <1>7, <2>1, ReaderHolds DEF FindActive, Adopt
  <1>8. CASE Provision(r)
    <2>1. UNCHANGED subs
      BY <1>8 DEF Provision
    <2>2. CASE Finish(r)
      BY <1>2, <1>3, <1>5, <2>1, <2>2
    <2>3. CASE req' = [req EXCEPT ![r].pc = "insert", ![r].row = NewRow(Free, now)]
      <3>1. /\ NewRow(Free, now).status = "ACTIVE" /\ NewRow(Free, now).plan = Free
            /\ ~NewRow(Free, now).canceled
        BY DEF NewRow
      <3>2. /\ req'[r].pc = "insert" /\ req'[r].row = NewRow(Free, now)
            /\ req'[r].op = req[r].op
        BY <1>1, <2>3 DEF Request, SubsInv, TypeOK
      <3>3. ReaderInv(req[r])'
        BY <1>1, <3>1, <3>2 DEF ReaderInv, Reading, Holding
      <3>4. QED
        BY <1>2, <1>3, <2>1, <3>3
    <2>4. QED
      BY <1>8, <2>2, <2>3 DEF Provision
  <1>9. CASE Insert(r)
    <2>1. CASE UNCHANGED subs /\ Goto(r, "adopt")
      BY <1>2, <1>3, <1>6, <2>1
    <2>2. CASE /\ ActiveRows = {} /\ subs' = Append(subs, req[r].row)
               /\ Hold(r, Len(subs'), "decide")
      <3>1. subs = <<>>
        BY <1>1, <1>4, <2>2, ShortSequences
      <3>2. subs' = <<req[r].row>>
        BY <2>2, <3>1
      <3>3. OneRow' /\ subs' # <<>> /\ Len(subs') \in DOMAIN subs'
        BY <1>1, <1>9, <3>2 DEF Insert, ReaderInv, OneRow
      <3>4. QED
        BY <1>2, <2>2, <3>1, <3>3, ReaderHolds DEF SameFirstDay
    <2>3. QED
      BY <1>9, <2>1, <2>2 DEF Insert
  <1>10. CASE Decide(r)
    <2>1. ~req[r].row.canceled /\ req[r].row.end \in Nat /\ now \in Nat
      BY <1>1, <1>10 DEF Decide, RequestInv, ReaderInv, Holding, Row, SubsInv, TypeOK
    <2>2. AfterDecision(req[r].row, now) \in {"resolved", "roll"}
      BY <2>1 DEF AfterDecision
    <2>3. ReaderInv(req[r])'
      BY <1>1, <1>2, <1>10, <2>2
         DEF Decide, ReaderInv, Reading, Holding, Request, SubsInv, TypeOK
    <2>4. QED
      BY <1>2, <1>3, <1>10, <2>3 DEF Decide
  <1>11. CASE Roll(r)
    <2>1. req[r].id = 1 /\ 1 \in DOMAIN subs /\ subs[1] \in Row /\ DOMAIN subs = {1}
      BY <1>1, <1>11 DEF Roll, RequestInv, Holding
    <2>2. /\ DOMAIN subs' = {1} /\ subs'[1].since = subs[1].since
          /\ subs'[1].status = subs[1].status /\ subs'[1].plan = subs[1].plan
          /\ subs'[1].canceled = subs[1].canceled
      BY <1>11, <2>1 DEF Roll, Row
    <2>3. Len(subs') = 1 /\ subs' # <<>>
      <3>1. subs' \in Seq(Row)
        BY <1>1, <1>11, RollKeeps DEF SubsInv, TypeOK
      <3>2. QED
        BY <2>2, <3>1, ShortSequences
    <2>4. OneRow' /\ SameFirstDay
      BY <1>1, <2>1, <2>2, <2>3 DEF OneRow, SameFirstDay
    <2>5. QED
      BY <1>2, <1>11, <2>1, <2>2, <2>4, ReaderHolds DEF Roll
  <1>12. ~Switch(r)
    BY <1>1 DEF Switch, ReaderInv, Reading
  <1>13. QED
    BY <1>7, <1>8, <1>9, <1>10, <1>11, <1>12 DEF Resolve

LEMMA CallsKept == CallsInv /\ [MeterNext]_allVars => CallsInv'
  <1> SUFFICES ASSUME CallsInv, [MeterNext]_allVars
               PROVE  CallsInv'
    OBVIOUS
  <1>1. /\ MeterTypes /\ MeterTypes' /\ SubsInv /\ SubsInv' /\ GridInv
        /\ now \in Nat /\ MaxTime \in Nat
        /\ req \in [Requests -> Request] /\ stage \in [Requests -> Stages]
        /\ logs \in Seq(Log)
    BY MeterTypesKept, ConstantsAssumption DEF CallsInv, MeterTypes, SubsInv, TypeOK
  <1>2. ASSUME NEW r \in Requests, PassGuard(r) \/ Die(r)
        PROVE  GridInv'
    <2>1. UNCHANGED <<now, plans, subs>>
      BY <1>2 DEF PassGuard, Die
    <2>2. CASE Die(r)
      BY <1>1, <2>1, <2>2, GridTableUnchanged, GridFinish DEF Die
    <2>3. CASE PassGuard(r)
      <3>1. req' = [req EXCEPT ![r] = req'[r]] /\ RequestGrid(req[r])'
        BY <1>1, <2>1, <2>3 DEF PassGuard, RequestGrid, Idle, Holding
      <3>2. QED
        BY <1>1, <2>1, <3>1, GridTableUnchanged, GridStep
    <2>4. QED
      BY <1>2, <2>2, <2>3
  <1>3. GridInv'
    <2>1. UNCHANGED allVars => UNCHANGED vars
      BY DEF allVars, vars
    <2>2. QED
      BY <1>1, <1>2, <2>1, MeterStep, GridKept
  <1>4. ASSUME NEW r \in Requests, CallStart(r) \/ CallStep(r) \/ Die(r)
        PROVE  CallsInv'
    <2>1. /\ UNCHANGED <<now, plans>> /\ OneRow' /\ SameFirstDay /\ ReaderInv(req[r])'
      <3>1. CASE Resolve(r)
        BY <3>1, ResolveReads
      <3>2. CASE Answer(r) \/ Store(r) \/ Record(r)
        BY <3>2 DEF Answer, Store, Record, vars, CallsInv, OneRow, SameFirstDay, ReaderInv
      <3>3. CASE CallStart(r) \/ Refuse(r) \/ PassGuard(r) \/ PassCheck(r) \/ Die(r)
        <4>1. UNCHANGED <<now, plans, subs>>
          BY <3>3 DEF CallStart, Refuse, PassGuard, PassCheck, Die, ReadStart, Reply
        <4>2. req'[r].op \in {"none", "read"} /\ req'[r].pc \in {"idle", "find"}
          <5>1. CASE CallStart(r)
            <6>1. req[r] \in Request
              BY <1>1
            <6>2. QED
              BY <1>1, <5>1, <6>1 DEF CallStart, ReadStart, Request
          <5>2. CASE Refuse(r) \/ PassCheck(r) \/ Die(r)
            BY <1>1, <5>2 DEF Refuse, PassCheck, Die, Reply, Finish, Idle
          <5>3. CASE PassGuard(r)
            BY <1>1, <5>3 DEF PassGuard, Idle
          <5>4. QED
            BY <3>3, <5>1, <5>2, <5>3
        <4>3. QED
          BY <4>1, <4>2 DEF CallsInv, OneRow, SameFirstDay, ReaderInv, Reading, Holding
      <3>4. QED
        BY <1>4, <3>1, <3>2, <3>3 DEF CallStep
    <2>2. ASSUME NEW q \in Requests
          PROVE  ReaderInv(req[q])'
      <3>1. CASE q = r
        BY <2>1, <3>1
      <3>2. CASE q # r
        <4>1. req'[q] = req[q] /\ ReaderInv(req[q])
          BY <1>1, <1>4, <3>2, OthersUntouched DEF CallsInv
        <4>2. QED
          BY <2>1, <4>1 DEF ReaderInv
      <3>3. QED
        BY <3>1, <3>2
    <2>3. \A i \in DOMAIN logs' : logs'[i].at <= now'
      <3>1. CASE Record(r)
        <4> DEFINE e == [at |-> now, status |-> IF stage[r] = "record" THEN 200 ELSE 502]
        <4>1. logs' = Append(logs, e) /\ e \in Log /\ e.at = now
          BY <1>1, <3>1 DEF Record, Log
        <4> HIDE DEF e
        <4>2. QED
          BY <1>1, <2>1, <4>1 DEF CallsInv, LogsOfThePast
      <3>2. CASE UNCHANGED logs
        BY <2>1, <3>2 DEF CallsInv, LogsOfThePast
      <3>3. QED
        BY <1>4, <3>1, <3>2 DEF CallStep, CallStart, Resolve, Refuse, PassGuard, PassCheck,
                               Answer, Store, Die
    <2>4. subs' = <<>> => logs' = <<>> /\ \A q \in Requests : stage'[q] \in {"none", "guard"}
      <3> SUFFICES ASSUME subs' = <<>>
                   PROVE  logs' = <<>> /\ \A q \in Requests : stage'[q] \in {"none", "guard"}
        OBVIOUS
      <3>1. /\ subs = <<>> /\ logs = <<>>
            /\ \A q \in Requests : stage[q] \in {"none", "guard"}
        BY <2>1 DEF SameFirstDay, CallsInv, LogsOfThePast
      <3>2. req[r].pc \notin Holding
        BY <1>1, <3>1, SubsInvFacts DEF RequestInv
      <3>3. CallStart(r) \/ Resolve(r) \/ Die(r)
        BY <1>4, <3>1, <3>2
           DEF CallStep, Refuse, PassGuard, PassCheck, Answer, Store, Record, Reply, Holding
      <3>4. stage'[r] \in {"none", "guard"} /\ UNCHANGED logs
        BY <1>1, <3>1, <3>3 DEF CallStart, Resolve, Die, Advance
      <3>5. QED
        BY <1>1, <1>4, <3>1, <3>4, OthersUntouched
    <2>5. QED
      BY <1>1, <1>3, <2>1, <2>2, <2>3, <2>4 DEF CallsInv, LogsOfThePast
  <1>5. CASE PassTime \/ UNCHANGED allVars
    <2>1. UNCHANGED <<plans, subs, req, stage, logs>>
      BY <1>5 DEF PassTime, Tick, meterVars, allVars
    <2>2. now' <= MaxTime /\ now <= now' /\ now' \in Nat
      BY <1>1, <1>5 DEF PassTime, Tick, allVars, CallsInv
    <2>3. \A i \in DOMAIN logs : logs[i].at \in Nat
      <3>1. \A i \in DOMAIN logs : logs[i] \in Log
        BY <1>1
      <3>2. QED
        BY <3>1 DEF Log
    <2>4. LogsOfThePast'
      BY <1>1, <2>1, <2>2, <2>3 DEF CallsInv, LogsOfThePast
    <2>5. OneRow' /\ \A q \in Requests : ReaderInv(req[q])'
      BY <2>1 DEF CallsInv, OneRow, ReaderInv
    <2>6. QED
      BY <1>1, <1>3, <2>1, <2>2, <2>4, <2>5 DEF CallsInv
  <1>6. QED
    BY <1>4, <1>5 DEF MeterNext

LEMMA CallsInit == MeterInit => CallsInv
  <1> SUFFICES ASSUME MeterInit
               PROVE  CallsInv
    OBVIOUS
  <1>1. MeterTypes /\ GridInv
    BY MeterTypesInit, GridInit DEF MeterInit, MeterTypes
  <1>2. plans = InitialPlans /\ now <= MaxTime /\ LogsOfThePast
    BY ConstantsAssumption DEF MeterInit, Init, LogsOfThePast
  <1>3. \A r \in Requests : ReaderInv(req[r])
    BY DEF MeterInit, Init, Idle, ReaderInv, Reading, Holding
  <1>4. OneRow
    <2>1. CASE subs = <<>>
      BY <2>1 DEF OneRow
    <2>2. CASE subs = <<NewRow(Free, 0)>>
      BY <2>2 DEF OneRow, NewRow
    <2>3. QED
      BY <2>1, <2>2 DEF MeterInit, Init
  <1>5. QED
    BY <1>1, <1>2, <1>3, <1>4 DEF CallsInv

-----------------------------------------------------------------------------
(* The window the clock is in.  An instant t of the k-th cycle of c ticks  *)
(* after a; and what happens to the number of the cycle in the next tick.  *)
LEMMA WindowOfInstant ==
    ASSUME NEW a \in Nat, NEW s \in Nat, NEW t \in Nat, NEW c \in Nat \ {0},
           a <= s, (s - a) % c = 0, s <= t, t < s + c
    PROVE  a + c * ((t - a) \div c) = s
  <1> DEFINE q == (s - a) \div c
  <1>1. s - a \in Nat /\ t - a \in Nat
    OBVIOUS
  <1>2. s - a = q * c /\ q \in Nat
    BY <1>1, QuotientAndRest
  <1> HIDE DEF q
  <1>3. q * c <= t - a /\ t - a < q * c + c
    BY <1>2
  <1>4. (t - a) \div c = q
    BY <1>1, <1>2, <1>3, QuotientUnique
  <1>5. c * q = q * c
    BY <1>2
  <1>6. QED
    BY <1>2, <1>4, <1>5

LEMMA NextInstant ==
    ASSUME NEW x \in Nat, NEW c \in Nat \ {0}
    PROVE  /\ (x + 1) % c = 0 => c * ((x + 1) \div c) = x + 1
           /\ (x + 1) % c # 0 => (x + 1) \div c = x \div c
  <1> DEFINE q == (x + 1) \div c
             m == (x + 1) % c
  <1>1. /\ x + 1 = q * c + m /\ m \in Nat /\ m < c /\ q \in Nat
    <2>1. x + 1 \in Nat
      OBVIOUS
    <2>2. QED
      BY <2>1, QuotientAndRest
  <1> HIDE DEF q, m
  <1>2. q * c \in Nat /\ c * q = q * c
    BY <1>1
  <1>3. m # 0 => x \div c = q
    <2>1. SUFFICES ASSUME m # 0
                   PROVE  x \div c = q
      OBVIOUS
    <2>2. q * c <= x /\ x < q * c + c
      BY <1>1, <1>2, <2>1
    <2>3. QED
      BY <1>1, <2>2, QuotientUnique
  <1>4. m = 0 => c * q = x + 1
    BY <1>1, <1>2
  <1>5. QED
    BY <1>3, <1>4 DEF q, m

(* The row, its plan and its first day. *)
LEMMA TheRow ==
    ASSUME CallsInv, subs # <<>>
    PROVE  /\ Len(subs) = 1 /\ DOMAIN subs = {1} /\ subs[1] \in Row
           /\ Cycle(Free) \in Nat \ {0}
           /\ subs[1].since \in Nat /\ now \in Nat /\ subs[1].since <= now
           /\ WindowStart = subs[1].since + Cycle(Free) * ((now - subs[1].since) \div Cycle(Free))
           /\ WindowStart \in Nat /\ plans[subs[1].plan].cycle = Cycle(Free)
  <1>1. subs \in Seq(Row) /\ Len(subs) <= 1 /\ SubsInv /\ now \in Nat
    BY DEF CallsInv, MeterTypes, SubsInv, TypeOK, OneRow
  <1>2. Len(subs) = 1 /\ DOMAIN subs = {1} /\ subs[1] \in Row
    BY <1>1, ShortSequences
  <1>3. subs[1].plan = Free /\ plans[Free] # None /\ Free \in Plans /\ CycleIsFixed(Free)
    BY <1>1, <1>2, ConstantsAssumption, MeteringAssumption
       DEF CallsInv, OneRow, SubsInv, RowsHavePlans, CycleIsFixed
  <1>4. Cycle(Free) \in Nat \ {0} /\ plans[Free].cycle = Cycle(Free)
    BY <1>1, <1>3, CycleIsPositive DEF CallsInv, GridInv, PlanCycles
  <1>5. subs[1].since \in Nat /\ subs[1].start \in Nat /\ subs[1].since <= now
    BY <1>1, <1>2, <1>3 DEF CallsInv, GridInv, OnGrid, Row
  <1>6. WindowStart = subs[1].since + Cycle(Free) * ((now - subs[1].since) \div Cycle(Free))
    BY <1>2, <1>3, <1>4 DEF WindowStart
  <1>7. (now - subs[1].since) \div Cycle(Free) \in Nat
    <2>1. now - subs[1].since \in Nat
      BY <1>1, <1>5
    <2>2. QED
      BY <1>4, <2>1, QuotientAndRest
  <1>8. Cycle(Free) * ((now - subs[1].since) \div Cycle(Free)) \in Nat
    BY <1>4, <1>7
  <1>9. QED
    BY <1>1, <1>2, <1>3, <1>4, <1>5, <1>6, <1>8

(* What a call that holds the row holds: a window of the row's grid. *)
LEMMA TheWindowHeld ==
    ASSUME CallsInv, NEW r \in Requests, req[r].pc \in Holding
    PROVE  LET row == req[r].row
           IN  /\ subs # <<>> /\ req[r].plan = InitialPlans[Free]
               /\ req[r].plan \in Setting
               /\ row.since = subs[1].since /\ row.since \in Nat
               /\ row.start \in Nat /\ row.end \in Nat
               /\ row.since <= row.start /\ row.start <= now
               /\ row.end = row.start + Cycle(Free)
               /\ (row.start - row.since) % Cycle(Free) = 0
               /\ (row.end - row.since) % Cycle(Free) = 0
  <1> DEFINE row == req[r].row
  <1>1. /\ req[r].id \in DOMAIN subs /\ row \in Row /\ req[r].plan \in Setting
        /\ row.plan = Free /\ req[r].plan = InitialPlans[Free]
        /\ OnGrid(row) /\ row.since = subs[req[r].id].since
    BY SubsInvFacts DEF CallsInv, MeterTypes, RequestInv, ReaderInv, GridInv, RequestGrid
  <1>2. subs # <<>>
    BY <1>1
  <1>3. req[r].id = 1 /\ Cycle(Free) \in Nat \ {0} /\ now \in Nat
    BY <1>1, <1>2, TheRow
  <1>4. /\ row.end = row.start + Cycle(Free) /\ row.since <= row.start /\ row.start <= now
        /\ (row.start - row.since) % Cycle(Free) = 0
    BY <1>1, MeteringAssumption DEF OnGrid, CycleIsFixed
  <1>5. row.since \in Nat /\ row.start \in Nat /\ row.end \in Nat
    BY <1>1 DEF Row
  <1> HIDE DEF row
  <1>6. (row.end - row.since) % Cycle(Free) = 0
    <2>1. row.start - row.since \in Nat
      BY <1>4, <1>5
    <2>2. row.end - row.since = (row.start - row.since) + Cycle(Free)
      BY <1>3, <1>4, <1>5
    <2>3. QED
      BY <1>3, <1>4, <2>1, <2>2, OneMoreCycle
  <1>7. QED
    BY <1>1, <1>2, <1>3, <1>4, <1>5, <1>6 DEF row

(* A check that is not late counts the charges of the current window.      *)
LEMMA CountsTheWindow ==
    ASSUME CallsInv, NEW r \in Requests, req[r].pc \in Holding, now < req[r].row.end
    PROVE  Used = UsageCount(req[r].row.start, req[r].row.end)
  <1> DEFINE row == req[r].row
  <1>1. WindowStart = row.start /\ subs # <<>> /\ now \in Nat
    <2>1. /\ subs # <<>> /\ row.since = subs[1].since
          /\ row.since \in Nat /\ row.start \in Nat /\ row.end \in Nat
          /\ row.since <= row.start /\ row.start <= now
          /\ row.end = row.start + Cycle(Free)
          /\ (row.start - row.since) % Cycle(Free) = 0
      BY TheWindowHeld
    <2>2. /\ now \in Nat /\ Cycle(Free) \in Nat \ {0}
          /\ WindowStart = row.since + Cycle(Free) * ((now - row.since) \div Cycle(Free))
      BY <2>1, TheRow
    <2>3. now < row.start + Cycle(Free)
      BY <2>1
    <2>4. row.since + Cycle(Free) * ((now - row.since) \div Cycle(Free)) = row.start
      <3> DEFINE a == row.since
                 b == row.start
                 c == Cycle(Free)
      <3>1. /\ a \in Nat /\ b \in Nat /\ now \in Nat /\ c \in Nat \ {0}
            /\ a <= b /\ (b - a) % c = 0 /\ b <= now /\ now < b + c
        BY <2>1, <2>2, <2>3
      <3> HIDE DEF a, b, c
      <3>2. a + c * ((now - a) \div c) = b
        BY <3>1, WindowOfInstant
      <3>3. QED
        BY <3>2 DEF a, b, c
    <2>5. QED
      BY <2>1, <2>2, <2>4
  <1>2. \A i \in DOMAIN logs : logs[i].at \in Nat /\ logs[i].at <= now
    <2>1. \A i \in DOMAIN logs : logs[i] \in Log
      BY DEF CallsInv, MeterTypes
    <2>2. QED
      BY <2>1 DEF Log, CallsInv, LogsOfThePast
  <1>3. \A i \in DOMAIN logs : logs[i].at < MaxTime + 1 /\ logs[i].at < row.end
    BY <1>1, <1>2, TheWindowHeld, ConstantsAssumption DEF CallsInv
  <1> HIDE DEF row
  <1>4. UsageCount(row.start, MaxTime + 1) = UsageCount(row.start, row.end)
    BY <1>3 DEF UsageCount
  <1>5. QED
    BY <1>1, <1>4 DEF Used, row

(* Charges of the current window: they stay while the clock, the log and   *)
(* the row's first day do, and the log of a success adds one.              *)
LEMMA UsedStays ==
    ASSUME CallsInv, CallsInv', SameFirstDay, UNCHANGED <<now, logs>>
    PROVE  Used' = Used
  <1>1. CASE subs # <<>>
    <2>1. subs' # <<>> /\ subs'[1].since = subs[1].since
      BY <1>1 DEF SameFirstDay
    <2>2. WindowStart = subs[1].since + Cycle(Free) * ((now - subs[1].since) \div Cycle(Free))
      BY <1>1, TheRow
    <2>3. Len(subs') = 1 /\ subs'[1].plan = Free /\ plans'[Free].cycle = Cycle(Free)
      <3>1. subs' \in Seq(Row) /\ Len(subs') <= 1 /\ OneRow' /\ plans' = InitialPlans
        BY DEF CallsInv, MeterTypes, SubsInv, TypeOK, OneRow
      <3>2. Len(subs') = 1 /\ DOMAIN subs' = {1}
        BY <2>1, <3>1, ShortSequences
      <3>3. QED
        BY <3>1, <3>2 DEF OneRow, Cycle
    <2>4. WindowStart' = WindowStart
      BY <2>1, <2>2, <2>3 DEF WindowStart
    <2>5. QED
      BY <1>1, <2>1, <2>4 DEF Used, UsageCount
  <1>2. CASE subs = <<>> /\ subs' = <<>>
    BY <1>2 DEF Used
  <1>3. CASE subs = <<>> /\ subs' # <<>>
    <2>1. logs' = <<>>
      BY <1>3 DEF CallsInv, LogsOfThePast
    <2>2. {i \in DOMAIN logs' : /\ WindowStart' <= logs'[i].at /\ logs'[i].at < MaxTime + 1
                                /\ 200 <= logs'[i].status /\ logs'[i].status < 400} = {}
      BY <2>1
    <2>3. UsageCount(WindowStart, MaxTime + 1)' = 0
      BY <2>2, FS_EmptySet DEF UsageCount
    <2>4. QED
      BY <1>3, <2>3 DEF Used
  <1>4. QED
    BY <1>1, <1>2, <1>3

LEMMA UsedGrows ==
    ASSUME CallsInv, subs # <<>>, UNCHANGED <<now, plans, subs>>,
           NEW e \in Log, e.at = now, logs' = Append(logs, e)
    PROVE  Used' = IF e.status = 200 THEN Used + 1 ELSE Used
  <1>1. /\ WindowStart \in Nat /\ now \in Nat /\ logs \in Seq(Log)
        /\ MaxTime \in Nat /\ now <= MaxTime
    BY TheRow, ConstantsAssumption DEF CallsInv, MeterTypes
  <1>2. WindowStart <= now
    <2> DEFINE x == now - subs[1].since
               q == x \div Cycle(Free)
    <2>1. /\ x \in Nat /\ Cycle(Free) \in Nat \ {0} /\ subs[1].since \in Nat
          /\ WindowStart = subs[1].since + Cycle(Free) * q
      BY TheRow
    <2>2. x = q * Cycle(Free) + (x % Cycle(Free)) /\ x % Cycle(Free) \in Nat /\ q \in Nat
      <3> HIDE DEF x
      <3>1. QED
        BY <2>1, QuotientAndRest
    <2>3. Cycle(Free) * q = q * Cycle(Free) /\ q * Cycle(Free) \in Nat
      <3> HIDE DEF q
      <3>1. QED
        BY <2>1, <2>2
    <2>4. now = subs[1].since + x
      BY <1>1, <2>1
    <2> DEFINE whole == q * Cycle(Free)
               rest  == x % Cycle(Free)
    <2>5. /\ WindowStart = subs[1].since + whole /\ x = whole + rest
          /\ whole \in Nat /\ rest \in Nat
      BY <2>1, <2>2, <2>3
    <2> HIDE DEF x, whole, rest
    <2>6. QED
      BY <1>1, <2>1, <2>4, <2>5
  <1>3. WindowStart' = WindowStart
    BY DEF WindowStart
  <1>4. PICK w \in Nat : w = WindowStart
    BY <1>1
  <1>5. w <= e.at /\ e.at < MaxTime + 1 /\ MaxTime + 1 \in Nat
    BY <1>1, <1>2, <1>4
  <1>6. UsageCount(w, MaxTime + 1)' = IF e.status = 200 THEN UsageCount(w, MaxTime + 1) + 1
                                                       ELSE UsageCount(w, MaxTime + 1)
    BY <1>1, <1>5, CountAppend
  <1>7. Used = UsageCount(w, MaxTime + 1) /\ Used' = UsageCount(w, MaxTime + 1)'
    BY <1>3, <1>4 DEF Used, UsageCount
  <1>8. QED
    BY <1>6, <1>7

-----------------------------------------------------------------------------
(* Phases.  Where a call is, by its stage and what it holds; and a step of *)
(* one call moves that call alone.                                         *)
Late(r) == req[r].pc = "resolved" /\ now >= req[r].row.end

LEMMA PhaseOf ==
    ASSUME NEW r \in Requests
    PROVE  /\ stage[r] \in {"provider", "store", "record"} => Phase[r] = "admitted"
           /\ stage[r] = "handler" /\ Late(r) => Phase[r] = "stale"
           /\ stage[r] = "handler" /\ ~Late(r) => Phase[r] = "checking"
           /\ stage[r] \in {"none", "guard", "failed"} => Phase[r] = "idle"
           /\ DOMAIN Phase = Requests
  BY DEF Phase, Late

LEMMA PhaseMoves ==
    ASSUME MeterTypes, now' = now, NEW r \in Requests,
           CallStart(r) \/ CallStep(r) \/ Die(r)
    PROVE  Phase' = [Phase EXCEPT ![r] = Phase'[r]]
  <1>1. \A q \in Requests \ {r} : req'[q] = req[q] /\ stage'[q] = stage[q]
    BY OthersUntouched
  <1>2. \A q \in Requests \ {r} : Phase'[q] = Phase[q]
    BY <1>1 DEF Phase
  <1>3. DOMAIN Phase = Requests /\ DOMAIN Phase' = Requests
    BY DEF Phase
  <1>4. /\ Phase = [q \in Requests |-> Phase[q]]
        /\ Phase' = [q \in Requests |-> Phase'[q]]
    BY DEF Phase
  <1>5. QED
    BY <1>2, <1>3, <1>4

-----------------------------------------------------------------------------
(* A user keeps up when no rollover is written after the period it begins: *)
(* whoever rolls a row over is then in its current window.  (It fails for  *)
(* users who stay away for more than a whole period: see run metering_idle *)
(* for what then happens.)                                                 *)
KeepsUp ==
    \A r \in Requests :
      req[r].pc = "roll" => now < req[r].row.end + req[r].plan.cycle

(* Steps that charge nothing and admit nothing. *)
LEMMA StaysOrLeaves ==
    ASSUME CallsInv, UNCHANGED now, Used' = Used, NEW r \in Requests,
           CallStart(r) \/ CallStep(r) \/ Die(r),
           Phase'[r] = Phase[r] \/ Phase'[r] = "idle"
    PROVE  [Gate!Next]_Gate!vars
  <1>1. Phase' = [Phase EXCEPT ![r] = Phase'[r]] /\ DOMAIN Phase = Requests
    BY PhaseMoves, PhaseOf DEF CallsInv
  <1>2. Phase[r] \in {"idle", "checking", "stale", "admitted"}
    BY PhaseOf DEF CallsInv, MeterTypes, Stages
  <1>3. CASE Phase'[r] = Phase[r]
    <2>1. Phase = [q \in Requests |-> Phase[q]]
      BY DEF Phase
    <2>2. Phase' = Phase
      BY <1>1, <1>3, <2>1
    <2>3. QED
      BY <2>2 DEF Gate!vars
  <1>4. CASE Phase'[r] = "idle" /\ Phase[r] # "idle"
    <2>1. Gate!Leave(r)
      BY <1>1, <1>2, <1>4 DEF Gate!Leave, Gate!Move
    <2>2. QED
      BY <2>1 DEF Gate!Next
  <1>5. QED
    BY <1>3, <1>4

LEMMA ResolveImplements ==
    ASSUME CallsInv, CallsInv', KeepsUp, NEW r \in Requests, Resolve(r)
    PROVE  [Gate!Next]_Gate!vars
  <1>1. /\ UNCHANGED <<now, plans>> /\ SameFirstDay /\ UNCHANGED logs
    BY ResolveReads DEF Resolve
  <1>2. Used' = Used
    BY <1>1, UsedStays
  <1>3. /\ stage'[r] = IF req'[r].pc = "idle" THEN "none" ELSE stage[r]
        /\ req[r].pc # "resolved"
    BY DEF Resolve, Advance, CallsInv, MeterTypes, FindActive, Provision, Insert, Adopt,
           Decide, Switch, Roll
  <1>4. req'[r].pc = "resolved" => now < req'[r].row.end
    <2>1. /\ req \in [Requests -> Request] /\ RequestInv(req[r]) /\ now \in Nat
      BY SubsInvFacts DEF CallsInv, MeterTypes, SubsInv, TypeOK
    <2>2. CASE FindActive(r) \/ Provision(r) \/ Insert(r) \/ Adopt(r)
      <3>1. /\ \A i : Hold(r, i, "decide") => req'[r].pc = "decide"
            /\ \A pc \in {"provision", "adopt"} : Goto(r, pc) => req'[r].pc = pc
            /\ Finish(r) => req'[r].pc = "idle"
            /\ req' = [req EXCEPT ![r].pc = "insert", ![r].row = NewRow(Free, now)]
                 => req'[r].pc = "insert"
        <4>1. req[r] \in Request
          BY <2>1
        <4>2. Finish(r) => req'[r].pc = "idle"
          BY <2>1 DEF Finish, Idle
        <4>3. \A pc \in {"provision", "adopt"} : Goto(r, pc) => req'[r].pc = pc
          BY <2>1, <4>1 DEF Goto, Request
        <4>4. ASSUME NEW i, Hold(r, i, "decide")
              PROVE  req'[r].pc = "decide"
          BY <2>1, <4>1, <4>4 DEF Hold, Request
        <4>5. req' = [req EXCEPT ![r].pc = "insert", ![r].row = NewRow(Free, now)]
                => req'[r].pc = "insert"
          BY <2>1, <4>1 DEF Request
        <4>6. QED
          BY <4>2, <4>3, <4>4, <4>5
      <3>2. req'[r].pc \in {"decide", "provision", "insert", "adopt", "idle"}
        BY <2>2, <3>1 DEF FindActive, Provision, Insert, Adopt
      <3>3. QED
        BY <3>2
    <2>3. CASE Decide(r)
      <3>1. req[r].row.end \in Nat
        BY <2>1, <2>3 DEF Decide, RequestInv, Holding, Row
      <3>2. /\ req'[r].row = req[r].row
            /\ req'[r].pc = AfterDecision(req[r].row, now)
        BY <2>1, <2>3 DEF Decide, Request
      <3>3. ~req[r].row.canceled
        BY <2>3 DEF Decide, CallsInv, ReaderInv, Holding
      <3>4. QED
        BY <2>1, <3>1, <3>2, <3>3 DEF AfterDecision
    <2>4. CASE Roll(r)
      <3>1. /\ req[r].id \in DOMAIN subs /\ subs[req[r].id] \in Row
            /\ req'[r].row = subs'[req[r].id]
        BY <2>1, <2>4, SubsInvFacts
           DEF Roll, Hold, RequestInv, Holding, Request, CallsInv, MeterTypes
      <3>2. subs'[req[r].id].end = req[r].row.end + req[r].plan.cycle
        BY <2>4, <3>1 DEF Roll, Row
      <3>3. QED
        BY <2>4, <3>1, <3>2 DEF KeepsUp, Roll
    <2>5. ~Switch(r)
      BY DEF Switch, CallsInv, ReaderInv, Reading
    <2>6. QED
      BY <2>2, <2>3, <2>4, <2>5 DEF Resolve
  <1>5. Phase'[r] = Phase[r] \/ Phase'[r] = "idle"
    <2>1. req'[r].pc = "resolved" => ~(now' >= req'[r].row.end)
      <3>1. CASE req'[r].pc = "resolved"
        <4>1. req'[r].row.end \in Nat /\ now \in Nat
          <5>1. req'[r].row \in Row
            BY <3>1, SubsInvFacts DEF CallsInv, MeterTypes, SubsInv, RequestInv, Holding
          <5>2. QED
            BY <5>1 DEF Row, CallsInv, MeterTypes, SubsInv, TypeOK
        <4>2. QED
          BY <1>1, <1>4, <3>1, <4>1
      <3>2. QED
        BY <3>1
    <2>2. CASE req'[r].pc = "idle"
      BY <1>3, <2>2 DEF Phase
    <2>3. CASE req'[r].pc # "idle" /\ stage[r] = "handler"
      BY <1>3, <2>1, <2>3 DEF Phase
    <2>4. CASE req'[r].pc # "idle" /\ stage[r] # "handler"
      BY <1>3, <2>4 DEF Phase, CallsInv, MeterTypes, Stages
    <2>5. QED
      BY <2>2, <2>3, <2>4
  <1>6. QED
    BY <1>1, <1>2, <1>5, StaysOrLeaves DEF CallStep

(* The second check admits a call: to the current window when it has       *)
(* looked up that one, or late, whatever the current window holds.         *)
LEMMA PassCheckImplements ==
    ASSUME Gate!GateAssumption, CallsInv, CallsInv', NEW r \in Requests, PassCheck(r)
    PROVE  [Gate!Next]_Gate!vars
  <1>1. /\ stage[r] = "handler" /\ req[r].pc = "resolved" /\ Allowed(r)
        /\ UNCHANGED <<now, subs, logs>>
    BY DEF PassCheck, Reply
  <1>2. Used' = Used
    BY <1>1, UsedStays DEF SameFirstDay
  <1>3. stage'[r] = "provider"
    BY DEF PassCheck, Advance, CallsInv, MeterTypes
  <1>4. /\ Phase' = [Phase EXCEPT ![r] = "admitted"]
    BY <1>1, <1>3, PhaseMoves DEF Phase, CallsInv, CallStep
  <1>5. CASE Late(r)
    <2>1. Phase[r] = "stale"
      BY <1>1, <1>5, PhaseOf
    <2>2. Gate!Admit(r)
      BY <1>2, <1>4, <2>1 DEF Gate!Admit, Gate!Move
    <2>3. QED
      BY <2>2 DEF Gate!Next
  <1>6. CASE ~Late(r)
    <2>1. Phase[r] = "checking"
      BY <1>1, <1>6, PhaseOf
    <2>2. req[r].plan = InitialPlans[Free] /\ now < req[r].row.end
      BY <1>1, <1>6, TheWindowHeld DEF Late, Holding, CallsInv, MeterTypes, SubsInv, TypeOK
    <2>3. Used < InitialPlans[Free].limit
      BY <1>1, <2>2, CountsTheWindow DEF Allowed, Holding, Gate!GateAssumption, Unlimited
    <2>4. Gate!Admit(r)
      BY <1>2, <1>4, <2>1, <2>3 DEF Gate!Admit, Gate!Move
    <2>5. QED
      BY <2>4 DEF Gate!Next
  <1>7. QED
    BY <1>5, <1>6

LEMMA PassGuardImplements ==
    ASSUME CallsInv, CallsInv', NEW r \in Requests, PassGuard(r)
    PROVE  [Gate!Next]_Gate!vars
  <1>1. UNCHANGED <<now, subs, logs>> /\ stage[r] = "guard"
    BY DEF PassGuard
  <1>2. Used' = Used
    BY <1>1, UsedStays DEF SameFirstDay
  <1>3. stage'[r] = "handler" /\ req'[r].pc = "find"
    BY DEF PassGuard, Advance, CallsInv, MeterTypes, SubsInv, TypeOK, Idle
  <1>4. Phase[r] = "idle" /\ Phase'[r] = "checking"
    BY <1>1, <1>3 DEF Phase
  <1>5. Phase' = [Phase EXCEPT ![r] = "checking"]
    BY <1>1, <1>4, PhaseMoves DEF CallsInv, CallStep
  <1>6. Gate!Check(r)
    BY <1>2, <1>4, <1>5 DEF Gate!Check, Gate!Move
  <1>7. QED
    BY <1>6 DEF Gate!Next

LEMMA RecordImplements ==
    ASSUME CallsInv, CallsInv', NEW r \in Requests, Record(r)
    PROVE  [Gate!Next]_Gate!vars
  <1> DEFINE e == [at |-> now, status |-> IF stage[r] = "record" THEN 200 ELSE 502]
  <1>1. /\ UNCHANGED <<now, plans, subs>> /\ logs' = Append(logs, e) /\ e.at = now /\ e \in Log
        /\ e.status = 200 <=> stage[r] = "record"
        /\ stage[r] \in {"record", "failed"} /\ stage'[r] = "none"
    BY DEF Record, vars, Log, CallsInv, MeterTypes, SubsInv, TypeOK, Advance
  <1>2. subs # <<>>
    BY <1>1 DEF CallsInv, LogsOfThePast
  <1> HIDE DEF e
  <1>3. Used' = IF e.status = 200 THEN Used + 1 ELSE Used
    BY <1>1, <1>2, UsedGrows
  <1>4. Phase'[r] = "idle"
    BY <1>1 DEF Phase
  <1>5. CASE stage[r] = "record"
    <2>1. Phase[r] = "admitted"
      BY <1>5, PhaseOf
    <2>2. Phase' = [Phase EXCEPT ![r] = "idle"]
      BY <1>1, <1>4, PhaseMoves DEF CallsInv, CallStep
    <2>3. Gate!Charge(r)
      BY <1>1, <1>3, <1>5, <2>1, <2>2 DEF Gate!Charge, Gate!Move
    <2>4. QED
      BY <2>3 DEF Gate!Next
  <1>6. CASE stage[r] = "failed"
    BY <1>1, <1>3, <1>4, <1>6, StaysOrLeaves DEF CallStep
  <1>7. QED
    BY <1>1, <1>5, <1>6

LEMMA OthersImplement ==
    ASSUME CallsInv, CallsInv', NEW r \in Requests,
           CallStart(r) \/ Refuse(r) \/ Answer(r) \/ Store(r) \/ Die(r)
    PROVE  [Gate!Next]_Gate!vars
  <1>1. UNCHANGED <<now, subs, logs>>
    BY DEF CallStart, Refuse, Answer, Store, Die, ReadStart, Reply, vars
  <1>2. Used' = Used
    BY <1>1, UsedStays DEF SameFirstDay
  <1>3. \/ stage'[r] \in {"none", "guard", "failed"}
        \/ stage[r] \in {"provider", "store"} /\ stage'[r] \in {"store", "record"}
    BY DEF CallStart, Refuse, Answer, Store, Die, Advance, CallsInv, MeterTypes
  <1>4. Phase'[r] = Phase[r] \/ Phase'[r] = "idle"
    BY <1>3 DEF Phase
  <1>5. QED
    BY <1>1, <1>2, <1>4, StaysOrLeaves DEF CallStep

(* The clock: as long as the window stays the same, no check becomes late; *)
(* when it ends, nothing has been charged in the next one.                 *)
LEMMA ClockImplements ==
    ASSUME CallsInv, CallsInv', PassTime
    PROVE  [Gate!Next]_Gate!vars
  <1>1. /\ UNCHANGED <<plans, subs, req, logs, stage>> /\ now' = now + 1 /\ now \in Nat
    BY DEF PassTime, Tick, meterVars, CallsInv, MeterTypes, SubsInv, TypeOK
  <1>2. CASE subs = <<>>
    <2>1. Used' = Used
      BY <1>1, <1>2 DEF Used
    <2>2. Phase' = Phase
      BY <1>1, <1>2 DEF Phase, CallsInv, LogsOfThePast
    <2>3. QED
      BY <2>1, <2>2 DEF Gate!vars
  <1>3. CASE subs # <<>>
    <2> DEFINE a == subs[1].since
               c == Cycle(Free)
               x == now - a
    <2>1. /\ a \in Nat /\ c \in Nat \ {0} /\ x \in Nat /\ now = a + x /\ now' - a = x + 1
          /\ WindowStart = a + c * (x \div c)
      BY <1>1, <1>3, TheRow
    <2>2. WindowStart' = a + c * ((x + 1) \div c)
      <3>1. Len(subs) = 1 /\ plans[subs[1].plan].cycle = c
        BY <1>3, TheRow
      <3>2. WindowStart' = a + c * ((now' - a) \div c)
        BY <1>1, <3>1 DEF WindowStart
      <3>3. QED
        BY <2>1, <3>2
    <2>3. ASSUME NEW r \in Requests, req[r].pc = "resolved"
          PROVE  req[r].row.end \in Nat /\ (req[r].row.end - a) % c = 0
      <3>1. req[r].pc \in Holding
        BY <2>3 DEF Holding
      <3>2. /\ req[r].row.end \in Nat /\ req[r].row.since = a
            /\ (req[r].row.end - req[r].row.since) % c = 0
        BY <3>1, TheWindowHeld
      <3>3. QED
        BY <3>2
    <2>4. CASE (x + 1) % c # 0
      <3>1. (x + 1) \div c = x \div c
        <4> HIDE DEF a, c, x
        <4>1. QED
          BY <2>1, <2>4, NextInstant
      <3>2. WindowStart' = WindowStart
        BY <2>1, <2>2, <3>1
      <3>3. Used' = Used
        BY <1>1, <3>2 DEF Used, UsageCount
      <3>4. ASSUME NEW r \in Requests, req[r].pc = "resolved"
            PROVE  now' >= req[r].row.end <=> now >= req[r].row.end
        <4>1. req[r].row.end # now'
          <5>1. SUFFICES ASSUME req[r].row.end = now'
                         PROVE  FALSE
            OBVIOUS
          <5>2. req[r].row.end - a = x + 1
            BY <2>1, <5>1
          <5>3. QED
            BY <2>3, <2>4, <3>4, <5>2
        <4>2. req[r].row.end \in Nat
          BY <2>3, <3>4
        <4>3. QED
          BY <1>1, <4>1, <4>2
      <3>5. Phase' = Phase
        BY <1>1, <3>4 DEF Phase
      <3>6. QED
        BY <3>3, <3>5 DEF Gate!vars
    <2>5. CASE (x + 1) % c = 0
      <3>1. c * ((x + 1) \div c) = x + 1
        <4> HIDE DEF a, c, x
        <4>1. QED
          BY <2>1, <2>5, NextInstant
      <3>2. WindowStart' = now'
        BY <1>1, <2>1, <2>2, <3>1
      <3>3. Used' = 0
        <4>1. \A i \in DOMAIN logs : logs[i].at \in Nat /\ logs[i].at <= now
          <5>1. \A i \in DOMAIN logs : logs[i] \in Log
            BY DEF CallsInv, MeterTypes
          <5>2. QED
            BY <5>1 DEF Log, CallsInv, LogsOfThePast
        <4>2. \A i \in DOMAIN logs' : ~(WindowStart' <= logs'[i].at)
          BY <1>1, <3>2, <4>1
        <4>3. {i \in DOMAIN logs' : /\ WindowStart' <= logs'[i].at /\ logs'[i].at < MaxTime + 1
                                    /\ 200 <= logs'[i].status /\ logs'[i].status < 400} = {}
          BY <4>2
        <4>4. UsageCount(WindowStart, MaxTime + 1)' = 0
          BY <4>3, FS_EmptySet DEF UsageCount
        <4>5. QED
          BY <1>1, <1>3, <4>4 DEF Used
      <3> DEFINE late == {r \in Requests : Phase[r] = "checking" /\ Late(r)'}
      <3>4. ASSUME NEW r \in Requests
            PROVE  Phase'[r] = IF r \in late THEN "stale" ELSE Phase[r]
        <4>1. Late(r) => Late(r)'
          <5>1. Late(r) => req[r].row.end \in Nat
            BY <2>3 DEF Late
          <5>2. QED
            BY <1>1, <5>1 DEF Late
        <4>2. CASE stage[r] = "handler"
          BY <1>1, <4>1, <4>2 DEF Phase, Late
        <4>3. CASE stage[r] # "handler"
          BY <1>1, <4>3 DEF Phase, CallsInv, MeterTypes, Stages
        <4>4. QED
          BY <4>2, <4>3
      <3>5. Phase' = [r \in Requests |-> IF r \in late THEN "stale" ELSE Phase[r]]
        <4>1. Phase' = [r \in Requests |-> Phase'[r]]
          BY DEF Phase
        <4>2. QED
          BY <3>4, <4>1
      <3>6. late \in SUBSET {r \in Requests : Phase[r] = "checking"}
        OBVIOUS
      <3> HIDE DEF late
      <3>7. Gate!NewWindow
        BY <3>3, <3>5, <3>6 DEF Gate!NewWindow
      <3>8. QED
        BY <3>7 DEF Gate!Next
    <2>6. QED
      BY <2>4, <2>5
  <1>4. QED
    BY <1>2, <1>3

LEMMA StepImplements ==
    ASSUME Gate!GateAssumption, CallsInv, CallsInv', KeepsUp, [MeterNext]_allVars
    PROVE  [Gate!Next]_Gate!vars
  <1>1. ASSUME NEW r \in Requests, CallStart(r) \/ CallStep(r) \/ Die(r)
        PROVE  [Gate!Next]_Gate!vars
    BY <1>1, ResolveImplements, PassCheckImplements, PassGuardImplements, RecordImplements,
       OthersImplement DEF CallStep
  <1>2. CASE UNCHANGED allVars
    <2>1. Used' = Used
      BY <1>2 DEF allVars, Used, UsageCount, WindowStart
    <2>2. Phase' = Phase
      BY <1>2 DEF allVars, Phase
    <2>3. QED
      BY <2>1, <2>2 DEF Gate!vars
  <1>3. QED
    BY <1>1, <1>2, ClockImplements DEF MeterNext

LEMMA InitImplements == MeterInit => Gate!Init
  <1> SUFFICES ASSUME MeterInit
               PROVE  Gate!Init
    OBVIOUS
  <1>1. Used = 0
    <2>1. {i \in DOMAIN logs : /\ WindowStart <= logs[i].at /\ logs[i].at < MaxTime + 1
                               /\ 200 <= logs[i].status /\ logs[i].status < 400} = {}
      BY DEF MeterInit
    <2>2. QED
      BY <2>1, FS_EmptySet DEF Used, UsageCount
  <1>2. Phase = [r \in Requests |-> "idle"]
    BY DEF MeterInit, Phase
  <1>3. QED
    BY <1>1, <1>2 DEF Gate!Init

(* Metering implements the gate for a user who keeps up: every step of the *)
(* calls, the check, the clock and failures is a step of the gate or none. *)
THEOREM MeteringImplementsGate ==
    ASSUME Gate!GateAssumption
    PROVE  MeterSpec /\ []KeepsUp => ImplementsGate
  <1>1. CallsInv /\ CallsInv' /\ KeepsUp /\ [MeterNext]_allVars => [Gate!Next]_Gate!vars
    BY StepImplements
  <1>2. QED
    BY <1>1, InitImplements, CallsInit, CallsKept, PTL
       DEF MeterSpec, ImplementsGate, Gate!Spec

(* So a billing window of such a user is never charged more than the limit *)
(* and one call for each other call in flight.                             *)
THEOREM WindowsAreBounded ==
    ASSUME Gate!GateAssumption
    PROVE  MeterSpec /\ []KeepsUp => []UsageBounded
  BY MeteringImplementsGate, UsageIsBounded, PTL DEF ImplementsGate, UsageBounded

(* Nobody can miss a whole period before the second one is over.           *)
THEOREM FirstPeriodsKeepUp ==
    ASSUME MaxTime < 2 * InitialPlans[Free].cycle
    PROVE  MeterSpec => []KeepsUp
  <1>1. CallsInv => KeepsUp
    <2> SUFFICES ASSUME CallsInv, NEW r \in Requests, req[r].pc = "roll"
                 PROVE  now < req[r].row.end + req[r].plan.cycle
      BY DEF KeepsUp
    <2>1. /\ subs # <<>> /\ req[r].plan.cycle = Cycle(Free)
          /\ req[r].row.end = req[r].row.start + Cycle(Free) /\ req[r].row.start \in Nat
      BY TheWindowHeld DEF Holding, Cycle
    <2>2. Cycle(Free) \in Nat /\ now \in Nat /\ now <= MaxTime /\ MaxTime \in Nat
      BY <2>1, TheRow, ConstantsAssumption DEF CallsInv
    <2>3. MaxTime < 2 * Cycle(Free)
      BY DEF Cycle
    <2>4. QED
      BY <2>1, <2>2, <2>3
  <1>2. QED
    BY <1>1, CallsInit, CallsKept, PTL DEF MeterSpec

-----------------------------------------------------------------------------
(* A user whose requests come one after the other, and who may stay away.  *)
(* The number of whole periods since the row's first day, by the clock and *)
(* by the row: a row that lags behind is rolled over twice by each call.   *)
Periods == (now - subs[1].since) \div Cycle(Free)
Rolled == (subs[1].start - subs[1].since) \div Cycle(Free)

LEMMA ProductGrows ==
    ASSUME NEW i \in Nat, NEW j \in Nat, NEW c \in Nat, i <= j
    PROVE  i * c <= j * c
  <1>1. PICK d \in Nat : j = i + d
    <2>1. j - i \in Nat /\ j = i + (j - i)
      OBVIOUS
    <2>2. QED
      BY <2>1
  <1>2. (i + d) * c = i * c + d * c /\ i * c \in Nat /\ d * c \in Nat
    OBVIOUS
  <1>3. QED
    BY <1>1, <1>2

LEMMA PeriodNumbers ==
    ASSUME CallsInv, subs # <<>>
    PROVE  /\ Periods \in Nat /\ Rolled \in Nat /\ Rolled <= Periods
           /\ Rolled < Periods <=> subs[1].end <= now
           /\ subs[1].start = subs[1].since + Rolled * Cycle(Free)
           /\ subs[1].end = subs[1].start + Cycle(Free)
  <1> DEFINE a == subs[1].since
             s == subs[1].start
             c == Cycle(Free)
             K == (now - a) \div c
             k == (s - a) \div c
             m == (now - a) % c
  <1>1. /\ a \in Nat /\ s \in Nat /\ c \in Nat \ {0} /\ now \in Nat
        /\ a <= s /\ s <= now /\ (s - a) % c = 0
        /\ subs[1].end = s + c
    <2>1. /\ 1 \in DOMAIN subs /\ subs[1] \in Row /\ c \in Nat \ {0} /\ now \in Nat
      BY TheRow
    <2>2. OnGrid(subs[1]) /\ subs[1].plan = Free
      BY <2>1 DEF CallsInv, GridInv, OneRow
    <2>3. CycleIsFixed(subs[1].plan)
      BY MeteringAssumption DEF CycleIsFixed
    <2>4. QED
      BY <2>1, <2>2, <2>3 DEF OnGrid, Row
  <1>9. /\ Periods = K /\ Rolled = k /\ subs[1].since = a /\ subs[1].start = s
        /\ Cycle(Free) = c
    BY DEF Periods, Rolled
  <1> HIDE DEF a, s, c
  <1>2. now - a \in Nat /\ s - a \in Nat
    BY <1>1
  <1>3. now - a = K * c + m /\ m \in Nat /\ m < c /\ K \in Nat
    BY <1>1, <1>2, QuotientAndRest
  <1>4. s - a = k * c /\ k \in Nat
    BY <1>1, <1>2, QuotientAndRest
  <1> HIDE DEF K, k, m
  <1>5. K * c \in Nat /\ k * c \in Nat /\ (k + 1) * c = k * c + c
    BY <1>1, <1>3, <1>4
  <1>6. CASE now < s + c
    <2>1. k * c <= now - a /\ now - a < k * c + c
      BY <1>1, <1>4, <1>5, <1>6
    <2>2. K = k
      BY <1>1, <1>2, <1>4, <2>1, QuotientUnique DEF K
    <2>3. s = a + k * c
      BY <1>1, <1>4, <1>5
    <2>4. QED
      BY <1>1, <1>4, <1>6, <1>9, <2>2, <2>3
  <1>7. CASE s + c <= now
    <2>1. k * c + c <= K * c + m
      <3> DEFINE v == K * c
                 w == k * c
      <3>1. now - a = v + m /\ s - a = w /\ v \in Nat /\ w \in Nat
        BY <1>3, <1>4, <1>5
      <3> HIDE DEF v, w
      <3>2. w + c <= v + m
        BY <1>1, <1>3, <1>7, <3>1
      <3>3. QED
        BY <3>2 DEF v, w
    <2>2. k < K
      <3>1. K <= k => K * c <= k * c
        BY <1>1, <1>3, <1>4, ProductGrows
      <3>2. QED
        BY <1>1, <1>3, <1>4, <1>5, <2>1, <3>1
    <2>3. s = a + k * c
      BY <1>1, <1>4, <1>5
    <2>4. QED
      BY <1>1, <1>3, <1>4, <1>7, <1>9, <2>2, <2>3
  <1>8. QED
    BY <1>1, <1>6, <1>7

(* The clock: the window is the same, or a new one without charges.        *)
LEMMA ClockTurns ==
    ASSUME CallsInv, PassTime, subs # <<>>
    PROVE  \/ Periods' = Periods /\ Used' = Used
           \/ Periods' = Periods + 1 /\ Used' = 0
  <1> DEFINE a == subs[1].since
             c == Cycle(Free)
             x == now - a
  <1>1. /\ UNCHANGED <<plans, subs, logs>> /\ now' = now + 1 /\ now \in Nat
    BY DEF PassTime, Tick, meterVars, CallsInv, MeterTypes, SubsInv, TypeOK
  <1>2. /\ a \in Nat /\ c \in Nat \ {0} /\ x \in Nat /\ now = a + x /\ now' - a = x + 1
        /\ Len(subs) = 1 /\ plans[subs[1].plan].cycle = c
    BY <1>1, TheRow
  <1>3. /\ Periods = x \div c /\ Periods' = (x + 1) \div c
        /\ WindowStart = a + c * Periods /\ WindowStart' = a + c * Periods'
    <2>1. Periods = x \div c /\ Periods' = (x + 1) \div c
      BY <1>1, <1>2 DEF Periods, Cycle
    <2>2. WindowStart = a + c * ((now - a) \div c) /\ WindowStart' = a + c * ((now' - a) \div c)
      BY <1>1, <1>2 DEF WindowStart
    <2>3. QED
      BY <1>2, <2>1, <2>2
  <1> HIDE DEF a, c, x
  <1>4. CASE (x + 1) % c # 0
    <2>1. Periods' = Periods /\ WindowStart' = WindowStart
      BY <1>2, <1>3, <1>4, NextInstant
    <2>2. Used' = Used
      BY <1>1, <2>1 DEF Used, UsageCount
    <2>3. QED
      BY <2>1, <2>2
  <1>5. CASE (x + 1) % c = 0
    <2>1. WindowStart' = now'
      <3>1. c * ((x + 1) \div c) = x + 1
        BY <1>2, <1>5, NextInstant
      <3>2. WindowStart' = a + (x + 1)
        BY <1>3, <3>1
      <3>3. QED
        BY <1>1, <1>2, <3>2
    <2>2. \A i \in DOMAIN logs : logs[i].at \in Nat /\ logs[i].at <= now
      <3>1. \A i \in DOMAIN logs : logs[i] \in Log
        BY DEF CallsInv, MeterTypes
      <3>2. QED
        BY <3>1 DEF Log, CallsInv, LogsOfThePast
    <2>3. \A i \in DOMAIN logs' : ~(WindowStart' <= logs'[i].at)
      BY <1>1, <2>1, <2>2
    <2>4. {i \in DOMAIN logs' : /\ WindowStart' <= logs'[i].at /\ logs'[i].at < MaxTime + 1
                                /\ 200 <= logs'[i].status /\ logs'[i].status < 400} = {}
      BY <2>3
    <2>5. Used' = 0
      BY <1>1, <2>4, FS_EmptySet DEF Used, UsageCount
    <2>6. Periods' = Periods + 1
      <3> DEFINE q == (x + 1) \div c
      <3>1. q * c + ((x + 1) % c) = x + 1 /\ q \in Nat
        BY <1>2, QuotientAndRest
      <3> HIDE DEF q
      <3>2. q * c = x + 1 /\ q # 0
        <4>1. q * c \in Nat /\ q * c = x + 1
          BY <1>2, <1>5, <3>1
        <4>2. 0 * c = 0
          BY <1>2
        <4>3. QED
          BY <1>2, <3>1, <4>1, <4>2
      <3>3. q - 1 \in Nat /\ (q - 1) * c + c = q * c /\ (q - 1) * c \in Nat
        <4>1. PICK p \in Nat : q = p + 1
          <5>1. q - 1 \in Nat /\ q = (q - 1) + 1
            BY <3>1, <3>2
          <5>2. QED
            BY <5>1
        <4>2. (p + 1) * c = p * c + c /\ p * c \in Nat
          BY <1>2
        <4>3. QED
          BY <4>1, <4>2
      <3>4. (q - 1) * c <= x /\ x < (q - 1) * c + c
        BY <1>2, <3>2, <3>3
      <3>5. x \div c = q - 1
        BY <1>2, <3>3, <3>4, QuotientUnique
      <3>6. QED
        BY <1>3, <3>1, <3>5 DEF q
    <2>7. QED
      BY <2>5, <2>6
  <1>6. QED
    BY <1>4, <1>5

(* How many rollovers the call will still make before it is charged: two,  *)
(* one in each check, until it has resolved the row.                       *)
Admitted == {"provider", "store", "record"}

Pace(one) ==
    IF stage[one] \in Admitted THEN 0
    ELSE IF stage[one] = "handler" THEN (IF req[one].pc = "resolved" THEN 0 ELSE 1)
    ELSE IF stage[one] = "guard" /\ req[one].pc = "resolved" THEN 1 ELSE 2

(* While the row lags behind, each charge of the current window was paid   *)
(* for with two rollovers; once it has caught up, the check counts the     *)
(* current window, and stops every call that would pass the limit.         *)
Balance(one) ==
    IF Rolled < Periods
      THEN Used = 0 \/ 2 * Used <= Rolled + Pace(one)
      ELSE /\ stage[one] \in Admitted => Used < InitialPlans[Free].limit
           /\ Used <= InitialPlans[Free].limit \/ 2 * Used <= Periods + 1

HasTheRow(one) ==
    req[one].pc \in {"decide", "roll", "resolved"} => req[one].row = subs[req[one].id]

AloneInv(one) ==
    /\ CallsInv /\ InCheck /\ HasTheRow(one)
    /\ subs # <<>> => Balance(one)

LEMMA UsedIsNat == CallsInv => Used \in Nat
  <1> SUFFICES ASSUME CallsInv PROVE Used \in Nat
    OBVIOUS
  <1>1. logs \in Seq(Log)
    BY DEF CallsInv, MeterTypes
  <1>2. UsageCount(WindowStart, MaxTime + 1) \in Nat
    BY <1>1, CountIsNat
  <1>3. QED
    BY <1>2 DEF Used

(* A step of the check that does not roll over: it resolves a row only by  *)
(* finding that its window is not over.                                    *)
LEMMA ResolveMoves ==
    ASSUME CallsInv, NEW r \in Requests, Resolve(r)
    PROVE  /\ req[r].pc \notin {"idle", "resolved"}
           /\ stage'[r] = IF req'[r].pc = "idle" THEN "none" ELSE stage[r]
           /\ \/ req'[r].pc \in {"idle", "insert", "adopt", "provision"}
              \/ req'[r].pc = "decide" /\ req'[r].row = subs'[req'[r].id]
              \/ /\ Decide(r) /\ req'[r].row = req[r].row /\ req'[r].id = req[r].id
                 /\ req'[r].pc = AfterDecision(req[r].row, now)
              \/ Roll(r) /\ req'[r].pc = "resolved" /\ req'[r].row = subs'[req'[r].id]
  <1>1. req \in [Requests -> Request] /\ req[r] \in Request /\ stage \in [Requests -> Stages]
    BY DEF CallsInv, MeterTypes, SubsInv, TypeOK
  <1>2. ASSUME NEW i, NEW pc, Hold(r, i, pc)
        PROVE  req'[r].pc = pc /\ req'[r].id = i /\ req'[r].row = subs'[i]
    BY <1>1, <1>2 DEF Hold, Request
  <1>3. Finish(r) => req'[r].pc = "idle"
    BY <1>1 DEF Finish, Idle
  <1>4. \A pc : Goto(r, pc) => req'[r].pc = pc
    BY <1>1 DEF Goto, Request
  <1>5. /\ req[r].pc \notin {"idle", "resolved"}
        /\ stage'[r] = IF req'[r].pc = "idle" THEN "none" ELSE stage[r]
    BY <1>1 DEF Resolve, Advance, FindActive, Provision, Insert, Adopt, Decide, Switch, Roll
  <1>6. CASE FindActive(r) \/ Provision(r) \/ Insert(r) \/ Adopt(r)
    <2>1. req' = [req EXCEPT ![r].pc = "insert", ![r].row = NewRow(Free, now)]
            => req'[r].pc = "insert"
      BY <1>1 DEF Request
    <2>2. QED
      BY <1>2, <1>3, <1>4, <1>5, <1>6, <2>1 DEF FindActive, Provision, Insert, Adopt
  <1>7. CASE Decide(r)
    <2>1. /\ req'[r].row = req[r].row /\ req'[r].id = req[r].id
          /\ req'[r].pc = AfterDecision(req[r].row, now)
      BY <1>1, <1>7 DEF Decide, Request
    <2>2. QED
      BY <1>5, <1>7, <2>1
  <1>8. CASE Roll(r)
    <2>1. Hold(r, req[r].id, "resolved")
      BY <1>8 DEF Roll
    <2>2. QED
      BY <1>2, <1>5, <1>8, <2>1
  <1>9. ~Switch(r)
    BY DEF Switch, CallsInv, ReaderInv, Reading
  <1>10. QED
    BY <1>6, <1>7, <1>8, <1>9 DEF Resolve

(* A rollover from the row as it is begins the next window.                *)
LEMMA RollCounts ==
    ASSUME CallsInv, NEW r \in Requests, HasTheRow(r), Roll(r)
    PROVE  /\ subs # <<>> /\ subs' # <<>>
           /\ Rolled < Periods /\ Rolled' = Rolled + 1 /\ Periods' = Periods
  <1>1. /\ subs # <<>> /\ DOMAIN subs = {1} /\ subs[1] \in Row
        /\ now \in Nat /\ UNCHANGED <<now, plans>>
        /\ req[r].pc = "roll" /\ req[r].pc \in Holding
        /\ Cycle(Free) \in Nat \ {0} /\ subs[1].since \in Nat
    BY TheWindowHeld, TheRow DEF Roll, Holding
  <1>2. req[r].id = 1 /\ req[r].row = subs[1] /\ req[r].at \in Nat
    BY <1>1, SubsInvFacts
       DEF RequestInv, CallsInv, MeterTypes, HasTheRow, SubsInv, TypeOK, Request
  <1>3. subs[1].end <= now
    <2>1. subs[1].end <= req[r].at /\ req[r].at <= now
      BY <1>1, <1>2 DEF CallsInv, GridInv, RequestGrid
    <2>2. QED
      BY <1>1, <1>2, <2>1 DEF Row
  <1>4. /\ subs'[1].start = subs[1].end /\ subs'[1].since = subs[1].since
        /\ DOMAIN subs' = DOMAIN subs
    BY <1>1, <1>2 DEF Roll, Row
  <1>5. subs' # <<>>
    BY <1>1, <1>4
  <1>6. /\ Periods \in Nat /\ Rolled \in Nat /\ Rolled < Periods
        /\ subs[1].end = subs[1].since + Rolled * Cycle(Free) + Cycle(Free)
    BY <1>1, <1>3, PeriodNumbers
  <1>7. Periods' = Periods
    BY <1>1, <1>4 DEF Periods, Cycle
  <1>8. Rolled' = Rolled + 1
    <2> DEFINE k == Rolled
               c == Cycle(Free)
               x == subs[1].end - subs[1].since
    <2>1. Rolled' = x \div c
      BY <1>4 DEF Rolled, Cycle
    <2>2. c \in Nat \ {0} /\ k \in Nat /\ k * c \in Nat
      <3>1. \A i, j \in Nat : i * j \in Nat
        OBVIOUS
      <3>2. QED
        BY <1>1, <1>6, <3>1
    <2>3. x = k * c + c /\ x \in Nat
      <3> DEFINE v == k * c
      <3>1. v \in Nat /\ subs[1].end = subs[1].since + v + c
        BY <1>6, <2>2
      <3> HIDE DEF v, c
      <3>2. x = v + c /\ x \in Nat
        BY <1>1, <2>2, <3>1
      <3>3. QED
        BY <3>2 DEF v
    <2> HIDE DEF k, c, x
    <2>4. (k + 1) * c = k * c + c /\ k + 1 \in Nat
      BY <2>2
    <2>5. (k + 1) * c <= x /\ x < (k + 1) * c + c
      BY <2>2, <2>3, <2>4
    <2>6. x \div c = k + 1
      BY <2>2, <2>3, <2>4, <2>5, QuotientUnique
    <2>7. QED
      BY <2>1, <2>6 DEF k
  <1>9. QED
    BY <1>1, <1>5, <1>6, <1>7, <1>8

(* Nothing the balance speaks of changes but how far the call has come.    *)
LEMMA SameNumbers ==
    ASSUME CallsInv, CallsInv', UNCHANGED <<now, subs, logs>>, subs # <<>>
    PROVE  /\ Rolled' = Rolled /\ Periods' = Periods /\ Used' = Used
           /\ Rolled \in Nat /\ Periods \in Nat /\ Used \in Nat
           /\ InitialPlans[Free].limit' = InitialPlans[Free].limit
  <1>1. Rolled' = Rolled /\ Periods' = Periods
    BY DEF Rolled, Periods, Cycle
  <1>2. Used' = Used
    BY UsedStays DEF SameFirstDay
  <1>3. QED
    BY <1>1, <1>2, PeriodNumbers, UsedIsNat

LEMMA StaysBalanced ==
    ASSUME NEW one, CallsInv, CallsInv', UNCHANGED <<now, subs, logs>>, subs # <<>>,
           Balance(one), Pace(one) \in Nat, Pace(one)' \in Nat,
           Rolled < Periods => Pace(one) <= Pace(one)',
           Rolled >= Periods => stage'[one] \notin Admitted \/ stage[one] \in Admitted
                                \/ Used < InitialPlans[Free].limit
    PROVE  Balance(one)'
  BY SameNumbers DEF Balance

LEMMA PaceIs ==
    ASSUME NEW one \in Requests
    PROVE  /\ Pace(one) \in 0 .. 2
           /\ stage[one] \in Admitted => Pace(one) = 0
           /\ stage[one] = "handler" /\ req[one].pc = "resolved" => Pace(one) = 0
           /\ stage[one] = "handler" /\ req[one].pc # "resolved" => Pace(one) = 1
           /\ stage[one] = "guard" /\ req[one].pc = "resolved" => Pace(one) = 1
           /\ stage[one] = "guard" /\ req[one].pc # "resolved" => Pace(one) = 2
           /\ stage[one] \in {"none", "failed"} => Pace(one) = 2
  BY DEF Pace, Admitted

LEMMA AloneResolves ==
    ASSUME NEW one, one \in Requests, AloneInv(one), CallsInv', Resolve(one),
           subs' # <<>>
    PROVE  Balance(one)'
  <1>1. /\ CallsInv /\ stage[one] \in {"guard", "handler"} /\ UNCHANGED <<now, plans, logs>>
        /\ stage'[one] \in {stage[one], "none"} /\ InitialPlans[Free].limit' = InitialPlans[Free].limit
        /\ InitialPlans[Free].limit \in Nat
    <2>1. InitialPlans[Free].limit \in Nat
      <3>1. InitialPlans = plans /\ plans[Free] # None
        <4>1. subs' \in Seq(Row) /\ OneRow' /\ RowsHavePlans'
          BY DEF CallsInv, MeterTypes, SubsInv, TypeOK
        <4>2. DOMAIN subs' = {1}
          BY <4>1, ShortSequences DEF OneRow
        <4>3. plans'[Free] # None /\ plans' = InitialPlans
          BY <4>1, <4>2 DEF OneRow, RowsHavePlans, CallsInv
        <4>4. QED
          BY <4>3 DEF AloneInv, CallsInv
      <3>2. plans[Free] \in Setting
        BY <3>1, ConstantsAssumption DEF AloneInv, CallsInv, MeterTypes, SubsInv, TypeOK
      <3>3. QED
        BY <3>1, <3>2 DEF Setting
    <2>2. QED
      BY <2>1, ResolveMoves, ResolveReads DEF AloneInv, InCheck, Resolve
  <1>2. stage[one] \notin Admitted /\ stage'[one] \notin Admitted
    BY <1>1 DEF Admitted
  <1>3. CASE subs = <<>>
    <2>1. Used' = 0
      <3>1. Used' = Used
        BY <1>1, <1>3, UsedStays DEF SameFirstDay
      <3>2. QED
        BY <1>3, <3>1 DEF Used
    <2>2. QED
      BY <1>1, <1>2, <2>1 DEF Balance
  <1>4. CASE subs # <<>> /\ ~Roll(one)
    <2>1. UNCHANGED subs /\ Balance(one)
      BY <1>1, <1>4, ResolveReads DEF AloneInv
    <2>2. ASSUME Rolled < Periods
          PROVE  req'[one].pc # "resolved"
      <3>1. SUFFICES ASSUME req'[one].pc = "resolved"
                     PROVE  FALSE
        OBVIOUS
      <3>2. Decide(one) /\ AfterDecision(req[one].row, now) = "resolved"
        BY <1>1, <1>4, <3>1, ResolveMoves
      <3>3. req[one].row = subs[1] /\ subs[1] \in Row /\ now \in Nat
        <4>1. req[one].pc = "decide" /\ req[one].id \in DOMAIN subs
          BY <1>1, <3>2, SubsInvFacts DEF Decide, RequestInv, Holding, CallsInv, MeterTypes
        <4>2. QED
          BY <1>1, <1>4, <4>1, TheRow DEF AloneInv, HasTheRow
      <3>4. subs[1].end <= now
        BY <1>1, <1>4, <2>2, PeriodNumbers
      <3>5. QED
        BY <3>2, <3>3, <3>4 DEF AfterDecision, Row
    <2>3. Rolled < Periods => Pace(one) <= Pace(one)'
      <3>1. req[one].pc # "resolved"
        BY <1>1, ResolveMoves
      <3>2. SUFFICES ASSUME Rolled < Periods
                     PROVE  Pace(one) <= Pace(one)'
        OBVIOUS
      <3>3. Pace(one) \in {1, 2} /\ (Pace(one) = 2 => stage[one] = "guard")
        BY <1>1, <3>1, PaceIs
      <3>4. stage'[one] = "guard" \/ stage'[one] = "none" => Pace(one)' = 2
        BY <2>2, <3>2 DEF Pace, Admitted
      <3>5. stage'[one] = "handler" => Pace(one)' = 1
        BY <2>2, <3>2 DEF Pace, Admitted
      <3>6. QED
        BY <1>1, <3>3, <3>4, <3>5
    <2>4. Pace(one) \in Nat /\ Pace(one)' \in Nat
      BY PaceIs DEF Pace
    <2>5. QED
      BY <1>1, <1>2, <1>4, <2>1, <2>3, <2>4, StaysBalanced
  <1>5. CASE subs # <<>> /\ Roll(one)
    <2>1. /\ Rolled < Periods /\ Rolled' = Rolled + 1 /\ Periods' = Periods
          /\ Rolled \in Nat /\ Periods \in Nat
      BY <1>1, <1>5, RollCounts, PeriodNumbers DEF AloneInv
    <2>2. Used' = Used /\ Used \in Nat
      BY <1>1, ResolveReads, UsedStays, UsedIsNat
    <2>3. Used = 0 \/ 2 * Used <= Rolled + Pace(one)
      BY <1>5, <2>1 DEF AloneInv, Balance
    <2>4. req[one].pc # "resolved" /\ req'[one].pc = "resolved" /\ stage'[one] = stage[one]
      <3>1. req'[one].pc = "resolved"
        <4>1. req \in [Requests -> Request] /\ req[one] \in Request
          BY <1>1 DEF CallsInv, MeterTypes, SubsInv, TypeOK
        <4>2. QED
          BY <1>5, <4>1 DEF Roll, Hold, Request
      <3>2. QED
        BY <1>1, <3>1, ResolveMoves
    <2>5. Pace(one) \in {1, 2} /\ Pace(one)' = Pace(one) - 1
      BY <1>1, <2>4 DEF Pace, Admitted
    <2>6. CASE Rolled' < Periods'
      BY <2>1, <2>2, <2>3, <2>5, <2>6 DEF Balance
    <2>7. CASE ~(Rolled' < Periods')
      <3>1. Used' = 0 \/ 2 * Used' <= Periods' + 1
        BY <2>1, <2>2, <2>3, <2>5, <2>7
      <3>2. Used' <= InitialPlans[Free].limit \/ 2 * Used' <= Periods' + 1
        BY <1>1, <2>2, <3>1
      <3>3. QED
        BY <1>1, <1>2, <2>7, <3>2 DEF Balance
    <2>8. QED
      BY <2>6, <2>7
  <1>6. QED
    BY <1>3, <1>4, <1>5

(* The steps of the call itself. *)
LEMMA AloneCalls ==
    ASSUME NEW one, one \in Requests, Gate!GateAssumption, AloneInv(one), CallsInv',
           subs # <<>>,
           \/ CallStart(one) \/ Refuse(one) \/ PassGuard(one) \/ PassCheck(one)
           \/ Answer(one) \/ Store(one) \/ Die(one)
    PROVE  Balance(one)'
  <1>1. /\ CallsInv /\ Balance(one) /\ Pace(one) \in Nat /\ Pace(one)' \in Nat
        /\ stage \in [Requests -> Stages]
        /\ req \in [Requests -> Request] /\ req[one] \in Request
        /\ req[one].pc # "idle" => stage[one] \in {"guard", "handler"}
    BY PaceIs DEF AloneInv, Pace, CallsInv, MeterTypes, SubsInv, TypeOK, InCheck
  <1>2. UNCHANGED <<now, subs, logs>>
    BY DEF CallStart, Refuse, PassGuard, PassCheck, Answer, Store, Die, ReadStart, Reply, vars
  <1>3. CASE CallStart(one) \/ Refuse(one) \/ Die(one)
    <2>1. stage'[one] \notin Admitted
      BY <1>1, <1>3 DEF CallStart, Refuse, Die, Advance, Admitted
    <2>2. Pace(one)' = 2
      <3>1. CASE CallStart(one)
        <4>1. stage'[one] = "guard" /\ req'[one].pc = "find"
          BY <1>1, <3>1 DEF CallStart, Advance, ReadStart, Request
        <4>2. QED
          BY <4>1 DEF Pace, Admitted
      <3>2. CASE Refuse(one) \/ Die(one)
        <4>1. stage'[one] = "none"
          BY <1>1, <3>2 DEF Refuse, Die, Advance
        <4>2. QED
          BY <4>1 DEF Pace, Admitted
      <3>3. QED
        BY <1>3, <3>1, <3>2
    <2>3. Pace(one) <= 2
      BY PaceIs
    <2>4. QED
      BY <1>1, <1>2, <2>1, <2>2, <2>3, StaysBalanced
  <1>4. CASE PassGuard(one)
    <2>1. stage[one] = "guard" /\ req[one].pc = "resolved"
          /\ stage'[one] = "handler" /\ req'[one].pc = "find"
      BY <1>1, <1>4 DEF PassGuard, Advance, Idle
    <2>2. Pace(one) = 1 /\ Pace(one)' = 1 /\ stage'[one] \notin Admitted
      BY <2>1 DEF Pace, Admitted
    <2>3. QED
      BY <1>1, <1>2, <2>2, StaysBalanced
  <1>5. CASE PassCheck(one)
    <2>1. /\ stage[one] = "handler" /\ req[one].pc = "resolved" /\ Allowed(one)
          /\ stage'[one] = "provider"
      BY <1>1, <1>5 DEF PassCheck, Reply, Advance
    <2>2. Pace(one) = 0 /\ Pace(one)' = 0
      BY <2>1 DEF Pace, Admitted
    <2>3. ASSUME Rolled >= Periods
          PROVE  Used < InitialPlans[Free].limit
      <3>1. req[one].pc \in Holding /\ req[one].plan = InitialPlans[Free]
        BY <1>1, <2>1, TheWindowHeld DEF Holding
      <3>2. req[one].row = subs[1] /\ subs[1] \in Row /\ now \in Nat
        <4>1. req[one].id \in DOMAIN subs
          BY <1>1, <3>1, SubsInvFacts DEF RequestInv, CallsInv, MeterTypes
        <4>2. QED
          BY <1>1, <2>1, <4>1, TheRow DEF AloneInv, HasTheRow
      <3>3. now < req[one].row.end
        BY <1>1, <2>3, <3>2, PeriodNumbers DEF Row
      <3>4. Used = UsageCount(req[one].row.start, req[one].row.end)
        BY <1>1, <3>1, <3>3, CountsTheWindow
      <3>5. QED
        BY <2>1, <3>1, <3>4 DEF Allowed, Gate!GateAssumption, Unlimited
    <2>4. QED
      BY <1>1, <1>2, <2>2, <2>3, StaysBalanced
  <1>6. CASE Answer(one) \/ Store(one)
    <2>1. stage[one] \in Admitted
      BY <1>6 DEF Answer, Store, Admitted
    <2>2. Pace(one) = 0
      BY <2>1 DEF Pace
    <2>3. QED
      BY <1>1, <1>2, <2>1, <2>2, StaysBalanced
  <1>7. QED
    BY <1>3, <1>4, <1>5, <1>6

LEMMA AloneRecords ==
    ASSUME NEW one, one \in Requests, Gate!GateAssumption, AloneInv(one), CallsInv',
           subs # <<>>, Record(one)
    PROVE  Balance(one)'
  <1> DEFINE e == [at |-> now, status |-> IF stage[one] = "record" THEN 200 ELSE 502]
             L == InitialPlans[Free].limit
  <1>1. /\ UNCHANGED <<now, plans, subs>> /\ logs' = Append(logs, e) /\ e.at = now /\ e \in Log
        /\ e.status = 200 <=> stage[one] = "record"
        /\ stage[one] \in {"record", "failed"} /\ stage'[one] = "none"
    BY DEF Record, vars, Log, AloneInv, CallsInv, MeterTypes, SubsInv, TypeOK, Advance
  <1> HIDE DEF e
  <1>2. Used' = IF stage[one] = "record" THEN Used + 1 ELSE Used
    BY <1>1, UsedGrows DEF AloneInv
  <1>3. /\ Rolled' = Rolled /\ Periods' = Periods
        /\ Rolled \in Nat /\ Periods \in Nat /\ Used \in Nat /\ L \in Nat
        /\ Balance(one)
    <2>1. Rolled' = Rolled /\ Periods' = Periods
      BY <1>1 DEF Rolled, Periods, Cycle
    <2>2. QED
      BY <2>1, PeriodNumbers, UsedIsNat DEF AloneInv, Gate!GateAssumption
  <1>4. Pace(one)' = 2 /\ stage'[one] \notin Admitted /\ L' = L
    BY <1>1 DEF Pace, Admitted
  <1>5. stage[one] = "record" => stage[one] \in Admitted /\ Pace(one) = 0
    BY DEF Pace, Admitted
  <1>6. Pace(one) \in 0 .. 2
    BY PaceIs
  <1>7. CASE Rolled < Periods
    <2>1. Used = 0 \/ 2 * Used <= Rolled + Pace(one)
      BY <1>3, <1>7 DEF Balance
    <2>2. Used' = 0 \/ 2 * Used' <= Rolled + 2
      BY <1>2, <1>3, <1>5, <1>6, <2>1
    <2>3. QED
      BY <1>3, <1>4, <1>7, <2>2 DEF Balance
  <1>8. CASE ~(Rolled < Periods)
    <2>1. stage[one] = "record" => Used < L
      BY <1>5, <1>8, <1>3 DEF Balance
    <2>2. Used <= L \/ 2 * Used <= Periods + 1
      BY <1>3, <1>8 DEF Balance
    <2>3. Used' <= L \/ 2 * Used' <= Periods + 1
      BY <1>2, <1>3, <2>1, <2>2
    <2>4. QED
      BY <1>3, <1>4, <1>8, <2>3 DEF Balance
  <1>9. QED
    BY <1>7, <1>8

LEMMA AloneWaits ==
    ASSUME NEW one, AloneInv(one), CallsInv', PassTime, subs # <<>>
    PROVE  Balance(one)'
  <1>1. /\ UNCHANGED <<plans, subs, req, stage, logs>> /\ CallsInv /\ Balance(one)
        /\ Rolled' = Rolled /\ Pace(one)' = Pace(one)
        /\ InitialPlans[Free].limit' = InitialPlans[Free].limit
    BY DEF PassTime, Tick, meterVars, AloneInv, Rolled, Pace, Cycle
  <1>2. Rolled \in Nat /\ Periods \in Nat /\ Rolled <= Periods /\ Used \in Nat
    BY <1>1, PeriodNumbers, UsedIsNat
  <1>3. CASE Periods' = Periods /\ Used' = Used
    BY <1>1, <1>2, <1>3 DEF Balance
  <1>4. CASE Periods' = Periods + 1 /\ Used' = 0
    BY <1>1, <1>2, <1>4 DEF Balance
  <1>5. QED
    BY <1>1, <1>3, <1>4, ClockTurns

(* The copy of the row is the row: nobody else is there to write it.       *)
LEMMA AloneHasTheRow ==
    ASSUME NEW one, Requests = {one}, AloneInv(one), CallsInv', [MeterNext]_allVars
    PROVE  HasTheRow(one)'
  <1>1. /\ CallsInv /\ HasTheRow(one)
        /\ req \in [Requests -> Request] /\ req[one] \in Request
    BY DEF AloneInv, CallsInv, MeterTypes, SubsInv, TypeOK
  <1>2. CASE Resolve(one)
    <2>1. Decide(one) => UNCHANGED subs /\ req[one].pc = "decide"
      BY DEF Decide
    <2>2. QED
      BY <1>1, <1>2, <2>1, ResolveMoves DEF HasTheRow
  <1>3. CASE CallStart(one) \/ Refuse(one) \/ PassGuard(one) \/ PassCheck(one) \/ Die(one)
    <2>1. req'[one].pc \in {"idle", "find"}
      <3>1. CallStart(one) => req'[one].pc = "find"
        BY <1>1 DEF CallStart, ReadStart, Request
      <3>2. PassGuard(one) => req'[one].pc = "find"
        BY <1>1 DEF PassGuard, Idle
      <3>3. Refuse(one) \/ PassCheck(one) \/ Die(one) => req'[one].pc = "idle"
        BY <1>1 DEF Refuse, PassCheck, Die, Reply, Finish, Idle
      <3>4. QED
        BY <1>3, <3>1, <3>2, <3>3
    <2>2. QED
      BY <2>1 DEF HasTheRow
  <1>4. CASE Answer(one) \/ Store(one) \/ Record(one) \/ PassTime \/ UNCHANGED allVars
    <2>1. UNCHANGED <<req, subs>>
      BY <1>4 DEF Answer, Store, Record, PassTime, Tick, vars, allVars
    <2>2. QED
      BY <1>1, <2>1 DEF HasTheRow
  <1>5. QED
    BY <1>2, <1>3, <1>4 DEF MeterNext, CallStep

LEMMA AloneKept ==
    ASSUME NEW one, Requests = {one}, Gate!GateAssumption, AloneInv(one),
           [MeterNext]_allVars
    PROVE  AloneInv(one)'
  <1>1. one \in Requests /\ CallsInv /\ CallsInv' /\ InCheck' /\ HasTheRow(one)'
    BY CallsKept, InCheckKept, AloneHasTheRow DEF AloneInv, CallsInv
  <1>2. CASE Resolve(one)
    BY <1>1, <1>2, AloneResolves DEF AloneInv
  <1>3. CASE UNCHANGED subs /\ ~Resolve(one)
    <2>1. SUFFICES ASSUME subs # <<>>
                   PROVE  Balance(one)'
      BY <1>1, <1>3 DEF AloneInv
    <2>2. CASE UNCHANGED allVars
      <3>1. Pace(one)' = Pace(one) /\ Rolled' = Rolled /\ Periods' = Periods
        BY <2>2 DEF allVars, Pace, Rolled, Periods, Cycle
      <3>2. Used' = Used /\ stage' = stage
        BY <2>2 DEF allVars, Used, UsageCount, WindowStart
      <3>3. QED
        BY <2>1, <3>1, <3>2 DEF AloneInv, Balance
    <2>3. QED
      BY <1>1, <1>3, <2>1, <2>2, AloneCalls, AloneRecords, AloneWaits DEF MeterNext, CallStep
  <1>4. ~Resolve(one) => UNCHANGED subs
    BY DEF MeterNext, CallStep, CallStart, Refuse, PassGuard, PassCheck, Answer, Store, Record,
           Die, PassTime, ReadStart, Reply, Tick, vars, allVars
  <1>5. QED
    BY <1>2, <1>3, <1>4

(* How far finding 2 goes.  A user whose calls come one after the other,   *)
(* however long he stayed away, is charged more than the limit in a window *)
(* only if twice the charges are at most one more than the periods since   *)
(* his first day: so not before 2 * limit + 1 of them are over, and by one *)
(* call for every two periods that his row lagged behind.                  *)
THEOREM AloneOvershootsSlowly ==
    ASSUME NEW one, Requests = {one}, Gate!GateAssumption
    PROVE  MeterSpec =>
             [](subs # <<>> => Used <= InitialPlans[Free].limit \/ 2 * Used <= Periods + 1)
  <1> DEFINE Slow == subs # <<>> => Used <= InitialPlans[Free].limit \/ 2 * Used <= Periods + 1
  <1>1. MeterInit => AloneInv(one)
    <2> SUFFICES ASSUME MeterInit
                 PROVE  AloneInv(one)
      OBVIOUS
    <2>1. CallsInv
      BY CallsInit
    <2>2. InCheck /\ HasTheRow(one) /\ stage[one] \notin Admitted
      BY DEF MeterInit, Init, Idle, InCheck, HasTheRow, Admitted
    <2>3. Used = 0
      <3>1. UsageCount(WindowStart, MaxTime + 1) = 0
        <4>1. {i \in DOMAIN logs : /\ WindowStart <= logs[i].at /\ logs[i].at < MaxTime + 1
                                   /\ 200 <= logs[i].status /\ logs[i].status < 400} = {}
          BY DEF MeterInit
        <4>2. QED
          BY <4>1, FS_EmptySet DEF UsageCount
      <3>2. QED
        BY <3>1 DEF Used
    <2>4. Balance(one)
      BY <2>2, <2>3 DEF Balance, Gate!GateAssumption
    <2>5. QED
      BY <2>1, <2>2, <2>4 DEF AloneInv
  <1>2. AloneInv(one) => Slow
    <2> SUFFICES ASSUME AloneInv(one), subs # <<>>
                 PROVE  Used <= InitialPlans[Free].limit \/ 2 * Used <= Periods + 1
      OBVIOUS
    <2>1. Rolled \in Nat /\ Periods \in Nat /\ Used \in Nat
      BY PeriodNumbers, UsedIsNat DEF AloneInv
    <2>2. Pace(one) \in 0 .. 2 /\ InitialPlans[Free].limit \in Nat
      BY PaceIs DEF Gate!GateAssumption
    <2>3. QED
      BY <2>1, <2>2 DEF AloneInv, Balance
  <1>3. AloneInv(one) /\ [MeterNext]_allVars => AloneInv(one)'
    BY AloneKept
  <1>4. QED
    BY <1>1, <1>2, <1>3, PTL DEF MeterSpec
=============================================================================
