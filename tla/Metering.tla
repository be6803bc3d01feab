------------------------------ MODULE Metering -------------------------------
(***************************************************************************)
(* Metered calls (a chat message, a web search) of one user: the allowance *)
(* is checked by SubscriptionUsageGuard and again by the handler, then the *)
(* provider is called, the exchange stored and the call charged by an      *)
(* APIUsageLog row.  Each of these is awaited, so calls interleave.        *)
(*                                                                         *)
(* The check runs getCurrentSubscription, that is, the actions of          *)
(* Subscriptions on the same request; here requests only read.             *)
(***************************************************************************)
EXTENDS Subscriptions

CONSTANTS
    MaxCalls,   \* bound: metered calls in a run
    Prompt      \* bound: when TRUE, the clock stands still during calls

(* Only the user's calls run here: nobody writes plans or statuses. *)
ASSUME MeteringAssumption == PlanWrites = {} /\ AdminStatuses = {}

VARIABLES
    stage,    \* how far each metered call has come
    logs,     \* table api_usage_logs of the user
    stored,   \* answers stored (conversation messages, or a web search)
    calls     \* metered calls so far (bounded)

meterVars == <<stage, logs, stored, calls>>
allVars == <<now, plans, subs, req, events, stage, logs, stored, calls>>

Stages == {"none", "guard", "handler", "provider", "failed", "store", "record"}

(* The status codes: 200, and one for all failures (getUsageCount counts   *)
(* from 200 up to 399).                                                    *)
Log == [at : Nat, status : {200, 502}]

MeterTypeOK ==
    /\ TypeOK
    /\ stage \in [Requests -> Stages]
    /\ logs \in Seq(Log)
    /\ stored \in Nat
    /\ calls \in Nat

MeterInit ==
    /\ Init
    /\ stage = [r \in Requests |-> "none"]
    /\ logs = <<>>
    /\ stored = 0
    /\ calls = 0

(* getUsageCount: successful calls logged in [from, to). *)
UsageCount(from, to) ==
    Cardinality({i \in DOMAIN logs : /\ from <= logs[i].at /\ logs[i].at < to
                                     /\ 200 <= logs[i].status /\ logs[i].status < 400})

Advance(r, s) == stage' = [stage EXCEPT ![r] = s]

(* The guard starts the first check. *)
CallStart(r) ==
    /\ calls < MaxCalls
    /\ stage[r] = "none" /\ ReadStart(r)
    /\ calls' = calls + 1
    /\ Advance(r, "guard")
    /\ UNCHANGED <<logs, stored>>

(* Mutant: one request too many is allowed. *)
AllowedOneMore(r) ==
    LET sub == req[r] IN
    sub.plan.limit = Unlimited \/ UsageCount(sub.row.start, sub.row.end) <= sub.plan.limit

(* The last step of checkRequestAllowance: count the usage of the window   *)
(* that was resolved, compare it with the plan's limit.                    *)
Allowed(r) ==
    LET sub == req[r] IN
    sub.plan.limit = Unlimited \/ UsageCount(sub.row.start, sub.row.end) < sub.plan.limit

Refuse(r) ==                    \* 429
    /\ stage[r] \in {"guard", "handler"} /\ Reply(r) /\ ~Allowed(r)
    /\ Advance(r, "none")
    /\ UNCHANGED <<logs, stored, calls>>

PassGuard(r) ==                 \* the handler checks again
    /\ stage[r] = "guard" /\ req[r].pc = "resolved" /\ Allowed(r)
    /\ req' = [req EXCEPT ![r] = [Idle EXCEPT !.op = "read", !.pc = "find"]]
    /\ Advance(r, "handler")
    /\ UNCHANGED <<now, plans, subs, events, logs, stored, calls>>

(* Mutant: the handler relies on the guard's check. *)
PassUnchecked(r) ==
    /\ stage[r] = "handler" /\ Reply(r)
    /\ Advance(r, "provider")
    /\ UNCHANGED <<logs, stored, calls>>

PassCheck(r) ==                 \* the provider is called
    /\ stage[r] = "handler" /\ Reply(r) /\ Allowed(r)
    /\ Advance(r, "provider")
    /\ UNCHANGED <<logs, stored, calls>>

(* The provider answers or fails; an answer is stored, in a transaction. *)
Answer(r) ==
    /\ stage[r] = "provider"
    /\ \E s \in {"store", "failed"} : Advance(r, s)
    /\ UNCHANGED <<vars, logs, stored, calls>>

Store(r) ==
    /\ stage[r] = "store"
    /\ stored' = stored + 1
    /\ Advance(r, "record")
    /\ UNCHANGED <<vars, logs, calls>>

(* Mutant: failures are logged as successes. *)
RecordAsSuccess(r) ==
    /\ stage[r] \in {"record", "failed"}
    /\ logs' = Append(logs, [at |-> now, status |-> 200])
    /\ Advance(r, "none")
    /\ UNCHANGED <<vars, stored, calls>>

(* safeRecordUsage, last of all, of success and failure alike. *)
Record(r) ==
    /\ stage[r] \in {"record", "failed"}
    /\ logs' = Append(logs, [at |-> now, status |-> IF stage[r] = "record" THEN 200 ELSE 502])
    /\ Advance(r, "none")
    /\ UNCHANGED <<vars, stored, calls>>

(* The call dies: a statement fails, the transaction that stores is rolled *)
(* back, safeRecordUsage swallows its error, or the server goes down.      *)
Die(r) ==
    /\ stage[r] # "none"
    /\ Spend
    /\ Finish(r)
    /\ Advance(r, "none")
    /\ UNCHANGED <<now, plans, subs, logs, stored, calls>>

(* getCurrentSubscription, run by the check; a throw ends the call. *)
Resolve(r) ==
    /\ \/ FindActive(r) \/ Provision(r) \/ Insert(r) \/ Adopt(r)
       \/ Decide(r) \/ Switch(r) \/ Roll(r)
    /\ Advance(r, IF req'[r].pc = "idle" THEN "none" ELSE stage[r])
    /\ UNCHANGED <<logs, stored, calls>>

PassTime ==
    /\ Tick
    /\ Prompt => \A r \in Requests : stage[r] = "none"
    /\ UNCHANGED meterVars

CallStep(r) ==
    \/ Resolve(r) \/ Refuse(r) \/ PassGuard(r) \/ PassCheck(r)
    \/ Answer(r) \/ Store(r) \/ Record(r)

MeterNext ==
    \/ \E r \in Requests : CallStart(r) \/ CallStep(r) \/ Die(r)
    \/ PassTime

MeterSpec == MeterInit /\ [][MeterNext]_allVars

-----------------------------------------------------------------------------
(* Properties. *)

(* README.md:89, "Failed provider calls are logged and do not consume      *)
(* quota": every charge is for an answer that was stored, and the other    *)
(* way round an answer escapes being charged only while its log is about   *)
(* to be written or when a failure has lost it.                            *)
Charges == UsageCount(0, MaxTime + 1)

MeteringAccurate ==
    /\ Charges <= stored
    /\ stored <= Charges + Cardinality({r \in Requests : stage[r] = "record"}) + events

(* The billing window of the newest row that the clock is in. *)
WindowStart ==
    LET row == subs[Len(subs)]
        cycle == plans[row.plan].cycle
    IN  row.since + cycle * ((now - row.since) \div cycle)

Used == IF subs = <<>> THEN 0 ELSE UsageCount(WindowStart, MaxTime + 1)

(* Where a call is with respect to the gate: only the handler's check      *)
(* decides; it is late when the window it has looked up is over.           *)
Phase ==
    [r \in Requests |->
       CASE stage[r] \in {"provider", "store", "record"} -> "admitted"
         [] stage[r] = "handler" /\ req[r].pc = "resolved" /\ now >= req[r].row.end -> "stale"
         [] stage[r] = "handler" /\ ~(req[r].pc = "resolved" /\ now >= req[r].row.end) -> "checking"
         [] OTHER -> "idle"]

Gate == INSTANCE QuotaGate WITH
          Workers <- Requests, Limit <- InitialPlans[Free].limit,
          used <- Used, phase <- Phase

(* Metering implements the gate, so a window is charged at most the limit  *)
(* plus one call for each other call in flight (theorem UsageIsBounded).   *)
(* This is so for a user who never misses a whole billing period ...       *)
ImplementsGate == Gate!Spec

(* ... and stops being so otherwise: after several missed periods the      *)
(* window looked up lags behind the clock, a call catches up two periods   *)
(* only, and calls charged in the current window pass the gate uncounted.  *)
UsageBounded == Gate!UsageBounded
=============================================================================
