------------------------------- MODULE Reports ------------------------------
(***************************************************************************)
(* The reports administrators read: the dashboard, the usage analytics, a  *)
(* user's usage summary and the two health checks.  Each puts figures side *)
(* by side that were counted by statements of their own, in any order and  *)
(* under other snapshots, while the tables are written and the database    *)
(* may go and come back.  One table is reported at a time; the figures of  *)
(* different tables have nothing to do with each other.                    *)
(*                                                                         *)
(* Time is in half days, so that a day may be cut by the borders of a      *)
(* period; the report is made at the moment that begins half day Moment.   *)
(***************************************************************************)
EXTENDS Integers, FiniteSets, Functions

CONSTANTS
    Items,          \* the rows of a table
    MaxOverlaps,    \* bound: writes while a report is made
    MaxBlips,       \* bound: times the database goes or comes back
    Tasks,          \* the reports, with what they filter on
    Moment,         \* the half day that begins now
    DayLimit        \* the days of the default period and of LIMIT

(* The report, and the table it is about.  from and to are the borders of  *)
(* analytics, 0 when they are not given, and the current billing period of *)
(* a summary, which may be behind the clock.                               *)
ASSUME ReportsAssumption ==
    /\ IsFiniteSet(Items) /\ Items # {} /\ MaxOverlaps \in Nat /\ MaxBlips \in Nat
    /\ Moment \in Nat /\ DayLimit \in Nat \ {0}
    /\ Tasks \subseteq [kind : {"dashboard", "health", "check", "analytics", "summary"},
                        table : {"users", "subscriptions", "providers", "logs"},
                        from : Nat, to : Nat]
    /\ \A t \in Tasks : /\ t.kind = "health" => t.table = "providers"
                        /\ t.kind \in {"analytics", "summary"} => t.table = "logs"

VARIABLES
    task,       \* the report that is made
    data,       \* the rows of its table
    figures,    \* the figures counted so far
    outcome,    \* "running", "answered" or "refused" with status 500
    overlaps,   \* history: writes since the report began
    dbUp,       \* the database answers
    blips       \* times it went or came back

reportsVars == <<task, data, figures, outcome, overlaps, dbUp, blips>>

-----------------------------------------------------------------------------
(* The tables. *)

(* PAST_DUE and TRIALING, counted likewise, are left out. *)
SubscriptionStatuses == {"ACTIVE", "CANCELED", "EXPIRED"}

RowsOf(table) ==
    CASE table = "users" -> [deleted : BOOLEAN, isActive : BOOLEAN, verified : BOOLEAN]
      [] table = "subscriptions" -> [status : SubscriptionStatuses]
      [] table = "providers" -> [isActive : BOOLEAN, hasKey : BOOLEAN]
      [] table = "logs" -> [ok : BOOLEAN, at : 1 .. Moment - 1]

(* What an update makes of a row; logs are only inserted. *)
Becomes(table, v, w) ==
    CASE table = "users" -> /\ ~v.deleted /\ (v.verified => w.verified)
                            /\ w.deleted => ~w.isActive /\ w.verified = v.verified
      [] table = "logs" -> FALSE
      [] OTHER -> v # w

(* The figures of a report, each a statement; the dashboard's one ping is  *)
(* taken with each of its tables but the users.                            *)
DashboardFigures ==
    CASE task.table = "users" -> {"total", "active", "inactive", "verified", "unverified"}
      [] task.table = "subscriptions" -> {"ping", "total"} \cup SubscriptionStatuses
      [] task.table = "providers" -> {"ping", "total", "active"}
      [] task.table = "logs" -> {"ping", "total", "successful", "failed"}

Figures ==
    CASE task.kind = "check" -> {"ping"}
      [] task.kind = "health" -> {"ping", "total", "active", "withKey"}
      [] task.kind = "dashboard" -> DashboardFigures
      [] task.kind = "analytics" -> {"total", "successful", "failed", "byDay"}
      [] task.kind = "summary" -> {"total", "successful", "failed", "current"}

(* awaited before the others, or after them. *)
ReadFirst == IF task.kind = "health" THEN {"ping"} ELSE {}
ReadLast == Figures \cap {"byDay", "current"}

ReportsTypeOK ==
    /\ task \in Tasks
    /\ DOMAIN data \subseteq Items /\ \A i \in DOMAIN data : data[i] \in RowsOf(task.table)
    /\ DOMAIN figures \subseteq Figures
    /\ \A f \in DOMAIN figures : figures[f] \in 0 .. Cardinality(Items)
    /\ outcome \in {"running", "answered", "refused"}
    /\ overlaps \in 0 .. MaxOverlaps
    /\ dbUp \in BOOLEAN /\ blips \in 0 .. MaxBlips

ReportsInit ==
    /\ task \in Tasks
    /\ \E I \in SUBSET Items : data \in [I -> RowsOf(task.table)]
    /\ figures = <<>>
    /\ outcome = "running"
    /\ overlaps = 0
    /\ dbUp \in BOOLEAN /\ blips = 0

-----------------------------------------------------------------------------
(* The figures. *)

(* buildDateFilter: createdAt is limited where a border is given. *)
InFilter(row) ==
    /\ task.from # 0 => row.at >= task.from
    /\ task.to # 0 => row.at < task.to

Reported(row) == task.kind # "analytics" \/ InFilter(row)

(* Mutant: a count without deletedAt: null. *)
WhereForgets(f, row) ==
    CASE f = "total" -> task.table = "users" => ~row.deleted
      [] f \in {"active", "inactive"} -> row.isActive = (f = "active")
      [] f \in {"verified", "unverified"} -> ~row.deleted /\ row.verified = (f = "verified")
      [] f = "withKey" -> row.hasKey
      [] f \in SubscriptionStatuses -> row.status = f
      [] f \in {"successful", "failed"} -> row.ok = (f = "successful")

(* where, of each figure that is a count. *)
Where(f, row) ==
    CASE f = "total" -> task.table = "users" => ~row.deleted
      [] f \in {"active", "inactive"} /\ task.table = "users" ->
            ~row.deleted /\ row.isActive = (f = "active")
      [] f = "active" /\ task.table = "providers" -> row.isActive
      [] f \in {"verified", "unverified"} -> ~row.deleted /\ row.verified = (f = "verified")
      [] f = "withKey" -> row.hasKey
      [] f \in SubscriptionStatuses -> row.status = f
      [] f \in {"successful", "failed"} -> row.ok = (f = "successful")

Counted(f) == Cardinality({i \in DOMAIN data : Reported(data[i]) /\ Where(f, data[i])})

(* getUsageByDay: the last DayLimit times 24 hours if no from is given,    *)
(* grouped by the day, of which the newest DayLimit are kept.              *)
DayOf(row) == row.at \div 2

EffectiveFrom == IF task.from # 0 THEN task.from ELSE Moment - 2 * DayLimit
EffectiveTo == IF task.to # 0 THEN task.to ELSE Moment

InDays == {i \in DOMAIN data : data[i].at >= EffectiveFrom /\ data[i].at < EffectiveTo}
DaysWithRows == {DayOf(data[i]) : i \in InDays}

KeptDays == {d \in DaysWithRows : Cardinality({e \in DaysWithRows : e >= d}) <= DayLimit}

ByDay == Cardinality({i \in InDays : DayOf(data[i]) \in KeptDays})

(* currentPeriodRequests, in the period of the row as it was read. *)
CurrentPeriod ==
    Cardinality({i \in DOMAIN data : data[i].ok /\ data[i].at >= task.from /\ data[i].at < task.to})

Value(f) ==
    CASE f = "ping" -> IF dbUp THEN 1 ELSE 0
      [] f = "byDay" -> ByDay
      [] f = "current" -> CurrentPeriod
      [] OTHER -> Counted(f)

-----------------------------------------------------------------------------
Due(f) ==
    /\ outcome = "running" /\ f \in Figures \ DOMAIN figures
    /\ f \notin ReadFirst => ReadFirst \subseteq DOMAIN figures
    /\ f \in ReadLast => Figures \ ReadLast \subseteq DOMAIN figures

Known(f, n) == [g \in DOMAIN figures \cup {f} |-> IF g = f THEN n ELSE figures[g]]

(* A statement is answered; isHealthy catches the error of its own. *)
ReadFigure(f) ==
    /\ Due(f) /\ (dbUp \/ f = "ping")
    /\ figures' = Known(f, Value(f))
    /\ outcome' = IF DOMAIN figures' = Figures THEN "answered" ELSE outcome
    /\ UNCHANGED <<task, data, overlaps, dbUp, blips>>

(* Mutant: a count that fails is shown as nothing. *)
ReadFailsSilently(f) ==
    /\ Due(f) /\ ~dbUp /\ f # "ping"
    /\ figures' = Known(f, 0)
    /\ outcome' = IF DOMAIN figures' = Figures THEN "answered" ELSE outcome
    /\ UNCHANGED <<task, data, overlaps, dbUp, blips>>

(* It fails, and the whole report with it. *)
ReadFails(f) ==
    /\ Due(f) /\ ~dbUp /\ f # "ping"
    /\ outcome' = "refused"
    /\ UNCHANGED <<task, data, figures, overlaps, dbUp, blips>>

(* A write commits: a row is inserted, a log now; updated; or a provider   *)
(* deleted.                                                                *)
TableWritten ==
    /\ outcome = "running" /\ dbUp /\ overlaps < MaxOverlaps
    /\ overlaps' = overlaps + 1
    /\ \/ \E i \in Items \ DOMAIN data, v \in RowsOf(task.table) :
            /\ task.table = "logs" => v.at = Moment - 1
            /\ data' = [j \in DOMAIN data \cup {i} |-> IF j = i THEN v ELSE data[j]]
       \/ \E i \in DOMAIN data, v \in RowsOf(task.table) :
            /\ Becomes(task.table, data[i], v)
            /\ data' = [data EXCEPT ![i] = v]
       \/ /\ task.table = "providers"
          /\ \E i \in DOMAIN data : data' = Restrict(data, DOMAIN data \ {i})
    /\ UNCHANGED <<task, figures, outcome, dbUp, blips>>

Blip ==
    /\ outcome = "running" /\ blips < MaxBlips
    /\ blips' = blips + 1 /\ dbUp' = ~dbUp
    /\ UNCHANGED <<task, data, figures, outcome, overlaps>>

ReportsNext ==
    \/ \E f \in Figures : ReadFigure(f) \/ ReadFails(f)
    \/ TableWritten \/ Blip

ReportsSpec == ReportsInit /\ [][ReportsNext]_reportsVars

-----------------------------------------------------------------------------
(* Properties. *)

Apart(m, n) == IF m > n THEN m - n ELSE n - m

(* What the parts of the total add up to, of the tables that are parted.   *)
PartSums ==
    CASE task.table = "users" -> {figures["active"] + figures["inactive"],
                                  figures["verified"] + figures["unverified"]}
      [] task.table = "subscriptions" ->
            {figures["ACTIVE"] + figures["CANCELED"] + figures["EXPIRED"]}
      [] task.table = "logs" -> {figures["successful"] + figures["failed"]}
      [] task.table = "providers" -> {}

(* A period before the default one (only to is given) has no days, and the *)
(* default period may have one day too many.                               *)
DaysAddUp ==
    /\ figures["byDay"] <= figures["total"]
    /\ task.from # 0 /\ Cardinality(DaysWithRows) <= DayLimit => figures["byDay"] = figures["total"]

(* admin.service.ts:44 and 684: the figures of a report that should add up *)
(* differ by no more than the writes that were committed while it was      *)
(* made; so inactive, total minus active, may be negative, but is no       *)
(* further from the truth than that, and a summary's current period has no *)
(* more than its successful requests and those logged meanwhile.  Without  *)
(* such writes the days of an analytics report add up to its total, if     *)
(* from is given and the logs are of at most DayLimit days.                *)
FiguresAgree ==
    outcome = "answered" /\ task.kind # "check" =>
      /\ \A n \in PartSums : Apart(figures["total"], n) <= overlaps
      /\ task.table = "providers" =>
           Apart(figures["total"] - figures["active"],
                 Cardinality({i \in DOMAIN data : ~data[i].isActive})) <= overlaps
      /\ task.kind = "summary" => figures["current"] <= figures["successful"] + overlaps
      /\ task.kind = "analytics" /\ overlaps = 0 => DaysAddUp

(* admin.service.ts:582: the dashboard and the administrators' health      *)
(* report count rows beside their ping, so they report a database as down  *)
(* only if it went or came back meanwhile; otherwise they fail.  The       *)
(* public check asks nothing else, and tells.                              *)
DownOnlyInPassing ==
    /\ outcome = "answered" /\ "ping" \in DOMAIN figures /\ figures["ping"] = 0 =>
         blips > 0 \/ task.kind = "check"
    /\ task.kind = "check" => outcome # "refused"

=============================================================================
