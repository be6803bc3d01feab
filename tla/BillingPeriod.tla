--------------------------- MODULE BillingPeriod ---------------------------
(***************************************************************************)
(* calculateNextPeriodEnd: the calendar arithmetic of billing periods, and *)
(* a subscription that is rolled over with it again and again.             *)
(*                                                                         *)
(* A Date is kept as year, month (1 to 12) and day of the server's         *)
(* calendar: the code reads and sets nothing else, so the time of day      *)
(* stays as it is.                                                         *)
(***************************************************************************)
EXTENDS Integers

CONSTANTS
    FirstDays,   \* the days subscriptions start on
    Cycles,      \* the billingCycle strings plans have
    MaxRolls     \* bound: rollovers of one subscription

VARIABLES
    cycle,   \* the plan's billingCycle
    first,   \* the day the subscription was created
    start,   \* currentPeriodStart
    end,     \* currentPeriodEnd
    rolls    \* rollovers so far

vars == <<cycle, first, start, end, rolls>>

-----------------------------------------------------------------------------
(* The calendar, as Date implements it. *)

IsLeap(y) == y % 4 = 0 /\ (y % 100 # 0 \/ y % 400 = 0)

DaysIn(y, m) == IF m = 2 THEN IF IsLeap(y) THEN 29 ELSE 28
                ELSE IF m \in {4, 6, 9, 11} THEN 30 ELSE 31

Day == {t \in [y : Nat \ {0}, m : 1 .. 12, d : 1 .. 31] : t.d <= DaysIn(t.y, t.m)}

(* Subscriptions start on days of the calendar, whose years begin with 1. *)
ASSUME DaysAssumption == FirstDays \subseteq Day /\ MaxRolls \in Nat

On(y, m, d) == [y |-> y, m |-> m, d |-> d]

(* The first-of-month days before and after a month. *)
NextMonth(y, m) == IF m = 12 THEN On(y + 1, 1, 1) ELSE On(y, m + 1, 1)

PrevMonth(y, m) == IF m = 1 THEN On(y - 1, 12, 1) ELSE On(y, m - 1, 1)

(* What the setters make of a day the month may not have: 0 is the last    *)
(* day of the month before, one too many runs over into the next.          *)
Normal(y, m, d) ==
    CASE d = 0            -> LET p == PrevMonth(y, m) IN On(p.y, p.m, DaysIn(p.y, p.m))
      [] d > DaysIn(y, m) -> LET n == NextMonth(y, m) IN On(n.y, n.m, d - DaysIn(y, m))
      [] OTHER            -> On(y, m, d)

SetDate(t, d) == Normal(t.y, t.m, d)

(* setMonth(getMonth() + 1), December being carried into the next year. *)
AddMonth(t) == LET n == NextMonth(t.y, t.m) IN Normal(n.y, n.m, t.d)

AddYear(t) == Normal(t.y + 1, t.m, t.d)

-----------------------------------------------------------------------------
(* Mutant: without the clamp, January 31 is followed by March 3. *)
NextMonthlyNaive(t) == AddMonth(t)

(* The default branch: the next month, or its last day when setMonth has   *)
(* run over into the month after.                                          *)
NextMonthly(t) ==
    LET u == AddMonth(t)
    IN  IF u.m # (t.m % 12) + 1 THEN SetDate(u, 0) ELSE SetDate(u, t.d)

(* Plans store any string as their cycle; unknown ones are monthly. *)
NextPeriodEnd(t, c) ==
    CASE c = "daily"               -> SetDate(t, t.d + 1)
      [] c = "weekly"              -> SetDate(t, t.d + 7)
      [] c \in {"yearly", "annual"} -> AddYear(t)
      [] OTHER                     -> NextMonthly(t)

-----------------------------------------------------------------------------
(* A subscription: created with its first period, then rolled over as      *)
(* getCurrentSubscription does, from the end of the last period.           *)
Init ==
    /\ cycle \in Cycles
    /\ first \in FirstDays
    /\ start = first
    /\ end = NextPeriodEnd(first, cycle)
    /\ rolls = 0

Roll ==
    /\ rolls < MaxRolls
    /\ start' = end
    /\ end' = NextPeriodEnd(end, cycle)
    /\ rolls' = rolls + 1
    /\ UNCHANGED <<cycle, first>>

Spec == Init /\ [][Roll]_vars

-----------------------------------------------------------------------------
(* Reference definitions: days counted one by one, months counted from     *)
(* year 0, and the shortest of a range of months.                          *)

DaysBefore == <<0, 31, 59, 90, 120, 151, 181, 212, 243, 273, 304, 334>>

LeapYearsTo(y) == ((y \div 4) - (y \div 100)) + (y \div 400)

DayNumber(t) ==
    365 * t.y + LeapYearsTo(t.y - 1) + DaysBefore[t.m]
      + (IF t.m > 2 /\ IsLeap(t.y) THEN 1 ELSE 0) + t.d

MonthNumber(t) == 12 * t.y + (t.m - 1)

LengthOf(n) == DaysIn(n \div 12, (n % 12) + 1)

IsLeast(n, S) == n \in S /\ \A k \in S : n <= k

IsMonthly(c) == c \notin {"daily", "weekly", "yearly", "annual"}

TypeOK ==
    /\ cycle \in Cycles
    /\ first \in Day /\ start \in Day /\ end \in Day
    /\ rolls \in 0 .. MaxRolls

(* Daily and weekly subscriptions never slip: after any number of          *)
(* rollovers, over month ends, leap days and new years, the period ends    *)
(* exactly so many days after the subscription began.                      *)
DaysNeverSlip ==
    /\ cycle = "daily"  => DayNumber(end) = DayNumber(first) + (rolls + 1)
    /\ cycle = "weekly" => DayNumber(end) = DayNumber(first) + 7 * (rolls + 1)

(* A monthly subscription never skips a month, and its billing day is the  *)
(* day it began, cut down to the shortest month passed since: what a short *)
(* month takes away (Jan 31, Feb 28, Mar 28) never comes back.             *)
MonthsNeverSkip ==
    IsMonthly(cycle) =>
      LET n == MonthNumber(first) IN
      /\ MonthNumber(end) = n + rolls + 1
      /\ IsLeast(end.d, {first.d} \cup {LengthOf(k) : k \in n + 1 .. n + rolls + 1})

(* A yearly subscription keeps its day, but for one begun on a leap day,   *)
(* which moves to March 1 in its first year and stays there.               *)
YearsKeepTheDay ==
    cycle \in {"yearly", "annual"} =>
      /\ end.y = first.y + rolls + 1
      /\ IF first.m = 2 /\ first.d = 29 THEN end.m = 3 /\ end.d = 1
                                        ELSE end.m = first.m /\ end.d = first.d

PeriodsFollowCalendar == DaysNeverSlip /\ MonthsNeverSkip /\ YearsKeepTheDay

=============================================================================
