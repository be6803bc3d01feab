-------------------------- MODULE Platform_proofs ---------------------------
(* Proofs about the smaller modules, each for every value of its constants: *)
(* the calendar of the billing periods, the settings, the seed, the cache   *)
(* of the web search and its connection, the paged lists and the reports.   *)
EXTENDS BillingPeriod, Search, Listing, Reports, Seed, Settings,
        FiniteSetTheorems, WellFoundedInduction, TLAPS

-----------------------------------------------------------------------------
(* The calendar. *)

LEMMA DaysInRange ==
    ASSUME NEW y \in Nat, NEW m \in 1 .. 12
    PROVE  DaysIn(y, m) \in 28 .. 31
  BY DEF DaysIn

(* The month after: in range, another one, next in the year's round, and   *)
(* undone by the month before.                                             *)
LEMMA NextMonthFacts ==
    ASSUME NEW y \in Nat \ {0}, NEW m \in 1 .. 12
    PROVE  /\ NextMonth(y, m).y \in Nat \ {0}
           /\ NextMonth(y, m).m \in 1 .. 12
           /\ NextMonth(y, m).m # m
           /\ NextMonth(y, m).m = (m % 12) + 1
           /\ PrevMonth(NextMonth(y, m).y, NextMonth(y, m).m).y = y
           /\ PrevMonth(NextMonth(y, m).y, NextMonth(y, m).m).m = m
  <1>1. CASE m = 12
    <2>1. NextMonth(y, m) = [y |-> y + 1, m |-> 1, d |-> 1]
      BY <1>1 DEF NextMonth, On
    <2>2. PrevMonth(y + 1, 1) = [y |-> y, m |-> 12, d |-> 1]
      BY DEF PrevMonth, On
    <2>3. QED
      BY <1>1, <2>1, <2>2
  <1>2. CASE m # 12
    <2>1. NextMonth(y, m) = [y |-> y, m |-> m + 1, d |-> 1]
      BY <1>2 DEF NextMonth, On
    <2>2. PrevMonth(y, m + 1) = [y |-> y, m |-> m, d |-> 1]
      BY <1>2 DEF PrevMonth, On
    <2>3. QED
      BY <1>2, <2>1, <2>2
  <1>3. QED
    BY <1>1, <1>2

(* The same, for a given month without the arithmetic of the round.        *)
LEMMA NextMonthRange ==
    ASSUME NEW y \in Nat \ {0}, NEW m \in 1 .. 12
    PROVE  NextMonth(y, m).y \in Nat \ {0} /\ NextMonth(y, m).m \in 1 .. 12
  BY NextMonthFacts

LEMMA NextMonthIndex ==
    ASSUME NEW y \in Nat \ {0}, NEW m \in 1 .. 12
    PROVE  NextMonth(y, m).m = (m % 12) + 1
  BY NextMonthFacts

LEMMA NextMonthUndone ==
    ASSUME NEW y \in Nat \ {0}, NEW m \in 1 .. 12
    PROVE  /\ NextMonth(y, m).m # m
           /\ PrevMonth(NextMonth(y, m).y, NextMonth(y, m).m).y = y
           /\ PrevMonth(NextMonth(y, m).y, NextMonth(y, m).m).m = m
  BY NextMonthFacts

(* What the setters do with a day the month has, with one too many, and    *)
(* with 0.                                                                 *)
LEMMA NormalKept ==
    ASSUME NEW y \in Nat \ {0}, NEW m \in 1 .. 12, NEW d \in Nat, d # 0, d <= DaysIn(y, m)
    PROVE  Normal(y, m, d) = [y |-> y, m |-> m, d |-> d]
  <1>1. DaysIn(y, m) \in 28 .. 31
    BY DaysInRange
  <1>2. QED
    BY <1>1 DEF Normal, On

LEMMA NormalOver ==
    ASSUME NEW y \in Nat \ {0}, NEW m \in 1 .. 12, NEW d \in Nat, d > DaysIn(y, m)
    PROVE  Normal(y, m, d) = [y |-> NextMonth(y, m).y, m |-> NextMonth(y, m).m,
                              d |-> d - DaysIn(y, m)]
  <1>1. DaysIn(y, m) \in 28 .. 31
    BY DaysInRange
  <1>2. QED
    BY <1>1 DEF Normal, On

LEMMA NormalZero ==
    ASSUME NEW y \in Nat \ {0}, NEW m \in 1 .. 12
    PROVE  Normal(y, m, 0) = [y |-> PrevMonth(y, m).y, m |-> PrevMonth(y, m).m,
                              d |-> DaysIn(PrevMonth(y, m).y, PrevMonth(y, m).m)]
  <1>1. DaysIn(y, m) \in 28 .. 31
    BY DaysInRange
  <1>2. QED
    BY <1>1 DEF Normal, On

LEMMA NormalIsDay ==
    ASSUME NEW y \in Nat \ {0}, NEW m \in 1 .. 12, NEW d \in 1 .. 38
    PROVE  Normal(y, m, d) \in Day
  <1> DEFINE n == NextMonth(y, m)
  <1>1. n.y \in Nat \ {0} /\ n.m \in 1 .. 12
    BY NextMonthRange
  <1>2. DaysIn(y, m) \in 28 .. 31 /\ DaysIn(n.y, n.m) \in 28 .. 31
    BY <1>1, DaysInRange
  <1>3. CASE d <= DaysIn(y, m)
    <2>1. Normal(y, m, d) = [y |-> y, m |-> m, d |-> d]
      BY <1>2, <1>3, NormalKept
    <2>2. QED
      BY <1>2, <1>3, <2>1 DEF Day
  <1>4. CASE d > DaysIn(y, m)
    <2>1. Normal(y, m, d) = [y |-> n.y, m |-> n.m, d |-> d - DaysIn(y, m)]
      BY <1>4, NormalOver
    <2>2. QED
      BY <1>1, <1>2, <1>4, <2>1 DEF Day
  <1>5. QED
    BY <1>2, <1>3, <1>4

(* A month ahead, in closed form: the same day, or the month's last one.   *)
Clipped(y, m, d) == [y |-> y, m |-> m, d |-> IF d <= DaysIn(y, m) THEN d ELSE DaysIn(y, m)]

LEMMA NextMonthlyClips ==
    ASSUME NEW t \in Day
    PROVE  LET n == NextMonth(t.y, t.m)
           IN  NextMonthly(t) = Clipped(n.y, n.m, t.d)
  <1> DEFINE n == NextMonth(t.y, t.m)
  <1>1. t.y \in Nat \ {0} /\ t.m \in 1 .. 12 /\ t.d \in 1 .. 31
    BY DEF Day
  <1>2. n.y \in Nat \ {0} /\ n.m \in 1 .. 12
    BY <1>1, NextMonthRange
  <1>3. n.m = (t.m % 12) + 1
    BY <1>1, NextMonthIndex
  <1>4. DaysIn(n.y, n.m) \in 28 .. 31
    BY <1>2, DaysInRange
  <1>5. AddMonth(t) = Normal(n.y, n.m, t.d)
    BY DEF AddMonth
  <1> HIDE DEF n
  <1>6. CASE t.d <= DaysIn(n.y, n.m)
    <2> t.d \in Nat /\ t.d # 0
      BY <1>1
    <2>1. Normal(n.y, n.m, t.d) = [y |-> n.y, m |-> n.m, d |-> t.d]
      BY <1>2, <1>6, NormalKept
    <2>2. AddMonth(t) = [y |-> n.y, m |-> n.m, d |-> t.d]
      BY <1>5, <2>1
    <2>3. AddMonth(t).y = n.y /\ AddMonth(t).m = n.m
      BY <2>2
    <2>4. SetDate(AddMonth(t), t.d) = [y |-> n.y, m |-> n.m, d |-> t.d]
      BY <1>5, <2>2, <2>3 DEF SetDate
    <2>5. NextMonthly(t) = [y |-> n.y, m |-> n.m, d |-> t.d]
      BY <1>3, <2>3, <2>4 DEF NextMonthly
    <2>6. QED
      BY <1>6, <2>5 DEF Clipped, n
  <1>7. CASE t.d > DaysIn(n.y, n.m)
    <2> DEFINE o == NextMonth(n.y, n.m)
    <2>1. o.y \in Nat \ {0} /\ o.m \in 1 .. 12
      BY <1>2, NextMonthRange
    <2>2. o.m # n.m /\ PrevMonth(o.y, o.m).y = n.y /\ PrevMonth(o.y, o.m).m = n.m
      BY <1>2, NextMonthUndone
    <2> t.d \in Nat
      BY <1>1
    <2>3. Normal(n.y, n.m, t.d) = [y |-> o.y, m |-> o.m, d |-> t.d - DaysIn(n.y, n.m)]
      BY <1>2, <1>7, NormalOver
    <2>4. AddMonth(t) = [y |-> o.y, m |-> o.m, d |-> t.d - DaysIn(n.y, n.m)]
      BY <1>5, <2>3
    <2> HIDE DEF o
    <2>5. AddMonth(t).y = o.y /\ AddMonth(t).m = o.m
      BY <2>4
    <2>6. SetDate(AddMonth(t), 0) = Normal(o.y, o.m, 0)
      BY <2>5 DEF SetDate
    <2>7. Normal(o.y, o.m, 0) = [y |-> n.y, m |-> n.m, d |-> DaysIn(n.y, n.m)]
      BY <2>1, <2>2, NormalZero
    <2>8. NextMonthly(t) = [y |-> n.y, m |-> n.m, d |-> DaysIn(n.y, n.m)]
      BY <1>3, <2>2, <2>5, <2>6, <2>7 DEF NextMonthly
    <2>9. QED
      BY <1>1, <1>4, <1>7, <2>8 DEF Clipped, n
  <1>8. QED
    BY <1>1, <1>4, <1>6, <1>7

-----------------------------------------------------------------------------
(* One step of each cycle.  The period ends on a day of the calendar.      *)
LEMMA NextPeriodEndIsDay ==
    ASSUME NEW t \in Day, NEW c
    PROVE  NextPeriodEnd(t, c) \in Day
  <1>1. t.y \in Nat \ {0} /\ t.m \in 1 .. 12 /\ t.d \in 1 .. 31
    BY DEF Day
  <1>2. CASE c = "daily"
    <2>1. NextPeriodEnd(t, c) = Normal(t.y, t.m, t.d + 1)
      BY <1>2 DEF NextPeriodEnd, SetDate
    <2>2. QED
      BY <1>1, <2>1, NormalIsDay
  <1>3. CASE c = "weekly"
    <2>1. NextPeriodEnd(t, c) = Normal(t.y, t.m, t.d + 7)
      BY <1>3 DEF NextPeriodEnd, SetDate
    <2>2. QED
      BY <1>1, <2>1, NormalIsDay
  <1>4. CASE c \in {"yearly", "annual"}
    <2>1. NextPeriodEnd(t, c) = Normal(t.y + 1, t.m, t.d)
      BY <1>4 DEF NextPeriodEnd, AddYear
    <2>2. QED
      BY <1>1, <2>1, NormalIsDay
  <1>5. CASE IsMonthly(c)
    <2> DEFINE n == NextMonth(t.y, t.m)
    <2>1. NextPeriodEnd(t, c) = Clipped(n.y, n.m, t.d)
      BY <1>5, NextMonthlyClips DEF NextPeriodEnd, IsMonthly
    <2>2. n.y \in Nat \ {0} /\ n.m \in 1 .. 12
      BY <1>1, NextMonthRange
    <2>3. DaysIn(n.y, n.m) \in 28 .. 31
      BY <2>2, DaysInRange
    <2>4. QED
      BY <1>1, <2>1, <2>2, <2>3 DEF Clipped, Day
  <1>6. QED
    BY <1>2, <1>3, <1>4, <1>5 DEF IsMonthly

(* Type correctness, for any set of first days of the calendar. *)
THEOREM PeriodsTypeCorrect == Spec => []TypeOK
  <1>1. Init => TypeOK
    BY DaysAssumption, NextPeriodEndIsDay DEF Init, TypeOK
  <1>2. TypeOK /\ [Roll]_vars => TypeOK'
    BY DaysAssumption, NextPeriodEndIsDay DEF TypeOK, Roll, vars
  <1>3. QED
    BY <1>1, <1>2, PTL DEF Spec

-----------------------------------------------------------------------------
(* Days counted one by one. *)

LEMMA LeapYearsStep ==
    ASSUME NEW y \in Nat \ {0}
    PROVE  LeapYearsTo(y) = LeapYearsTo(y - 1) + (IF IsLeap(y) THEN 1 ELSE 0)
  BY DEF LeapYearsTo, IsLeap

(* The count before the first of a month. *)
MonthStart(y, m) ==
    365 * y + LeapYearsTo(y - 1) + DaysBefore[m] + (IF m > 2 /\ IsLeap(y) THEN 1 ELSE 0)

LEMMA MonthStartStep ==
    ASSUME NEW y \in Nat \ {0}, NEW m \in 1 .. 12
    PROVE  /\ MonthStart(y, m) \in Int
           /\ MonthStart(NextMonth(y, m).y, NextMonth(y, m).m)
                = MonthStart(y, m) + DaysIn(y, m)
  <1>1. LeapYearsTo(y) \in Int /\ LeapYearsTo(y - 1) \in Int
    BY DEF LeapYearsTo
  <1>2. /\ DaysBefore[1] = 0   /\ DaysBefore[2] = 31  /\ DaysBefore[3] = 59
        /\ DaysBefore[4] = 90  /\ DaysBefore[5] = 120 /\ DaysBefore[6] = 151
        /\ DaysBefore[7] = 181 /\ DaysBefore[8] = 212 /\ DaysBefore[9] = 243
        /\ DaysBefore[10] = 273 /\ DaysBefore[11] = 304 /\ DaysBefore[12] = 334
    BY DEF DaysBefore
  <1>3. MonthStart(y, m) \in Int
    BY <1>1, <1>2 DEF MonthStart
  <1>4. CASE m = 12
    <2>1. NextMonth(y, m).y = y + 1 /\ NextMonth(y, m).m = 1
      BY <1>4 DEF NextMonth, On
    <2>2. MonthStart(y + 1, 1) = 365 * (y + 1) + LeapYearsTo(y)
      BY <1>1, <1>2 DEF MonthStart
    <2>3. MonthStart(y, m) = 365 * y + LeapYearsTo(y - 1) + 334
                               + (IF IsLeap(y) THEN 1 ELSE 0)
      BY <1>1, <1>2, <1>4 DEF MonthStart
    <2>4. DaysIn(y, m) = 31
      BY <1>4 DEF DaysIn
    <2>5. QED
      BY <1>1, <1>3, <2>1, <2>2, <2>3, <2>4, LeapYearsStep
  <1>5. CASE m # 12
    <2>1. NextMonth(y, m).y = y /\ NextMonth(y, m).m = m + 1
      BY <1>5 DEF NextMonth, On
    <2>2. MonthStart(y, m + 1) = MonthStart(y, m) + DaysIn(y, m)
      BY <1>1, <1>2, <1>5 DEF MonthStart, DaysIn
    <2>3. QED
      BY <1>3, <2>1, <2>2
  <1>6. QED
    BY <1>3, <1>4, <1>5

(* The setters count on across the end of the month. *)
LEMMA NormalCountsOn ==
    ASSUME NEW y \in Nat \ {0}, NEW m \in 1 .. 12, NEW d \in 1 .. 38
    PROVE  DayNumber(Normal(y, m, d)) = MonthStart(y, m) + d
  <1>1. DaysIn(y, m) \in 28 .. 31 /\ MonthStart(y, m) \in Int
    BY DaysInRange, MonthStartStep
  <1>2. CASE d <= DaysIn(y, m)
    <2>1. Normal(y, m, d) = [y |-> y, m |-> m, d |-> d]
      BY <1>2, NormalKept
    <2>2. QED
      BY <2>1 DEF DayNumber, MonthStart
  <1>3. CASE d > DaysIn(y, m)
    <2> DEFINE n == NextMonth(y, m)
    <2>1. Normal(y, m, d) = [y |-> n.y, m |-> n.m, d |-> d - DaysIn(y, m)]
      BY <1>3, NormalOver
    <2>2. DayNumber(Normal(y, m, d)) = MonthStart(n.y, n.m) + (d - DaysIn(y, m))
      BY <2>1 DEF DayNumber, MonthStart
    <2>3. MonthStart(n.y, n.m) = MonthStart(y, m) + DaysIn(y, m)
      BY MonthStartStep
    <2>4. QED
      BY <1>1, <2>2, <2>3
  <1>4. QED
    BY <1>1, <1>2, <1>3

LEMMA DayStep ==
    ASSUME NEW t \in Day, NEW k \in {1, 7}
    PROVE  /\ DayNumber(t) \in Int
           /\ DayNumber(SetDate(t, t.d + k)) = DayNumber(t) + k
  <1>1. t.y \in Nat \ {0} /\ t.m \in 1 .. 12 /\ t.d \in 1 .. 31
    BY DEF Day
  <1>2. MonthStart(t.y, t.m) \in Int
    BY <1>1, MonthStartStep
  <1>3. DayNumber(t) = MonthStart(t.y, t.m) + t.d
    BY DEF DayNumber, MonthStart
  <1>4. DayNumber(Normal(t.y, t.m, t.d + k)) = MonthStart(t.y, t.m) + (t.d + k)
    BY <1>1, NormalCountsOn
  <1>5. QED
    BY <1>1, <1>2, <1>3, <1>4 DEF SetDate

-----------------------------------------------------------------------------
(* Months. *)

LEMMA LengthOfMonth ==
    ASSUME NEW y \in Nat \ {0}, NEW m \in 1 .. 12
    PROVE  LengthOf(12 * y + (m - 1)) = DaysIn(y, m)
  <1>1. (12 * y + (m - 1)) \div 12 = y /\ (12 * y + (m - 1)) % 12 = m - 1
    OBVIOUS
  <1>2. QED
    BY <1>1 DEF LengthOf

LEMMA MonthStep ==
    ASSUME NEW t \in Day
    PROVE  LET u == NextMonthly(t)
               n == MonthNumber(t)
           IN  /\ n \in Nat /\ MonthNumber(u) = n + 1
               /\ u.d = IF t.d <= LengthOf(n + 1) THEN t.d ELSE LengthOf(n + 1)
  <1> DEFINE n == NextMonth(t.y, t.m)
  <1>1. t.y \in Nat \ {0} /\ t.m \in 1 .. 12 /\ t.d \in 1 .. 31
    BY DEF Day
  <1>2. n.y \in Nat \ {0} /\ n.m \in 1 .. 12
    BY <1>1, NextMonthRange
  <1>3. 12 * n.y + (n.m - 1) = (12 * t.y + (t.m - 1)) + 1
    <2>1. CASE t.m = 12
      BY <1>1, <2>1 DEF NextMonth, On
    <2>2. CASE t.m # 12
      BY <1>1, <2>2 DEF NextMonth, On
    <2>3. QED
      BY <2>1, <2>2
  <1>4. NextMonthly(t) = Clipped(n.y, n.m, t.d)
    BY NextMonthlyClips
  <1>5. LengthOf(12 * n.y + (n.m - 1)) = DaysIn(n.y, n.m)
    BY <1>2, LengthOfMonth
  <1> HIDE DEF n
  <1>6. /\ NextMonthly(t).y = n.y /\ NextMonthly(t).m = n.m
        /\ NextMonthly(t).d = IF t.d <= DaysIn(n.y, n.m) THEN t.d ELSE DaysIn(n.y, n.m)
    BY <1>4 DEF Clipped
  <1>7. QED
    BY <1>1, <1>3, <1>5, <1>6 DEF MonthNumber

(* The least of a set and one more. *)
LEMMA LeastOfOneMore ==
    ASSUME NEW S \in SUBSET Int, NEW n \in Int, NEW k \in Int, IsLeast(n, S)
    PROVE  IsLeast(IF n <= k THEN n ELSE k, S \cup {k})
  BY DEF IsLeast

-----------------------------------------------------------------------------
(* Each of the three facts holds of the first period and is kept by Roll.  *)

LEMMA FirstPeriod ==
    ASSUME Init
    PROVE  PeriodsFollowCalendar
  <1>1. first \in Day /\ end = NextPeriodEnd(first, cycle) /\ rolls = 0
    BY DaysAssumption DEF Init
  <1>2. first.y \in Nat \ {0} /\ first.m \in 1 .. 12 /\ first.d \in 1 .. 31
    BY <1>1 DEF Day
  <1>3. DaysNeverSlip
    <2>1. CASE cycle = "daily"
      <3>1. end = SetDate(first, first.d + 1)
        BY <1>1, <2>1 DEF NextPeriodEnd
      <3>2. QED
        BY <1>1, <2>1, <3>1, DayStep DEF DaysNeverSlip
    <2>2. CASE cycle = "weekly"
      <3>1. end = SetDate(first, first.d + 7)
        BY <1>1, <2>2 DEF NextPeriodEnd
      <3>2. QED
        BY <1>1, <2>2, <3>1, DayStep DEF DaysNeverSlip
    <2>3. QED
      BY <2>1, <2>2 DEF DaysNeverSlip
  <1>4. MonthsNeverSkip
    <2> SUFFICES ASSUME IsMonthly(cycle)
                 PROVE  MonthsNeverSkip
      BY DEF MonthsNeverSkip
    <2> DEFINE n == MonthNumber(first)
    <2>1. end = NextMonthly(first)
      BY <1>1 DEF NextPeriodEnd, IsMonthly
    <2>2. /\ n \in Nat /\ MonthNumber(end) = n + 1
          /\ end.d = IF first.d <= LengthOf(n + 1) THEN first.d ELSE LengthOf(n + 1)
      BY <1>1, <2>1, MonthStep
    <2> HIDE DEF n
    <2>3. LengthOf(n + 1) \in Int
      BY <2>2 DEF LengthOf, DaysIn
    <2>4. IsLeast(end.d, {first.d} \cup {LengthOf(n + 1)})
      BY <1>2, <2>2, <2>3 DEF IsLeast
    <2>5. {LengthOf(k) : k \in n + 1 .. n + rolls + 1} = {LengthOf(n + 1)}
      BY <1>1, <2>2
    <2>6. QED
      BY <1>1, <2>2, <2>4, <2>5 DEF MonthsNeverSkip, n
  <1>5. YearsKeepTheDay
    <2> SUFFICES ASSUME cycle \in {"yearly", "annual"}
                 PROVE  YearsKeepTheDay
      BY DEF YearsKeepTheDay
    <2>1. end = Normal(first.y + 1, first.m, first.d)
      BY <1>1 DEF NextPeriodEnd, AddYear
    <2>2. QED
      BY <1>1, <1>2, <2>1 DEF YearsKeepTheDay, Normal, NextMonth, On, Day, DaysIn, IsLeap
  <1>6. QED
    BY <1>3, <1>4, <1>5 DEF PeriodsFollowCalendar

LEMMA RollKeepsDays ==
    ASSUME TypeOK, DaysNeverSlip, Roll
    PROVE  DaysNeverSlip'
  <1>1. /\ end \in Day /\ first \in Day /\ rolls \in Nat /\ rolls' = rolls + 1
        /\ end' = NextPeriodEnd(end, cycle) /\ cycle' = cycle /\ first' = first
    BY DaysAssumption DEF TypeOK, Roll
  <1>2. DayNumber(first) \in Int /\ DayNumber(first)' = DayNumber(first)
    BY <1>1, DayStep DEF DayNumber
  <1>3. CASE cycle = "daily"
    <2>1. end' = SetDate(end, end.d + 1)
      BY <1>1, <1>3 DEF NextPeriodEnd
    <2>2. DayNumber(end') = DayNumber(end) + 1
      BY <1>1, <2>1, DayStep
    <2>3. DayNumber(end') = DayNumber(first) + (rolls' + 1)
      BY <1>1, <1>2, <1>3, <2>2 DEF DaysNeverSlip
    <2>4. QED
      BY <1>1, <1>3, <2>3 DEF DaysNeverSlip
  <1>4. CASE cycle = "weekly"
    <2>1. end' = SetDate(end, end.d + 7)
      BY <1>1, <1>4 DEF NextPeriodEnd
    <2>2. DayNumber(end') = DayNumber(end) + 7
      BY <1>1, <2>1, DayStep
    <2>3. DayNumber(end') = DayNumber(first) + 7 * (rolls' + 1)
      BY <1>1, <1>2, <1>4, <2>2 DEF DaysNeverSlip
    <2>4. QED
      BY <1>1, <1>4, <2>3 DEF DaysNeverSlip
  <1>5. QED
    BY <1>1, <1>3, <1>4 DEF DaysNeverSlip

LEMMA RollKeepsMonths ==
    ASSUME TypeOK, MonthsNeverSkip, Roll
    PROVE  MonthsNeverSkip'
  <1>1. /\ end \in Day /\ first \in Day /\ rolls \in Nat /\ rolls' = rolls + 1
        /\ end' = NextPeriodEnd(end, cycle) /\ cycle' = cycle /\ first' = first
    BY DaysAssumption DEF TypeOK, Roll
  <1> SUFFICES ASSUME IsMonthly(cycle)
               PROVE  MonthsNeverSkip'
    BY <1>1 DEF MonthsNeverSkip
  <1> DEFINE n == MonthNumber(first)
             S == {first.d} \cup {LengthOf(k) : k \in n + 1 .. n + rolls + 1}
             new == n + rolls + 2
  <1>2. end' = NextMonthly(end)
    BY <1>1 DEF NextPeriodEnd, IsMonthly
  <1>3. n \in Nat /\ MonthNumber(end) \in Nat
    BY <1>1, MonthStep
  <1>4. MonthNumber(end) = n + rolls + 1 /\ IsLeast(end.d, S)
    BY DEF MonthsNeverSkip
  <1>5. /\ MonthNumber(end') = new
        /\ end'.d = IF end.d <= LengthOf(new) THEN end.d ELSE LengthOf(new)
    <2>1. /\ MonthNumber(NextMonthly(end)) = MonthNumber(end) + 1
          /\ NextMonthly(end).d = IF end.d <= LengthOf(MonthNumber(end) + 1)
                                    THEN end.d ELSE LengthOf(MonthNumber(end) + 1)
      BY <1>1, MonthStep
    <2>2. MonthNumber(end) + 1 = new
      BY <1>1, <1>3, <1>4
    <2>3. QED
      BY <1>2, <2>1, <2>2
  <1>6. first.d \in Int /\ end.d \in Int
    BY <1>1 DEF Day
  <1> HIDE DEF n
  <1>7. \A k \in Nat : LengthOf(k) \in Int
    BY DEF LengthOf, DaysIn
  <1>8. IsLeast(end'.d, S \cup {LengthOf(new)})
    <2>1. S \in SUBSET Int /\ LengthOf(new) \in Int
      BY <1>1, <1>3, <1>6, <1>7
    <2> HIDE DEF S, new
    <2>2. QED
      BY <1>4, <1>5, <1>6, <2>1, LeastOfOneMore
  <1>9. S \cup {LengthOf(new)}
          = {first.d} \cup {LengthOf(k) : k \in n + 1 .. n + rolls' + 1}
    <2>1. n + 1 .. n + rolls' + 1 = (n + 1 .. n + rolls + 1) \cup {new}
      BY <1>1, <1>3
    <2>2. QED
      BY <2>1
  <1>10. MonthNumber(end') = n + rolls' + 1
    BY <1>1, <1>3, <1>5
  <1>11. QED
    BY <1>1, <1>8, <1>9, <1>10 DEF MonthsNeverSkip, n

LEMMA RollKeepsYears ==
    ASSUME TypeOK, YearsKeepTheDay, Roll
    PROVE  YearsKeepTheDay'
  <1>1. /\ end \in Day /\ first \in Day /\ rolls \in Nat /\ rolls' = rolls + 1
        /\ end' = NextPeriodEnd(end, cycle) /\ cycle' = cycle /\ first' = first
    BY DaysAssumption DEF TypeOK, Roll
  <1> SUFFICES ASSUME cycle \in {"yearly", "annual"}
               PROVE  YearsKeepTheDay'
    BY <1>1 DEF YearsKeepTheDay
  <1>2. /\ end.y \in Nat \ {0} /\ end.m \in 1 .. 12 /\ end.d \in 1 .. 31
        /\ end.d <= DaysIn(end.y, end.m) /\ ~(end.m = 2 /\ end.d = 29)
    BY <1>1 DEF YearsKeepTheDay, Day
  <1>3. end.d <= DaysIn(end.y + 1, end.m) /\ end.d # 0 /\ end.d \in Nat
    BY <1>2 DEF DaysIn
  <1>4. Normal(end.y + 1, end.m, end.d) = [y |-> end.y + 1, m |-> end.m, d |-> end.d]
    BY <1>2, <1>3, NormalKept
  <1>5. end'.y = end.y + 1 /\ end'.m = end.m /\ end'.d = end.d
    BY <1>1, <1>4 DEF NextPeriodEnd, AddYear
  <1>6. end.y = first.y + rolls + 1 /\ first.y \in Nat
    BY <1>1 DEF YearsKeepTheDay, Day
  <1>7. end'.y = first.y + rolls' + 1
    BY <1>1, <1>5, <1>6
  <1>8. QED
    BY <1>1, <1>5, <1>7 DEF YearsKeepTheDay

-----------------------------------------------------------------------------
(* The theorem: from any first day of the calendar, after any number of    *)
(* rollovers, daily and weekly periods have not slipped by a day, monthly  *)
(* ones have not skipped a month nor lost more days than the shortest      *)
(* month took, and yearly ones keep their day.                             *)
THEOREM CalendarFollowed == Spec => []PeriodsFollowCalendar
  <1>1. TypeOK /\ PeriodsFollowCalendar /\ [Roll]_vars => PeriodsFollowCalendar'
    <2> SUFFICES ASSUME TypeOK, PeriodsFollowCalendar, [Roll]_vars
                 PROVE  PeriodsFollowCalendar'
      OBVIOUS
    <2>1. CASE Roll
      BY <2>1, RollKeepsDays, RollKeepsMonths, RollKeepsYears DEF PeriodsFollowCalendar
    <2>2. CASE UNCHANGED vars
      BY <2>2 DEF vars, PeriodsFollowCalendar, DaysNeverSlip, MonthsNeverSkip, YearsKeepTheDay
    <2>3. QED
      BY <2>1, <2>2
  <1>2. QED
    BY <1>1, FirstPeriod, PeriodsTypeCorrect, PTL DEF Spec

-----------------------------------------------------------------------------
(* Settings.  The runs vary the variables of one kind at a time; the proof  *)
(* holds whatever all of them are.                                          *)
AnySettings ==
    /\ boot = "off" /\ mail = "none" /\ inFile \in BOOLEAN /\ database \in BOOLEAN
    /\ \A n \in Names : text[n] \in Forms(n)
    /\ env = text

SettingsInv ==
    /\ SettingsTypeOK
    /\ boot = "off" => env = text
    /\ boot \in {"validated", "created", "up"} =>
         Accepted /\ \A n \in Names : env[n] = Assigned(n)
    /\ boot \in {"created", "up"} => text["JWT_ACCESS_SECRET"] # "empty"
    /\ StartsIfItCan
    /\ mail # "none" =>
         /\ boot = "up"
         /\ mail = "skipped" <=> text["NODE_ENV"] = "test" \/ text["EMAIL_MOCK"] = "true"

LEMMA KindsOfNames ==
    /\ \A n \in Numbers : Forms(n) = {"unset", "empty", "plain", "outside", "exponent", "unit"}
    /\ \A n \in Switches : Forms(n) = {"unset", "true", "false", "1", "0", "yes"}
    /\ \A n \in Modes : Forms(n) = {"unset", "production", "test", "other"}
    /\ \A n \in Names \ (Numbers \cup Switches \cup Modes) :
         Forms(n) = {"unset", "empty", "blank", "text"}
  BY DEF Forms, Numbers, Switches, Modes

LEMMA NamesOfKinds ==
    /\ Numbers \cup Switches \cup Modes \subseteq Names
    /\ MailNames \cup Secrets \cup {"DATABASE_URL"}
         \subseteq Names \ (Numbers \cup Switches \cup Modes)
    /\ "EMAIL_MOCK" \in Switches \ Numbers /\ "NODE_ENV" \in Modes \ Numbers
  BY DEF Names, MailNames, Credentials, Secrets, Required, Numbers, Switches, Modes

LEMMA AssignedTyped ==
    ASSUME NEW n \in Names, text[n] \in Forms(n)
    PROVE  Assigned(n) \in Forms(n) \cup Added
  BY KindsOfNames DEF Assigned, Added

LEMMA AnySettingsInit == SettingsInit => AnySettings
  <1> SUFFICES ASSUME SettingsInit, NEW n \in Names
               PROVE  text[n] \in Forms(n)
    BY DEF SettingsInit, AnySettings
  <1>1. PICK kind \in Kinds, given \in {{}, MailNames} :
          \E t \in [kind -> UNION {Forms(m) : m \in kind}] :
            /\ \A m \in kind : t[m] \in Forms(m)
            /\ text = [m \in Names |-> IF m \in kind THEN t[m] ELSE Usual(m, given)]
    BY DEF SettingsInit
  <1>2. PICK t \in [kind -> UNION {Forms(m) : m \in kind}] :
           /\ \A m \in kind : t[m] \in Forms(m)
           /\ text = [m \in Names |-> IF m \in kind THEN t[m] ELSE Usual(m, given)]
    BY <1>1
  <1>3. Usual(n, given) \in Forms(n)
    BY DEF Usual, Forms, Required, Numbers, Switches, Modes, MailNames, Credentials
  <1>4. QED
    BY <1>2, <1>3

LEMMA SettingsInvInit == AnySettings => SettingsInv
  BY DEF AnySettings, SettingsInv, SettingsTypeOK, StartsIfItCan

(* What is decided by the texts and the database stays as it is. *)
LEMMA TextsDecide ==
    ASSUME UNCHANGED <<database, text, inFile>>
    PROVE  /\ Accepted <=> Accepted'
           /\ Startable <=> Startable'
           /\ \A n \in Names : Assigned(n)' = Assigned(n)
  BY DEF Startable, Accepted, Valid, ValidNumber, MailComplete, Set, SecretGiven, Truthy, Assigned

(* ?? passes over a secret that is unset, and not over one that is empty.   *)
LEMMA SecretFound ==
    ASSUME SettingsInv, boot = "validated"
    PROVE  AccessSecret \in {"unset", "empty"} <=> text["JWT_ACCESS_SECRET"] = "empty"
  <1>1. \A n \in Secrets : env[n] = text[n]
    BY NamesOfKinds DEF SettingsInv, Assigned
  <1>2. PICK n \in Secrets : Truthy(n)
    BY DEF SettingsInv, Accepted, SecretGiven
  <1>3. QED
    BY <1>1, <1>2 DEF Secrets, Truthy, AccessSecret

LEMMA ValidateStep ==
    ASSUME SettingsInv, Validate
    PROVE  SettingsInv'
  <1>1. /\ boot = "off" /\ env = text /\ UNCHANGED <<database, text, inFile, mail>>
        /\ boot' = IF Accepted THEN "validated" ELSE "refused"
        /\ env' = IF Accepted THEN [n \in Names |-> Assigned(n)] ELSE env
    BY DEF Validate, SettingsInv
  <1>2. mail = "none"
    BY <1>1 DEF SettingsInv
  <1>3. StartsIfItCan'
    BY <1>1, TextsDecide DEF StartsIfItCan, Startable
  <1>4. SettingsTypeOK'
    BY <1>1, AssignedTyped DEF SettingsInv, SettingsTypeOK
  <1>5. QED
    BY <1>1, <1>2, <1>3, <1>4, TextsDecide DEF SettingsInv

LEMMA ConstructStep ==
    ASSUME SettingsInv, Construct
    PROVE  SettingsInv'
  <1>1. /\ boot = "validated" /\ UNCHANGED <<database, text, inFile, env, mail>>
        /\ boot' = IF text["JWT_ACCESS_SECRET"] = "empty" THEN "refused" ELSE "created"
    BY SecretFound DEF Construct
  <1>2. mail = "none"
    BY <1>1 DEF SettingsInv
  <1>3. StartsIfItCan'
    BY <1>1, TextsDecide DEF StartsIfItCan, Startable
  <1>4. SettingsTypeOK'
    BY <1>1 DEF SettingsInv, SettingsTypeOK
  <1>5. QED
    BY <1>1, <1>2, <1>3, <1>4, TextsDecide DEF SettingsInv

LEMMA ConnectDatabaseStep ==
    ASSUME SettingsInv, ConnectDatabase
    PROVE  SettingsInv'
  <1>1. env["DATABASE_URL"] = text["DATABASE_URL"]
    BY NamesOfKinds DEF SettingsInv, Assigned, ConnectDatabase
  <1>2. /\ boot = "created" /\ UNCHANGED <<database, text, inFile, env, mail>>
        /\ boot' = IF text["DATABASE_URL"] = "text" /\ database THEN "up" ELSE "refused"
    BY <1>1 DEF ConnectDatabase
  <1>3. mail = "none" /\ Accepted /\ text["JWT_ACCESS_SECRET"] # "empty"
    BY <1>2 DEF SettingsInv
  <1>4. StartsIfItCan'
    BY <1>2, <1>3, TextsDecide DEF StartsIfItCan, Startable
  <1>5. SettingsTypeOK'
    BY <1>2 DEF SettingsInv, SettingsTypeOK
  <1>6. QED
    BY <1>2, <1>3, <1>4, <1>5, TextsDecide DEF SettingsInv

(* email.service.ts:83 tests what configuration.ts has read. *)
LEMMA SkippedOrNot ==
    ASSUME SettingsInv, boot = "up"
    PROVE  MailSkipped <=> text["NODE_ENV"] = "test" \/ text["EMAIL_MOCK"] = "true"
  <1>1. env["NODE_ENV"] = Assigned("NODE_ENV") /\ env["EMAIL_MOCK"] = Assigned("EMAIL_MOCK")
    BY NamesOfKinds DEF SettingsInv
  <1>2. QED
    BY <1>1, NamesOfKinds DEF Assigned, MailSkipped, SwitchedOn

LEMMA SendMailStep ==
    ASSUME SettingsInv, SendMail
    PROVE  SettingsInv'
  <1>1. /\ boot = "up" /\ UNCHANGED <<boot, database, text, inFile, env>>
        /\ mail' \in {"skipped", "sent", "unavailable"}
        /\ mail' = "skipped" <=> MailSkipped
    BY DEF SendMail
  <1>2. mail' = "skipped" <=> text["NODE_ENV"] = "test" \/ text["EMAIL_MOCK"] = "true"
    BY <1>1, SkippedOrNot
  <1>3. StartsIfItCan'
    BY <1>1, TextsDecide DEF SettingsInv, StartsIfItCan
  <1>4. SettingsTypeOK'
    BY <1>1 DEF SettingsInv, SettingsTypeOK
  <1>5. QED
    BY <1>1, <1>2, <1>3, <1>4, TextsDecide DEF SettingsInv

LEMMA SettingsInvNext ==
    ASSUME SettingsInv, [SettingsNext]_settingsVars
    PROVE  SettingsInv'
  <1>1. CASE UNCHANGED settingsVars
    <2>1. UNCHANGED <<boot, database, text, inFile, env, mail>>
      BY <1>1 DEF settingsVars
    <2>2. QED
      BY <2>1, TextsDecide DEF SettingsInv, SettingsTypeOK, StartsIfItCan
  <1>2. QED
    BY <1>1, ValidateStep, ConstructStep, ConnectDatabaseStep, SendMailStep DEF SettingsNext

LEMMA ValuesAreKept ==
    ASSUME SettingsInv, boot = "up"
    PROVE  ValuesKept
  <1>1. ASSUME NEW n \in Numbers
        PROVE  ReadAsValidated(n) <=> inFile \/ text[n] \notin {"exponent", "empty"}
    <2>1. env[n] = Assigned(n)
      BY NamesOfKinds DEF SettingsInv
    <2>2. QED
      BY <2>1, NamesOfKinds DEF Assigned, ReadAsValidated
  <1>2. ASSUME NEW n \in Switches
        PROVE  SwitchedOn(n) <=> text[n] = "true"
    <2>1. env[n] = Assigned(n) /\ n \notin Numbers
      BY NamesOfKinds DEF SettingsInv, Switches, Numbers
    <2>2. QED
      BY <2>1 DEF Assigned, SwitchedOn
  <1>3. QED
    BY <1>1, <1>2 DEF ValuesKept

LEMMA MailIsToldOf ==
    ASSUME SettingsInv, boot = "up"
    PROVE  MailAgrees
  <1>1. \A n \in MailNames : env[n] = text[n]
    BY NamesOfKinds DEF SettingsInv, Assigned
  <1>2. MailComplete /\ Credentials \subseteq MailNames /\ "SMTP_HOST" \in MailNames
    BY DEF SettingsInv, Accepted, MailNames, Credentials
  <1>3. ASSUME \E n \in Credentials : Set(n)
        PROVE  SmtpConfigured /\ HealthSaysMail
    <2>1. \A n \in MailNames : Set(n)
      BY <1>2, <1>3 DEF MailComplete
    <2>2. QED
      BY <1>1, <1>2, <2>1 DEF SmtpConfigured, HealthSaysMail, Truthy, Set
  <1>4. QED
    BY <1>3 DEF MailAgrees, SettingsInv

(* A server starts exactly on the environments of Startable, and one that   *)
(* is up runs on the values that were validated, or not, exactly as         *)
(* ValuesKept says: whatever the texts of all the variables are together.   *)
THEOREM ReadersOfSettingsAgree ==
    AnySettings /\ [][SettingsNext]_settingsVars => [](SettingsTypeOK /\ ReadersAgree)
  <1>1. SettingsInv => SettingsTypeOK /\ ReadersAgree
    BY ValuesAreKept, MailIsToldOf DEF SettingsInv, ReadersAgree
  <1>2. SettingsInv /\ [SettingsNext]_settingsVars => SettingsInv'
    BY SettingsInvNext
  <1>3. QED
    BY <1>1, <1>2, SettingsInvInit, PTL

(* The same of the states the runs begin with, one kind of variable at a    *)
(* time.                                                                    *)
THEOREM SettingsReadersAgree == SettingsSpec => []ReadersAgree
  BY AnySettingsInit, ReadersOfSettingsAgree, PTL DEF SettingsSpec

-----------------------------------------------------------------------------
(* The seed.                                                                *)

LEMMA Statements ==
    /\ After("roles") = "FREE" /\ After("FREE") = "PREMIUM" /\ After("PREMIUM") = "admin"
    /\ After("admin") = "findSub" /\ After("findSub") = "createSub"
    /\ After("createSub") = "OPENAI" /\ After("OPENAI") = "CLAUDE"
    /\ After("CLAUDE") = "GEMINI" /\ After("GEMINI") = "done"
  <1>1. /\ SeedSteps[1] = "roles" /\ SeedSteps[2] = "FREE" /\ SeedSteps[3] = "PREMIUM"
        /\ SeedSteps[4] = "admin" /\ SeedSteps[5] = "findSub" /\ SeedSteps[6] = "createSub"
        /\ SeedSteps[7] = "OPENAI" /\ SeedSteps[8] = "CLAUDE" /\ SeedSteps[9] = "GEMINI"
        /\ SeedSteps[10] = "done"
    BY DEF SeedSteps
  <1>2. ASSUME NEW i \in 1 .. 9
        PROVE  After(SeedSteps[i]) = SeedSteps[i + 1]
    <2> DEFINE c == CHOOSE j \in 1 .. 9 : SeedSteps[j] = SeedSteps[i]
    <2>1. c \in 1 .. 9 /\ SeedSteps[c] = SeedSteps[i]
      OBVIOUS
    <2>2. \A j \in 1 .. 9 : SeedSteps[j] = SeedSteps[i] => j = i
      BY <1>1
    <2>3. c = i
      BY <2>1, <2>2
    <2> HIDE DEF c
    <2>4. After(SeedSteps[i]) = SeedSteps[1 + c]
      BY DEF After, c
    <2>5. QED
      BY <2>3, <2>4
  <1>3. QED
    BY <1>1, <1>2

Steps == {"roles", "FREE", "PREMIUM", "admin", "findSub", "createSub",
          "OPENAI", "CLAUDE", "GEMINI", "done"}

LEMMA StepsAre == {SeedSteps[i] : i \in 1 .. 10} = Steps
  <1>1. /\ SeedSteps[1] = "roles" /\ SeedSteps[2] = "FREE" /\ SeedSteps[3] = "PREMIUM"
        /\ SeedSteps[4] = "admin" /\ SeedSteps[5] = "findSub" /\ SeedSteps[6] = "createSub"
        /\ SeedSteps[7] = "OPENAI" /\ SeedSteps[8] = "CLAUDE" /\ SeedSteps[9] = "GEMINI"
        /\ SeedSteps[10] = "done"
    BY DEF SeedSteps
  <1>2. \A i \in 1 .. 10 : SeedSteps[i] \in Steps
    BY <1>1 DEF Steps
  <1>3. \A s \in Steps : \E i \in 1 .. 10 : s = SeedSteps[i]
    BY <1>1 DEF Steps
  <1>4. QED
    BY <1>2, <1>3

(* What the statements before the one the seed is at have left, if nobody   *)
(* has written since it was started.                                        *)
AfterProviders == {"done"}
AfterClaude == {"GEMINI", "done"}
AfterOpenai == {"CLAUDE", "GEMINI", "done"}
AfterSub == {"OPENAI"} \cup AfterOpenai
AfterAdmin == {"findSub", "createSub"} \cup AfterSub
AfterPlans == {"admin"} \cup AfterAdmin
AfterFree == {"PREMIUM"} \cup AfterPlans

Left ==
    /\ step \in AfterFree => plans["FREE"] = "seeded"
    /\ step \in AfterPlans => plans["PREMIUM"] = "seeded"
    /\ step \in AfterAdmin => admin = SeededAccount
    /\ step = "createSub" => subFound = hasSub
    /\ step \in AfterSub => hasSub
    /\ step \in AfterOpenai => default = "OPENAI" /\ active["OPENAI"] = "active"
    /\ step \in AfterClaude => active["CLAUDE"] = "active"
    /\ step = "done" => active["GEMINI"] = "active"

SeedTyped ==
    /\ step \in Steps \cup {"idle", "aborted"}
    /\ runs \in 0 .. MaxRuns /\ touches \in 0 .. MaxTouches
    /\ capitals \in BOOLEAN /\ roles \in BOOLEAN /\ hasSub \in BOOLEAN
    /\ subFound \in BOOLEAN /\ calm \in BOOLEAN
    /\ plans \in [SeededPlans -> {"absent", "seeded", "edited", "renamed"}]
    /\ admin \in [there : BOOLEAN, live : BOOLEAN, admin : BOOLEAN, password : {"env", "other"}]
    /\ active \in [SeededProviders -> {"absent", "active", "inactive"}]
    /\ default \in SeededProviders \cup {"none"}

SeedInv == SeedTyped /\ (calm => Left)

LEMMA SeedInvInit == SeedInit => SeedInv
  <1> SUFFICES ASSUME SeedInit
               PROVE  SeedTyped /\ Left
    BY DEF SeedInv
  <1>1. SeedTyped
    <2>1. runs \in 0 .. MaxRuns /\ touches \in 0 .. MaxTouches
      BY SeedAssumption DEF SeedInit
    <2>2. QED
      BY <2>1 DEF SeedInit, SeedTyped, NoAccount
  <1>2. Left
    BY DEF SeedInit, Left, AfterFree, AfterPlans, AfterAdmin, AfterSub, AfterOpenai, AfterClaude
  <1>3. QED
    BY <1>1, <1>2

LEMMA SeedTypedNext ==
    ASSUME SeedTyped, SeedNext
    PROVE  SeedTyped'
  <1>1. CASE SeedStart
    BY <1>1, SeedAssumption DEF SeedStart, SeedTyped, Steps
  <1>2. CASE SeedRoles
    BY <1>2, Statements DEF SeedRoles, SeedTyped, Steps
  <1>3. CASE SeedPlan
    <2>1. step \in SeededPlans /\ After(step) \in Steps
      BY <1>3, Statements DEF SeedPlan, SeededPlans, Steps
    <2>2. step' \in Steps \cup {"aborted"}
      BY <1>3, <2>1 DEF SeedPlan
    <2>3. plans' \in [SeededPlans -> {"absent", "seeded", "edited", "renamed"}]
      BY <1>3 DEF SeedPlan, SeedTyped
    <2>4. QED
      BY <1>3, <2>2, <2>3 DEF SeedPlan, SeedTyped
  <1>4. CASE SeedAdmin
    BY <1>4, Statements DEF SeedAdmin, Upserted, SeededAccount, SeedTyped, Steps
  <1>5. CASE FindSub
    BY <1>5, Statements DEF FindSub, SeedTyped, Steps
  <1>6. CASE CreateSub
    BY <1>6, Statements DEF CreateSub, SeedTyped, Steps
  <1>7. CASE SeedProvider
    <2>1. step \in SeededProviders /\ After(step) \in Steps
      BY <1>7, Statements DEF SeedProvider, SeededProviders, Steps
    <2>2. step' \in Steps \cup {"aborted"}
      BY <1>7, <2>1 DEF SeedProvider
    <2>3. DefaultAfter \in SeededProviders \cup {"none"}
      BY DEF DefaultAfter, SeededProviders, SeedTyped
    <2>4. QED
      BY <1>7, <2>2, <2>3 DEF SeedProvider, SeedTyped
  <1>8. CASE SeedDies
    BY <1>8 DEF SeedDies, SeedTyped
  <1>9. CASE Touched
    <2>1. /\ touches' \in 0 .. MaxTouches /\ calm' \in BOOLEAN
          /\ UNCHANGED <<step, runs, capitals, roles, subFound>>
      <3>1. /\ touches < MaxTouches /\ touches' = touches + 1 /\ calm' = FALSE
            /\ UNCHANGED <<step, runs, capitals, roles, subFound>>
        BY <1>9 DEF Touched, Others
      <3>2. touches \in 0 .. MaxTouches
        BY DEF SeedTyped
      <3>3. touches' \in 0 .. MaxTouches
        <4>1. touches \in Nat /\ MaxTouches \in Nat /\ touches' = touches + 1 /\ touches < MaxTouches
          BY <3>1, <3>2, SeedAssumption
        <4>2. QED
          BY <4>1
      <3>4. calm' \in BOOLEAN /\ UNCHANGED <<step, runs, capitals, roles, subFound>>
        BY <3>1
      <3>5. QED
        BY <3>3, <3>4
    <2>2. CASE PlanWritten
      BY <2>1, <2>2 DEF PlanWritten, SeedTyped
    <2>3. CASE AccountWritten
      BY <2>1, <2>3 DEF AccountWritten, NoAccount, SeedTyped
    <2>4. CASE SubWritten
      BY <2>1, <2>4 DEF SubWritten, SeedTyped
    <2>5. CASE ProviderWritten
      BY <2>1, <2>5 DEF ProviderWritten, SeedTyped
    <2>6. QED
      BY <1>9, <2>2, <2>3, <2>4, <2>5 DEF Touched
  <1>10. QED
    BY <1>1, <1>2, <1>3, <1>4, <1>5, <1>6, <1>7, <1>8, <1>9 DEF SeedNext

LEMMA LeftNext ==
    ASSUME SeedTyped, calm => Left, SeedNext, calm'
    PROVE  Left'
  <1> USE DEF Left, AfterFree, AfterPlans, AfterAdmin, AfterSub, AfterOpenai, AfterClaude
  <1>1. CASE SeedStart
    BY <1>1 DEF SeedStart
  <1>2. CASE SeedRoles
    BY <1>2, Statements DEF SeedRoles
  <1>3. CASE SeedPlan
    <2>1. CASE step = "FREE"
      BY <1>3, <2>1, Statements DEF SeedPlan, SeedTyped, SeededPlans
    <2>2. CASE step = "PREMIUM"
      BY <1>3, <2>2, Statements DEF SeedPlan, SeedTyped, SeededPlans
    <2>3. QED
      BY <1>3, <2>1, <2>2 DEF SeedPlan, SeededPlans
  <1>4. CASE SeedAdmin
    BY <1>4, Statements DEF SeedAdmin, Upserted
  <1>5. CASE FindSub
    BY <1>5, Statements DEF FindSub, SeedTyped
  <1>6. CASE CreateSub
    BY <1>6, Statements DEF CreateSub, SeedTyped
  <1>7. CASE SeedProvider
    <2>1. CASE step = "OPENAI"
      BY <1>7, <2>1, Statements DEF SeedProvider, DefaultAfter, SeedTyped, SeededProviders
    <2>2. CASE step = "CLAUDE"
      BY <1>7, <2>2, Statements DEF SeedProvider, DefaultAfter, SeedTyped, SeededProviders
    <2>3. CASE step = "GEMINI"
      BY <1>7, <2>3, Statements DEF SeedProvider, DefaultAfter, SeedTyped, SeededProviders
    <2>4. QED
      BY <1>7, <2>1, <2>2, <2>3 DEF SeedProvider, SeededProviders
  <1>8. CASE SeedDies
    BY <1>8 DEF SeedDies
  <1>9. CASE Touched
    BY <1>9 DEF Touched, Others
  <1>10. QED
    BY <1>1, <1>2, <1>3, <1>4, <1>5, <1>6, <1>7, <1>8, <1>9 DEF SeedNext

LEMMA SeedInvNext ==
    ASSUME SeedInv, [SeedNext]_seedVars
    PROVE  SeedInv'
  <1>1. CASE SeedNext
    BY <1>1, SeedTypedNext, LeftNext DEF SeedInv
  <1>2. CASE UNCHANGED seedVars
    BY <1>2 DEF seedVars, SeedInv, SeedTyped, Left
  <1>3. QED
    BY <1>1, <1>2

LEMMA SeedInvAlways == SeedSpec => []SeedInv
  BY SeedInvInit, SeedInvNext, PTL DEF SeedSpec

(* Whatever the seed finds, and whoever writes beside it, rows and step     *)
(* keep their types.                                                        *)
THEOREM SeedTypeCorrect == SeedSpec => []SeedTypeOK
  <1>1. SeedInv => SeedTypeOK
    BY StepsAre DEF SeedInv, SeedTyped, SeedTypeOK
  <1>2. QED
    BY <1>1, SeedInvAlways, PTL

(* A seed that ends with nobody writing meanwhile has restored everything,  *)
(* whatever was there before and however often it died (prisma/seed.ts).    *)
THEOREM SeedIsRestoring == SeedSpec => []SeedRestores
  <1>1. SeedInv => SeedRestores
    BY DEF SeedInv, Left, SeedRestores, CanLogIn, SeededPlans, SeededProviders, SeedTyped,
           AfterFree, AfterPlans, AfterAdmin, AfterSub, AfterOpenai, AfterClaude
  <1>2. QED
    BY <1>1, SeedInvAlways, PTL

(* The database refuses a seed only for what others did; and it takes the   *)
(* default from the system only if it was given away while it ran.          *)
Yields ==
    /\ step # "aborted" /\ step' = "aborted" =>
         \/ default \in SeededProviders \ {"OPENAI"}
         \/ \E p \in SeededPlans : plans[p] = "renamed"
         \/ ~calm
    /\ default # "none" /\ default' = "none" => ~calm /\ step \in {"CLAUDE", "GEMINI"}

LEMMA SeedStepYields ==
    ASSUME SeedInv, SeedNext
    PROVE  Yields
  <1> USE DEF Yields
  <1>1. CASE SeedStart
    BY <1>1 DEF SeedStart
  <1>2. CASE SeedRoles
    BY <1>2, Statements DEF SeedRoles
  <1>3. CASE SeedPlan
    BY <1>3, Statements DEF SeedPlan, SeededPlans
  <1>4. CASE SeedAdmin
    BY <1>4, Statements DEF SeedAdmin
  <1>5. CASE FindSub
    BY <1>5, Statements DEF FindSub
  <1>6. CASE CreateSub
    BY <1>6, Statements DEF CreateSub, SeedInv, Left
  <1>7. CASE SeedProvider
    <2>1. step \in {"OPENAI", "CLAUDE", "GEMINI"} /\ default \in SeededProviders \cup {"none"}
      BY <1>7 DEF SeedProvider, SeededProviders, SeedInv, SeedTyped
    <2>2. step' = "aborted" => default \in SeededProviders \ {"OPENAI"}
      BY <1>7, <2>1, Statements DEF SeedProvider
    <2>3. default # "none" /\ default' = "none" => step = default /\ step \in {"CLAUDE", "GEMINI"}
      BY <1>7, <2>1 DEF SeedProvider, DefaultAfter
    <2>4. calm /\ step \in {"CLAUDE", "GEMINI"} => default = "OPENAI"
      BY DEF SeedInv, Left, AfterOpenai
    <2>5. QED
      BY <2>2, <2>3, <2>4
  <1>8. CASE SeedDies
    BY <1>8 DEF SeedDies
  <1>9. CASE Touched
    <2>1. UNCHANGED step
      BY <1>9 DEF Touched, Others
    <2>2. default' # "none" \/ default' = default
      BY <1>9 DEF Touched, PlanWritten, AccountWritten, SubWritten, ProviderWritten, SeededProviders
    <2>3. QED
      BY <2>1, <2>2
  <1>10. QED
    BY <1>1, <1>2, <1>3, <1>4, <1>5, <1>6, <1>7, <1>8, <1>9 DEF SeedNext

(* The database refuses the seed only for what others wrote, and the seed   *)
(* takes the default away only if another provider was made it after the    *)
(* statement for OpenAI (prisma/seed.ts:187).                               *)
THEOREM SeedIsYielding == SeedSpec => SeedYields
  <1>1. SeedInv /\ [SeedNext]_seedVars => [Yields]_seedVars
    BY SeedStepYields
  <1>2. QED
    BY <1>1, SeedInvAlways, PTL DEF SeedSpec, SeedYields, Yields

-----------------------------------------------------------------------------
(* The connection to Redis, and the cache in it.                            *)

Connected ==
    /\ RedisTypeOK
    /\ status = "connecting" => attempts <= MaxRetries
    /\ status = "ready" => attempts = 0

Tags == Supported \cup {"mock"}

(* An entry lies under the provider that gave the answer and what it was    *)
(* asked; the answer has results, and is as old as the entry has been there *)
(* unless the reply to its SET was given up.                                *)
EntryFits(e) ==
    /\ e \in Entry
    /\ e.key = Key(e.answer.by, e.answer.ask)
    /\ e.answer.some
    /\ e.stray \/ (e.left >= 1 /\ e.answer.age + e.left <= CacheTtl)

RequestFits(me) ==
    /\ me \in Request
    /\ me.pc = "wait" => conf.name \in Supported
    /\ me.pc = "fill" => me.answer.some /\ me.answer.age = 0

SearchInv ==
    /\ Connected
    /\ conf \in Configs
    /\ \A e \in cache : EntryFits(e)
    /\ \A e \in strays : EntryFits(e) /\ e.stray
    /\ \A e, f \in cache : e.key = f.key => e = f
    /\ req \in [Requests -> Request]
    /\ \A r \in Requests : RequestFits(req[r])

(* Commands and the connection. *)
LEMMA ConnectedNext ==
    ASSUME Connected, \/ Connect \/ Drop \/ CommandReplies \/ CommandFails
    PROVE  Connected'
  <1> USE RedisAssumption DEF Connected, RedisTypeOK
  <1>1. CASE Ready
    BY <1>1 DEF Ready
  <1>2. CASE AttemptFails
    <2>1. attempts \in Nat /\ attempts <= MaxRetries /\ attempts' = attempts + 1
      BY <1>2 DEF AttemptFails
    <2>2. attempts' \in 0 .. MaxRetries + 1
      BY <2>1
    <2>3. status' \in {"connecting", "end"} /\ (status' = "connecting" => ~ (attempts' > MaxRetries))
      BY <1>2 DEF AttemptFails
    <2>4. status' = "connecting" => attempts' <= MaxRetries
      BY <2>2, <2>3
    <2>5. QED
      BY <1>2, <2>2, <2>3, <2>4 DEF AttemptFails
  <1>3. CASE Drop
    <2>1. attempts = 0 /\ attempts' = attempts + 1
      BY <1>3 DEF Drop
    <2>2. attempts' = 1 /\ attempts' \in 0 .. MaxRetries + 1
      BY <2>1
    <2>3. available' \in BOOLEAN
      BY <1>3 DEF Drop
    <2>4. status' \in {"connecting", "end"} /\ (status' = "connecting" => attempts' <= MaxRetries)
      BY <1>3, <2>2 DEF Drop
    <2>5. QED
      BY <1>3, <2>2, <2>3, <2>4 DEF Drop
  <1>4. CASE CommandReplies
    BY <1>4 DEF CommandReplies
  <1>5. CASE CommandFails
    BY <1>5 DEF CommandFails
  <1>6. QED
    BY <1>1, <1>2, <1>3, <1>4, <1>5 DEF Connect

LEMMA PlainRequests ==
    /\ NoAsk \in Asks /\ NoAnswer \in Answer
    /\ \A pc \in {"idle", "lookup", "ask", "wait", "fill", "save", "log", "failed", "done"} :
         /\ At(pc) \in Request /\ At(pc).pc = pc
  <1>1. NoAsk \in Asks
    BY SearchAssumption DEF NoAsk
  <1>2. 0 \in 0 .. CacheTtl + 1
    BY SearchAssumption
  <1>3. NoAnswer \in Answer
    BY <1>1, <1>2 DEF NoAnswer, Answer
  <1>4. QED
    BY <1>1, <1>3 DEF At, Request

LEMMA SearchInvInit == SearchInit => SearchInv
  <1> SUFFICES ASSUME SearchInit
               PROVE  SearchInv
    OBVIOUS
  <1>1. Connected
    <2>1. 0 \in 0 .. MaxRetries + 1 /\ 0 \in 0 .. MaxEvents /\ 0 <= MaxRetries
      BY RedisAssumption
    <2>2. QED
      BY <2>1 DEF SearchInit, RedisInit, Connected, RedisTypeOK
  <1>2. \A r \in Requests : req[r] = At("idle")
    BY DEF SearchInit
  <1>3. \A r \in Requests : RequestFits(req[r])
    BY <1>2, PlainRequests DEF RequestFits
  <1>4. req \in [Requests -> Request]
    BY PlainRequests DEF SearchInit
  <1>5. QED
    BY <1>1, <1>3, <1>4 DEF SearchInit, SearchInv

(* A step of one request that leaves the cache alone. *)
LEMMA RequestMoves ==
    ASSUME SearchInv, NEW r \in Requests, NEW me, RequestFits(me),
           req' = [req EXCEPT ![r] = me], UNCHANGED <<conf, cache, strays>>, Connected'
    PROVE  SearchInv'
  <1>1. \A q \in Requests : RequestFits(req'[q])
    BY DEF SearchInv, RequestFits
  <1>2. \A q \in Requests : RequestFits(req[q])'
    BY <1>1 DEF RequestFits
  <1>3. req' \in [Requests -> Request]
    BY DEF SearchInv, RequestFits
  <1>4. /\ \A e \in cache' : EntryFits(e)
        /\ \A e \in strays' : EntryFits(e) /\ e.stray
        /\ \A e, f \in cache' : e.key = f.key => e = f
        /\ conf' \in Configs
    BY DEF SearchInv
  <1>5. QED
    BY <1>2, <1>3, <1>4 DEF SearchInv, EntryFits

(* Without a step of the client's the connection is as it was. *)
LEMMA StaysConnected ==
    ASSUME Connected, UNCHANGED redisVars
    PROVE  Connected'
  BY DEF Connected, RedisTypeOK, redisVars

(* The steps of a request that do not touch the cache. *)
LEMMA QuietRequestSteps ==
    ASSUME SearchInv, NEW r \in Requests,
           \/ \E ask \in MayAsk[r] : SearchStart(r, ask)
           \/ Lookup(r) \/ AskProvider(r) \/ ProviderAnswers(r) \/ ProviderRefuses(r)
           \/ Timeout(r) \/ LogFailure(r) \/ Save(r) \/ Log(r)
    PROVE  SearchInv'
  <1>1. /\ Connected /\ RequestFits(req[r]) /\ req[r] \in Request
        /\ req \in [Requests -> Request]
    BY DEF SearchInv, RequestFits
  <1>2. \A pc \in {"idle", "lookup", "ask", "save", "log", "failed", "done"} : RequestFits(At(pc))
    BY PlainRequests DEF RequestFits
  <1>3. RequestFits([req[r] EXCEPT !.pc = "ask"])
    BY <1>1 DEF RequestFits, Request
  <1>4. ASSUME NEW ask \in MayAsk[r], SearchStart(r, ask)
        PROVE  SearchInv'
    <2> DEFINE me == [At(IF conf.cached THEN "lookup" ELSE "ask") EXCEPT !.ask = ask]
    <2>1. req' = [req EXCEPT ![r] = me] /\ UNCHANGED <<redisVars, conf, cache, strays>>
      BY <1>4 DEF SearchStart
    <2>2. ask \in Asks
      BY SearchAssumption DEF Requests
    <2>3. RequestFits(me)
      <3>1. me \in Request /\ me.pc \in {"lookup", "ask"}
        BY <2>2, PlainRequests DEF Request
      <3>2. QED
        BY <3>1 DEF RequestFits
    <2>4. QED
      BY <1>1, <2>1, <2>3, RequestMoves, StaysConnected
  <1>5. CASE Lookup(r)
    <2>1. CommandReplies \/ CommandFails
      BY <1>5 DEF Lookup, LookupFails
    <2>2. UNCHANGED <<conf, cache, strays>>
      BY <1>5 DEF Lookup
    <2>3. \/ req' = [req EXCEPT ![r] = [req[r] EXCEPT !.pc = "ask"]]
          \/ req' = [req EXCEPT ![r] = At("save")]
      BY <1>5 DEF Lookup, LookupFails, Miss
    <2>4. QED
      BY <1>1, <1>2, <1>3, <2>1, <2>2, <2>3, ConnectedNext, RequestMoves
  <1>6. ASSUME NEW by \in Tags, NEW some \in BOOLEAN, Answered(r, by, some),
               UNCHANGED <<redisVars, conf, cache, strays>>
        PROVE  SearchInv'
    <2> DEFINE answer == [by |-> by, ask |-> req[r].ask, some |-> some, age |-> 0]
               fill == [At("fill") EXCEPT !.answer = answer]
    <2>1. req' = [req EXCEPT ![r] = IF conf.cached /\ some THEN fill ELSE At("save")]
      BY <1>6 DEF Answered
    <2>2. answer \in Answer
      <3>1. 0 \in 0 .. CacheTtl + 1 /\ req[r].ask \in Asks
        BY <1>1, SearchAssumption DEF Request
      <3>2. QED
        BY <3>1 DEF Answer, Tags
    <2>3. some => RequestFits(fill)
      <3>1. fill \in Request /\ fill.pc = "fill" /\ fill.answer = answer
        BY <2>2, PlainRequests DEF Request
      <3>2. QED
        BY <3>1 DEF RequestFits
    <2>4. CASE conf.cached /\ some
      BY <1>1, <1>6, <2>1, <2>3, <2>4, RequestMoves, StaysConnected
    <2>5. CASE ~ (conf.cached /\ some)
      BY <1>1, <1>2, <1>6, <2>1, <2>5, RequestMoves, StaysConnected
    <2>6. QED
      BY <2>4, <2>5
  <1>7. CASE Failed(r) /\ UNCHANGED <<redisVars, conf, cache, strays>>
    BY <1>1, <1>2, <1>7, RequestMoves, StaysConnected DEF Failed
  <1>8. CASE AskProvider(r)
    <2>1. CASE conf.name \in Supported /\ req' = [req EXCEPT ![r].pc = "wait"]
      <3> DEFINE me == [req[r] EXCEPT !.pc = "wait"]
      <3>1. RequestFits(me)
        BY <1>1, <2>1 DEF RequestFits, Request
      <3>2. req' = [req EXCEPT ![r] = me] /\ UNCHANGED <<redisVars, conf, cache, strays>>
        BY <1>8, <2>1 DEF AskProvider
      <3>3. QED
        BY <1>1, <3>1, <3>2, RequestMoves, StaysConnected
    <2>2. CASE Answered(r, "mock", TRUE)
      BY <1>6, <1>8, <2>2 DEF AskProvider, Tags
    <2>3. QED
      BY <1>7, <1>8, <2>1, <2>2 DEF AskProvider
  <1>9. CASE ProviderAnswers(r)
    <2>1. conf.name \in Tags
      BY <1>1, <1>9 DEF ProviderAnswers, RequestFits, Tags
    <2>2. QED
      BY <1>6, <1>9, <2>1 DEF ProviderAnswers
  <1>10. CASE ProviderRefuses(r) \/ Timeout(r)
    BY <1>7, <1>10 DEF ProviderRefuses, Timeout
  <1>11. CASE LogFailure(r) \/ Save(r) \/ Log(r)
    <2>1. /\ \E pc \in {"log", "done"} : req' = [req EXCEPT ![r] = At(pc)]
          /\ UNCHANGED <<redisVars, conf, cache, strays>>
      BY <1>11 DEF LogFailure, Save, Log
    <2>2. QED
      BY <1>1, <1>2, <2>1, RequestMoves, StaysConnected
  <1>12. QED
    BY <1>4, <1>5, <1>8, <1>9, <1>10, <1>11

(* An entry put in the cache drives out the one under its key. *)
LEMMA PutFits ==
    ASSUME SearchInv, NEW e, EntryFits(e), cache' = Put(cache, e)
    PROVE  /\ \A f \in cache' : EntryFits(f)
           /\ \A f, g \in cache' : f.key = g.key => f = g
  BY DEF SearchInv, Put

LEMMA FillStep ==
    ASSUME SearchInv, NEW r \in Requests, Fill(r)
    PROVE  SearchInv'
  <1> DEFINE e == NewEntry(r)
             s == [e EXCEPT !.stray = TRUE]
  <1>1. /\ req[r].pc = "fill" /\ req[r] \in Request /\ Connected
        /\ req[r].answer \in Answer /\ req[r].answer.some /\ req[r].answer.age = 0
    BY DEF SearchInv, RequestFits, Request, Fill
  <1>2. EntryFits(e) /\ e.stray = FALSE
    <2>1. CacheTtl \in 0 .. CacheTtl /\ CacheTtl >= 1 /\ 0 + CacheTtl <= CacheTtl
      BY SearchAssumption
    <2>2. e \in Entry /\ e.answer = req[r].answer /\ e.left = CacheTtl /\ e.stray = FALSE
          /\ e.key = Key(e.answer.by, e.answer.ask)
      BY <1>1, <2>1 DEF NewEntry, Entry, Key, Answer
    <2>3. QED
      BY <1>1, <2>1, <2>2 DEF EntryFits
  <1>3. EntryFits(s) /\ s.stray
    BY <1>2 DEF EntryFits, Entry
  <1>4. /\ req' = [req EXCEPT ![r] = At("save")] /\ UNCHANGED conf
        /\ \/ cache' = Put(cache, e) /\ UNCHANGED strays
           \/ UNCHANGED cache /\ (UNCHANGED strays \/ strays' = strays \cup {s})
    BY DEF Fill
  <1>5. Connected'
    BY <1>1, ConnectedNext DEF Fill
  <1>6. /\ \A f \in cache' : EntryFits(f)
        /\ \A f, g \in cache' : f.key = g.key => f = g
    BY <1>2, <1>4, PutFits DEF SearchInv
  <1>7. \A f \in strays' : EntryFits(f) /\ f.stray
    BY <1>3, <1>4 DEF SearchInv
  <1>8. req' \in [Requests -> Request] /\ \A q \in Requests : RequestFits(req'[q])
    BY <1>4, PlainRequests DEF SearchInv, RequestFits
  <1>9. QED
    BY <1>4, <1>5, <1>6, <1>7, <1>8 DEF SearchInv, EntryFits, RequestFits

LEMMA StrayLandsStep ==
    ASSUME SearchInv, StrayLands
    PROVE  SearchInv'
  <1>1. PICK e \in strays : cache' = Put(cache, e) /\ strays' = strays \ {e}
    BY DEF StrayLands
  <1>2. EntryFits(e) /\ UNCHANGED <<redisVars, conf, req>> /\ Connected
    BY <1>1 DEF SearchInv, StrayLands
  <1>3. /\ \A f \in cache' : EntryFits(f)
        /\ \A f, g \in cache' : f.key = g.key => f = g
    BY <1>1, <1>2, PutFits
  <1>4. Connected'
    BY <1>2, StaysConnected
  <1>5. QED
    BY <1>1, <1>2, <1>3, <1>4 DEF SearchInv, EntryFits, RequestFits

LEMMA ConnectionStep ==
    ASSUME SearchInv, Connection
    PROVE  SearchInv'
  <1>1. Connected' /\ UNCHANGED <<conf, cache, strays, req>>
    BY ConnectedNext DEF SearchInv, Connection
  <1>2. QED
    BY <1>1 DEF SearchInv, EntryFits, RequestFits

(* A tick takes from what is left as much as it adds to the age. *)
LEMMA SearchTickStep ==
    ASSUME SearchInv, SearchTick
    PROVE  SearchInv'
  <1> DEFINE Aged(e) == [e EXCEPT !.answer = Older(@)]
             Ticked(e) == [e EXCEPT !.left = @ - 1, !.answer = Older(@)]
  <1>1. ASSUME NEW a \in Answer
        PROVE  /\ Older(a) \in Answer /\ Older(a).by = a.by /\ Older(a).ask = a.ask
               /\ Older(a).some = a.some /\ Older(a).age <= a.age + 1
    <2>1. a.age \in 0 .. CacheTtl + 1 /\ CacheTtl \in Nat
      BY SearchAssumption DEF Answer
    <2>2. (IF a.age > CacheTtl THEN a.age ELSE a.age + 1) \in 0 .. CacheTtl + 1
      BY <2>1
    <2>3. Older(a) = [a EXCEPT !.age = IF a.age > CacheTtl THEN a.age ELSE a.age + 1]
      BY DEF Older, Answer
    <2>4. Older(a).age <= a.age + 1
      BY <2>1, <2>3 DEF Answer
    <2>5. QED
      BY <2>2, <2>3, <2>4 DEF Answer
  <1>2. ASSUME NEW e \in strays
        PROVE  EntryFits(Aged(e)) /\ Aged(e).stray
    <2>1. EntryFits(e) /\ e.stray /\ e \in Entry /\ e.answer \in Answer
      BY DEF SearchInv, EntryFits, Entry
    <2>2. /\ Aged(e) \in Entry /\ Aged(e).answer = Older(e.answer) /\ Aged(e).key = e.key
          /\ Aged(e).stray
      BY <1>1, <2>1 DEF Entry
    <2>3. QED
      BY <1>1, <2>1, <2>2 DEF EntryFits
  <1>3. ASSUME NEW e \in cache, e.left > 1
        PROVE  EntryFits(Ticked(e)) /\ Ticked(e).key = e.key
    <2>1. /\ EntryFits(e) /\ e \in Entry /\ e.answer \in Answer /\ e.answer.age \in Nat
          /\ e.left \in 0 .. CacheTtl /\ CacheTtl \in Nat
      BY SearchAssumption DEF SearchInv, EntryFits, Entry, Answer
    <2>2. e.left - 1 \in 0 .. CacheTtl
      BY <1>3, <2>1
    <2>3. /\ Ticked(e) \in Entry /\ Ticked(e).answer = Older(e.answer) /\ Ticked(e).key = e.key
          /\ Ticked(e).stray = e.stray /\ Ticked(e).left = e.left - 1
      BY <1>1, <2>1, <2>2 DEF Entry
    <2>4. Older(e.answer).age \in Nat /\ Older(e.answer).age <= e.answer.age + 1
      BY <1>1, <2>1, SearchAssumption DEF Answer
    <2>5. ~e.stray => Ticked(e).left >= 1 /\ Older(e.answer).age + Ticked(e).left <= CacheTtl
      BY <1>3, <2>1, <2>3, <2>4 DEF EntryFits
    <2>6. QED
      BY <1>1, <2>1, <2>3, <2>5 DEF EntryFits
  <1>4. /\ cache' = {Ticked(e) : e \in {f \in cache : f.left > 1}}
        /\ strays' = {Aged(e) : e \in strays}
        /\ UNCHANGED <<redisVars, conf, req>>
    BY DEF SearchTick
  <1> HIDE DEF Ticked, Aged
  <1>5. \A e \in cache' : EntryFits(e)
    BY <1>3, <1>4
  <1>6. \A e \in strays' : EntryFits(e) /\ e.stray
    BY <1>2, <1>4
  <1>7. ASSUME NEW e \in cache', NEW f \in cache', e.key = f.key
        PROVE  e = f
    <2>1. PICK g \in cache : g.left > 1 /\ e = Ticked(g)
      BY <1>4
    <2>2. PICK h \in cache : h.left > 1 /\ f = Ticked(h)
      BY <1>4
    <2>3. g.key = h.key
      BY <1>3, <1>7, <2>1, <2>2
    <2>4. QED
      BY <2>1, <2>2, <2>3 DEF SearchInv
  <1>8. Connected'
    BY <1>4, StaysConnected DEF SearchInv
  <1>9. QED
    BY <1>4, <1>5, <1>6, <1>7, <1>8 DEF SearchInv, EntryFits, RequestFits

LEMMA OutageStep ==
    ASSUME SearchInv, Outage
    PROVE  SearchInv'
  <1>1. /\ reach' = FALSE /\ events' = events + 1 /\ events < MaxEvents
        /\ cache' \subseteq cache /\ strays' \subseteq strays
        /\ UNCHANGED <<status, attempts, available, conf, req>>
    BY DEF Outage, clientVars
  <1>2. events' \in 0 .. MaxEvents
    <2>1. events \in 0 .. MaxEvents
      BY DEF SearchInv, Connected, RedisTypeOK
    <2>2. events \in Nat /\ MaxEvents \in Nat
      BY <2>1, RedisAssumption
    <2>3. QED
      BY <1>1, <2>2
  <1>3. Connected'
    BY <1>1, <1>2 DEF SearchInv, Connected, RedisTypeOK
  <1>4. QED
    BY <1>1, <1>3 DEF SearchInv, EntryFits, RequestFits

LEMMA ReturnStep ==
    ASSUME SearchInv, Return
    PROVE  SearchInv'
  <1>1. reach' = TRUE /\ UNCHANGED <<status, attempts, available, events, conf, cache, strays, req>>
    BY DEF Return, clientVars
  <1>2. Connected'
    BY <1>1 DEF SearchInv, Connected, RedisTypeOK
  <1>3. QED
    BY <1>1, <1>2 DEF SearchInv, EntryFits, RequestFits

(* The requests that were in flight are over, so none still waits for a     *)
(* provider of the configuration that was.                                  *)
LEMMA RebootStep ==
    ASSUME SearchInv, Reboot
    PROVE  SearchInv'
  <1>1. /\ events < MaxEvents /\ events' = events + 1 /\ Rebooted /\ conf' \in Configs
        /\ UNCHANGED <<reach, cache, strays>>
        /\ req' = [r \in Requests |-> IF r \notin InFlight THEN req[r] ELSE At("done")]
    BY DEF Reboot
  <1>2. events' \in 0 .. MaxEvents
    <2>1. events \in 0 .. MaxEvents
      BY DEF SearchInv, Connected, RedisTypeOK
    <2>2. events \in Nat /\ MaxEvents \in Nat
      BY <2>1, RedisAssumption
    <2>3. QED
      BY <1>1, <2>2
  <1>3. Connected'
    <2>1. 0 \in 0 .. MaxRetries + 1 /\ 0 <= MaxRetries
      BY RedisAssumption
    <2>2. QED
      BY <1>1, <1>2, <2>1 DEF SearchInv, Connected, RedisTypeOK, Rebooted
  <1>4. ASSUME NEW r \in Requests
        PROVE  req'[r] \in Request /\ req'[r].pc \notin {"wait", "fill"}
    <2>1. req[r] \in Request
      BY DEF SearchInv
    <2>2. QED
      BY <1>1, <2>1, PlainRequests DEF InFlight
  <1>5. req' \in [Requests -> Request]
    BY <1>1, <1>4
  <1>6. QED
    BY <1>1, <1>3, <1>4, <1>5 DEF SearchInv, EntryFits, RequestFits

LEMMA SearchInvNext ==
    ASSUME SearchInv, [SearchNext]_searchVars
    PROVE  SearchInv'
  <1>1. CASE SearchNext
    BY <1>1, QuietRequestSteps, FillStep, ConnectionStep, StrayLandsStep, SearchTickStep,
       OutageStep, ReturnStep, RebootStep DEF SearchNext, Serve
  <1>2. CASE UNCHANGED searchVars
    BY <1>2 DEF searchVars, SearchInv, Connected, RedisTypeOK, EntryFits, RequestFits
  <1>3. QED
    BY <1>1, <1>2

LEMMA SearchInvAlways == SearchSpec => []SearchInv
  BY SearchInvInit, SearchInvNext, PTL DEF SearchSpec

(* Searches, the cache and the connection to Redis keep their types, for    *)
(* any number of searches, retries and outages.                             *)
THEOREM SearchTypeCorrect == SearchSpec => []SearchTypeOK
  <1>1. SearchInv => SearchTypeOK
    BY DEF SearchInv, Connected, EntryFits, SearchTypeOK
  <1>2. QED
    BY <1>1, SearchInvAlways, PTL

(* An answer that is taken from the cache is one of the provider that is    *)
(* configured, to this query and limit, with results, and is older than the *)
(* time to live only if the reply to its SET was given up                   *)
(* (search-cache.service.ts).                                               *)
THEOREM CacheIsFit == SearchSpec => []CacheFits
  <1>1. ASSUME SearchInv, NEW r \in Requests, NEW e \in Found(r)
        PROVE  Fits(e, r)
    <2>1. e \in Entry /\ EntryFits(e) /\ e.key = Key(conf.name, req[r].ask)
      BY <1>1 DEF Found, SearchInv, EntryFits
    <2>2. e.answer.by = conf.name /\ e.answer.ask = req[r].ask
      BY <2>1 DEF EntryFits, Key
    <2>3. e.answer.age \in Nat /\ e.left \in Nat /\ CacheTtl \in Nat
      BY <2>1, SearchAssumption DEF Entry, Answer
    <2>4. e.answer.age < CacheTtl \/ e.stray
      BY <2>1, <2>3 DEF EntryFits
    <2>5. QED
      BY <2>1, <2>2, <2>4 DEF EntryFits, Fits
  <1>2. SearchInv => CacheFits
    BY <1>1 DEF CacheFits
  <1>3. QED
    BY <1>2, SearchInvAlways, PTL

(* A search fails only when it asks the provider or waits for its answer.   *)
OnlyProvidersFail ==
    [][\A r \in Requests :
         req[r].pc # "failed" /\ req'[r].pc = "failed" => req[r].pc \in {"ask", "wait"}]_searchVars

(* The safety half of SearchServed: whatever becomes of Redis, a search     *)
(* fails only in a step of the provider's (search.service.ts:55).           *)
THEOREM RedisNeverFails == SearchSpec => OnlyProvidersFail
  <1> DEFINE Blame == \A r \in Requests :
                req[r].pc # "failed" /\ req'[r].pc = "failed" => req[r].pc \in {"ask", "wait"}
  <1>1. ASSUME SearchInv, NEW r \in Requests, NEW me, me.pc # "failed" \/ req[r].pc \in {"ask", "wait"},
               req' = [req EXCEPT ![r] = me]
        PROVE  Blame
    BY <1>1 DEF SearchInv
  <1>2. ASSUME SearchInv, SearchNext
        PROVE  Blame
    <2>1. \A pc \in {"idle", "lookup", "ask", "fill", "save", "log", "done"} : At(pc).pc = pc
      BY PlainRequests
    <2>2. \A q \in Requests : req[q] \in Request
      BY <1>2 DEF SearchInv
    <2>3. ASSUME NEW r \in Requests, NEW ask \in MayAsk[r], SearchStart(r, ask)
          PROVE  Blame
      <3> DEFINE me == [At(IF conf.cached THEN "lookup" ELSE "ask") EXCEPT !.ask = ask]
      <3>1. me.pc # "failed"
        BY DEF At
      <3>2. req' = [req EXCEPT ![r] = me]
        BY <2>3 DEF SearchStart
      <3>3. QED
        BY <1>1, <1>2, <3>1, <3>2
    <2>4. ASSUME NEW r \in Requests, Lookup(r)
          PROVE  Blame
      <3>1. \/ req' = [req EXCEPT ![r] = [req[r] EXCEPT !.pc = "ask"]]
            \/ req' = [req EXCEPT ![r] = At("save")]
        BY <2>4 DEF Lookup, LookupFails, Miss
      <3>2. [req[r] EXCEPT !.pc = "ask"].pc = "ask"
        BY <2>2 DEF Request
      <3>3. QED
        BY <1>1, <1>2, <2>1, <3>1, <3>2
    <2>5. ASSUME NEW r \in Requests,
                 AskProvider(r) \/ ProviderAnswers(r) \/ ProviderRefuses(r) \/ Timeout(r)
          PROVE  Blame
      <3>1. req[r].pc \in {"ask", "wait"}
        BY <2>5 DEF AskProvider, ProviderAnswers, ProviderRefuses, Timeout
      <3>2. \E me : req' = [req EXCEPT ![r] = me]
        BY <2>5 DEF AskProvider, ProviderAnswers, ProviderRefuses, Timeout, Answered, Failed
      <3>3. QED
        BY <1>1, <1>2, <3>1, <3>2
    <2>6. ASSUME NEW r \in Requests, Fill(r) \/ LogFailure(r) \/ Save(r) \/ Log(r)
          PROVE  Blame
      <3>1. \E pc \in {"save", "log", "done"} : req' = [req EXCEPT ![r] = At(pc)]
        BY <2>6 DEF Fill, LogFailure, Save, Log
      <3>2. QED
        BY <1>1, <1>2, <2>1, <3>1
    <2>7. CASE Connection \/ StrayLands \/ SearchTick \/ Outage \/ Return
      BY <2>7 DEF Connection, StrayLands, SearchTick, Outage, Return
    <2>8. CASE Reboot
      BY <2>1, <2>8 DEF Reboot
    <2>9. QED
      BY <1>2, <2>3, <2>4, <2>5, <2>6, <2>7, <2>8 DEF SearchNext, Serve
  <1>3. SearchInv /\ [SearchNext]_searchVars => [Blame]_searchVars
    BY <1>2
  <1>4. QED
    BY <1>3, SearchInvAlways, PTL DEF SearchSpec, OnlyProvidersFail

(* What isAvailable() says and what the client does: it never says up when  *)
(* there is no client or the client has given up, and says it of a lost     *)
(* connection only until the first attempt to reconnect has failed; and the *)
(* client gives up only when one attempt more than MaxRetries has failed    *)
(* since it was last connected.                                             *)
FlagFollows ==
    /\ status \in {"off", "end"} => ~available
    /\ available /\ status = "connecting" => attempts = 1
    /\ status = "end" => attempts = MaxRetries + 1

LEMMA ClientSteps ==
    ASSUME SearchNext
    PROVE  \/ Connect \/ Drop \/ CommandReplies \/ CommandFails
           \/ UNCHANGED clientVars
           \/ Reboot
  <1>1. ASSUME NEW r \in Requests, Lookup(r) \/ Fill(r)
        PROVE  CommandReplies \/ CommandFails
    BY <1>1 DEF Lookup, LookupFails, Fill
  <1>2. ASSUME NEW r \in Requests,
               \/ AskProvider(r) \/ Timeout(r) \/ LogFailure(r) \/ Save(r) \/ Log(r)
               \/ ProviderAnswers(r) \/ ProviderRefuses(r)
               \/ \E ask \in MayAsk[r] : SearchStart(r, ask)
        PROVE  UNCHANGED clientVars
    BY <1>2 DEF AskProvider, Timeout, LogFailure, Save, Log, ProviderAnswers,
       ProviderRefuses, SearchStart, redisVars, clientVars
  <1>3. ASSUME StrayLands \/ SearchTick \/ Outage \/ Return
        PROVE  UNCHANGED clientVars
    BY <1>3 DEF StrayLands, SearchTick, Outage, Return, redisVars, clientVars
  <1>4. QED
    BY <1>1, <1>2, <1>3 DEF SearchNext, Serve, Connection

LEMMA FlagNext ==
    ASSUME Connected, FlagFollows, \/ Connect \/ Drop \/ CommandReplies \/ CommandFails
    PROVE  FlagFollows'
  <1> USE RedisAssumption DEF Connected, RedisTypeOK, FlagFollows
  <1>1. CASE Ready
    BY <1>1 DEF Ready
  <1>2. CASE AttemptFails
    <2>1. attempts \in Nat /\ attempts <= MaxRetries /\ attempts' = attempts + 1
      BY <1>2 DEF AttemptFails
    <2>2. status' = "end" => attempts' = MaxRetries + 1
      BY <1>2, <2>1 DEF AttemptFails
    <2>3. QED
      BY <1>2, <2>2 DEF AttemptFails
  <1>3. CASE Drop
    <2>1. attempts' = 1
      BY <1>3 DEF Drop
    <2>2. status' = "end" => attempts' > MaxRetries /\ ~available'
      BY <1>3 DEF Drop
    <2>3. status' # "off"
      BY <1>3 DEF Drop
    <2>4. MaxRetries \in Nat
      OBVIOUS
    <2>5. status' = "end" => attempts' = MaxRetries + 1
      BY ONLY <2>1, <2>2, <2>4
    <2>6. QED
      BY <2>1, <2>2, <2>3, <2>5
  <1>4. CASE CommandReplies
    BY <1>4 DEF CommandReplies
  <1>5. CASE CommandFails
    BY <1>5 DEF CommandFails
  <1>6. QED
    BY <1>1, <1>2, <1>3, <1>4, <1>5 DEF Connect

(* The safety half of ConnectionSettles (redis.service.ts:28-63), for any   *)
(* number of retries, outages, restarts and searches ...                    *)
THEOREM RedisFlagFollows == SearchSpec => []FlagFollows
  <1>1. SearchInit => FlagFollows
    BY DEF SearchInit, RedisInit, FlagFollows
  <1>2. SearchInv /\ FlagFollows /\ [SearchNext]_searchVars => FlagFollows'
    <2> SUFFICES ASSUME SearchInv, FlagFollows, [SearchNext]_searchVars
                 PROVE  FlagFollows'
      OBVIOUS
    <2>1. CASE UNCHANGED clientVars
      BY <2>1 DEF clientVars, FlagFollows
    <2>2. CASE Reboot
      BY <2>2 DEF Reboot, Rebooted, FlagFollows
    <2>3. CASE \/ Connect \/ Drop \/ CommandReplies \/ CommandFails
      BY <2>3, FlagNext DEF SearchInv
    <2>4. QED
      BY <2>1, <2>2, <2>3, ClientSteps DEF searchVars, clientVars
  <1>3. QED
    BY <1>1, <1>2, SearchInvAlways, PTL DEF SearchSpec

(* ... and a client that has given up is heard of again only after the      *)
(* server was restarted: retryStrategy has returned null.                   *)
THEOREM GivenUpForGood ==
    SearchSpec => [][status = "end" /\ status' # "end" => Reboot]_searchVars
  <1>1. ASSUME SearchNext, status = "end", status' # "end"
        PROVE  Reboot
    BY <1>1, ClientSteps DEF Connect, Ready, AttemptFails, Drop, CommandReplies,
       CommandFails, clientVars
  <1>2. [SearchNext]_searchVars => [status = "end" /\ status' # "end" => Reboot]_searchVars
    BY <1>1
  <1>3. QED
    BY <1>2, PTL DEF SearchSpec

-----------------------------------------------------------------------------
(* Numbers: a set of them that is not empty has a least one, and a greatest *)
(* one if it is bounded.                                                    *)

Less == {p \in Nat \X Nat : p[1] < p[2]}

LEMMA LeastNumber ==
    ASSUME NEW T \in SUBSET Nat, T # {}
    PROVE  \E m \in T : \A n \in T : m <= n
  <1>1. OpToRel(<, Nat) = Less
    BY DEF OpToRel, Less
  <1>2. IsWellFoundedOn(Less, Nat)
    BY <1>1, NatLessThanWellFounded
  <1>3. \E m \in T : \A n \in T : <<n, m>> \notin Less
    BY <1>2, WFMin
  <1>4. PICK m \in T : \A n \in T : <<n, m>> \notin Less
    BY <1>3
  <1>5. m \in Nat /\ \A n \in T : n \in Nat
    OBVIOUS
  <1>6. \A n \in T : ~ (n < m)
    BY <1>4, <1>5 DEF Less
  <1>7. QED
    BY <1>5, <1>6

LEMMA GreatestNumber ==
    ASSUME NEW N \in Nat, NEW T \in SUBSET (0 .. N), T # {}
    PROVE  Max(T) \in T /\ \A n \in T : n <= Max(T)
  <1> DEFINE Bounds == {b \in Nat : \A n \in T : n <= b}
  <1>1. N \in Bounds
    OBVIOUS
  <1>2. PICK b \in Bounds : \A c \in Bounds : b <= c
    BY <1>1, LeastNumber
  <1>3. b \in T
    <2>1. SUFFICES ASSUME b \notin T
                   PROVE  FALSE
      OBVIOUS
    <2>2. ASSUME NEW n \in T
          PROVE  n \in Nat /\ n <= b /\ n # b
      BY <1>2, <2>1
    <2>3. b # 0
      <3>1. PICK n \in T : TRUE
        OBVIOUS
      <3>2. b \in Nat /\ n \in Nat /\ n <= b /\ n # b
        BY <1>2, <2>2
      <3>3. QED
        BY <3>2
    <2>4. b - 1 \in Bounds
      <3>1. \A n \in T : n <= b - 1
        BY <2>2
      <3>2. QED
        BY <2>3, <3>1
    <2>5. QED
      BY <1>2, <2>4
  <1>4. \A n \in T : b >= n
    BY <1>2
  <1>5. QED
    BY <1>3, <1>4 DEF Max

LEMMA LeastOfTwo ==
    ASSUME NEW a \in Nat, NEW b \in Nat
    PROVE  Min({a, b}) = IF a <= b THEN a ELSE b
  <1>1. CASE a <= b
    <2>1. \A x \in {a, b} : (\A y \in {a, b} : x <= y) <=> x = a
      BY <1>1
    <2>2. QED
      BY <1>1, <2>1 DEF Min
  <1>2. CASE ~ (a <= b)
    <2>1. \A x \in {a, b} : (\A y \in {a, b} : x <= y) <=> x = b
      BY <1>2
    <2>2. QED
      BY <1>2, <2>1 DEF Min
  <1>3. QED
    BY <1>1, <1>2

LEMMA GreatestOfTwo ==
    ASSUME NEW a \in Nat, NEW b \in Nat
    PROVE  Max({a, b}) = IF a >= b THEN a ELSE b
  <1>1. CASE a >= b
    <2>1. \A x \in {a, b} : (\A y \in {a, b} : x >= y) <=> x = a
      BY <1>1
    <2>2. QED
      BY <1>1, <2>1 DEF Max
  <1>2. CASE ~ (a >= b)
    <2>1. \A x \in {a, b} : (\A y \in {a, b} : x >= y) <=> x = b
      BY <1>2
    <2>2. QED
      BY <1>2, <2>1 DEF Max
  <1>3. QED
    BY <1>1, <1>2

-----------------------------------------------------------------------------
(* The lists: how many rows are ahead of one, and the borders of a page.    *)

LEMMA RowSets ==
    ASSUME NEW S \in SUBSET Rows
    PROVE  IsFiniteSet(S) /\ Cardinality(S) \in Nat /\ Cardinality(S) <= MaxRows
  <1>1. IsFiniteSet(Rows) /\ Cardinality(Rows) = MaxRows
    <2>1. 1 \in Int /\ MaxRows \in Int
      BY ListingAssumption
    <2>2. IsFiniteSet(1 .. MaxRows) /\ Cardinality(1 .. MaxRows) = MaxRows
      BY <2>1, ListingAssumption, FS_Interval
    <2>3. QED
      BY <2>2 DEF Rows
  <1>2. IsFiniteSet(S) /\ Cardinality(S) <= MaxRows
    BY <1>1, FS_Subset
  <1>3. QED
    BY <1>2, FS_CardinalityType

LEMMA FewerRows ==
    ASSUME NEW S \in SUBSET Rows, NEW T \in SUBSET S
    PROVE  /\ Cardinality(T) <= Cardinality(S)
           /\ T # S => Cardinality(T) < Cardinality(S)
  BY RowSets, FS_Subset

LEMMA SkipGrows ==
    ASSUME NEW p \in Nat \ {0}
    PROVE  /\ Skip(p) \in Nat /\ Skip(1) = 0
           /\ Skip(p + 1) = Skip(p) + PageSize /\ Skip(p + 1) = p * PageSize
  <1>1. PageSize \in Nat
    BY ListingAssumption
  <1>2. p * PageSize = (p - 1) * PageSize + PageSize
    BY <1>1
  <1>3. (p - 1) * PageSize \in Nat
    BY <1>1
  <1>4. (p + 1) - 1 = p /\ 0 * PageSize = 0
    BY <1>1
  <1>5. QED
    BY <1>2, <1>3, <1>4 DEF Skip

LEMMA PagesNeeded ==
    ASSUME NEW t \in Nat, NEW p \in Nat
    PROVE  LET pages == (t + PageSize - 1) \div PageSize
           IN  /\ pages \in Nat /\ pages <= t
               /\ pages <= p => t <= p * PageSize
  <1> DEFINE q == (t + PageSize - 1) \div PageSize
  <1>1. PageSize \in Nat /\ PageSize > 0
    BY ListingAssumption
  <1>2. q \in Nat /\ PageSize * q <= t + PageSize - 1 /\ t + PageSize - 1 < PageSize * q + PageSize
    BY <1>1
  <1> HIDE DEF q
  <1>3. q <= t
    <2>1. SUFFICES ASSUME q > t
                   PROVE  FALSE
      BY <1>2
    <2>2. PICK k \in Nat : q = t + 1 + k
      <3>1. q - t - 1 \in Nat /\ q = t + 1 + (q - t - 1)
        BY <1>2, <2>1
      <3>2. QED
        BY <3>1
    <2>3. PageSize * q = PageSize * t + PageSize + PageSize * k
      BY <1>1, <2>2
    <2>4. PageSize * t >= t /\ PageSize * t \in Nat /\ PageSize * k \in Nat
      BY <1>1
    <2>5. QED
      BY <1>1, <1>2, <2>3, <2>4
  <1>4. ASSUME q <= p
        PROVE  t <= p * PageSize
    <2>1. PICK k \in Nat : p = q + k
      <3>1. p - q \in Nat /\ p = q + (p - q)
        BY <1>2, <1>4
      <3>2. QED
        BY <3>1
    <2>2. p * PageSize = PageSize * q + PageSize * k
      BY <1>1, <1>2, <2>1
    <2>3. PageSize * k \in Nat /\ PageSize * q \in Nat
      BY <1>1, <1>2
    <2>4. QED
      BY <1>1, <1>2, <2>2, <2>3
  <1>5. QED
    BY <1>2, <1>3, <1>4 DEF q

-----------------------------------------------------------------------------
(* What a page shows.  A row that shares its stamp with none comes after    *)
(* the rows that are skipped when it is not one of them, and the page then  *)
(* skips all it is to skip; it is ahead of those that are left over.        *)

LEMMA FirstOfRows ==
    ASSUME NEW S \in SUBSET Rows, NEW n \in Nat, NEW T \in First(S, n)
    PROVE  /\ T \in SUBSET S
           /\ Cardinality(T) <= n
           /\ T # S => Cardinality(T) = n
           /\ \A r \in T, s \in S \ T : ~Before(s, r, stamps)
  <1>1. /\ T \in SUBSET S /\ Cardinality(T) = Min({n, Cardinality(S)})
        /\ \A r \in T, s \in S \ T : ~Before(s, r, stamps)
    BY DEF First
  <1>2. Cardinality(S) \in Nat
    BY RowSets
  <1>3. Cardinality(T) = IF n <= Cardinality(S) THEN n ELSE Cardinality(S)
    BY <1>1, <1>2, LeastOfTwo
  <1>4. T # S => Cardinality(T) < Cardinality(S)
    BY <1>1, FewerRows
  <1>5. QED
    BY <1>1, <1>2, <1>3, <1>4

LEMMA BeforeInOrder ==
    ASSUME list \in Lists, stamps \in [Rows -> Nat], NEW r \in Rows, NEW s \in Rows
    PROVE  /\ ~Before(r, r, stamps)
           /\ ~Before(r, s, stamps) /\ stamps[r] # stamps[s] => Before(s, r, stamps)
           /\ Before(r, s, stamps) => ~Before(s, r, stamps)
  <1>1. stamps[r] \in Nat /\ stamps[s] \in Nat /\ list.asc \in BOOLEAN
    BY ListingAssumption
  <1>2. QED
    BY <1>1 DEF Before

AheadOf(r) == Cardinality(Ahead(r, stamps))

(* A row that is on neither side of a page: all the page and what it skips  *)
(* is ahead of it.                                                          *)
LEMMA AfterThePage ==
    ASSUME list \in Lists, stamps \in [Rows -> Nat],
           NEW n \in Nat, NEW skipped \in First(Listed, n),
           NEW rows \in First(Listed \ skipped, PageSize),
           NEW r \in Listed, r \notin Tied(stamps)
    PROVE  /\ r \in skipped => AheadOf(r) < n
           /\ r \in rows => AheadOf(r) >= n /\ AheadOf(r) < n + PageSize
           /\ r \notin skipped \cup rows => AheadOf(r) >= n + PageSize
  <1>1. Listed \in SUBSET Rows /\ Listed \ skipped \in SUBSET Rows /\ PageSize \in Nat
    BY ListingAssumption DEF Listed
  <1>2. /\ skipped \in SUBSET Listed /\ Cardinality(skipped) <= n
        /\ skipped # Listed => Cardinality(skipped) = n
        /\ \A x \in skipped, s \in Listed \ skipped : ~Before(s, x, stamps)
    BY <1>1, FirstOfRows
  <1>3. /\ rows \in SUBSET (Listed \ skipped) /\ Cardinality(rows) <= PageSize
        /\ rows # Listed \ skipped => Cardinality(rows) = PageSize
        /\ \A x \in rows, s \in (Listed \ skipped) \ rows : ~Before(s, x, stamps)
    BY <1>1, FirstOfRows
  <1>4. \A s \in Listed : s # r => stamps[s] # stamps[r]
    <2>1. \A s \in Listed : s \in Rows /\ stamps[s] # 0
      BY DEF Listed
    <2>2. QED
      BY <2>1 DEF Tied
  <1>5. Ahead(r, stamps) = {s \in Listed : Before(s, r, stamps)}
    BY DEF Ahead, Listed
  <1>6. r \notin Ahead(r, stamps) /\ Ahead(r, stamps) \in SUBSET Listed
    BY <1>1, <1>5, BeforeInOrder
  <1>7. /\ Cardinality(skipped \cup rows) = Cardinality(skipped) + Cardinality(rows)
        /\ Cardinality(skipped) \in Nat /\ Cardinality(rows) \in Nat
        /\ AheadOf(r) \in Nat
    <2>1. IsFiniteSet(skipped) /\ IsFiniteSet(rows) /\ skipped \cap rows = {}
      BY <1>1, <1>2, <1>3, RowSets
    <2>2. Cardinality(skipped \cap rows) = 0
      BY <2>1, FS_EmptySet
    <2>3. Cardinality(skipped) \in Nat /\ Cardinality(rows) \in Nat
      BY <2>1, FS_CardinalityType
    <2>4. Cardinality(skipped \cup rows)
            = Cardinality(skipped) + Cardinality(rows) - Cardinality(skipped \cap rows)
      BY <2>1, FS_Union
    <2>5. AheadOf(r) \in Nat
      BY <1>1, <1>6, RowSets DEF AheadOf
    <2>6. QED
      BY <2>2, <2>3, <2>4, <2>5
  <1>8. ASSUME NEW S \in SUBSET Listed, r \notin S,
               \A x \in S : ~Before(r, x, stamps)
        PROVE  Cardinality(S) <= AheadOf(r)
    <2>1. ASSUME NEW x \in S
          PROVE  x \in Ahead(r, stamps)
      <3>1. x \in Rows /\ r \in Rows /\ x \in Listed /\ stamps[r] # stamps[x]
        BY <1>1, <1>4, <1>8
      <3>2. Before(x, r, stamps)
        BY <1>8, <3>1, BeforeInOrder
      <3>3. QED
        BY <1>5, <3>1, <3>2
    <2>2. QED
      BY <1>1, <1>6, <2>1, FewerRows DEF AheadOf
  <1>9. ASSUME NEW S \in SUBSET Listed, r \in S,
               \A s \in Listed \ S : ~Before(s, r, stamps)
        PROVE  AheadOf(r) < Cardinality(S)
    <2>1. Ahead(r, stamps) \in SUBSET S /\ Ahead(r, stamps) # S
      BY <1>5, <1>6, <1>9
    <2>2. S \in SUBSET Rows
      BY <1>1
    <2>3. QED
      BY <2>1, <2>2, FewerRows DEF AheadOf
  <1>10. ASSUME r \in skipped
         PROVE  AheadOf(r) < n
    <2>1. AheadOf(r) < Cardinality(skipped)
      BY <1>2, <1>9, <1>10
    <2>2. QED
      BY <1>2, <1>7, <2>1
  <1>11. ASSUME r \in rows
         PROVE  AheadOf(r) >= n /\ AheadOf(r) < n + PageSize
    <2>1. r \notin skipped /\ r \in Listed \ skipped
      BY <1>3, <1>11
    <2>2. Cardinality(skipped) = n
      BY <1>2, <2>1
    <2>3. \A x \in skipped : ~Before(r, x, stamps)
      BY <1>2, <2>1
    <2>4. Cardinality(skipped) <= AheadOf(r)
      BY <1>2, <1>8, <2>1, <2>3
    <2>5. skipped \cup rows \in SUBSET Listed /\ r \in skipped \cup rows
      BY <1>2, <1>3, <1>11
    <2>6. \A s \in Listed \ (skipped \cup rows) : ~Before(s, r, stamps)
      BY <1>3, <1>11
    <2>7. AheadOf(r) < Cardinality(skipped \cup rows)
      BY <1>9, <2>5, <2>6
    <2>8. QED
      BY <1>1, <1>3, <1>7, <2>2, <2>4, <2>7
  <1>12. ASSUME r \notin skipped \cup rows
         PROVE  AheadOf(r) >= n + PageSize
    <2>1. r \in Listed \ skipped /\ r \in (Listed \ skipped) \ rows
      BY <1>12
    <2>2. Cardinality(skipped) = n /\ Cardinality(rows) = PageSize
      BY <1>2, <1>3, <2>1
    <2>3. skipped \cup rows \in SUBSET Listed
      BY <1>2, <1>3
    <2>4. \A x \in skipped \cup rows : ~Before(r, x, stamps)
      BY <1>2, <1>3, <2>1
    <2>5. Cardinality(skipped \cup rows) <= AheadOf(r)
      BY <1>8, <1>12, <2>3, <2>4
    <2>6. QED
      BY <1>7, <2>2, <2>5
  <1>13. QED
    BY <1>10, <1>11, <1>12

-----------------------------------------------------------------------------
(* The inductive invariant: a row that was neither written nor shares its   *)
(* stamp is on the side of the border that its having been shown says, and  *)
(* a total that was counted is no smaller than its place in the list.       *)

Border == Skip(walk.page) + IF walk.items THEN PageSize ELSE 0

Missing(r) == r \in Listed /\ shown[r] = 0 /\ r \notin excuse.missed
Uncounted(r) == r \in excuse.missed \cup excuse.torn

BorderHolds ==
    /\ \A r \in Rows : Missing(r) => AheadOf(r) >= Border
    /\ \A r \in Rows : r \notin excuse.twice =>
         shown[r] <= 1 /\ (shown[r] >= 1 => AheadOf(r) < Border)
    /\ Tied(stamps) \subseteq excuse.missed \cap excuse.twice

TotalHolds ==
    /\ walk.counted /\ ~walk.items =>
         \A r \in Listed : ~Uncounted(r) => AheadOf(r) < walk.total
    /\ walk.counted /\ walk.items =>
         \A r \in Listed : shown[r] = 0 /\ ~Uncounted(r) => walk.total > walk.page * PageSize
    /\ walk.over => walk.items /\ walk.counted /\ TotalPages <= walk.page

ListingInv == ListingTypeOK /\ BorderHolds /\ TotalHolds

LEMMA ListingTypes ==
    ASSUME ListingTypeOK
    PROVE  /\ list \in Lists /\ stamps \in [Rows -> Nat] /\ Listed \in SUBSET Rows
           /\ PageSize \in Nat /\ PageSize > 0 /\ MaxRows \in Nat
           /\ walk.page \in Nat /\ walk.page \in Nat \ {0}
           /\ walk.total \in Nat /\ walk.total <= MaxRows
           /\ walk.items \in BOOLEAN /\ walk.counted \in BOOLEAN /\ walk.over \in BOOLEAN
           /\ Skip(walk.page) \in Nat /\ Border \in Nat
           /\ \A r \in Rows : shown[r] \in Nat /\ AheadOf(r) \in Nat
  <1>1. /\ list \in Lists /\ stamps \in [Rows -> Nat] /\ Listed \in SUBSET Rows
        /\ PageSize \in Nat /\ PageSize > 0 /\ MaxRows \in Nat
    BY ListingAssumption DEF ListingTypeOK, Listed
  <1>2. /\ walk.page \in Nat /\ walk.page \in Nat \ {0}
        /\ walk.total \in Nat /\ walk.total <= MaxRows
        /\ walk.items \in BOOLEAN /\ walk.counted \in BOOLEAN /\ walk.over \in BOOLEAN
    <2>1. /\ walk.page \in 1 .. MaxRows + 1 /\ walk.total \in 0 .. MaxRows
          /\ walk.items \in BOOLEAN /\ walk.counted \in BOOLEAN /\ walk.over \in BOOLEAN
      BY DEF ListingTypeOK
    <2>2. QED
      BY <1>1, <2>1
  <1>3. Skip(walk.page) \in Nat
    BY <1>2, SkipGrows
  <1>4. Border \in Nat
    BY <1>1, <1>2, <1>3 DEF Border
  <1>5. \A r \in Rows : shown[r] \in Nat
    BY DEF ListingTypeOK
  <1>6. \A r \in Rows : AheadOf(r) \in Nat
    BY RowSets DEF AheadOf, Ahead
  <1>7. QED
    BY <1>1, <1>2, <1>3, <1>4, <1>5, <1>6

LEMMA ListingInitOK ==
    ASSUME ListingInit
    PROVE  ListingInv
  <1>1. /\ MaxStamp \in Nat /\ MaxStamp > 0 /\ MaxRows \in Nat /\ MaxWrites \in Nat
    BY ListingAssumption
  <1>2. stamps \in [Rows -> 0 .. MaxStamp - 1]
    BY DEF ListingInit
  <1>3. now \in 1 .. MaxStamp
    <2> DEFINE given == {1} \cup {stamps[r] : r \in Rows}
    <2>1. \A r \in Rows : stamps[r] \in 0 .. MaxStamp - 1
      BY <1>2
    <2>2. given \in SUBSET (0 .. MaxStamp) /\ given # {} /\ 1 \in given
      BY <1>1, <2>1
    <2>3. Max(given) \in given /\ \A n \in given : n <= Max(given)
      BY <1>1, <2>2, GreatestNumber
    <2>4. now = Max(given)
      BY DEF ListingInit
    <2>5. QED
      BY <1>1, <2>2, <2>3, <2>4
  <1>4. ListingTypeOK
    <2>1. stamps \in [Rows -> 0 .. MaxStamp]
      <3>1. \A r \in Rows : stamps[r] \in 0 .. MaxStamp
        BY <1>1, <1>2
      <3>2. QED
        BY <1>2, <3>1
    <2>2. walk \in [page : 1 .. MaxRows + 1, items : BOOLEAN, counted : BOOLEAN,
                    total : 0 .. MaxRows, over : BOOLEAN]
      BY <1>1 DEF ListingInit, PageStart
    <2>3. Tied(stamps) \subseteq Rows
      BY DEF Tied
    <2>4. /\ writes \in 0 .. MaxWrites /\ shown \in [Rows -> Nat] /\ list \in Lists
          /\ excuse \in [missed : SUBSET Rows, twice : SUBSET Rows, torn : SUBSET Rows]
      BY <1>1, <2>3 DEF ListingInit
    <2>5. QED
      BY <1>3, <2>1, <2>2, <2>4 DEF ListingTypeOK
  <1>5. /\ walk.page = 1 /\ ~walk.items /\ ~walk.counted /\ ~walk.over
        /\ \A r \in Rows : shown[r] = 0
        /\ excuse.missed = Tied(stamps) /\ excuse.twice = Tied(stamps)
    BY DEF ListingInit, PageStart
  <1>6. Border = 0
    <2>1. Skip(1) = 0
      BY SkipGrows
    <2>2. QED
      BY <1>5, <2>1 DEF Border
  <1>7. \A r \in Rows : AheadOf(r) \in Nat
    BY <1>4, ListingTypes
  <1>8. BorderHolds
    BY <1>5, <1>6, <1>7 DEF BorderHolds
  <1>9. TotalHolds
    BY <1>5 DEF TotalHolds
  <1>10. QED
    BY <1>4, <1>8, <1>9 DEF ListingInv

-----------------------------------------------------------------------------
(* The statements of a page.                                                *)

LEMMA FindManyKeepsListing ==
    ASSUME ListingInv, FindMany
    PROVE  ListingInv'
  <1>1. PICK skipped \in First(Listed, Skip(walk.page)) :
          \E rows \in First(Listed \ skipped, PageSize) :
            shown' = [r \in Rows |-> IF r \in rows THEN shown[r] + 1 ELSE shown[r]]
    BY DEF FindMany
  <1>2. PICK rows \in First(Listed \ skipped, PageSize) :
          shown' = [r \in Rows |-> IF r \in rows THEN shown[r] + 1 ELSE shown[r]]
    BY <1>1
  <1>3. /\ ~walk.over /\ ~walk.items
        /\ walk' = [walk EXCEPT !.items = TRUE]
        /\ list' = list /\ stamps' = stamps /\ now' = now /\ writes' = writes
        /\ excuse' = excuse
    BY DEF FindMany
  <1>4. ListingTypeOK
    BY DEF ListingInv
  <1>5. /\ walk'.page = walk.page /\ walk'.items /\ walk'.counted = walk.counted
        /\ walk'.total = walk.total /\ walk'.over = walk.over
        /\ walk' \in [page : 1 .. MaxRows + 1, items : BOOLEAN, counted : BOOLEAN,
                      total : 0 .. MaxRows, over : BOOLEAN]
    BY <1>3, <1>4 DEF ListingTypeOK
  <1>6. ListingTypeOK'
    <2>1. \A r \in Rows : shown[r] \in Nat /\ shown[r] + 1 \in Nat
      BY <1>4, ListingTypes
    <2>2. shown' \in [Rows -> Nat]
      BY <1>2, <2>1
    <2>3. QED
      BY <1>3, <1>4, <1>5, <2>2 DEF ListingTypeOK
  <1>7. /\ Border = Skip(walk.page) /\ Border' = Skip(walk.page) + PageSize
        /\ Border' = walk.page * PageSize
    <2>1. Skip(walk.page + 1) = Skip(walk.page) + PageSize
          /\ Skip(walk.page + 1) = walk.page * PageSize
      BY <1>4, ListingTypes, SkipGrows
    <2>2. Border = Skip(walk.page)
      <3>1. Skip(walk.page) \in Nat
        BY <1>4, ListingTypes
      <3>2. QED
        BY <1>3, <3>1 DEF Border
    <2>3. Border' = Skip(walk.page) + PageSize
      BY <1>5 DEF Border, Skip
    <2>4. QED
      BY <2>1, <2>2, <2>3
  <1>8. \A r \in Rows : AheadOf(r)' = AheadOf(r)
    BY <1>3 DEF AheadOf, Ahead, Before, Rows
  <1>9. Listed' = Listed /\ Tied(stamps)' = Tied(stamps) /\ (Rows)' = Rows
    BY <1>3 DEF Listed, Tied, Rows
  <1>10. Tied(stamps) \subseteq excuse.missed \cap excuse.twice
    BY DEF ListingInv, BorderHolds
  <1>11. ASSUME NEW r \in Listed, r \notin Tied(stamps)
         PROVE  /\ r \in skipped => AheadOf(r) < Border
                /\ r \in rows => AheadOf(r) >= Border /\ AheadOf(r) < Border'
                /\ r \notin skipped \cup rows => AheadOf(r) >= Border'
    <2>1. list \in Lists /\ stamps \in [Rows -> Nat] /\ Skip(walk.page) \in Nat
      BY <1>4, ListingTypes
    <2>2. QED
      BY <1>7, <1>11, <2>1, AfterThePage
  <1>12. \A r \in Rows : Missing(r)' => Missing(r) /\ AheadOf(r) >= Border'
    <2>1. SUFFICES ASSUME NEW r \in Rows, Missing(r)'
                   PROVE  Missing(r) /\ AheadOf(r) >= Border'
      OBVIOUS
    <2>2. r \in Listed /\ r \notin excuse.missed /\ shown'[r] = 0 /\ shown[r] \in Nat
      BY <1>3, <1>4, <1>9, <2>1, ListingTypes DEF Missing
    <2>3. r \notin rows /\ shown[r] = 0
      BY <1>2, <2>2
    <2>4. Missing(r)
      BY <2>2, <2>3 DEF Missing
    <2>5. AheadOf(r) >= Border
      BY <2>4 DEF ListingInv, BorderHolds
    <2>6. r \notin Tied(stamps)
      BY <1>10, <2>2
    <2>7. AheadOf(r) \in Nat /\ Border \in Nat
      BY <1>4, ListingTypes
    <2>8. r \notin skipped
      BY <1>11, <2>2, <2>5, <2>6, <2>7
    <2>9. QED
      BY <1>11, <2>2, <2>3, <2>4, <2>6, <2>8
  <1>13. \A r \in Rows : r \notin excuse.twice =>
           shown'[r] <= 1 /\ (shown'[r] >= 1 => AheadOf(r) < Border')
    <2>1. SUFFICES ASSUME NEW r \in Rows, r \notin excuse.twice
                   PROVE  shown'[r] <= 1 /\ (shown'[r] >= 1 => AheadOf(r) < Border')
      OBVIOUS
    <2>2. /\ shown[r] \in Nat /\ AheadOf(r) \in Nat /\ Border \in Nat
          /\ PageSize \in Nat /\ Border' = Border + PageSize
      BY <1>4, <1>7, ListingTypes
    <2>3. shown[r] <= 1 /\ (shown[r] >= 1 => AheadOf(r) < Border)
      BY <2>1 DEF ListingInv, BorderHolds
    <2>4. CASE r \in rows
      <3>1. r \in Listed
        <4>1. Listed \ skipped \in SUBSET Rows /\ PageSize \in Nat
          BY <1>4, ListingTypes
        <4>2. rows \in SUBSET (Listed \ skipped)
          BY <4>1, FirstOfRows
        <4>3. QED
          BY <2>4, <4>2
      <3>2. r \notin Tied(stamps)
        BY <1>10, <2>1
      <3>3. AheadOf(r) >= Border /\ AheadOf(r) < Border'
        BY <1>11, <2>4, <3>1, <3>2
      <3>4. shown'[r] = shown[r] + 1
        BY <1>2, <2>4
      <3>5. QED
        BY <2>2, <2>3, <3>3, <3>4
    <2>5. CASE r \notin rows
      <3>1. shown'[r] = shown[r]
        BY <1>2, <2>5
      <3>2. QED
        BY <2>2, <2>3, <3>1
    <2>6. QED
      BY <2>4, <2>5
  <1>14. BorderHolds'
    BY <1>3, <1>8, <1>9, <1>10, <1>12, <1>13 DEF BorderHolds
  <1>15. TotalHolds'
    <2>1. ASSUME walk.counted, NEW r \in Listed, shown'[r] = 0, ~Uncounted(r)
          PROVE  walk.total > walk.page * PageSize
      <3>1. r \in Rows
        BY DEF Listed
      <3>2. r \in Listed' /\ r \notin excuse'.missed
        BY <1>3, <1>9, <2>1 DEF Uncounted
      <3>3. Missing(r)'
        BY <2>1, <3>2 DEF Missing
      <3>4. AheadOf(r) >= Border'
        BY <1>12, <3>1, <3>3
      <3>5. AheadOf(r) < walk.total
        BY <1>3, <2>1 DEF ListingInv, TotalHolds
      <3>6. /\ AheadOf(r) \in Nat /\ walk.total \in Nat /\ Border \in Nat /\ PageSize \in Nat
            /\ Border' = Border + PageSize /\ Border' = walk.page * PageSize
        BY <1>4, <1>7, <3>1, ListingTypes
      <3>7. QED
        BY <3>4, <3>5, <3>6
    <2>2. \A r : Uncounted(r)' <=> Uncounted(r)
      BY <1>3 DEF Uncounted
    <2>3. ~walk'.over
      BY <1>3, <1>5
    <2>4. QED
      BY <1>5, <1>9, <2>1, <2>2, <2>3 DEF TotalHolds
  <1>16. QED
    BY <1>6, <1>14, <1>15 DEF ListingInv

LEMMA CountKeepsListing ==
    ASSUME ListingInv, Count
    PROVE  ListingInv'
  <1>1. /\ ~walk.over /\ ~walk.counted
        /\ walk' = [walk EXCEPT !.counted = TRUE, !.total = Cardinality(Listed)]
        /\ list' = list /\ stamps' = stamps /\ now' = now /\ writes' = writes
        /\ shown' = shown /\ excuse' = excuse
    BY DEF Count
  <1>2. ListingTypeOK
    BY DEF ListingInv
  <1>3. Cardinality(Listed) \in 0 .. MaxRows
    <2>1. Cardinality(Listed) \in Nat /\ Cardinality(Listed) <= MaxRows /\ MaxRows \in Nat
      BY <1>2, ListingTypes, RowSets
    <2>2. QED
      BY <2>1
  <1>4. /\ walk'.page = walk.page /\ walk'.items = walk.items /\ walk'.counted
        /\ walk'.total = Cardinality(Listed) /\ walk'.over = walk.over
        /\ walk' \in [page : 1 .. MaxRows + 1, items : BOOLEAN, counted : BOOLEAN,
                      total : 0 .. MaxRows, over : BOOLEAN]
    BY <1>1, <1>2, <1>3 DEF ListingTypeOK
  <1>5. ListingTypeOK'
    BY <1>1, <1>2, <1>4 DEF ListingTypeOK
  <1>6. /\ Border' = Border /\ Listed' = Listed /\ Tied(stamps)' = Tied(stamps)
        /\ \A r : /\ AheadOf(r)' = AheadOf(r)
                  /\ Missing(r)' <=> Missing(r)
                  /\ Uncounted(r)' <=> Uncounted(r)
    BY <1>1, <1>4 DEF Border, Skip, Listed, Tied, AheadOf, Ahead, Before, Missing, Uncounted, Rows
  <1>7. BorderHolds'
    <2>1. BorderHolds
      BY DEF ListingInv
    <2>2. QED
      BY <1>1, <1>6, <2>1 DEF BorderHolds
  <1>8. ASSUME NEW r \in Listed
        PROVE  AheadOf(r) < Cardinality(Listed)
    <2>1. Ahead(r, stamps) \in SUBSET Listed
      BY DEF Ahead, Listed
    <2>2. r \notin Ahead(r, stamps)
      <3>1. list \in Lists /\ stamps \in [Rows -> Nat] /\ r \in Rows
        BY <1>2, ListingTypes DEF Listed
      <3>2. QED
        BY <3>1, BeforeInOrder DEF Ahead
    <2>3. QED
      BY <1>2, <1>8, <2>1, <2>2, ListingTypes, FewerRows DEF AheadOf
  <1>9. ASSUME walk.items, NEW r \in Listed, shown[r] = 0, ~Uncounted(r)
        PROVE  Cardinality(Listed) > walk.page * PageSize
    <2>1. r \in Rows /\ Missing(r)
      BY <1>9 DEF Missing, Uncounted, Listed
    <2>2. AheadOf(r) >= Border
      BY <2>1 DEF ListingInv, BorderHolds
    <2>3. Border = walk.page * PageSize
      BY <1>2, <1>9, ListingTypes, SkipGrows DEF Border
    <2>4. AheadOf(r) \in Nat /\ Border \in Nat /\ Cardinality(Listed) \in Nat
      BY <1>2, <2>1, ListingTypes, RowSets
    <2>5. QED
      BY <1>8, <2>2, <2>3, <2>4
  <1>10. TotalHolds'
    BY <1>1, <1>4, <1>6, <1>8, <1>9 DEF TotalHolds
  <1>11. QED
    BY <1>5, <1>7, <1>10 DEF ListingInv

LEMMA NextPageKeepsListing ==
    ASSUME ListingInv, NextPage
    PROVE  ListingInv'
  <1>1. /\ ~walk.over /\ walk.items /\ walk.counted
        /\ list' = list /\ stamps' = stamps /\ now' = now /\ writes' = writes /\ shown' = shown
    BY DEF NextPage
  <1>2. ListingTypeOK
    BY DEF ListingInv
  <1>3. /\ Listed' = Listed /\ Tied(stamps)' = Tied(stamps)
        /\ \A r : AheadOf(r)' = AheadOf(r)
    BY <1>1 DEF Listed, Tied, AheadOf, Ahead, Before, Rows
  <1>4. /\ TotalPages \in Nat /\ TotalPages <= walk.total
        /\ walk.total \in Nat /\ walk.total <= MaxRows /\ MaxRows \in Nat
        /\ walk.page \in Nat \ {0}
    <2>1. walk.total \in Nat
      BY <1>2, ListingTypes
    <2>2. TotalPages \in Nat /\ TotalPages <= walk.total
      BY <2>1, PagesNeeded DEF TotalPages
    <2>3. QED
      BY <1>2, <2>2, ListingTypes
  <1>5. CASE walk.page >= TotalPages
    <2>1. walk' = [walk EXCEPT !.over = TRUE]
      BY <1>5 DEF NextPage
    <2>2. /\ walk'.over /\ walk'.items = walk.items /\ walk'.counted = walk.counted
          /\ walk'.page = walk.page /\ walk'.total = walk.total
          /\ walk' \in [page : 1 .. MaxRows + 1, items : BOOLEAN, counted : BOOLEAN,
                        total : 0 .. MaxRows, over : BOOLEAN]
      BY <1>2, <2>1 DEF ListingTypeOK
    <2>3. excuse' = excuse
      BY <2>2 DEF NextPage
    <2>4. ListingTypeOK'
      BY <1>1, <1>2, <2>2, <2>3 DEF ListingTypeOK
    <2>5. /\ Border' = Border
          /\ \A r : (Missing(r)' <=> Missing(r)) /\ (Uncounted(r)' <=> Uncounted(r))
      BY <1>1, <1>3, <2>2, <2>3 DEF Border, Skip, Missing, Uncounted
    <2>6. BorderHolds'
      <3>1. BorderHolds
        BY DEF ListingInv
      <3>2. QED
        BY <1>1, <1>3, <2>3, <2>5, <3>1 DEF BorderHolds, Rows
    <2>7. TotalPages' <= walk'.page
      <3>1. TotalPages' = TotalPages
        BY <2>2 DEF TotalPages
      <3>2. QED
        BY <1>4, <1>5, <2>2, <3>1
    <2>8. \A r \in Listed : shown[r] = 0 /\ ~Uncounted(r) => walk.total > walk.page * PageSize
      BY <1>1 DEF ListingInv, TotalHolds
    <2>9. TotalHolds'
      BY <1>1, <1>3, <2>2, <2>5, <2>7, <2>8 DEF TotalHolds
    <2>10. QED
      BY <2>4, <2>6, <2>9 DEF ListingInv
  <1>6. CASE ~ (walk.page >= TotalPages)
    <2>1. walk' = PageStart(walk.page + 1)
      BY <1>6 DEF NextPage
    <2>2. /\ walk'.page = walk.page + 1 /\ ~walk'.items /\ ~walk'.counted /\ ~walk'.over
          /\ walk'.total = 0 /\ walk'.items = FALSE
      BY <2>1 DEF PageStart
    <2>3. walk' \in [page : 1 .. MaxRows + 1, items : BOOLEAN, counted : BOOLEAN,
                     total : 0 .. MaxRows, over : BOOLEAN]
      <3>1. walk.page + 1 \in 1 .. MaxRows + 1 /\ 0 \in 0 .. MaxRows
        BY <1>4, <1>6
      <3>2. QED
        BY <2>1, <3>1 DEF PageStart
    <2>4. excuse' = [excuse EXCEPT !.torn = {}]
      BY <2>2 DEF NextPage
    <2>5. /\ excuse'.missed = excuse.missed /\ excuse'.twice = excuse.twice
          /\ excuse' \in [missed : SUBSET Rows, twice : SUBSET Rows, torn : SUBSET Rows]
      BY <1>2, <2>4 DEF ListingTypeOK
    <2>6. ListingTypeOK'
      BY <1>1, <1>2, <2>3, <2>5 DEF ListingTypeOK, Rows
    <2>7. Border' = Border
      <3>1. /\ Skip(walk.page + 1) = Skip(walk.page) + PageSize
            /\ Skip(walk.page + 1) \in Nat
        BY <1>4, SkipGrows
      <3>2. Skip(walk.page)' = Skip(walk.page + 1)
        BY <2>2 DEF Skip
      <3>3. Border' = Skip(walk.page + 1)
        BY <2>2, <3>1, <3>2 DEF Border
      <3>4. Border = Skip(walk.page) + PageSize
        BY <1>1 DEF Border
      <3>5. QED
        BY <3>1, <3>3, <3>4
    <2>8. \A r : Missing(r)' <=> Missing(r)
      BY <1>1, <1>3, <2>5 DEF Missing
    <2>9. BorderHolds'
      <3>1. BorderHolds
        BY DEF ListingInv
      <3>2. QED
        BY <1>1, <1>3, <2>5, <2>7, <2>8, <3>1 DEF BorderHolds, Rows
    <2>10. TotalHolds'
      BY <2>2 DEF TotalHolds
    <2>11. QED
      BY <2>6, <2>9, <2>10 DEF ListingInv
  <1>7. QED
    BY <1>5, <1>6

-----------------------------------------------------------------------------
(* The writes: whatever one does to a row it leaves alone is written down.  *)

LEMMA WriteKeepsListing ==
    ASSUME ListingInv, NEW r \in Rows, NEW stamp \in 0 .. MaxStamp, Write(r, stamp),
           now' \in 1 .. MaxStamp
    PROVE  ListingInv'
  <1> DEFINE at == [stamps EXCEPT ![r] = stamp]
             up == {s \in Rows : Cardinality(Ahead(s, at)) < Cardinality(Ahead(s, stamps))}
             down == {s \in Rows : Cardinality(Ahead(s, at)) > Cardinality(Ahead(s, stamps))}
  <1>1. /\ ~walk.over /\ writes < MaxWrites /\ writes' = writes + 1
        /\ stamps' = at /\ list' = list /\ walk' = walk /\ shown' = shown
        /\ excuse' =
             [missed |-> excuse.missed \cup up \cup {r} \cup Tied(at),
              twice |-> excuse.twice \cup down \cup {r} \cup Tied(at),
              torn |-> IF walk.counted /\ ~walk.items THEN excuse.torn \cup down ELSE excuse.torn]
    BY DEF Write
  <1>2. ListingTypeOK
    BY DEF ListingInv
  <1>3. /\ excuse'.missed = excuse.missed \cup up \cup {r} \cup Tied(at)
        /\ excuse'.twice = excuse.twice \cup down \cup {r} \cup Tied(at)
        /\ excuse.torn \subseteq excuse'.torn
        /\ walk.counted /\ ~walk.items => down \subseteq excuse'.torn
    BY <1>1
  <1>4. ListingTypeOK'
    <2>1. at \in [Rows -> 0 .. MaxStamp]
      BY <1>2 DEF ListingTypeOK
    <2>2. Tied(at) \subseteq Rows /\ up \subseteq Rows /\ down \subseteq Rows
      BY DEF Tied
    <2>3. excuse' \in [missed : SUBSET Rows, twice : SUBSET Rows, torn : SUBSET Rows]
      BY <1>1, <1>2, <2>2 DEF ListingTypeOK
    <2>4. writes' \in 0 .. MaxWrites
      BY <1>1, <1>2, ListingAssumption DEF ListingTypeOK
    <2>5. QED
      BY <1>1, <1>2, <2>1, <2>3, <2>4 DEF ListingTypeOK, Rows
  <1>5. /\ Tied(stamps)' = Tied(at)
        /\ \A s \in Rows : AheadOf(s)' = Cardinality(Ahead(s, at))
    BY <1>1 DEF AheadOf, Ahead, Before, Tied, Rows
  <1>6. \A s \in Rows : AheadOf(s) \in Nat /\ AheadOf(s)' \in Nat
    <2>1. \A s \in Rows : Ahead(s, at) \in SUBSET Rows
      BY DEF Ahead
    <2>2. \A s \in Rows : Cardinality(Ahead(s, at)) \in Nat
      BY <2>1, RowSets
    <2>3. QED
      BY <1>2, <1>5, <2>2, ListingTypes
  <1>7. ASSUME NEW s \in Rows
        PROVE  /\ s \notin up => AheadOf(s)' >= AheadOf(s)
               /\ s \notin down => AheadOf(s)' <= AheadOf(s)
    <2>1. /\ s \notin up => ~ (AheadOf(s)' < AheadOf(s))
          /\ s \notin down => ~ (AheadOf(s)' > AheadOf(s))
      BY <1>5 DEF AheadOf
    <2>2. AheadOf(s) \in Nat /\ AheadOf(s)' \in Nat
      BY <1>6
    <2>3. QED
      BY <2>1, <2>2
  <1>8. \A s \in Rows : s # r => stamps'[s] = stamps[s]
    BY <1>1, <1>2 DEF ListingTypeOK
  <1>9. \A s \in Rows : s # r => (s \in Listed' <=> s \in Listed)
    BY <1>8 DEF Listed, Rows
  <1>10. Border' = Border /\ Border \in Nat
    BY <1>1, <1>2, ListingTypes DEF Border, Skip
  <1>11. \A s \in Rows : Missing(s)' => AheadOf(s)' >= Border'
    <2>1. SUFFICES ASSUME NEW s \in Rows, Missing(s)'
                   PROVE  AheadOf(s)' >= Border'
      OBVIOUS
    <2>2. s # r /\ s \notin up /\ s \notin excuse.missed
      BY <1>3, <2>1 DEF Missing
    <2>3. Missing(s)
      BY <1>1, <1>9, <2>1, <2>2 DEF Missing
    <2>4. AheadOf(s) >= Border
      BY <2>3 DEF ListingInv, BorderHolds
    <2>5. QED
      BY <1>6, <1>7, <1>10, <2>2, <2>4
  <1>12. \A s \in Rows : s \notin excuse'.twice =>
           shown'[s] <= 1 /\ (shown'[s] >= 1 => AheadOf(s)' < Border')
    <2>1. SUFFICES ASSUME NEW s \in Rows, s \notin excuse'.twice
                   PROVE  shown'[s] <= 1 /\ (shown'[s] >= 1 => AheadOf(s)' < Border')
      OBVIOUS
    <2>2. s \notin down /\ s \notin excuse.twice
      BY <1>3, <2>1
    <2>3. shown[s] <= 1 /\ (shown[s] >= 1 => AheadOf(s) < Border)
      BY <2>2 DEF ListingInv, BorderHolds
    <2>4. shown'[s] = shown[s] /\ AheadOf(s)' <= AheadOf(s)
      BY <1>1, <1>7, <2>2
    <2>5. AheadOf(s) \in Nat /\ AheadOf(s)' \in Nat
      BY <1>6
    <2>6. QED
      BY <1>10, <2>3, <2>4, <2>5
  <1>13. BorderHolds'
    BY <1>3, <1>5, <1>11, <1>12 DEF BorderHolds, Rows
  <1>14. \A s \in Listed' : ~Uncounted(s)' =>
           /\ s \in Listed /\ ~Uncounted(s) /\ s \in Rows
           /\ walk.counted /\ ~walk.items => s \notin down
    <2>1. SUFFICES ASSUME NEW s \in Listed', ~Uncounted(s)'
                   PROVE  /\ s \in Listed /\ ~Uncounted(s) /\ s \in Rows
                          /\ walk.counted /\ ~walk.items => s \notin down
      OBVIOUS
    <2>2. s \in Rows
      BY DEF Listed, Rows
    <2>3. s \notin excuse'.missed /\ s \notin excuse'.torn
      BY <2>1 DEF Uncounted
    <2>4. s # r
      BY <1>3, <2>3
    <2>5. QED
      BY <1>3, <1>9, <2>1, <2>2, <2>3, <2>4 DEF Uncounted
  <1>15. TotalHolds'
    <2>1. ASSUME walk.counted, ~walk.items, NEW s \in Listed', ~Uncounted(s)'
          PROVE  AheadOf(s)' < walk.total
      <3>1. s \in Listed /\ ~Uncounted(s) /\ s \in Rows /\ s \notin down
        BY <1>14, <2>1
      <3>2. AheadOf(s) < walk.total
        BY <2>1, <3>1 DEF ListingInv, TotalHolds
      <3>3. AheadOf(s) \in Nat /\ AheadOf(s)' \in Nat /\ walk.total \in Nat
        BY <1>2, <1>6, <3>1, ListingTypes
      <3>4. AheadOf(s)' <= AheadOf(s)
        BY <1>7, <3>1
      <3>5. QED
        BY <3>2, <3>3, <3>4
    <2>2. ASSUME walk.counted, walk.items, NEW s \in Listed', shown[s] = 0, ~Uncounted(s)'
          PROVE  walk.total > walk.page * PageSize
      <3>1. s \in Listed /\ ~Uncounted(s)
        BY <1>14, <2>2
      <3>2. QED
        BY <2>2, <3>1 DEF ListingInv, TotalHolds
    <2>3. QED
      BY <1>1, <2>1, <2>2 DEF TotalHolds
  <1>16. QED
    BY <1>4, <1>13, <1>15 DEF ListingInv

LEMMA DatedInRange ==
    ASSUME ListingTypeOK, NEW s \in Fresh, Dated(s)
    PROVE  s \in 0 .. MaxStamp /\ now' \in 1 .. MaxStamp
  <1>1. s \in 1 .. MaxStamp /\ now \in 1 .. MaxStamp /\ MaxStamp \in Nat
    BY ListingAssumption DEF ListingTypeOK, Fresh
  <1>2. s \in Nat /\ now \in Nat
    BY <1>1
  <1>3. now' = IF now >= s THEN now ELSE s
    BY <1>2, GreatestOfTwo DEF Dated
  <1>4. QED
    BY <1>1, <1>3

LEMMA ListingStepOK ==
    ASSUME ListingInv, [ListingNext]_listingVars
    PROVE  ListingInv'
  <1> USE DEF ListingInv
  <1>1. CASE FindMany
    BY <1>1, FindManyKeepsListing
  <1>2. CASE Count
    BY <1>2, CountKeepsListing
  <1>3. CASE NextPage
    BY <1>3, NextPageKeepsListing
  <1>4. CASE Insert
    <2>1. PICK r \in Rows \ Listed, s \in Fresh : Write(r, s) /\ Dated(s)
      BY <1>4 DEF Insert
    <2>2. r \in Rows /\ s \in 0 .. MaxStamp /\ now' \in 1 .. MaxStamp
      BY <2>1, DatedInRange
    <2>3. QED
      BY <2>1, <2>2, WriteKeepsListing
  <1>5. CASE Touch
    <2>1. PICK r \in Listed, s \in Fresh : Write(r, s) /\ Dated(s)
      BY <1>5 DEF Touch
    <2>2. r \in Rows /\ s \in 0 .. MaxStamp /\ now' \in 1 .. MaxStamp
      BY <2>1, DatedInRange, ListingTypes
    <2>3. QED
      BY <2>1, <2>2, WriteKeepsListing
  <1>6. CASE Leave
    <2>1. PICK r \in Listed : Write(r, 0)
      BY <1>6 DEF Leave
    <2>2. r \in Rows /\ 0 \in 0 .. MaxStamp /\ now' \in 1 .. MaxStamp
      BY <1>6, ListingAssumption DEF Leave, ListingTypeOK, Listed
    <2>3. QED
      BY <2>1, <2>2, WriteKeepsListing
  <1>7. CASE Reenter
    <2>1. PICK r \in Rows \ Listed, s \in 1 .. now : Write(r, s)
      BY <1>7 DEF Reenter
    <2>2. now' = now /\ now \in 1 .. MaxStamp /\ MaxStamp \in Nat
      BY <1>7, ListingAssumption DEF Reenter, ListingTypeOK
    <2>3. r \in Rows /\ s \in 0 .. MaxStamp /\ now' \in 1 .. MaxStamp
      BY <2>1, <2>2
    <2>4. QED
      BY <2>1, <2>3, WriteKeepsListing
  <1>8. CASE UNCHANGED listingVars
    BY <1>8 DEF listingVars, ListingTypeOK, BorderHolds, TotalHolds, TotalPages, Border, Skip,
                Missing, Uncounted, AheadOf, Ahead, Before, Listed, Tied, Rows
  <1>9. QED
    BY <1>1, <1>2, <1>3, <1>4, <1>5, <1>6, <1>7, <1>8 DEF ListingNext

LEMMA ListingInvImplies ==
    ASSUME ListingInv
    PROVE  ListingTypeOK /\ ShownOnce
  <1>1. ListingTypeOK
    BY DEF ListingInv
  <1>2. ASSUME walk.over, NEW r \in Listed, shown[r] = 0, ~Uncounted(r)
        PROVE  FALSE
    <2>1. walk.items /\ walk.counted /\ TotalPages <= walk.page
      BY <1>2 DEF ListingInv, TotalHolds
    <2>2. walk.total > walk.page * PageSize
      BY <1>2, <2>1 DEF ListingInv, TotalHolds
    <2>3. walk.total \in Nat /\ walk.page \in Nat /\ PageSize \in Nat
      BY <1>1, ListingTypes
    <2>4. walk.total <= walk.page * PageSize
      BY <2>1, <2>3, PagesNeeded DEF TotalPages
    <2>5. walk.page * PageSize \in Nat
      BY <2>3
    <2>6. QED
      BY <2>2, <2>3, <2>4, <2>5
  <1>3. ASSUME NEW r \in Rows, shown[r] > 1
        PROVE  r \in excuse.twice
    <2>1. shown[r] \in Nat
      BY <1>1, ListingTypes
    <2>2. QED
      BY <1>3, <2>1 DEF ListingInv, BorderHolds
  <1>4. QED
    BY <1>1, <1>2, <1>3 DEF ShownOnce, Uncounted

(* Whatever is written while a list is walked, and whichever statement of a *)
(* page is answered first: a row is missed or shown twice only for one of   *)
(* the reasons ShownOnce allows.                                            *)
THEOREM ListsShowOnce == ListingSpec => []ShownOnce
  <1>1. ListingInit => ListingInv
    BY ListingInitOK
  <1>2. ListingInv /\ [ListingNext]_listingVars => ListingInv'
    BY ListingStepOK
  <1>3. ListingInv => ShownOnce
    BY ListingInvImplies
  <1>4. QED
    BY <1>1, <1>2, <1>3, PTL DEF ListingSpec

(* The pages stay within the rows there are and the stamps within the run.  *)
THEOREM ListingTypeCorrect == ListingSpec => []ListingTypeOK
  <1>1. ListingInit => ListingInv
    BY ListingInitOK
  <1>2. ListingInv /\ [ListingNext]_listingVars => ListingInv'
    BY ListingStepOK
  <1>3. ListingInv => ListingTypeOK
    BY ListingInvImplies
  <1>4. QED
    BY <1>1, <1>2, <1>3, PTL DEF ListingSpec

-----------------------------------------------------------------------------
(* One row changes: what it does to the size of a set, and to the parts of  *)
(* a total, of which each was counted before, or is counted now.            *)

OneIf(b) == IF b THEN 1 ELSE 0

LEMMA OneRowMoves ==
    ASSUME NEW S, NEW T, IsFiniteSet(S), IsFiniteSet(T), NEW i, S \ {i} = T \ {i}
    PROVE  /\ Cardinality(S) \in Nat /\ Cardinality(T) \in Nat
           /\ Cardinality(T) = Cardinality(S) - OneIf(i \in S) + OneIf(i \in T)
  <1>1. Cardinality(S) \in Nat /\ Cardinality(T) \in Nat
    BY FS_CardinalityType
  <1>2. Cardinality(S \ {i}) = Cardinality(S) - OneIf(i \in S)
    BY <1>1, FS_RemoveElement DEF OneIf
  <1>3. Cardinality(T \ {i}) = Cardinality(T) - OneIf(i \in T)
    BY <1>1, FS_RemoveElement DEF OneIf
  <1>4. OneIf(i \in S) \in 0 .. 1 /\ OneIf(i \in T) \in 0 .. 1
    BY DEF OneIf
  <1>5. Cardinality(S \ {i}) = Cardinality(T \ {i})
    OBVIOUS
  <1>6. QED
    BY <1>1, <1>2, <1>3, <1>4, <1>5

LEMMA ApartBounds ==
    ASSUME NEW m \in Int, NEW k \in Int, NEW n \in Int
    PROVE  /\ Apart(m, k) \in Nat
           /\ Apart(m, k) <= n <=> m - k <= n /\ k - m <= n
  BY DEF Apart

LEMMA RestOfTotal ==
    ASSUME NEW t \in Nat, NEW a \in Nat, NEW c \in Nat, NEW n \in Nat,
           Apart(t, a + c + 0) <= n
    PROVE  Apart(t - a, c) <= n
  BY DEF Apart

(* x is the size of s, or was counted earlier; y is that of what the write  *)
(* of row i makes of s, or was counted earlier too.                         *)
Moves(i, s, u, x, y) ==
    /\ IsFiniteSet(s) /\ IsFiniteSet(u) /\ s \ {i} = u \ {i}
    /\ x \in Nat /\ y \in Nat
    /\ y = x \/ (x = Cardinality(s) /\ y = Cardinality(u))

Parted(i, t, a, b, c) ==
    /\ i \in t <=> i \in a \/ i \in b \/ i \in c
    /\ ~ (i \in a /\ i \in b) /\ ~ (i \in a /\ i \in c) /\ ~ (i \in b /\ i \in c)

LEMMA PartsStayClose ==
    ASSUME NEW sT, NEW sA, NEW sB, NEW sC, NEW uT, NEW uA, NEW uB, NEW uC, NEW i,
           Parted(i, sT, sA, sB, sC), Parted(i, uT, uA, uB, uC),
           NEW t, NEW a, NEW b, NEW c, NEW t2, NEW a2, NEW b2, NEW c2,
           Moves(i, sT, uT, t, t2), Moves(i, sA, uA, a, a2),
           Moves(i, sB, uB, b, b2), Moves(i, sC, uC, c, c2),
           NEW n \in Nat, Apart(t, a + b + c) <= n
    PROVE  Apart(t2, a2 + b2 + c2) <= n + 1
  <1> DEFINE wasT == OneIf(i \in sT)
             wasA == OneIf(i \in sA)
             wasB == OneIf(i \in sB)
             wasC == OneIf(i \in sC)
             isT == OneIf(i \in uT)
             isA == OneIf(i \in uA)
             isB == OneIf(i \in uB)
             isC == OneIf(i \in uC)
  <1>1. /\ t2 = t \/ t2 = t - wasT + isT
        /\ a2 = a \/ a2 = a - wasA + isA
        /\ b2 = b \/ b2 = b - wasB + isB
        /\ c2 = c \/ c2 = c - wasC + isC
    <2>1. Cardinality(uT) = Cardinality(sT) - wasT + isT
      BY OneRowMoves DEF Moves
    <2>2. Cardinality(uA) = Cardinality(sA) - wasA + isA
      BY OneRowMoves DEF Moves
    <2>3. Cardinality(uB) = Cardinality(sB) - wasB + isB
      BY OneRowMoves DEF Moves
    <2>4. Cardinality(uC) = Cardinality(sC) - wasC + isC
      BY OneRowMoves DEF Moves
    <2>5. QED
      BY <2>1, <2>2, <2>3, <2>4 DEF Moves
  <1>2. /\ wasA \in 0 .. 1 /\ wasB \in 0 .. 1 /\ wasC \in 0 .. 1
        /\ wasT = wasA + wasB + wasC /\ wasA + wasB + wasC <= 1
    BY DEF OneIf, Parted
  <1>3. /\ isA \in 0 .. 1 /\ isB \in 0 .. 1 /\ isC \in 0 .. 1
        /\ isT = isA + isB + isC /\ isA + isB + isC <= 1
    BY DEF OneIf, Parted
  <1>4. t - (a + b + c) <= n /\ (a + b + c) - t <= n
    BY ApartBounds DEF Moves
  <1>. t \in Nat /\ a \in Nat /\ b \in Nat /\ c \in Nat
       /\ t2 \in Nat /\ a2 \in Nat /\ b2 \in Nat /\ c2 \in Nat
    BY DEF Moves
  <1> HIDE DEF wasT, wasA, wasB, wasC, isT, isA, isB, isC
  <1>5. t2 - (a2 + b2 + c2) <= n + 1 /\ (a2 + b2 + c2) - t2 <= n + 1
    BY <1>1, <1>2, <1>3, <1>4
  <1>6. QED
    BY <1>5, ApartBounds

-----------------------------------------------------------------------------
(* The statements and the writes.                                           *)

CountIn(d, f) == {i \in DOMAIN d : Reported(d[i]) /\ Where(f, d[i])}
InactiveIn(d) == {i \in DOMAIN d : ~d[i].isActive}
CurrentNow == {i \in DOMAIN data : data[i].ok /\ data[i].at >= task.from /\ data[i].at < task.to}

LEMMA ItemSets ==
    ASSUME NEW S \in SUBSET Items
    PROVE  /\ IsFiniteSet(S) /\ Cardinality(S) \in Nat
           /\ Cardinality(S) \in 0 .. Cardinality(Items)
  <1>1. IsFiniteSet(Items) /\ Cardinality(Items) \in Nat
    BY ReportsAssumption, FS_CardinalityType
  <1>2. IsFiniteSet(S) /\ Cardinality(S) <= Cardinality(Items)
    BY <1>1, FS_Subset
  <1>3. Cardinality(S) \in Nat
    BY <1>2, FS_CardinalityType
  <1>4. QED
    BY <1>1, <1>2, <1>3

LEMMA DataSets ==
    ASSUME ReportsTypeOK
    PROVE  /\ \A f : CountIn(data, f) \in SUBSET Items /\ Counted(f) = Cardinality(CountIn(data, f))
           /\ InactiveIn(data) \in SUBSET Items /\ InDays \in SUBSET Items
           /\ CurrentNow \in SUBSET Items /\ CurrentPeriod = Cardinality(CurrentNow)
  BY DEF ReportsTypeOK, CountIn, Counted, InactiveIn, InDays, CurrentNow, CurrentPeriod

LEMMA ValueInRange ==
    ASSUME ReportsTypeOK, NEW f
    PROVE  Value(f) \in 0 .. Cardinality(Items)
  <1>1. CASE f = "ping"
    <2>1. Cardinality(Items) # 0 /\ Cardinality(Items) \in Nat
      BY ReportsAssumption, FS_EmptySet, FS_CardinalityType
    <2>2. Value(f) = IF dbUp THEN 1 ELSE 0
      BY <1>1 DEF Value
    <2>3. QED
      BY <2>1, <2>2
  <1>2. CASE f = "byDay"
    <2>1. {i \in InDays : DayOf(data[i]) \in KeptDays} \in SUBSET Items
      BY DataSets
    <2>2. Value(f) = ByDay
      BY <1>2 DEF Value
    <2>3. QED
      BY <2>1, <2>2, ItemSets DEF ByDay
  <1>3. CASE f = "current"
    <2>1. Value(f) = CurrentPeriod
      BY <1>3 DEF Value
    <2>2. QED
      BY <2>1, DataSets, ItemSets
  <1>4. CASE f \notin {"ping", "byDay", "current"}
    <2>1. Value(f) = Counted(f)
      BY <1>4 DEF Value
    <2>2. QED
      BY <2>1, DataSets, ItemSets
  <1>5. QED
    BY <1>1, <1>2, <1>3, <1>4

LEMMA KindsOfReport ==
    ASSUME ReportsTypeOK
    PROVE  /\ task.kind \in {"dashboard", "health", "check", "analytics", "summary"}
           /\ task.table \in {"users", "subscriptions", "providers", "logs"}
           /\ task.from \in Nat /\ task.to \in Nat
           /\ task.kind = "health" => task.table = "providers"
           /\ task.kind \in {"analytics", "summary"} => task.table = "logs"
  <1>1. task \in Tasks
    BY DEF ReportsTypeOK
  <1>2. task \in [kind : {"dashboard", "health", "check", "analytics", "summary"},
                 table : {"users", "subscriptions", "providers", "logs"},
                 from : Nat, to : Nat]
    BY <1>1, ReportsAssumption
  <1>3. /\ task.kind = "health" => task.table = "providers"
        /\ task.kind \in {"analytics", "summary"} => task.table = "logs"
    <2>1. \A t \in Tasks : /\ t.kind = "health" => t.table = "providers"
                           /\ t.kind \in {"analytics", "summary"} => t.table = "logs"
      BY ReportsAssumption
    <2>2. QED
      BY <1>1, <2>1, Zenon
  <1>4. QED
    BY <1>2, <1>3

LEMMA FiguresOfReport ==
    ASSUME ReportsTypeOK
    PROVE  /\ task.kind = "check" => Figures = {"ping"}
           /\ task.kind # "check" => "total" \in Figures
           /\ task.kind # "check" /\ task.table = "users" =>
                {"active", "inactive", "verified", "unverified"} \subseteq Figures
           /\ task.kind # "check" /\ task.table = "subscriptions" =>
                {"ACTIVE", "CANCELED", "EXPIRED"} \subseteq Figures
           /\ task.kind # "check" /\ task.table = "providers" => "active" \in Figures
           /\ task.kind # "check" /\ task.table = "logs" =>
                {"successful", "failed"} \subseteq Figures
           /\ task.kind = "summary" => ReadLast = {"current"} /\ "current" \in Figures
           /\ task.kind = "analytics" => "byDay" \in Figures
  <1>1. CASE task.kind = "check"
    BY <1>1 DEF Figures
  <1>2. CASE task.kind = "health"
    BY <1>2, KindsOfReport DEF Figures
  <1>3. CASE task.kind = "dashboard"
    BY <1>3, KindsOfReport DEF Figures, DashboardFigures, SubscriptionStatuses
  <1>4. CASE task.kind = "analytics"
    BY <1>4, KindsOfReport DEF Figures
  <1>5. CASE task.kind = "summary"
    BY <1>5, KindsOfReport DEF Figures, ReadLast
  <1>6. QED
    BY <1>1, <1>2, <1>3, <1>4, <1>5, KindsOfReport

(* A write inserts, updates or deletes one row.                             *)
LEMMA WriteIsOfOneRow ==
    ASSUME ReportsTypeOK, TableWritten
    PROVE  \E i \in Items :
             /\ DOMAIN data' \subseteq Items
             /\ \A j \in DOMAIN data' : data'[j] \in RowsOf(task.table)
             /\ \A j : j # i => /\ j \in DOMAIN data' <=> j \in DOMAIN data
                                /\ j \in DOMAIN data => data'[j] = data[j]
  <1>1. DOMAIN data \subseteq Items /\ \A j \in DOMAIN data : data[j] \in RowsOf(task.table)
    BY DEF ReportsTypeOK
  <1>2. CASE \E i \in Items \ DOMAIN data, v \in RowsOf(task.table) :
               data' = [j \in DOMAIN data \cup {i} |-> IF j = i THEN v ELSE data[j]]
    <2>1. PICK i \in Items \ DOMAIN data, v \in RowsOf(task.table) :
            data' = [j \in DOMAIN data \cup {i} |-> IF j = i THEN v ELSE data[j]]
      BY <1>2
    <2>2. DOMAIN data' = DOMAIN data \cup {i}
      BY <2>1
    <2>3. \A j \in DOMAIN data \cup {i} : data'[j] = IF j = i THEN v ELSE data[j]
      BY <2>1
    <2>4. QED
      BY <1>1, <2>1, <2>2, <2>3
  <1>3. CASE \E i \in DOMAIN data, v \in RowsOf(task.table) : data' = [data EXCEPT ![i] = v]
    <2>1. PICK i \in DOMAIN data, v \in RowsOf(task.table) : data' = [data EXCEPT ![i] = v]
      BY <1>3
    <2>2. DOMAIN data' = DOMAIN data
      BY <2>1
    <2>3. \A j \in DOMAIN data : data'[j] = IF j = i THEN v ELSE data[j]
      BY <2>1
    <2>4. QED
      BY <1>1, <2>1, <2>2, <2>3
  <1>4. CASE \E i \in DOMAIN data : data' = Restrict(data, DOMAIN data \ {i})
    <2>1. PICK i \in DOMAIN data : data' = Restrict(data, DOMAIN data \ {i})
      BY <1>4
    <2>2. DOMAIN data' = DOMAIN data \ {i}
      BY <2>1 DEF Restrict
    <2>3. \A j \in DOMAIN data \ {i} : data'[j] = data[j]
      BY <2>1 DEF Restrict
    <2>4. QED
      BY <1>1, <2>1, <2>2, <2>3
  <1>5. QED
    BY <1>2, <1>3, <1>4 DEF TableWritten

-----------------------------------------------------------------------------
(* The inductive invariant.  A figure that is still to be counted is taken  *)
(* as it would be counted now: then the parts of a total differ from it by  *)
(* no more than the writes so far, at every moment of the report.           *)

Seen(f) == IF f \in DOMAIN figures THEN figures[f] ELSE Counted(f)

PartsHold ==
    /\ task.table = "users" =>
         /\ Apart(Seen("total"), Seen("active") + Seen("inactive") + 0) <= overlaps
         /\ Apart(Seen("total"), Seen("verified") + Seen("unverified") + 0) <= overlaps
    /\ task.table = "subscriptions" =>
         Apart(Seen("total"), Seen("ACTIVE") + Seen("CANCELED") + Seen("EXPIRED")) <= overlaps
    /\ task.table = "logs" =>
         Apart(Seen("total"), Seen("successful") + Seen("failed") + 0) <= overlaps
    /\ task.table = "providers" =>
         Apart(Seen("total"), Seen("active") + Cardinality(InactiveIn(data)) + 0) <= overlaps

(* The current period is counted after the successful requests, and is one  *)
(* of theirs and of what was logged since.                                  *)
CurrentHolds ==
    task.kind = "summary" =>
      /\ "successful" \in DOMAIN figures =>
           Counted("successful") <= figures["successful"] + overlaps
      /\ "current" \in DOMAIN figures =>
           /\ "successful" \in DOMAIN figures
           /\ figures["current"] <= figures["successful"] + overlaps

DaysHold ==
    task.kind = "analytics" /\ overlaps = 0 =>
      /\ "total" \in DOMAIN figures => figures["total"] = Counted("total")
      /\ "byDay" \in DOMAIN figures => figures["byDay"] = ByDay

(* While the database neither goes nor comes, what was counted says which   *)
(* of the two it was.                                                       *)
PingHolds ==
    blips = 0 =>
      /\ "ping" \in DOMAIN figures /\ figures["ping"] = 0 => ~dbUp
      /\ (\E f \in DOMAIN figures : f # "ping") => dbUp

OutcomeHolds ==
    /\ outcome = "answered" => DOMAIN figures = Figures
    /\ task.kind = "check" => outcome # "refused"

ReportsInv ==
    /\ ReportsTypeOK /\ PartsHold /\ CurrentHolds /\ DaysHold /\ PingHolds /\ OutcomeHolds

(* The parts of a table are apart and make it up: of a row, and of any rows *)
(* the table may have.                                                      *)
LEMMA RowIsParted ==
    ASSUME ReportsTypeOK, NEW v \in RowsOf(task.table)
    PROVE  /\ task.table = "users" =>
                /\ Where("total", v) <=> Where("active", v) \/ Where("inactive", v)
                /\ ~ (Where("active", v) /\ Where("inactive", v))
                /\ Where("total", v) <=> Where("verified", v) \/ Where("unverified", v)
                /\ ~ (Where("verified", v) /\ Where("unverified", v))
           /\ task.table = "subscriptions" =>
                /\ Where("total", v) <=> \/ Where("ACTIVE", v) \/ Where("CANCELED", v)
                                         \/ Where("EXPIRED", v)
                /\ ~ (Where("ACTIVE", v) /\ Where("CANCELED", v))
                /\ ~ (Where("ACTIVE", v) /\ Where("EXPIRED", v))
                /\ ~ (Where("CANCELED", v) /\ Where("EXPIRED", v))
           /\ task.table = "logs" =>
                /\ Where("total", v) <=> Where("successful", v) \/ Where("failed", v)
                /\ ~ (Where("successful", v) /\ Where("failed", v))
           /\ task.table = "providers" =>
                Where("total", v) /\ (Where("active", v) <=> v.isActive)
  <1>1. CASE task.table = "users"
    <2>1. v.deleted \in BOOLEAN /\ v.isActive \in BOOLEAN /\ v.verified \in BOOLEAN
      <3>1. RowsOf(task.table) = [deleted : BOOLEAN, isActive : BOOLEAN, verified : BOOLEAN]
        BY <1>1 DEF RowsOf
      <3>2. QED
        BY <3>1
    <2>2. Where("total", v) <=> ~v.deleted
      BY <1>1 DEF Where, SubscriptionStatuses
    <2>3. Where("active", v) <=> ~v.deleted /\ v.isActive = TRUE
      BY <1>1 DEF Where, SubscriptionStatuses
    <2>4. Where("inactive", v) <=> ~v.deleted /\ v.isActive = FALSE
      BY <1>1 DEF Where, SubscriptionStatuses
    <2>5. Where("verified", v) <=> ~v.deleted /\ v.verified = TRUE
      BY <1>1 DEF Where, SubscriptionStatuses
    <2>6. Where("unverified", v) <=> ~v.deleted /\ v.verified = FALSE
      BY <1>1 DEF Where, SubscriptionStatuses
    <2>7. QED
      BY <1>1, <2>1, <2>2, <2>3, <2>4, <2>5, <2>6
  <1>2. CASE task.table = "subscriptions"
    <2>1. v.status \in {"ACTIVE", "CANCELED", "EXPIRED"}
      <3>1. RowsOf(task.table) = [status : {"ACTIVE", "CANCELED", "EXPIRED"}]
        BY <1>2 DEF RowsOf, SubscriptionStatuses
      <3>2. QED
        BY <3>1
    <2>2. /\ Where("total", v)
          /\ Where("ACTIVE", v) <=> v.status = "ACTIVE"
          /\ Where("CANCELED", v) <=> v.status = "CANCELED"
          /\ Where("EXPIRED", v) <=> v.status = "EXPIRED"
      BY <1>2 DEF Where, SubscriptionStatuses
    <2>3. QED
      BY <1>2, <2>1, <2>2
  <1>3. CASE task.table = "logs"
    <2>1. v.ok \in BOOLEAN
      <3>1. RowsOf(task.table) = [ok : BOOLEAN, at : 1 .. Moment - 1]
        BY <1>3 DEF RowsOf
      <3>2. QED
        BY <3>1
    <2>2. /\ Where("total", v)
          /\ Where("successful", v) <=> v.ok = TRUE
          /\ Where("failed", v) <=> v.ok = FALSE
      BY <1>3 DEF Where, SubscriptionStatuses
    <2>3. QED
      BY <1>3, <2>1, <2>2
  <1>4. CASE task.table = "providers"
    <2>1. v.isActive \in BOOLEAN
      <3>1. RowsOf(task.table) = [isActive : BOOLEAN, hasKey : BOOLEAN]
        BY <1>4 DEF RowsOf
      <3>2. QED
        BY <3>1
    <2>2. Where("total", v)
      BY <1>4 DEF Where, SubscriptionStatuses
    <2>3. Where("active", v) = v.isActive
      BY <1>4 DEF Where, SubscriptionStatuses
    <2>4. QED
      BY <1>4, <2>1, <2>2, <2>3
  <1>5. QED
    BY <1>1, <1>2, <1>3, <1>4, KindsOfReport

LEMMA RowsAreParted ==
    ASSUME ReportsTypeOK, NEW d, \A j \in DOMAIN d : d[j] \in RowsOf(task.table), NEW i
    PROVE  /\ task.table = "users" =>
                /\ Parted(i, CountIn(d, "total"), CountIn(d, "active"), CountIn(d, "inactive"), {})
                /\ Parted(i, CountIn(d, "total"), CountIn(d, "verified"), CountIn(d, "unverified"), {})
           /\ task.table = "subscriptions" =>
                Parted(i, CountIn(d, "total"), CountIn(d, "ACTIVE"), CountIn(d, "CANCELED"),
                          CountIn(d, "EXPIRED"))
           /\ task.table = "logs" =>
                Parted(i, CountIn(d, "total"), CountIn(d, "successful"), CountIn(d, "failed"), {})
           /\ task.table = "providers" =>
                Parted(i, CountIn(d, "total"), CountIn(d, "active"), InactiveIn(d), {})
  <1>1. CASE task.table = "providers"
    <2>1. task.kind # "analytics"
      BY <1>1, KindsOfReport
    <2>2. QED
      BY <1>1, <2>1, RowIsParted DEF Parted, CountIn, InactiveIn, Reported
  <1>2. CASE task.table # "providers"
    BY <1>2, RowIsParted DEF Parted, CountIn
  <1>3. QED
    BY <1>1, <1>2

LEMMA SeenInRange ==
    ASSUME ReportsTypeOK
    PROVE  \A f : f # "ping" => Seen(f) \in Nat /\ Counted(f) \in Nat
  <1>1. \A f : Counted(f) \in Nat
    BY DataSets, ItemSets
  <1>2. \A f \in DOMAIN figures : figures[f] \in Nat
    <2>1. Cardinality(Items) \in Nat
      BY ReportsAssumption, FS_CardinalityType
    <2>2. QED
      BY <2>1 DEF ReportsTypeOK
  <1>3. QED
    BY <1>1, <1>2 DEF Seen

LEMMA ReportsInitOK ==
    ASSUME ReportsInit
    PROVE  ReportsInv
  <1>1. DOMAIN figures = {}
    <2>1. figures = <<>>
      BY DEF ReportsInit
    <2>2. QED
      BY <2>1
  <1>2. outcome = "running" /\ overlaps = 0 /\ blips = 0
    BY DEF ReportsInit
  <1>3. ReportsTypeOK
    <2>1. PICK I \in SUBSET Items : data \in [I -> RowsOf(task.table)]
      BY DEF ReportsInit
    <2>2. DOMAIN data \subseteq Items /\ \A i \in DOMAIN data : data[i] \in RowsOf(task.table)
      BY <2>1
    <2>3. /\ task \in Tasks /\ dbUp \in BOOLEAN
          /\ overlaps \in 0 .. MaxOverlaps /\ blips \in 0 .. MaxBlips
      BY <1>2, ReportsAssumption DEF ReportsInit
    <2>4. QED
      BY <1>1, <1>2, <2>2, <2>3 DEF ReportsTypeOK
  <1>4. ASSUME NEW sT, NEW sA, NEW sB, NEW sC,
               sT \in SUBSET Items, sA \in SUBSET Items, sB \in SUBSET Items, sC \in SUBSET Items,
               \A i : Parted(i, sT, sA, sB, sC)
        PROVE  Cardinality(sT) = Cardinality(sA) + Cardinality(sB) + Cardinality(sC)
    <2>1. IsFiniteSet(sA) /\ IsFiniteSet(sB) /\ IsFiniteSet(sC) /\ IsFiniteSet(sA \cup sB)
      BY <1>4, ItemSets
    <2>2. /\ sT = (sA \cup sB) \cup sC
          /\ (sA \cup sB) \cap sC = {} /\ sA \cap sB = {}
      BY <1>4 DEF Parted
    <2>3. Cardinality(sA \cup sB) = Cardinality(sA) + Cardinality(sB) - Cardinality({})
      BY <2>1, <2>2, FS_Union
    <2>4. Cardinality((sA \cup sB) \cup sC)
            = Cardinality(sA \cup sB) + Cardinality(sC) - Cardinality({})
      BY <2>1, <2>2, FS_Union
    <2>5. Cardinality({}) = 0
      BY FS_EmptySet
    <2>6. Cardinality(sA) \in Nat /\ Cardinality(sB) \in Nat /\ Cardinality(sC) \in Nat
      BY <2>1, FS_CardinalityType
    <2>7. QED
      BY <2>2, <2>3, <2>4, <2>5, <2>6
  <1>5. {} \in SUBSET Items /\ Cardinality({}) = 0
    BY FS_EmptySet
  <1>6. \A f : CountIn(data, f) \in SUBSET Items /\ Counted(f) = Cardinality(CountIn(data, f)) /\ Seen(f) = Counted(f)
    BY <1>1, <1>3, DataSets DEF Seen
  <1>7. \A n \in Nat : Apart(n, n) = 0
    BY DEF Apart
  <1>8. \A f : f # "ping" => Seen(f) \in Nat
    BY <1>3, SeenInRange
  <1>9. PartsHold
    <2>0. \A j \in DOMAIN data : data[j] \in RowsOf(task.table)
      BY <1>3 DEF ReportsTypeOK
    <2>1. ASSUME task.table = "users"
          PROVE  /\ Seen("total") = Seen("active") + Seen("inactive") + 0
                 /\ Seen("total") = Seen("verified") + Seen("unverified") + 0
      <3>1. Cardinality(CountIn(data, "total"))
              = Cardinality(CountIn(data, "active")) + Cardinality(CountIn(data, "inactive"))
                  + Cardinality({})
        <4>1. \A i : Parted(i, CountIn(data, "total"), CountIn(data, "active"), CountIn(data, "inactive"), {})
          BY <1>3, <2>0, <2>1, RowsAreParted
        <4>2. QED
          BY <1>3, <1>4, <1>5, <1>6, <4>1, DataSets
      <3>2. Cardinality(CountIn(data, "total"))
              = Cardinality(CountIn(data, "verified")) + Cardinality(CountIn(data, "unverified"))
                  + Cardinality({})
        <4>1. \A i : Parted(i, CountIn(data, "total"), CountIn(data, "verified"), CountIn(data, "unverified"), {})
          BY <1>3, <2>0, <2>1, RowsAreParted
        <4>2. QED
          BY <1>3, <1>4, <1>5, <1>6, <4>1, DataSets
      <3>3. QED
        BY <1>5, <1>6, <3>1, <3>2
    <2>2. ASSUME task.table = "subscriptions"
          PROVE  Seen("total") = Seen("ACTIVE") + Seen("CANCELED") + Seen("EXPIRED")
      <3>1. Cardinality(CountIn(data, "total"))
              = Cardinality(CountIn(data, "ACTIVE")) + Cardinality(CountIn(data, "CANCELED"))
                  + Cardinality(CountIn(data, "EXPIRED"))
        <4>1. \A i : Parted(i, CountIn(data, "total"), CountIn(data, "ACTIVE"), CountIn(data, "CANCELED"), CountIn(data, "EXPIRED"))
          BY <1>3, <2>0, <2>2, RowsAreParted
        <4>2. QED
          BY <1>3, <1>4, <1>5, <1>6, <4>1, DataSets
      <3>2. QED
        BY <1>6, <3>1
    <2>3. ASSUME task.table = "logs"
          PROVE  Seen("total") = Seen("successful") + Seen("failed") + 0
      <3>1. Cardinality(CountIn(data, "total"))
              = Cardinality(CountIn(data, "successful")) + Cardinality(CountIn(data, "failed"))
                  + Cardinality({})
        <4>1. \A i : Parted(i, CountIn(data, "total"), CountIn(data, "successful"), CountIn(data, "failed"), {})
          BY <1>3, <2>0, <2>3, RowsAreParted
        <4>2. QED
          BY <1>3, <1>4, <1>5, <1>6, <4>1, DataSets
      <3>2. QED
        BY <1>5, <1>6, <3>1
    <2>4. ASSUME task.table = "providers"
          PROVE  Seen("total") = Seen("active") + Cardinality(InactiveIn(data)) + 0
      <3>1. Cardinality(CountIn(data, "total"))
              = Cardinality(CountIn(data, "active")) + Cardinality(InactiveIn(data))
                  + Cardinality({})
        <4>1. \A i : Parted(i, CountIn(data, "total"), CountIn(data, "active"), InactiveIn(data), {})
          BY <1>3, <2>0, <2>4, RowsAreParted
        <4>2. QED
          BY <1>3, <1>4, <1>5, <1>6, <4>1, DataSets
      <3>2. QED
        BY <1>5, <1>6, <3>1
    <2>5. Seen("total") \in Nat
      BY <1>8
    <2>6. Apart(Seen("total"), Seen("total")) <= overlaps
      BY <1>2, <1>7, <2>5
    <2>7. QED
      BY <2>1, <2>2, <2>3, <2>4, <2>6 DEF PartsHold
  <1>10. CurrentHolds /\ DaysHold /\ PingHolds /\ OutcomeHolds
    BY <1>1, <1>2 DEF CurrentHolds, DaysHold, PingHolds, OutcomeHolds
  <1>11. QED
    BY <1>3, <1>9, <1>10 DEF ReportsInv

-----------------------------------------------------------------------------
(* The steps.                                                               *)

LEMMA SameTables ==
    ASSUME UNCHANGED <<task, data>>
    PROVE  /\ \A f : CountIn(data', f) = CountIn(data, f) /\ Counted(f)' = Counted(f)
           /\ InactiveIn(data') = InactiveIn(data) /\ ByDay' = ByDay
           /\ Figures' = Figures /\ RowsOf(task.table)' = RowsOf(task.table)
  BY DEF CountIn, Counted, Reported, InFilter, Where, InactiveIn, ByDay, InDays, EffectiveFrom,
         EffectiveTo, KeptDays, DaysWithRows, DayOf, Figures, DashboardFigures,
         SubscriptionStatuses, RowsOf

LEMMA ReadFigureKeepsReports ==
    ASSUME ReportsInv, NEW f \in Figures, ReadFigure(f)
    PROVE  ReportsInv'
  <1>1. /\ outcome = "running" /\ f \notin DOMAIN figures
        /\ f \in ReadLast => Figures \ ReadLast \subseteq DOMAIN figures
        /\ dbUp \/ f = "ping"
        /\ figures' = [g \in DOMAIN figures \cup {f} |-> IF g = f THEN Value(f) ELSE figures[g]]
        /\ outcome' = IF DOMAIN figures' = Figures THEN "answered" ELSE outcome
        /\ task' = task /\ data' = data /\ overlaps' = overlaps /\ dbUp' = dbUp /\ blips' = blips
    BY DEF ReadFigure, Due, Known
  <1>2. ReportsTypeOK
    BY DEF ReportsInv
  <1>3. /\ \A g : CountIn(data', g) = CountIn(data, g) /\ Counted(g)' = Counted(g)
        /\ InactiveIn(data') = InactiveIn(data) /\ ByDay' = ByDay
        /\ Figures' = Figures /\ RowsOf(task.table)' = RowsOf(task.table)
    BY <1>1, SameTables
  <1>4. /\ DOMAIN figures' = DOMAIN figures \cup {f}
        /\ figures'[f] = Value(f)
        /\ \A g \in DOMAIN figures : figures'[g] = figures[g]
    BY <1>1
  <1>5. ReportsTypeOK'
    <2>1. \A g \in DOMAIN figures' : figures'[g] \in 0 .. Cardinality(Items)
      BY <1>2, <1>4, ValueInRange DEF ReportsTypeOK
    <2>2. outcome' \in {"running", "answered", "refused"}
      BY <1>1
    <2>3. DOMAIN figures' \subseteq Figures
      BY <1>2, <1>4 DEF ReportsTypeOK
    <2>4. QED
      BY <1>1, <1>2, <1>3, <2>1, <2>2, <2>3 DEF ReportsTypeOK
  <1>6. f \notin {"ping", "byDay", "current"} => Value(f) = Counted(f)
    BY DEF Value
  <1>7. \A g : g \notin {"ping", "byDay", "current"} => Seen(g)' = Seen(g)
    BY <1>3, <1>4, <1>6 DEF Seen
  <1>8. PartsHold'
    <2>1. /\ Seen("total")' = Seen("total")
          /\ Seen("active")' = Seen("active") /\ Seen("inactive")' = Seen("inactive")
          /\ Seen("verified")' = Seen("verified") /\ Seen("unverified")' = Seen("unverified")
          /\ Seen("ACTIVE")' = Seen("ACTIVE") /\ Seen("CANCELED")' = Seen("CANCELED")
          /\ Seen("EXPIRED")' = Seen("EXPIRED")
          /\ Seen("successful")' = Seen("successful") /\ Seen("failed")' = Seen("failed")
      BY <1>7
    <2>2. PartsHold
      BY DEF ReportsInv
    <2>3. QED
      BY <1>1, <1>3, <2>1, <2>2 DEF PartsHold
  <1>9. CurrentHolds'
    <2>1. SUFFICES ASSUME task.kind = "summary"
                   PROVE  /\ "successful" \in DOMAIN figures' =>
                               Counted("successful") <= figures'["successful"] + overlaps
                          /\ "current" \in DOMAIN figures' =>
                               /\ "successful" \in DOMAIN figures'
                               /\ figures'["current"] <= figures'["successful"] + overlaps
      BY <1>1, <1>3 DEF CurrentHolds
    <2>2. /\ "successful" \in DOMAIN figures =>
               Counted("successful") <= figures["successful"] + overlaps
          /\ "current" \in DOMAIN figures =>
               /\ "successful" \in DOMAIN figures
               /\ figures["current"] <= figures["successful"] + overlaps
      BY <2>1 DEF ReportsInv, CurrentHolds
    <2>3. Counted("successful") \in Nat /\ overlaps \in Nat
      BY <1>2, SeenInRange, ReportsAssumption DEF ReportsTypeOK
    <2>4. CASE f = "successful"
      <3>1. figures'["successful"] = Counted("successful")
        BY <1>4, <1>6, <2>4
      <3>2. "current" \notin DOMAIN figures /\ "current" \notin DOMAIN figures'
        BY <1>1, <1>4, <2>2, <2>4
      <3>3. QED
        BY <2>3, <3>1, <3>2
    <2>5. CASE f = "current"
      <3>1. "successful" \in DOMAIN figures
        <4>1. ReadLast = {"current"} /\ {"successful", "failed"} \subseteq Figures
          BY <1>2, <2>1, FiguresOfReport, KindsOfReport
        <4>2. QED
          BY <1>1, <2>5, <4>1
      <3>2. CurrentPeriod <= Counted("successful")
        <4>1. CurrentNow \subseteq CountIn(data, "successful")
          <5>1. \A v : Where("successful", v) <=> v.ok = TRUE
            BY DEF Where, SubscriptionStatuses
          <5>2. \A i \in DOMAIN data : data[i].ok \in BOOLEAN
            <6>1. RowsOf(task.table) = [ok : BOOLEAN, at : 1 .. Moment - 1]
              BY <1>2, <2>1, KindsOfReport DEF RowsOf
            <6>2. QED
              BY <1>2, <6>1 DEF ReportsTypeOK
          <5>3. QED
            BY <2>1, <5>1, <5>2 DEF CurrentNow, CountIn, Reported
        <4>2. IsFiniteSet(CountIn(data, "successful"))
          BY <1>2, DataSets, ItemSets
        <4>3. Cardinality(CurrentNow) <= Cardinality(CountIn(data, "successful"))
          BY <4>1, <4>2, FS_Subset
        <4>4. QED
          BY <1>2, <4>3, DataSets
      <3>3. figures'["current"] = CurrentPeriod
        BY <1>4, <2>5 DEF Value
      <3>4. CurrentPeriod \in Nat /\ figures["successful"] \in Nat
        <4>1. CurrentPeriod \in Nat
          BY <1>2, DataSets, ItemSets
        <4>2. figures["successful"] \in Nat
          BY <1>2, <3>1, SeenInRange DEF Seen
        <4>3. QED
          BY <4>1, <4>2
      <3>5. CurrentPeriod <= figures["successful"] + overlaps
        BY <2>2, <2>3, <3>1, <3>2, <3>4
      <3>6. QED
        BY <1>4, <2>2, <3>1, <3>3, <3>5
    <2>6. CASE f \notin {"successful", "current"}
      BY <1>4, <2>2, <2>6
    <2>7. QED
      BY <2>4, <2>5, <2>6
  <1>10. DaysHold'
    <2>1. DaysHold
      BY DEF ReportsInv
    <2>2. f = "byDay" => Value(f) = ByDay
      BY DEF Value
    <2>3. QED
      BY <1>1, <1>3, <1>4, <1>6, <2>1, <2>2 DEF DaysHold
  <1>11. PingHolds'
    <2>1. PingHolds
      BY DEF ReportsInv
    <2>2. f = "ping" => (Value(f) = 0 => ~dbUp)
      BY DEF Value
    <2>3. QED
      BY <1>1, <1>4, <2>1, <2>2 DEF PingHolds
  <1>12. OutcomeHolds'
    BY <1>1, <1>3 DEF ReportsInv, OutcomeHolds
  <1>13. QED
    BY <1>5, <1>8, <1>9, <1>10, <1>11, <1>12 DEF ReportsInv

LEMMA ReadFailsKeepsReports ==
    ASSUME ReportsInv, NEW f \in Figures, ReadFails(f)
    PROVE  ReportsInv'
  <1>1. /\ f # "ping" /\ outcome' = "refused"
        /\ task' = task /\ data' = data /\ figures' = figures
        /\ overlaps' = overlaps /\ dbUp' = dbUp /\ blips' = blips
    BY DEF ReadFails
  <1>2. ReportsTypeOK
    BY DEF ReportsInv
  <1>3. /\ \A g : Counted(g)' = Counted(g)
        /\ InactiveIn(data') = InactiveIn(data) /\ ByDay' = ByDay
        /\ Figures' = Figures /\ RowsOf(task.table)' = RowsOf(task.table)
    BY <1>1, SameTables
  <1>4. ReportsTypeOK'
    BY <1>1, <1>2, <1>3 DEF ReportsTypeOK
  <1>5. task.kind # "check"
    BY <1>1, <1>2, FiguresOfReport
  <1>6. \A g : Seen(g)' = Seen(g)
    BY <1>1, <1>3 DEF Seen
  <1>7. PartsHold'
    BY <1>1, <1>3, <1>6 DEF ReportsInv, PartsHold
  <1>8. CurrentHolds' /\ DaysHold' /\ PingHolds' /\ OutcomeHolds'
    BY <1>1, <1>3, <1>5 DEF ReportsInv, CurrentHolds, DaysHold, PingHolds, OutcomeHolds
  <1>9. QED
    BY <1>4, <1>7, <1>8 DEF ReportsInv

LEMMA TableWrittenKeepsReports ==
    ASSUME ReportsInv, TableWritten
    PROVE  ReportsInv'
  <1>1. /\ outcome = "running" /\ overlaps < MaxOverlaps /\ overlaps' = overlaps + 1
        /\ task' = task /\ figures' = figures /\ outcome' = outcome
        /\ dbUp' = dbUp /\ blips' = blips
    BY DEF TableWritten
  <1>2. ReportsTypeOK
    BY DEF ReportsInv
  <1>3. PICK i \in Items :
          /\ DOMAIN data' \subseteq Items
          /\ \A j \in DOMAIN data' : data'[j] \in RowsOf(task.table)
          /\ \A j : j # i => /\ j \in DOMAIN data' <=> j \in DOMAIN data
                             /\ j \in DOMAIN data => data'[j] = data[j]
    BY <1>2, WriteIsOfOneRow
  <1>4. overlaps \in Nat /\ overlaps' \in Nat
    BY <1>1, <1>2, ReportsAssumption DEF ReportsTypeOK
  <1>5. Figures' = Figures
    BY <1>1 DEF Figures, DashboardFigures, SubscriptionStatuses
  <1>6. ReportsTypeOK'
    <2>1. overlaps' \in 0 .. MaxOverlaps
      BY <1>1, <1>4, ReportsAssumption
    <2>2. RowsOf(task.table)' = RowsOf(task.table)
      BY <1>1 DEF RowsOf, SubscriptionStatuses
    <2>3. QED
      BY <1>1, <1>2, <1>3, <1>5, <2>1, <2>2 DEF ReportsTypeOK
  <1>7. ASSUME NEW f
        PROVE  /\ CountIn(data, f) \ {i} = CountIn(data', f) \ {i}
               /\ IsFiniteSet(CountIn(data, f)) /\ IsFiniteSet(CountIn(data', f))
               /\ Counted(f) = Cardinality(CountIn(data, f))
               /\ Counted(f)' = Cardinality(CountIn(data', f))
               /\ Counted(f) \in Nat /\ Counted(f)' \in Nat
    <2>1. CountIn(data, f) \ {i} = CountIn(data', f) \ {i}
      BY <1>3 DEF CountIn
    <2>2. CountIn(data, f) \in SUBSET Items /\ CountIn(data', f) \in SUBSET Items
      BY <1>2, <1>3, DataSets DEF CountIn
    <2>3. Counted(f) = Cardinality(CountIn(data, f))
      BY DEF Counted, CountIn
    <2>4. Counted(f)' = Cardinality(CountIn(data', f))
      BY <1>1 DEF Counted, CountIn, Reported, InFilter, Where
    <2>5. QED
      BY <2>1, <2>2, <2>3, <2>4, ItemSets
  <1>8. Moves(i, InactiveIn(data), InactiveIn(data'),
                 Cardinality(InactiveIn(data)), Cardinality(InactiveIn(data')))
    <2>1. InactiveIn(data) \ {i} = InactiveIn(data') \ {i}
      BY <1>3 DEF InactiveIn
    <2>2. InactiveIn(data) \in SUBSET Items /\ InactiveIn(data') \in SUBSET Items
      BY <1>2, <1>3 DEF InactiveIn, ReportsTypeOK
    <2>3. QED
      BY <2>1, <2>2, ItemSets DEF Moves
  <1>9. ASSUME NEW f, f # "ping"
        PROVE  Moves(i, CountIn(data, f), CountIn(data', f), Seen(f), Seen(f)')
    <2>1. Seen(f) \in Nat
      BY <1>2, <1>9, SeenInRange
    <2>2. CASE f \in DOMAIN figures
      <3>1. Seen(f)' = Seen(f)
        BY <1>1, <2>2 DEF Seen
      <3>2. QED
        BY <1>7, <2>1, <3>1 DEF Moves
    <2>3. CASE f \notin DOMAIN figures
      <3>1. Seen(f) = Counted(f) /\ Seen(f)' = Counted(f)'
        BY <1>1, <2>3 DEF Seen
      <3>2. QED
        BY <1>7, <3>1 DEF Moves
    <2>4. QED
      BY <2>2, <2>3
  <1>10. Moves(i, {}, {}, 0, 0)
    BY FS_EmptySet DEF Moves
  <1>11. PartsHold'
    <2>1. PartsHold
      BY DEF ReportsInv
    <2>2. ASSUME NEW p, NEW q, NEW r, p # "ping", q # "ping", r # "ping",
                 Parted(i, CountIn(data, "total"), CountIn(data, p), CountIn(data, q), CountIn(data, r)),
                 Parted(i, CountIn(data', "total"), CountIn(data', p), CountIn(data', q), CountIn(data', r)),
                 Apart(Seen("total"), Seen(p) + Seen(q) + Seen(r)) <= overlaps
          PROVE  Apart(Seen("total")', Seen(p)' + Seen(q)' + Seen(r)') <= overlaps + 1
      BY <1>4, <1>9, <2>2, PartsStayClose
    <2>3. ASSUME NEW p, NEW q, p # "ping", q # "ping",
                 Parted(i, CountIn(data, "total"), CountIn(data, p), CountIn(data, q), {}),
                 Parted(i, CountIn(data', "total"), CountIn(data', p), CountIn(data', q), {}),
                 Apart(Seen("total"), Seen(p) + Seen(q) + 0) <= overlaps
          PROVE  Apart(Seen("total")', Seen(p)' + Seen(q)' + 0) <= overlaps + 1
      BY <1>4, <1>9, <1>10, <2>3, PartsStayClose
    <2>4. \A j \in DOMAIN data : data[j] \in RowsOf(task.table)
      BY <1>2 DEF ReportsTypeOK
    <2>5. CASE task.table = "users"
      <3>1. /\ Parted(i, CountIn(data, "total"), CountIn(data, "active"), CountIn(data, "inactive"), {})
            /\ Parted(i, CountIn(data, "total"), CountIn(data, "verified"), CountIn(data, "unverified"), {})
        BY <1>2, <2>4, <2>5, RowsAreParted
      <3>2. /\ Parted(i, CountIn(data', "total"), CountIn(data', "active"), CountIn(data', "inactive"), {})
            /\ Parted(i, CountIn(data', "total"), CountIn(data', "verified"), CountIn(data', "unverified"), {})
        BY <1>2, <1>3, <2>5, RowsAreParted
      <3>3. /\ Apart(Seen("total"), Seen("active") + Seen("inactive") + 0) <= overlaps
            /\ Apart(Seen("total"), Seen("verified") + Seen("unverified") + 0) <= overlaps
        BY <2>1, <2>5 DEF PartsHold
      <3>4. /\ Apart(Seen("total")', Seen("active")' + Seen("inactive")' + 0) <= overlaps + 1
            /\ Apart(Seen("total")', Seen("verified")' + Seen("unverified")' + 0) <= overlaps + 1
        BY <2>3, <3>1, <3>2, <3>3
      <3>5. QED
        BY <1>1, <2>5, <3>4 DEF PartsHold
    <2>6. CASE task.table = "subscriptions"
      <3>1. Parted(i, CountIn(data, "total"), CountIn(data, "ACTIVE"), CountIn(data, "CANCELED"),
                      CountIn(data, "EXPIRED"))
        BY <1>2, <2>4, <2>6, RowsAreParted
      <3>2. Parted(i, CountIn(data', "total"), CountIn(data', "ACTIVE"), CountIn(data', "CANCELED"),
                      CountIn(data', "EXPIRED"))
        BY <1>2, <1>3, <2>6, RowsAreParted
      <3>3. Apart(Seen("total"), Seen("ACTIVE") + Seen("CANCELED") + Seen("EXPIRED")) <= overlaps
        BY <2>1, <2>6 DEF PartsHold
      <3>4. Apart(Seen("total")', Seen("ACTIVE")' + Seen("CANCELED")' + Seen("EXPIRED")') <= overlaps + 1
        BY <2>2, <3>1, <3>2, <3>3
      <3>5. QED
        BY <1>1, <2>6, <3>4 DEF PartsHold
    <2>7. CASE task.table = "logs"
      <3>1. Parted(i, CountIn(data, "total"), CountIn(data, "successful"), CountIn(data, "failed"), {})
        BY <1>2, <2>4, <2>7, RowsAreParted
      <3>2. Parted(i, CountIn(data', "total"), CountIn(data', "successful"), CountIn(data', "failed"), {})
        BY <1>2, <1>3, <2>7, RowsAreParted
      <3>3. Apart(Seen("total"), Seen("successful") + Seen("failed") + 0) <= overlaps
        BY <2>1, <2>7 DEF PartsHold
      <3>4. Apart(Seen("total")', Seen("successful")' + Seen("failed")' + 0) <= overlaps + 1
        BY <2>3, <3>1, <3>2, <3>3
      <3>5. QED
        BY <1>1, <2>7, <3>4 DEF PartsHold
    <2>8. CASE task.table = "providers"
      <3>1. Parted(i, CountIn(data, "total"), CountIn(data, "active"), InactiveIn(data), {})
        BY <1>2, <2>4, <2>8, RowsAreParted
      <3>2. Parted(i, CountIn(data', "total"), CountIn(data', "active"), InactiveIn(data'), {})
        BY <1>2, <1>3, <2>8, RowsAreParted
      <3>3. Apart(Seen("total"), Seen("active") + Cardinality(InactiveIn(data)) + 0) <= overlaps
        BY <2>1, <2>8 DEF PartsHold
      <3>4. /\ Moves(i, CountIn(data, "total"), CountIn(data', "total"), Seen("total"), Seen("total")')
            /\ Moves(i, CountIn(data, "active"), CountIn(data', "active"), Seen("active"), Seen("active")')
        BY <1>9
      <3>5. Apart(Seen("total")', Seen("active")' + Cardinality(InactiveIn(data')) + 0) <= overlaps + 1
        BY <1>4, <1>8, <1>10, <3>1, <3>2, <3>3, <3>4, PartsStayClose
      <3>6. QED
        BY <1>1, <2>8, <3>5 DEF PartsHold
    <2>9. QED
      BY <1>2, <2>5, <2>6, <2>7, <2>8, KindsOfReport
  <1>12. CurrentHolds'
    <2>1. Counted("successful")' <= Counted("successful") + 1
      <3>1. /\ CountIn(data, "successful") \ {i} = CountIn(data', "successful") \ {i}
            /\ IsFiniteSet(CountIn(data, "successful")) /\ IsFiniteSet(CountIn(data', "successful"))
        BY <1>7
      <3>2. Cardinality(CountIn(data', "successful"))
              = Cardinality(CountIn(data, "successful")) - OneIf(i \in CountIn(data, "successful"))
                  + OneIf(i \in CountIn(data', "successful"))
        BY <3>1, OneRowMoves
      <3>3. /\ OneIf(i \in CountIn(data, "successful")) \in 0 .. 1
            /\ OneIf(i \in CountIn(data', "successful")) \in 0 .. 1
        BY DEF OneIf
      <3>4. QED
        BY <1>7, <3>2, <3>3
    <2>2. Counted("successful") \in Nat /\ Counted("successful")' \in Nat
      BY <1>7
    <2>3. \A f \in DOMAIN figures : figures[f] \in Nat
      BY <1>2, ReportsAssumption, FS_CardinalityType DEF ReportsTypeOK
    <2>4. CurrentHolds
      BY DEF ReportsInv
    <2>5. QED
      BY <1>1, <1>4, <2>1, <2>2, <2>3, <2>4 DEF CurrentHolds
  <1>13. DaysHold' /\ PingHolds'
    BY <1>1, <1>4 DEF ReportsInv, DaysHold, PingHolds
  <1>14. OutcomeHolds'
    BY <1>1, <1>5 DEF ReportsInv, OutcomeHolds
  <1>15. QED
    BY <1>6, <1>11, <1>12, <1>13, <1>14 DEF ReportsInv

LEMMA BlipKeepsReports ==
    ASSUME ReportsInv, Blip
    PROVE  ReportsInv'
  <1>1. /\ outcome = "running" /\ blips < MaxBlips /\ blips' = blips + 1 /\ dbUp' = ~dbUp
        /\ task' = task /\ data' = data /\ figures' = figures
        /\ outcome' = outcome /\ overlaps' = overlaps
    BY DEF Blip
  <1>2. ReportsTypeOK
    BY DEF ReportsInv
  <1>3. /\ \A g : Counted(g)' = Counted(g)
        /\ InactiveIn(data') = InactiveIn(data) /\ ByDay' = ByDay
        /\ Figures' = Figures /\ RowsOf(task.table)' = RowsOf(task.table)
    BY <1>1, SameTables
  <1>4. blips' \in 0 .. MaxBlips /\ blips' # 0
    BY <1>1, <1>2, ReportsAssumption DEF ReportsTypeOK
  <1>5. ReportsTypeOK'
    BY <1>1, <1>2, <1>3, <1>4 DEF ReportsTypeOK
  <1>6. \A g : Seen(g)' = Seen(g)
    BY <1>1, <1>3 DEF Seen
  <1>7. PartsHold'
    BY <1>1, <1>3, <1>6 DEF ReportsInv, PartsHold
  <1>8. CurrentHolds' /\ DaysHold' /\ PingHolds' /\ OutcomeHolds'
    BY <1>1, <1>3, <1>4 DEF ReportsInv, CurrentHolds, DaysHold, PingHolds, OutcomeHolds
  <1>9. QED
    BY <1>5, <1>7, <1>8 DEF ReportsInv

LEMMA ReportsStepOK ==
    ASSUME ReportsInv, [ReportsNext]_reportsVars
    PROVE  ReportsInv'
  <1>1. CASE \E f \in Figures : ReadFigure(f) \/ ReadFails(f)
    BY <1>1, ReadFigureKeepsReports, ReadFailsKeepsReports
  <1>2. CASE TableWritten
    BY <1>2, TableWrittenKeepsReports
  <1>3. CASE Blip
    BY <1>3, BlipKeepsReports
  <1>4. CASE UNCHANGED reportsVars
    <2>1. /\ task' = task /\ data' = data /\ figures' = figures /\ outcome' = outcome
          /\ overlaps' = overlaps /\ dbUp' = dbUp /\ blips' = blips
      BY <1>4 DEF reportsVars
    <2>2. /\ \A g : Counted(g)' = Counted(g)
          /\ InactiveIn(data') = InactiveIn(data) /\ ByDay' = ByDay
          /\ Figures' = Figures /\ RowsOf(task.table)' = RowsOf(task.table)
      BY <2>1, SameTables
    <2>3. \A g : Seen(g)' = Seen(g)
      BY <2>1, <2>2 DEF Seen
    <2>4. ReportsTypeOK' /\ PartsHold'
      BY <2>1, <2>2, <2>3 DEF ReportsInv, ReportsTypeOK, PartsHold
    <2>5. CurrentHolds' /\ DaysHold' /\ PingHolds' /\ OutcomeHolds'
      BY <2>1, <2>2 DEF ReportsInv, CurrentHolds, DaysHold, PingHolds, OutcomeHolds
    <2>6. QED
      BY <2>4, <2>5 DEF ReportsInv
  <1>5. QED
    BY <1>1, <1>2, <1>3, <1>4 DEF ReportsNext

-----------------------------------------------------------------------------
(* What the invariant says of an answered report.                           *)

LEMMA DaysWithinFilter ==
    ASSUME ReportsTypeOK, task.kind = "analytics"
    PROVE  /\ ByDay <= Counted("total")
           /\ task.from # 0 /\ Cardinality(DaysWithRows) <= DayLimit => ByDay = Counted("total")
  <1> DEFINE kept == {i \in InDays : DayOf(data[i]) \in KeptDays}
  <1>1. /\ task.from \in Nat /\ task.to \in Nat /\ DayLimit \in Nat /\ Moment \in Nat
        /\ task.table = "logs"
    BY KindsOfReport, ReportsAssumption
  <1>2. \A i \in DOMAIN data : data[i].at \in Nat /\ data[i].at < Moment
    <2>1. RowsOf(task.table) = [ok : BOOLEAN, at : 1 .. Moment - 1]
      BY <1>1 DEF RowsOf
    <2>2. \A i \in DOMAIN data : data[i].at \in 1 .. Moment - 1
      BY <2>1 DEF ReportsTypeOK
    <2>3. QED
      BY <1>1, <2>2
  <1>3. CountIn(data, "total") = {i \in DOMAIN data : InFilter(data[i])}
    <2>1. \A v : Where("total", v)
      BY <1>1 DEF Where, SubscriptionStatuses
    <2>2. QED
      BY <2>1 DEF CountIn, Reported
  <1>4. InDays \subseteq CountIn(data, "total")
    BY <1>1, <1>2, <1>3 DEF InDays, InFilter, EffectiveFrom, EffectiveTo
  <1>5. task.from # 0 => InDays = CountIn(data, "total")
    BY <1>1, <1>2, <1>3, <1>4 DEF InDays, InFilter, EffectiveFrom, EffectiveTo
  <1>6. IsFiniteSet(CountIn(data, "total")) /\ IsFiniteSet(InDays)
    BY DataSets, ItemSets
  <1>7. ByDay <= Counted("total")
    <2>1. kept \in SUBSET CountIn(data, "total")
      BY <1>4
    <2>2. Cardinality(kept) <= Cardinality(CountIn(data, "total"))
      BY <1>6, <2>1, FS_Subset
    <2>3. QED
      BY <2>2, DataSets DEF ByDay
  <1>8. ASSUME task.from # 0, Cardinality(DaysWithRows) <= DayLimit
        PROVE  ByDay = Counted("total")
    <2>1. IsFiniteSet(DaysWithRows) /\ Cardinality(DaysWithRows) \in Nat
      <3> DEFINE day == [i \in InDays |-> DayOf(data[i])]
      <3>1. day \in Surjection(InDays, DaysWithRows)
        BY DEF Surjection, DaysWithRows
      <3>2. IsFiniteSet(DaysWithRows)
        BY <1>6, <3>1, FS_Surjection
      <3>3. QED
        BY <3>2, FS_CardinalityType
    <2>2. ASSUME NEW d \in DaysWithRows
          PROVE  d \in KeptDays
      <3> DEFINE later == {e \in DaysWithRows : e >= d}
      <3>1. later \in SUBSET DaysWithRows
        OBVIOUS
      <3>2. IsFiniteSet(later) /\ Cardinality(later) <= Cardinality(DaysWithRows)
        BY <2>1, <3>1, FS_Subset
      <3>3. Cardinality(later) \in Nat
        BY <3>2, FS_CardinalityType
      <3>4. Cardinality(later) <= DayLimit
        BY <1>1, <1>8, <2>1, <3>2, <3>3
      <3>5. QED
        BY <3>4 DEF KeptDays
    <2>3. kept = CountIn(data, "total")
      BY <1>5, <1>8, <2>2 DEF DaysWithRows
    <2>4. QED
      BY <2>3, DataSets DEF ByDay
  <1>9. QED
    BY <1>7, <1>8

LEMMA ReportsInvImplies ==
    ASSUME ReportsInv
    PROVE  FiguresAgree /\ DownOnlyInPassing
  <1>1. ReportsTypeOK
    BY DEF ReportsInv
  <1>2. \A f \in DOMAIN figures : Seen(f) = figures[f]
    BY DEF Seen
  <1>3. ASSUME outcome = "answered", task.kind # "check"
        PROVE  /\ \A n \in PartSums : Apart(figures["total"], n) <= overlaps
               /\ task.table = "providers" =>
                    Apart(figures["total"] - figures["active"],
                          Cardinality({i \in DOMAIN data : ~data[i].isActive})) <= overlaps
               /\ task.kind = "summary" => figures["current"] <= figures["successful"] + overlaps
               /\ task.kind = "analytics" /\ overlaps = 0 => DaysAddUp
    <2>1. DOMAIN figures = Figures
      BY <1>3 DEF ReportsInv, OutcomeHolds
    <2>2. "total" \in DOMAIN figures
      BY <1>1, <1>3, <2>1, FiguresOfReport
    <2>3. PartsHold
      BY DEF ReportsInv
    <2>4. \A f : f # "ping" => Seen(f) \in Nat
      BY <1>1, SeenInRange
    <2>5. CASE task.table = "users"
      <3>1. {"active", "inactive", "verified", "unverified"} \subseteq DOMAIN figures
        BY <1>1, <1>3, <2>1, <2>5, FiguresOfReport
      <3>2. /\ Seen("total") = figures["total"]
            /\ Seen("active") = figures["active"] /\ Seen("inactive") = figures["inactive"]
            /\ Seen("verified") = figures["verified"] /\ Seen("unverified") = figures["unverified"]
        BY <1>2, <2>2, <3>1
      <3>3. /\ figures["active"] + figures["inactive"] + 0 = figures["active"] + figures["inactive"]
            /\ figures["verified"] + figures["unverified"] + 0 = figures["verified"] + figures["unverified"]
        <4>1. /\ figures["active"] \in Nat /\ figures["inactive"] \in Nat
              /\ figures["verified"] \in Nat /\ figures["unverified"] \in Nat
          BY <2>4, <3>2
        <4>2. QED
          BY <4>1
      <3>4. /\ Apart(figures["total"], figures["active"] + figures["inactive"]) <= overlaps
            /\ Apart(figures["total"], figures["verified"] + figures["unverified"]) <= overlaps
        BY <2>3, <2>5, <3>2, <3>3 DEF PartsHold
      <3>5. PartSums = {figures["active"] + figures["inactive"],
                        figures["verified"] + figures["unverified"]}
        BY <2>5 DEF PartSums
      <3>6. task.kind \notin {"summary", "analytics"}
        BY <1>1, <2>5, KindsOfReport
      <3>7. QED
        BY <2>5, <3>4, <3>5, <3>6
    <2>6. CASE task.table = "subscriptions"
      <3>1. {"ACTIVE", "CANCELED", "EXPIRED"} \subseteq DOMAIN figures
        BY <1>1, <1>3, <2>1, <2>6, FiguresOfReport
      <3>2. /\ Seen("total") = figures["total"] /\ Seen("ACTIVE") = figures["ACTIVE"]
            /\ Seen("CANCELED") = figures["CANCELED"] /\ Seen("EXPIRED") = figures["EXPIRED"]
        BY <1>2, <2>2, <3>1
      <3>3. Apart(figures["total"], figures["ACTIVE"] + figures["CANCELED"] + figures["EXPIRED"]) <= overlaps
        BY <2>3, <2>6, <3>2 DEF PartsHold
      <3>4. PartSums = {figures["ACTIVE"] + figures["CANCELED"] + figures["EXPIRED"]}
        BY <2>6 DEF PartSums
      <3>5. task.kind \notin {"summary", "analytics"}
        BY <1>1, <2>6, KindsOfReport
      <3>6. QED
        BY <2>6, <3>3, <3>4, <3>5
    <2>7. CASE task.table = "logs"
      <3>1. {"successful", "failed"} \subseteq DOMAIN figures
        BY <1>1, <1>3, <2>1, <2>7, FiguresOfReport
      <3>2. /\ Seen("total") = figures["total"] /\ Seen("successful") = figures["successful"]
            /\ Seen("failed") = figures["failed"]
        BY <1>2, <2>2, <3>1
      <3>3. figures["successful"] + figures["failed"] + 0 = figures["successful"] + figures["failed"]
        <4>1. figures["successful"] \in Nat /\ figures["failed"] \in Nat
          BY <2>4, <3>2
        <4>2. QED
          BY <4>1
      <3>4. Apart(figures["total"], figures["successful"] + figures["failed"]) <= overlaps
        BY <2>3, <2>7, <3>2, <3>3 DEF PartsHold
      <3>5. PartSums = {figures["successful"] + figures["failed"]}
        BY <2>7 DEF PartSums
      <3>6. task.kind = "summary" => figures["current"] <= figures["successful"] + overlaps
        <4>1. task.kind = "summary" => "current" \in DOMAIN figures
          BY <1>1, <2>1, FiguresOfReport
        <4>2. QED
          BY <4>1 DEF ReportsInv, CurrentHolds
      <3>7. ASSUME task.kind = "analytics", overlaps = 0
            PROVE  DaysAddUp
        <4>1. "byDay" \in DOMAIN figures
          BY <1>1, <2>1, <3>7, FiguresOfReport
        <4>2. figures["total"] = Counted("total") /\ figures["byDay"] = ByDay
          BY <2>2, <3>7, <4>1 DEF ReportsInv, DaysHold
        <4>3. QED
          BY <1>1, <3>7, <4>2, DaysWithinFilter DEF DaysAddUp
      <3>8. QED
        BY <2>7, <3>4, <3>5, <3>6, <3>7
    <2>8. CASE task.table = "providers"
      <3>1. "active" \in DOMAIN figures
        BY <1>1, <1>3, <2>1, <2>8, FiguresOfReport
      <3>2. Seen("total") = figures["total"] /\ Seen("active") = figures["active"]
        BY <1>2, <2>2, <3>1
      <3>3. Apart(figures["total"], figures["active"] + Cardinality(InactiveIn(data)) + 0) <= overlaps
        BY <2>3, <2>8, <3>2 DEF PartsHold
      <3>4. /\ figures["total"] \in Nat /\ figures["active"] \in Nat /\ overlaps \in Nat
            /\ Cardinality(InactiveIn(data)) \in Nat
        BY <1>1, <2>4, <3>2, DataSets, ItemSets, ReportsAssumption DEF ReportsTypeOK
      <3>5. Apart(figures["total"] - figures["active"], Cardinality(InactiveIn(data))) <= overlaps
        BY <3>3, <3>4, RestOfTotal
      <3>6. PartSums = {}
        BY <2>8 DEF PartSums
      <3>7. task.kind \notin {"summary", "analytics"}
        BY <1>1, <2>8, KindsOfReport
      <3>8. QED
        BY <2>8, <3>5, <3>6, <3>7 DEF InactiveIn
    <2>9. QED
      BY <1>1, <2>5, <2>6, <2>7, <2>8, KindsOfReport
  <1>4. ASSUME outcome = "answered", "ping" \in DOMAIN figures, figures["ping"] = 0,
               task.kind # "check", blips = 0
        PROVE  FALSE
    <2>1. DOMAIN figures = Figures
      BY <1>4 DEF ReportsInv, OutcomeHolds
    <2>2. "total" \in DOMAIN figures
      BY <1>1, <1>4, <2>1, FiguresOfReport
    <2>3. QED
      BY <1>4, <2>2 DEF ReportsInv, PingHolds
  <1>5. blips \in Nat
    BY <1>1, ReportsAssumption DEF ReportsTypeOK
  <1>6. FiguresAgree
    BY <1>3 DEF FiguresAgree
  <1>7. DownOnlyInPassing
    BY <1>4, <1>5 DEF DownOnlyInPassing, ReportsInv, OutcomeHolds
  <1>8. QED
    BY <1>6, <1>7

(* Whatever is written while a report is made, and in whatever order its    *)
(* statements are answered: its figures are of a table's type.              *)
THEOREM ReportsTypeCorrect == ReportsSpec => []ReportsTypeOK
  <1>1. ReportsInit => ReportsInv
    BY ReportsInitOK
  <1>2. ReportsInv /\ [ReportsNext]_reportsVars => ReportsInv'
    BY ReportsStepOK
  <1>3. ReportsInv => ReportsTypeOK
    BY DEF ReportsInv
  <1>4. QED
    BY <1>1, <1>2, <1>3, PTL DEF ReportsSpec

(* Its figures differ from adding up by no more than the writes meanwhile.  *)
THEOREM ReportsAgree == ReportsSpec => []FiguresAgree
  <1>1. ReportsInit => ReportsInv
    BY ReportsInitOK
  <1>2. ReportsInv /\ [ReportsNext]_reportsVars => ReportsInv'
    BY ReportsStepOK
  <1>3. ReportsInv => FiguresAgree
    BY ReportsInvImplies
  <1>4. QED
    BY <1>1, <1>2, <1>3, PTL DEF ReportsSpec

(* A report that was answered shows the database as down only if it went or *)
(* came back meanwhile, and the public check is always answered.            *)
THEOREM ReportsDownInPassing == ReportsSpec => []DownOnlyInPassing
  <1>1. ReportsInit => ReportsInv
    BY ReportsInitOK
  <1>2. ReportsInv /\ [ReportsNext]_reportsVars => ReportsInv'
    BY ReportsStepOK
  <1>3. ReportsInv => DownOnlyInPassing
    BY ReportsInvImplies
  <1>4. QED
    BY <1>1, <1>2, <1>3, PTL DEF ReportsSpec

=============================================================================
