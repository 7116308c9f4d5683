----------------------- MODULE ArchiveCalendarProofs -----------------------
(***************************************************************************)
(* Facts about the cursor arithmetic, for every archive type and every     *)
(* report day: a cursor moves one period at a time and never stands still. *)
(***************************************************************************)
EXTENDS ArchiveCalendar, TLAPS

\* A month has 28 to 31 days (monthReportDate's lastDay).
LEMMA MonthLength ==
  ASSUME NEW m \in Int
  PROVE  DaysIn(m) \in 28..31
BY DEF DaysIn

\* Packing a date loses nothing.
LEMMA Packing ==
  ASSUME NEW m \in Int, NEW d \in 0..31
  PROVE  /\ Date(m, d) \in Int
         /\ MonthOf(Date(m, d)) = m
         /\ DayOf(Date(m, d)) = d
BY DEF Date, MonthOf, DayOf

\* monthReportDate stays inside its month and never exceeds the report day,
\* unless that is below 1 (lines 558-564).
THEOREM ReportDateClamped ==
  ASSUME NEW m \in Int
  PROVE  /\ ReportDate(m) \in Int
         /\ MonthOf(ReportDate(m)) = m
         /\ DayOf(ReportDate(m)) \in 1..DaysIn(m)
         /\ ReportDay >= 1 => DayOf(ReportDate(m)) <= ReportDay
         /\ ReportDay \in 1..DaysIn(m) => DayOf(ReportDate(m)) = ReportDay
<1> DEFINE day == IF ReportDay < 1 THEN 1 ELSE ReportDay
           clamped == IF day > DaysIn(m) THEN DaysIn(m) ELSE day
<1>1. DaysIn(m) \in 28..31
  BY MonthLength
<1>2. clamped \in 1..DaysIn(m)
  BY <1>1, ReportDayAssumption
<1>3. clamped \in 0..31
  BY <1>1, <1>2
<1>4. ReportDate(m) = Date(m, clamped)
  BY DEF ReportDate
<1>5. /\ Date(m, clamped) \in Int
      /\ MonthOf(Date(m, clamped)) = m
      /\ DayOf(Date(m, clamped)) = clamped
  <2> HIDE DEF clamped
  <2> QED BY <1>3, Packing
<1>6. /\ ReportDay >= 1 => clamped <= ReportDay
      /\ ReportDay \in 1..DaysIn(m) => clamped = ReportDay
  BY <1>1, ReportDayAssumption
<1> QED
  BY <1>2, <1>4, <1>5, <1>6

\* The arithmetic stays within the integers.
LEMMA CalendarTypes ==
  ASSUME NEW t \in Int
  PROVE  /\ nextArchiveTime(t) \in Int
         /\ KeyOf(t) \in Int
         /\ TimeOfKey(t) \in Int
         /\ PeriodOf(t) \in Int
         /\ MonthOf(t) \in Int
<1>1. MonthOf(t) \in Int /\ t \div 24 \in Int /\ 24 * t \in Int
  BY DEF MonthOf
<1>2. monthReportDate(t, 1) \in Int
  BY <1>1, ReportDateClamped DEF monthReportDate
<1> QED
  BY <1>1, <1>2 DEF nextArchiveTime, KeyOf, TimeOfKey, PeriodOf

\* A key gives back the mark's own key: Last() after SaveArchive().
LEMMA KeyOfStored ==
  ASSUME NEW k \in Int
  PROVE  KeyOf(TimeOfKey(k)) = k
BY DEF KeyOf, TimeOfKey

\* Keys and periods order alike.
LEMMA PeriodsOrdered ==
  ASSUME NEW k \in Int, NEW j \in Int, k <= j
  PROVE  PeriodOf(k) <= PeriodOf(j)
BY DEF PeriodOf, MonthOf

\* nextArchiveTime moves to the very next period: the cursor of any archive
\* visits every period once, in order (lines 590-599).
THEOREM NextPeriod ==
  ASSUME NEW t \in Int
  PROVE  PeriodOf(KeyOf(nextArchiveTime(t))) = PeriodOf(KeyOf(t)) + 1
<1>1. CASE Typ = "Hourly"
  BY <1>1 DEF PeriodOf, KeyOf, nextArchiveTime, Dated
<1>2. CASE Typ = "Daily"
  BY <1>2 DEF PeriodOf, KeyOf, nextArchiveTime, Dated
<1>3. CASE Typ \in Dated
  <2>1. MonthOf(t) \in Int
    BY CalendarTypes
  <2>2. MonthOf(ReportDate(MonthOf(t) + 1)) = MonthOf(t) + 1
    BY <2>1, ReportDateClamped
  <2>3. /\ PeriodOf(KeyOf(t)) = MonthOf(t)
        /\ PeriodOf(KeyOf(nextArchiveTime(t))) = MonthOf(ReportDate(MonthOf(t) + 1))
    BY <1>3 DEF PeriodOf, KeyOf, nextArchiveTime, monthReportDate, Dated
  <2> QED
    BY <2>2, <2>3
<1> QED
  BY <1>1, <1>2, <1>3, TypAssumption

\* The cursor advances: the loop over absent records, whose counter stands
\* still, ends, and its "date did not advance" branch is dead (lines 303-308).
THEOREM NextAdvances ==
  ASSUME NEW t \in Int
  PROVE  nextArchiveTime(t) > t
<1>1. CASE Typ \in {"Hourly", "Daily"}
  BY <1>1 DEF nextArchiveTime
<1>2. CASE Typ \in Dated
  <2> DEFINE next == nextArchiveTime(t)
  <2>1. next \in Int
    BY CalendarTypes
  <2>2. MonthOf(next) = MonthOf(t) + 1
    BY <1>2, NextPeriod DEF PeriodOf, KeyOf, Dated
  <2> QED
    <3> HIDE DEF next
    <3>1. next > t
      BY <2>1, <2>2 DEF MonthOf
    <3> QED BY <3>1 DEF next
<1> QED
  BY <1>1, <1>2, TypAssumption

\* After one step the cursor stands on the key of its period.
LEMMA NextIsKeyOfPeriod ==
  ASSUME NEW t \in Int
  PROVE  KeyOf(nextArchiveTime(t)) = KeyOfPeriod(PeriodOf(KeyOf(nextArchiveTime(t))))
<1>1. CASE Typ \in {"Hourly", "Daily"}
  BY <1>1 DEF PeriodOf, KeyOfPeriod, Dated
<1>2. CASE Typ \in Dated
  <2>1. MonthOf(t) \in Int
    BY CalendarTypes
  <2>2. MonthOf(ReportDate(MonthOf(t) + 1)) = MonthOf(t) + 1
    BY <2>1, ReportDateClamped
  <2> QED
    BY <1>2, <2>2 DEF PeriodOf, KeyOfPeriod, KeyOf, nextArchiveTime, monthReportDate, Dated
<1> QED
  BY <1>1, <1>2, TypAssumption
=============================================================================
