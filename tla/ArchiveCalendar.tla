-------------------------- MODULE ArchiveCalendar --------------------------
(***************************************************************************)
(* The cursor arithmetic of one VKT-7 archive: which chronological mark    *)
(* comes after another, when a mark may be read, where an empty archive    *)
(* begins and under which key PostgreSQL stores a mark.                    *)
(*                                                                         *)
(* A time is an integer in the unit that the arithmetic of its archive     *)
(* uses:                                                                   *)
(*   "Hourly"            hours since an arbitrary midnight;                *)
(*   "Daily"             hours too, because a daily cursor keeps an hour   *)
(*                       of the day that its stored key does not have;     *)
(*   "Monthly", "Total"  packed dates 32 * month + day, with month the     *)
(*                       number of months since January 2000.              *)
(* A packed date orders like the date.  The hour of a monthly cursor is    *)
(* always 0 or 23 and due() compares it with a midnight, so the date alone *)
(* decides.  The local zone is taken to be UTC without daylight saving.    *)
(***************************************************************************)
EXTENDS Integers

CONSTANTS
  Typ,        \* the archive type
  ReportDay,  \* the meter's report day as once() resolved it
  Overlap,    \* --overlap
  YearUnits   \* a year in hours, for AddDate(-1, 0, 0) on an hourly clock

Dated == {"Monthly", "Total"}

ASSUME TypAssumption == Typ \in {"Hourly", "Daily"} \cup Dated
ASSUME ReportDayAssumption == ReportDay \in Int
ASSUME OverlapAssumption == Overlap \in Int
ASSUME YearAssumption == YearUnits \in Nat

Time == Int
-----------------------------------------------------------------------------
MonthOf(d) == d \div 32
DayOf(d) == d % 32
Date(month, day) == 32 * month + day

IsLeap(month) ==
  LET year == 2000 + month \div 12
  IN  year % 4 = 0 /\ (year % 100 # 0 \/ year % 400 = 0)

\* time.Date(year, month + 1, 0).Day(): the length of a month.
DaysIn(month) ==
  CASE month % 12 = 1              -> IF IsLeap(month) THEN 29 ELSE 28
    [] month % 12 \in {3, 5, 8, 10} -> 30
    [] OTHER                        -> 31

\* AddDate(0, n, 0): the same day n months on; a day the month does not
\* have runs over into the month after it.
AddMonths(d, n) ==
  LET month == MonthOf(d) + n
  IN  IF DayOf(d) > DaysIn(month)
      THEN Date(month + 1, DayOf(d) - DaysIn(month))
      ELSE Date(month, DayOf(d))

\* The report day clamped to the month.
ReportDate(month) ==
  LET day == IF ReportDay < 1 THEN 1 ELSE ReportDay
  IN  Date(month, IF day > DaysIn(month) THEN DaysIn(month) ELSE day)

monthReportDate(t, offset) == ReportDate(MonthOf(t) + offset)
-----------------------------------------------------------------------------
\* Slip of due: a period that has begun is taken for one that is over.
dueWhenBegun(t, now) ==
  IF Typ \in Dated THEN MonthOf(t) <= MonthOf(now) ELSE t <= now

\* May the record of mark t be asked for when the clock shows now?
due(t, now) ==
  CASE Typ = "Hourly" -> t <= now - 1
    [] Typ = "Daily"  -> t <= now - 24
    [] OTHER          -> t < now

\* Slips of nextArchiveTime: a period left out; the day of the month kept
\* instead of clamped.
nextPeriodButOne(t) ==
  CASE Typ = "Hourly" -> t + 2
    [] Typ = "Daily"  -> t + 48
    [] OTHER          -> monthReportDate(t, 2)

nextByAddDate(t) ==
  CASE Typ = "Hourly" -> t + 1
    [] Typ = "Daily"  -> t + 24
    [] OTHER          -> AddMonths(t, 1)

nextArchiveTime(t) ==
  CASE Typ = "Hourly" -> t + 1
    [] Typ = "Daily"  -> t + 24
    [] OTHER          -> monthReportDate(t, 1)

\* Slip of afterStored: the overlap counted from the stored mark itself.
overlapFromLast(last) ==
  CASE Typ = "Hourly" -> last - Overlap
    [] Typ = "Daily"  -> last - 24 * Overlap
    [] OTHER          -> AddMonths(last, -Overlap)

\* The cursor after the stored mark "last", pulled back by --overlap.
afterStored(last) ==
  LET start == nextArchiveTime(last)
  IN  IF Overlap <= 0
      THEN start
      ELSE CASE Typ = "Hourly" -> start - Overlap
             [] Typ = "Daily"  -> start - 24 * Overlap
             [] OTHER          -> AddMonths(start, -Overlap)

\* A reply to the range request: "full" carries the start of the hourly and
\* of the daily archive, "old" the first of them, "short" not even one date.
RangeReply == [kind : {"full", "old", "short"}, hourly : Time, daily : Time]

\* Slip of parseStart: the archive begins after its first mark.
startAfterFirst(reply, now) ==
  CASE Typ = "Hourly" -> reply.hourly + 1
    [] Typ = "Daily"  -> reply.daily + 24
    [] OTHER          -> monthReportDate(reply.daily, 1)

parseStart(reply, now) ==
  CASE reply.kind = "full" ->
         (CASE Typ = "Hourly" -> reply.hourly
            [] Typ = "Daily"  -> reply.daily
            [] OTHER          -> monthReportDate(reply.daily, 0))
    [] reply.kind = "old" ->
         (CASE Typ = "Hourly" -> reply.hourly
            [] Typ = "Daily"  -> 24 * (reply.hourly \div 24) + 23
            [] OTHER          -> monthReportDate(reply.hourly, 0))
    [] OTHER -> IF Typ \in Dated THEN AddMonths(now, -12) ELSE now - YearUnits

\* The primary key of a mark in its archive table, and the mark that Last()
\* rebuilds from a key: a date column gives back midnight.
KeyOf(t) == IF Typ = "Daily" THEN t \div 24 ELSE t
TimeOfKey(k) == IF Typ = "Daily" THEN 24 * k ELSE k
-----------------------------------------------------------------------------
(* The consecutive numbering of the periods an archive records.            *)

PeriodOf(k) == IF Typ \in Dated THEN MonthOf(k) ELSE k

\* The key under which the record of a period is stored.
KeyOfPeriod(p) == IF Typ \in Dated THEN ReportDate(p) ELSE p
=============================================================================
