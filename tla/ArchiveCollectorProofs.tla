----------------------- MODULE ArchiveCollectorProofs -----------------------
(***************************************************************************)
(* Theorems about ArchiveCollector for every archive type, report day,     *)
(* batch, clock, set of schemes and number of faults.                      *)
(***************************************************************************)
EXTENDS ArchiveCollector, ArchiveCalendarProofs

RecordLabels == {"chunkList", "chunkDate", "chunkData", "rActive", "rCurrent",
                 "rTV1", "rTV2", "rDB", "rType", "rList", "save"}
LoopLabels == RecordLabels \cup {"loop"}

\* Where collectArchive() and readArchiveRecord() have a list.
LocalsOK ==
  /\ pc \in LoopLabels \cup {"list", "last", "range"} => es \in Schemes
  /\ pc \in RecordLabels => list \in Schemes
  /\ pc = "range" => DOMAIN rows = {}

\* What makes Last() well defined: the keys are finitely many.
HasNewest ==
  DOMAIN rows # {} => \E m \in DOMAIN rows : \A k \in DOMAIN rows : k <= m

TypeInv == TypeOK /\ LocalsOK /\ HasNewest
-----------------------------------------------------------------------------
(* Type correctness.                                                       *)

\* Pulling the cursor back leaves a time.
LEMMA AfterStoredType ==
  ASSUME NEW t \in Int
  PROVE  afterStored(t) \in Int
<1> DEFINE n == nextArchiveTime(t)
<1>1. n \in Int
  BY CalendarTypes
<1>2. AddMonths(n, -Overlap) \in Int
  <2> DEFINE m == MonthOf(n) + (-Overlap)
  <2>1. MonthOf(n) \in Int /\ DayOf(n) \in Int
    BY <1>1, CalendarTypes DEF DayOf
  <2>2. m \in Int /\ m + 1 \in Int
    BY <2>1, OverlapAssumption
  <2>3. DaysIn(m) \in Int
    BY <2>2, MonthLength
  <2> HIDE DEF m, n
  <2>4. Date(m + 1, DayOf(n) - DaysIn(m)) \in Int /\ Date(m, DayOf(n)) \in Int
    BY <2>1, <2>2, <2>3 DEF Date
  <2> QED
    BY <2>4 DEF AddMonths, m
<1> HIDE DEF n
<1>3. n - Overlap \in Int /\ n - 24 * Overlap \in Int
  BY <1>1, OverlapAssumption
<1> QED
  BY <1>1, <1>2, <1>3 DEF afterStored, n

\* So does the start of an empty archive.
LEMMA ParseStartType ==
  ASSUME NEW reply \in RangeReply, NEW t \in Int
  PROVE  parseStart(reply, t) \in Int
<1>1. reply.hourly \in Int /\ reply.daily \in Int
  BY DEF RangeReply, Time
<1>2. /\ monthReportDate(reply.hourly, 0) \in Int
      /\ monthReportDate(reply.daily, 0) \in Int
  <2> SUFFICES ASSUME NEW x \in Int PROVE monthReportDate(x, 0) \in Int
    BY <1>1
  <2>1. MonthOf(x) \in Int /\ MonthOf(x) + 0 \in Int
    BY DEF MonthOf
  <2> QED
    BY <2>1, ReportDateClamped DEF monthReportDate
<1>3. AddMonths(t, -12) \in Int
  <2> DEFINE m == MonthOf(t) + (-12)
  <2>1. MonthOf(t) \in Int /\ DayOf(t) \in Int
    BY CalendarTypes DEF DayOf
  <2>2. m \in Int /\ m + 1 \in Int /\ DaysIn(m) \in Int
    BY <2>1, MonthLength
  <2> HIDE DEF m
  <2>3. Date(m + 1, DayOf(t) - DaysIn(m)) \in Int /\ Date(m, DayOf(t)) \in Int
    BY <2>1, <2>2 DEF Date
  <2> QED
    BY <2>3 DEF AddMonths, m
<1>4. t - YearUnits \in Int /\ 24 * (reply.hourly \div 24) + 23 \in Int
  BY <1>1, YearAssumption
<1> QED
  BY <1>1, <1>2, <1>3, <1>4 DEF parseStart

\* The newest stored key is one of the keys.
LEMMA MaxStored ==
  ASSUME NEW S \in SUBSET Int, NEW m \in S, \A k \in S : k <= m
  PROVE  Max(S) \in S /\ \A k \in S : k <= Max(S)
BY DEF Max

\* Initially every variable has its type.
LEMMA TypeInit == Init => TypeInv
<1> SUFFICES ASSUME Init PROVE TypeInv
  OBVIOUS
<1>1. rows \in [DOMAIN rows -> Row] /\ DOMAIN rows \subseteq Time
  BY DEF Init
<1>2. NoMeta \in Metadata
  BY DEF NoMeta, Metadata
<1>3. TypeOK
  <2>1. notice \in BOOLEAN
    BY Zenon DEF Init
  <2>2. scheme \in Schemes /\ now \in Time
    BY MomentsAssumption DEF Init
  <2>3. /\ regType \in {Typ, "Current", Nil}
        /\ regList \in (Schemes \X Nat) \cup {Nil}
        /\ regDate \in Time \cup {Nil}
        /\ es \in Schemes \cup {Nil} /\ list \in Schemes \cup {Nil}
    BY DEF Init
  <2>4. /\ changes \in Nat /\ faults \in Nat /\ count \in Nat /\ chunk \in Nat
        /\ attempt \in {0, 1} /\ start \in Time
    BY DEF Init, Time
  <2>5. absent \subseteq Time /\ result \in SUBSET Piece /\ pc \in Labels
    BY DEF Init, Labels
  <2>6. meta \in Metadata /\ recMeta \in Metadata
    BY <1>2 DEF Init
  <2> QED
    BY <1>1, <2>1, <2>2, <2>3, <2>4, <2>5, <2>6 DEF TypeOK
<1>4. LocalsOK
  BY DEF Init, LocalsOK, LoopLabels, RecordLabels
<1> QED
  BY <1>3, <1>4 DEF TypeInv, Init, HasNewest

\* The metadata after one field is read.
LEMMA MetaUpdate ==
  ASSUME NEW m \in Metadata, NEW v \in Schemes \cup {Nil, Address}
  PROVE  /\ [m EXCEPT !.tv1 = v] \in Metadata
         /\ [m EXCEPT !.tv2 = v] \in Metadata
         /\ [m EXCEPT !.db = v] \in Metadata
         /\ [m EXCEPT !.tv1 = v, !.tv2 = v] \in Metadata
BY DEF Metadata

\* The metadata of a session that knows nothing yet are metadata.
LEMMA NoMetaTyped == NoMeta \in Metadata
BY DEF NoMeta, Metadata

\* Every step keeps the types (the actions of once, collectArchive and
\* readArchiveRecord).
LEMMA TypeStep == TypeInv /\ Next => TypeInv'
<1> SUFFICES ASSUME TypeInv, Next PROVE TypeInv'
  OBVIOUS
<1>0. UNCHANGED rows => (HasNewest => HasNewest')
  BY DEF HasNewest
<1> USE NoMetaTyped, <1>0
    DEF TypeInv, TypeOK, LocalsOK, LoopLabels, RecordLabels, Labels,
        meter, world, record, job, Works, Fails, Return, NoJob, NoRecord,
        Time, Abandon, RefreshScheme, PassOver, Unsure
<1>1. CASE StartSession
  BY <1>1, CalendarTypes DEF StartSession
<1>2. CASE ReadService
  <2>1. meta' \in Metadata
    BY <1>2, MetaUpdate, ZenonT(60) DEF ReadService
  <2> QED
    BY <1>2, <2>1 DEF ReadService
<1>3. CASE ReadSessionActive
  <2>1. notice' \in BOOLEAN
    BY <1>3, Zenon DEF ReadSessionActive
  <2> QED
    BY <1>3, <2>1, CalendarTypes DEF ReadSessionActive
<1>4. CASE SelectCurrent
  BY <1>4, CalendarTypes DEF SelectCurrent
<1>5. CASE ReadSessionDB
  <2>1. SchemeRead \in Schemes \cup {Nil, Address}
    BY DEF SchemeRead
  <2>2. meta' \in Metadata
    BY <1>5, <2>1, MetaUpdate DEF ReadSessionDB
  <2> QED
    BY <1>5, <2>2 DEF ReadSessionDB
<1>6. CASE SelectType
  BY <1>6, CalendarTypes DEF SelectType
<1>7. CASE ReadActive
  <2>1. notice' \in BOOLEAN
    BY <1>7, Zenon DEF ReadActive
  <2> QED
    BY <1>7, <2>1, CalendarTypes DEF ReadActive
<1>8. CASE WriteList
  BY <1>8, CalendarTypes DEF WriteList
<1>9. CASE ReadCursor
  <2>1. CASE Works /\ DOMAIN rows # {} /\ start' = afterStored(TimeOfKey(Max(DOMAIN rows)))
    <3>1. Max(DOMAIN rows) \in Int
      BY <2>1, MaxStored DEF HasNewest
    <3>2. start' \in Int
      BY <2>1, <3>1, CalendarTypes, AfterStoredType
    <3> QED
      BY <1>9, <2>1, <3>2 DEF ReadCursor
  <2> QED
    BY <1>9, <2>1 DEF ReadCursor
<1>10. CASE ReadRange
  <2>1. start' \in Int
    BY <1>10, ParseStartType, RangeAssumption DEF ReadRange
  <2> QED
    BY <1>10, <2>1 DEF ReadRange
<1>11. CASE NextRecord
  BY <1>11, CalendarTypes DEF NextRecord
<1>12. CASE WriteChunkList
  BY <1>12, CalendarTypes, SMTT(30) DEF WriteChunkList
<1>13. CASE WriteChunkDate
  BY <1>13, CalendarTypes, SMTT(30) DEF WriteChunkDate
<1>14. CASE ReadChunkData
  <2>1. Answer \in Piece
    BY DEF Answer, Piece
  <2>2. result' \in SUBSET Piece
    BY <1>14, <2>1 DEF ReadChunkData
  <2> QED
    BY <1>14, <2>2, CalendarTypes, SMTT(30) DEF ReadChunkData
<1>15. CASE RefreshActive
  <2>1. notice' \in BOOLEAN
    BY <1>15, Zenon DEF RefreshActive
  <2> QED
    BY <1>15, <2>1, CalendarTypes, SMTT(30) DEF RefreshActive
<1>16. CASE RefreshCurrent
  BY <1>16, CalendarTypes, SMTT(30) DEF RefreshCurrent
<1>17. CASE RefreshTV1
  <2>1. SchemeRead \in Schemes \cup {Nil, Address}
    BY DEF SchemeRead
  <2>2. recMeta' \in Metadata
    BY <1>17, <2>1, MetaUpdate DEF RefreshTV1, RefreshMeta
  <2> QED
    BY <1>17, <2>2 DEF RefreshTV1, RefreshMeta
<1>18. CASE RefreshTV2
  <2>1. SchemeRead \in Schemes \cup {Nil, Address}
    BY DEF SchemeRead
  <2>2. recMeta' \in Metadata
    BY <1>18, <2>1, MetaUpdate DEF RefreshTV2, RefreshMeta
  <2> QED
    BY <1>18, <2>2 DEF RefreshTV2, RefreshMeta
<1>19. CASE RefreshDB
  <2>1. SchemeRead \in Schemes \cup {Nil, Address}
    BY DEF SchemeRead
  <2>2. recMeta' \in Metadata
    BY <1>19, <2>1, MetaUpdate DEF RefreshDB, RefreshMeta
  <2> QED
    BY <1>19, <2>2 DEF RefreshDB, RefreshMeta
<1>20. CASE RestoreType
  BY <1>20, CalendarTypes, SMTT(30) DEF RestoreType
<1>21. CASE RestoreList
  BY <1>21, CalendarTypes, SMTT(30) DEF RestoreList
<1>22. CASE SaveArchive
  <2>1. start' \in Int
    BY <1>22, CalendarTypes DEF SaveArchive
  <2>2. rows' \in [DOMAIN rows' -> Row] /\ DOMAIN rows' \subseteq Time
    <3>1. KeyOf(start) \in Int
      BY CalendarTypes
    <3>2. ReadRow \in Row
      BY <1>22 DEF SaveArchive, ReadRow, Row
    <3>3. CASE Upsert
      BY <3>1, <3>2, <3>3 DEF Upsert
    <3> QED
      BY <1>22, <3>3 DEF SaveArchive
  <2>3. HasNewest'
    <3>1. KeyOf(start) \in Int
      BY CalendarTypes
    <3>2. CASE Upsert
      <4>1. DOMAIN rows' = DOMAIN rows \cup {KeyOf(start)}
        BY <3>2 DEF Upsert
      <4>2. CASE \A k \in DOMAIN rows : k <= KeyOf(start)
        <5>1. /\ KeyOf(start) \in DOMAIN rows'
              /\ \A k \in DOMAIN rows' : k <= KeyOf(start)
          BY <3>1, <4>1, <4>2
        <5> QED
          BY <5>1 DEF HasNewest
      <4>3. CASE \E k \in DOMAIN rows : ~(k <= KeyOf(start))
        <5>1. PICK m \in DOMAIN rows : \A k \in DOMAIN rows : k <= m
          BY <4>3 DEF HasNewest
        <5>2. \A k \in DOMAIN rows' : k <= m
          BY <3>1, <4>1, <4>3, <5>1
        <5> QED
          BY <4>1, <5>1, <5>2 DEF HasNewest
      <4> QED
        BY <4>2, <4>3
    <3> QED
      BY <1>22, <3>2 DEF SaveArchive, HasNewest
  <2> QED
    BY <1>22, <2>1, <2>2, <2>3, SMTT(30) DEF SaveArchive
<1>23. CASE Tick
  <2>1. now' \in Int
    BY <1>23, MomentsAssumption DEF Tick
  <2> QED
    BY <1>23, <2>1 DEF Tick
<1>24. CASE SwitchScheme
  BY <1>24, CalendarTypes DEF SwitchScheme
<1>25. CASE Crash
  BY <1>25, CalendarTypes DEF Crash
<1> QED
  BY <1>1, <1>2, <1>3, <1>4, <1>5, <1>6, <1>7, <1>8, <1>9, <1>10, <1>11, <1>12, <1>13, <1>14, <1>15, <1>16, <1>17, <1>18, <1>19, <1>20, <1>21, <1>22, <1>23, <1>24, <1>25
     DEF Next, Program, World

\* Every variable keeps its type: no request, fault, switch or restart leaves
\* a local, a register or a row outside the values the code can handle.
THEOREM TypeCorrect == Spec => []TypeOK
<1>1. TypeInv /\ UNCHANGED vars => TypeInv'
  BY DEF TypeInv, TypeOK, LocalsOK, HasNewest, vars, meter, world, record, job
<1>2. TypeInv => TypeOK
  BY DEF TypeInv
<1> QED
  BY <1>1, <1>2, TypeInit, TypeStep, PTL DEF Spec

\* Types, the presence of a list wherever one is used, and a newest key.
THEOREM TypeInvariant == Spec => []TypeInv
<1>1. TypeInv /\ UNCHANGED vars => TypeInv'
  BY DEF TypeInv, TypeOK, LocalsOK, HasNewest, vars, meter, world, record, job
<1> QED
  BY <1>1, TypeInit, TypeStep, PTL DEF Spec
-----------------------------------------------------------------------------
(* What a step can do to the table, the absent marks and the cursor.       *)

Cursor == PeriodOf(KeyOf(start))

Quiet ==
  /\ rows' = rows /\ absent' = absent
  /\ pc' \notin LoopLabels \/ (pc \in LoopLabels /\ start' = start)

CursorSet ==
  /\ rows' = rows /\ absent' = absent
  /\ \/ DOMAIN rows = {}
     \/ DOMAIN rows # {} /\ start' = afterStored(TimeOfKey(Max(DOMAIN rows)))

Passed ==
  /\ pc \in LoopLabels /\ rows' = rows
  /\ absent' = absent \cup {start} /\ start' = nextArchiveTime(start)

Saved ==
  /\ pc \in LoopLabels /\ absent' = absent /\ Upsert
  /\ pc' \notin LoopLabels \/ start' = nextArchiveTime(start)

\* To the cursor a step does nothing, sets it, passes a period or saves one.
LEMMA StepKinds ==
  TypeInv /\ Next => Quiet \/ CursorSet \/ Passed \/ Saved
<1> SUFFICES ASSUME TypeInv, Next PROVE Quiet \/ CursorSet \/ Passed \/ Saved
  OBVIOUS
<1> USE DEF LoopLabels, RecordLabels, Quiet, Return, NoJob, job, Abandon
<1>1. CASE StartSession
  BY <1>1 DEF StartSession
<1>2. CASE ReadService
  BY <1>2 DEF ReadService
<1>3. CASE ReadSessionActive
  BY <1>3 DEF ReadSessionActive
<1>4. CASE SelectCurrent
  BY <1>4 DEF SelectCurrent
<1>5. CASE ReadSessionDB
  BY <1>5 DEF ReadSessionDB
<1>6. CASE SelectType
  BY <1>6 DEF SelectType
<1>7. CASE ReadActive
  BY <1>7 DEF ReadActive
<1>8. CASE WriteList
  BY <1>8 DEF WriteList
<1>9. CASE ReadCursor
  BY <1>9 DEF ReadCursor, CursorSet
<1>10. CASE ReadRange
  BY <1>10 DEF ReadRange, CursorSet, TypeInv, LocalsOK
<1>11. CASE NextRecord
  BY <1>11 DEF NextRecord
<1>12. CASE WriteChunkList
  BY <1>12 DEF WriteChunkList, PassOver, Passed, RefreshScheme
<1>13. CASE WriteChunkDate
  BY <1>13 DEF WriteChunkDate, PassOver, Passed, RefreshScheme
<1>14. CASE ReadChunkData
  BY <1>14 DEF ReadChunkData, PassOver, Passed, RefreshScheme
<1>15. CASE RefreshActive
  BY <1>15 DEF RefreshActive, PassOver, Passed, RefreshScheme
<1>16. CASE RefreshCurrent
  BY <1>16 DEF RefreshCurrent, PassOver, Passed, RefreshScheme
<1>17. CASE RefreshTV1
  BY <1>17 DEF RefreshTV1, RefreshMeta
<1>18. CASE RefreshTV2
  BY <1>18 DEF RefreshTV2, RefreshMeta
<1>19. CASE RefreshDB
  BY <1>19 DEF RefreshDB, RefreshMeta
<1>20. CASE RestoreType
  BY <1>20 DEF RestoreType, PassOver, Passed, RefreshScheme
<1>21. CASE RestoreList
  BY <1>21 DEF RestoreList, PassOver, Passed, RefreshScheme
<1>22. CASE SaveArchive
  BY <1>22 DEF SaveArchive, Saved
<1>23. CASE Tick
  BY <1>23 DEF Tick
<1>24. CASE SwitchScheme
  BY <1>24 DEF SwitchScheme
<1>25. CASE Crash
  BY <1>25 DEF Crash
<1> QED
  BY <1>1, <1>2, <1>3, <1>4, <1>5, <1>6, <1>7, <1>8, <1>9, <1>10, <1>11, <1>12, <1>13, <1>14, <1>15, <1>16, <1>17, <1>18, <1>19, <1>20, <1>21, <1>22, <1>23, <1>24, <1>25
     DEF Next, Program, World
-----------------------------------------------------------------------------
(* The cursor invariant: while a session reads, its cursor stands on the   *)
(* key of a period before which every period since a stored one is         *)
(* accounted for; it is the newest stored one or one after it.             *)

\* The cursor of a session is never before the newest stored period: there is
\* no overlap, or one of a single period on a calendar that finds the newest
\* period again.  (A month back from the 29th to 31st may run over into the
\* month after; a longer overlap may lead before the first stored period.)
ReachesBackToNewest ==
  \/ Overlap <= 0
  \/ Overlap = 1 /\ (Typ \in Dated => ReportDay <= 28)

Accounted(a, b) == Log!Between(a, b) \subseteq StoredPeriods \cup AbsentPeriods

CursorOK ==
  pc \in LoopLabels =>
    /\ \A k \in DOMAIN rows : PeriodOf(k) <= Cursor
    /\ Overlap <= 0 => \A k \in DOMAIN rows : PeriodOf(k) < Cursor
    /\ \A k \in DOMAIN rows : Accounted(PeriodOf(k), Cursor)
    /\ DOMAIN rows # {} => KeyOf(start) = KeyOfPeriod(Cursor)

CursorInv == CursorOK /\ NoSilentGap

\* Up to day 28 no month clamps the report day: it is the same in all of them.
LEMMA UnclampedReportDate ==
  ASSUME ReportDay <= 28
  PROVE  \E day \in 1..28 : \A m \in Int : ReportDate(m) = Date(m, day)
<1>1. PICK day \in 1..28 : day = IF ReportDay < 1 THEN 1 ELSE ReportDay
  BY ReportDayAssumption
<1>2. ASSUME NEW m \in Int
      PROVE  ReportDate(m) = Date(m, day)
  <2>1. DaysIn(m) \in 28..31
    BY MonthLength
  <2>2. ~(day > DaysIn(m))
    BY <1>1, <2>1
  <2> QED
    BY <1>1, <2>2 DEF ReportDate
<1> QED
  BY <1>2

\* A month back from the next report date is the report date, up to day 28.
LEMMA ReportDateAgain ==
  ASSUME ReportDay <= 28, NEW m \in Int
  PROVE  AddMonths(ReportDate(m + 1), -1) = ReportDate(m)
<1>1. PICK day \in 1..28 : \A n \in Int : ReportDate(n) = Date(n, day)
  BY UnclampedReportDate
<1>2. ReportDate(m + 1) = Date(m + 1, day) /\ ReportDate(m) = Date(m, day)
  BY <1>1
<1>3. MonthOf(Date(m + 1, day)) = m + 1 /\ DayOf(Date(m + 1, day)) = day
  <2>1. m + 1 \in Int /\ day \in 0..31
    OBVIOUS
  <2> QED
    BY <2>1, Packing
<1>4. DaysIn(m) \in 28..31 /\ m + 1 + (-1) = m
  BY MonthLength
<1>5. ~(day > DaysIn(m))
  BY <1>4
<1> QED
  BY <1>2, <1>3, <1>4, <1>5 DEF AddMonths

\* Without --overlap the cursor after a stored key is the next period's key.
LEMMA AfterStored ==
  ASSUME Overlap <= 0, NEW k \in Int
  PROVE  /\ PeriodOf(KeyOf(afterStored(TimeOfKey(k)))) = PeriodOf(k) + 1
         /\ KeyOf(afterStored(TimeOfKey(k))) = KeyOfPeriod(PeriodOf(k) + 1)
<1>1. afterStored(TimeOfKey(k)) = nextArchiveTime(TimeOfKey(k))
  BY DEF afterStored
<1>2. TimeOfKey(k) \in Int /\ KeyOf(TimeOfKey(k)) = k
  BY CalendarTypes, KeyOfStored
<1>3. PeriodOf(KeyOf(nextArchiveTime(TimeOfKey(k)))) = PeriodOf(k) + 1
  BY <1>2, NextPeriod
<1> QED
  BY <1>1, <1>2, <1>3, NextIsKeyOfPeriod

\* With an overlap of one it is the key of the stored period itself.
LEMMA AfterStoredAgain ==
  ASSUME Overlap = 1, Typ \in Dated => ReportDay <= 28, NEW k \in Int
  PROVE  /\ PeriodOf(KeyOf(afterStored(TimeOfKey(k)))) = PeriodOf(k)
         /\ KeyOf(afterStored(TimeOfKey(k))) = KeyOfPeriod(PeriodOf(k))
<1>1. CASE Typ = "Hourly"
  BY <1>1 DEF afterStored, nextArchiveTime, TimeOfKey, KeyOf, PeriodOf, KeyOfPeriod, Dated
<1>2. CASE Typ = "Daily"
  <2>1. afterStored(TimeOfKey(k)) = 24 * k
    BY <1>2 DEF afterStored, nextArchiveTime, TimeOfKey
  <2> QED
    BY <1>2, <2>1 DEF KeyOf, PeriodOf, KeyOfPeriod, Dated
<1>3. CASE Typ \in Dated
  <2> DEFINE m == MonthOf(k)
  <2>1. m \in Int
    BY CalendarTypes
  <2>2. MonthOf(ReportDate(m)) = m
    BY <2>1, ReportDateClamped
  <2>3. AddMonths(ReportDate(m + 1), -1) = ReportDate(m)
    BY <1>3, <2>1, ReportDateAgain
  <2>4. afterStored(TimeOfKey(k)) = AddMonths(ReportDate(m + 1), -1)
    BY <1>3 DEF afterStored, nextArchiveTime, monthReportDate, TimeOfKey, Dated
  <2>5. /\ PeriodOf(k) = m /\ KeyOfPeriod(m) = ReportDate(m)
        /\ \A t : KeyOf(t) = t /\ PeriodOf(t) = MonthOf(t)
    BY <1>3 DEF PeriodOf, KeyOfPeriod, KeyOf, Dated
  <2> HIDE DEF m
  <2> QED
    BY <2>2, <2>3, <2>4, <2>5
<1> QED
  BY <1>1, <1>2, <1>3, TypAssumption

\* Initially nothing is stored and no cursor is set.
LEMMA CursorInit == Init => CursorInv
BY DEF Init, CursorInv, CursorOK, NoSilentGap, Log!NoGap, StoredPeriods,
       LoopLabels, RecordLabels

\* The abstract effect of a step on the periods.
LEMMA PassedPeriods ==
  ASSUME TypeInv, Passed
  PROVE  /\ StoredPeriods' = StoredPeriods
         /\ AbsentPeriods \subseteq AbsentPeriods'
         /\ AbsentPeriods' \subseteq AbsentPeriods \cup {Cursor}
         /\ KeyOf(start) = KeyOfPeriod(Cursor) => Cursor \in AbsentPeriods'
BY DEF Passed, StoredPeriods, AbsentPeriods, Cursor

\* A save adds the period of the cursor and no other.
LEMMA SavedPeriods ==
  ASSUME TypeInv, Saved
  PROVE  /\ DOMAIN rows' = DOMAIN rows \cup {KeyOf(start)}
         /\ StoredPeriods' = StoredPeriods \cup {Cursor}
         /\ AbsentPeriods' = AbsentPeriods
<1>1. DOMAIN rows' = DOMAIN rows \cup {KeyOf(start)}
  BY DEF Saved, Upsert
<1> QED
  BY <1>1 DEF Saved, StoredPeriods, AbsentPeriods, Cursor

\* What the invariants say, with integers where the provers need them.
LEMMA CursorFacts ==
  ASSUME TypeInv
  PROVE  /\ start \in Int /\ KeyOf(start) \in Int /\ Cursor \in Int
         /\ DOMAIN rows \in SUBSET Int
         /\ \A k \in DOMAIN rows : k \in Int /\ PeriodOf(k) \in Int
         /\ StoredPeriods \in SUBSET Int
         /\ absent \in SUBSET Int
<1>1. start \in Int /\ DOMAIN rows \in SUBSET Int /\ absent \in SUBSET Int
  BY DEF TypeInv, TypeOK, Time
<1> QED
  BY <1>1, CalendarTypes DEF Cursor, StoredPeriods

\* A cursor that moves on by nextArchiveTime stands on the next period's key.
LEMMA CursorAdvances ==
  ASSUME TypeInv, start' = nextArchiveTime(start)
  PROVE  Cursor' = Cursor + 1 /\ KeyOf(start') = KeyOfPeriod(Cursor')
BY CursorFacts, NextPeriod, NextIsKeyOfPeriod DEF Cursor

\* No step leaves a gap behind the cursor.
LEMMA CursorStep ==
  ASSUME ReachesBackToNewest, TypeInv, CursorInv, Next
  PROVE  CursorInv'
<1> DEFINE Known == StoredPeriods \cup AbsentPeriods
<1>1. CASE Quiet
  <2>1. StoredPeriods' = StoredPeriods /\ AbsentPeriods' = AbsentPeriods
    BY <1>1 DEF Quiet, StoredPeriods, AbsentPeriods
  <2>2. NoSilentGap'
    BY <2>1 DEF CursorInv, NoSilentGap, Log!NoGap
  <2>3. CursorOK'
    BY <1>1, <2>1 DEF Quiet, CursorInv, CursorOK, Accounted, Cursor
  <2> QED
    BY <2>2, <2>3 DEF CursorInv
<1>2. CASE CursorSet
  <2>1. StoredPeriods' = StoredPeriods /\ AbsentPeriods' = AbsentPeriods
    BY <1>2 DEF CursorSet, StoredPeriods, AbsentPeriods
  <2>2. NoSilentGap'
    BY <2>1 DEF CursorInv, NoSilentGap, Log!NoGap
  <2>3. CASE DOMAIN rows = {}
    BY <1>2, <2>2, <2>3 DEF CursorSet, CursorInv, CursorOK
  <2>4. CASE DOMAIN rows # {}
    <3> DEFINE m == Max(DOMAIN rows)
    <3>1. m \in DOMAIN rows /\ \A k \in DOMAIN rows : k <= m
      BY <2>4, MaxStored, CursorFacts DEF TypeInv, HasNewest
    <3>2. /\ KeyOf(start') = KeyOfPeriod(Cursor')
          /\ \/ Cursor' = PeriodOf(m) + 1
             \/ Cursor' = PeriodOf(m) /\ ~(Overlap <= 0)
      <4>1. m \in Int /\ start' = afterStored(TimeOfKey(m))
        BY <1>2, <2>4, <3>1, CursorFacts DEF CursorSet
      <4> HIDE DEF m
      <4>2. CASE Overlap <= 0
        BY <4>1, <4>2, AfterStored DEF Cursor
      <4>3. CASE Overlap = 1 /\ (Typ \in Dated => ReportDay <= 28)
        BY <4>1, <4>3, AfterStoredAgain DEF Cursor
      <4> QED
        BY <4>2, <4>3 DEF ReachesBackToNewest
    <3> HIDE DEF m
    <3>3. ASSUME NEW k \in DOMAIN rows
          PROVE  /\ PeriodOf(k) <= Cursor' /\ (Overlap <= 0 => PeriodOf(k) < Cursor')
                 /\ Log!Between(PeriodOf(k), Cursor') \subseteq Known
      <4>1. PeriodOf(k) \in StoredPeriods /\ PeriodOf(m) \in StoredPeriods
        BY <3>1 DEF StoredPeriods
      <4>2. PeriodOf(k) <= PeriodOf(m) /\ PeriodOf(k) \in Int /\ PeriodOf(m) \in Int
        BY <3>1, CursorFacts, PeriodsOrdered
      <4>3. Log!Between(PeriodOf(k), PeriodOf(m)) \subseteq Known
        BY <4>1 DEF CursorInv, NoSilentGap, Log!NoGap
      <4> QED
        BY <3>2, <4>1, <4>2, <4>3 DEF Log!Between
    <3>4. CursorOK'
      BY <1>2, <2>1, <3>2, <3>3 DEF CursorSet, CursorOK, Accounted
    <3> QED
      BY <2>2, <3>4 DEF CursorInv
  <2> QED
    BY <2>3, <2>4
<1>3. CASE Passed
  <2>1. /\ StoredPeriods' = StoredPeriods
        /\ AbsentPeriods \subseteq AbsentPeriods'
        /\ KeyOf(start) = KeyOfPeriod(Cursor) => Cursor \in AbsentPeriods'
    BY <1>3, PassedPeriods
  <2>2. NoSilentGap'
    BY <2>1 DEF CursorInv, NoSilentGap, Log!NoGap
  <2>3. Cursor' = Cursor + 1 /\ KeyOf(start') = KeyOfPeriod(Cursor')
    BY <1>3, CursorAdvances DEF Passed
  <2>4. ASSUME NEW k \in DOMAIN rows
        PROVE  /\ PeriodOf(k) <= Cursor' /\ PeriodOf(k) < Cursor'
               /\ Log!Between(PeriodOf(k), Cursor') \subseteq (StoredPeriods \cup AbsentPeriods)'
    <3>1. /\ PeriodOf(k) <= Cursor
          /\ Log!Between(PeriodOf(k), Cursor) \subseteq Known
          /\ KeyOf(start) = KeyOfPeriod(Cursor)
      BY <1>3 DEF Passed, CursorInv, CursorOK, Accounted
    <3>2. PeriodOf(k) \in Int /\ Cursor \in Int
      BY CursorFacts
    <3>3. /\ Cursor \in (StoredPeriods \cup AbsentPeriods)'
          /\ Log!Between(PeriodOf(k), Cursor) \subseteq (StoredPeriods \cup AbsentPeriods)'
      BY <2>1, <3>1
    <3> QED
      BY <2>3, <3>1, <3>2, <3>3 DEF Log!Between
  <2>5. CursorOK'
    BY <1>3, <2>3, <2>4 DEF Passed, CursorOK, Accounted
  <2> QED
    BY <2>2, <2>5 DEF CursorInv
<1>4. CASE Saved
  <2>1. /\ DOMAIN rows' = DOMAIN rows \cup {KeyOf(start)}
        /\ StoredPeriods' = StoredPeriods \cup {Cursor}
        /\ AbsentPeriods' = AbsentPeriods
    BY <1>4, SavedPeriods
  <2>2. ASSUME NEW k \in DOMAIN rows
        PROVE  PeriodOf(k) <= Cursor /\ Log!Between(PeriodOf(k), Cursor) \subseteq Known
    BY <1>4 DEF Saved, CursorInv, CursorOK, Accounted
  <2>3. NoSilentGap'
    <3>1. ASSUME NEW a \in StoredPeriods', NEW b \in StoredPeriods'
          PROVE  Log!Between(a, b) \subseteq Known
      <4>1. CASE a \in StoredPeriods /\ b \in StoredPeriods
        BY <4>1 DEF CursorInv, NoSilentGap, Log!NoGap
      <4>2. CASE a \in StoredPeriods /\ b = Cursor
        BY <2>2, <4>2 DEF StoredPeriods
      <4>3. CASE a = Cursor
        <5>1. b <= Cursor /\ b \in Int /\ Cursor \in Int
          BY <2>1, <2>2, CursorFacts DEF StoredPeriods
        <5> QED
          BY <4>3, <5>1 DEF Log!Between
      <4> QED
        BY <2>1, <4>1, <4>2, <4>3
    <3> QED
      BY <2>1, <3>1 DEF NoSilentGap, Log!NoGap
  <2>4. CursorOK'
    <3> SUFFICES ASSUME pc' \in LoopLabels PROVE CursorOK'
      BY DEF CursorOK
    <3>1. Cursor' = Cursor + 1 /\ KeyOf(start') = KeyOfPeriod(Cursor')
      BY <1>4, CursorAdvances DEF Saved
    <3>2. ASSUME NEW k \in DOMAIN rows'
          PROVE  /\ PeriodOf(k) <= Cursor' /\ PeriodOf(k) < Cursor'
                 /\ Log!Between(PeriodOf(k), Cursor') \subseteq (StoredPeriods \cup AbsentPeriods)'
      <4>1. Cursor \in (StoredPeriods \cup AbsentPeriods)' /\ Cursor \in Int
        BY <2>1, CursorFacts
      <4>2. /\ PeriodOf(k) <= Cursor /\ PeriodOf(k) \in Int
            /\ Log!Between(PeriodOf(k), Cursor) \subseteq Known
        <5>1. CASE k \in DOMAIN rows
          BY <2>2, <5>1, CursorFacts
        <5>2. CASE k = KeyOf(start)
          BY <5>2, CursorFacts DEF Cursor, Log!Between
        <5> QED
          BY <2>1, <5>1, <5>2
      <4> QED
        BY <2>1, <3>1, <4>1, <4>2 DEF Log!Between
    <3> QED
      BY <3>1, <3>2 DEF CursorOK, Accounted
  <2> QED
    BY <2>3, <2>4 DEF CursorInv
<1> QED
  BY <1>1, <1>2, <1>3, <1>4, StepKinds

\* The cursor invariant holds unless a session is pulled back further.
THEOREM CursorInvariant ==
  ASSUME ReachesBackToNewest
  PROVE  Spec => []CursorInv
<1>1. TypeInv /\ CursorInv /\ [Next]_vars => CursorInv'
  <2>1. CursorInv /\ UNCHANGED vars => CursorInv'
    BY DEF CursorInv, CursorOK, NoSilentGap, Log!NoGap, Accounted, Cursor,
           StoredPeriods, AbsentPeriods, vars, job
  <2> QED
    BY <2>1, CursorStep
<1> QED
  BY <1>1, CursorInit, TypeInvariant, PTL DEF Spec

\* Without --overlap, or with the newest period read again, none is lost
\* silently: between two stored periods each is stored or was answered by
\* exception 3 (collectArchive).
THEOREM GapFree ==
  ASSUME ReachesBackToNewest
  PROVE  Spec => []NoSilentGap
<1>1. TypeInv /\ CursorInv /\ [Next]_vars => CursorInv'
  <2>1. CursorInv /\ UNCHANGED vars => CursorInv'
    BY DEF CursorInv, CursorOK, NoSilentGap, Log!NoGap, Accounted, Cursor,
           StoredPeriods, AbsentPeriods, vars, job
  <2> QED
    BY <2>1, CursorStep
<1>2. CursorInv => NoSilentGap
  BY DEF CursorInv
<1> QED
  BY <1>1, <1>2, CursorInit, TypeInvariant, PTL DEF Spec
-----------------------------------------------------------------------------
(* The abstract log.                                                       *)

\* An empty table is an empty log.
LEMMA LogInit == Init => Log!Init
BY DEF Init, Log!Init, StoredPeriods, AbsentPeriods

\* A step of the collector is a step of the log or leaves it alone.
LEMMA LogStep ==
  ASSUME ReachesBackToNewest, TypeInv, CursorInv, Next
  PROVE  Log!Next \/ UNCHANGED <<StoredPeriods, AbsentPeriods>>
<1>1. CASE Quiet \/ CursorSet
  BY <1>1 DEF Quiet, CursorSet, StoredPeriods, AbsentPeriods
<1>2. CASE Passed
  <2>1. /\ StoredPeriods' = StoredPeriods
        /\ AbsentPeriods \subseteq AbsentPeriods'
        /\ AbsentPeriods' \subseteq AbsentPeriods \cup {Cursor}
    BY <1>2, PassedPeriods
  <2>2. CASE Cursor \in AbsentPeriods'
    <3>1. Log!Skip(Cursor)
      BY <2>1, <2>2 DEF Log!Skip
    <3> QED
      BY <2>2, <3>1 DEF Log!Next
  <2>3. CASE Cursor \notin AbsentPeriods'
    BY <2>1, <2>3
  <2> QED
    BY <2>2, <2>3
<1>3. CASE Saved
  <2>1. /\ StoredPeriods' = StoredPeriods \cup {Cursor}
        /\ AbsentPeriods' = AbsentPeriods
    BY <1>3, SavedPeriods
  <2>2. \A q \in StoredPeriods :
          q <= Cursor /\ Log!Between(q, Cursor) \subseteq StoredPeriods \cup AbsentPeriods
    BY <1>3 DEF Saved, CursorInv, CursorOK, Accounted, StoredPeriods
  <2>3. CASE Cursor \in StoredPeriods
    BY <2>1, <2>3
  <2>4. CASE Cursor \notin StoredPeriods
    <3>1. \A q \in StoredPeriods : q < Cursor
      BY <2>2, <2>4, CursorFacts
    <3>2. Log!Append(Cursor)
      BY <2>1, <2>2, <3>1 DEF Log!Append
    <3> QED
      BY <2>1, <3>2 DEF Log!Next
  <2> QED
    BY <2>3, <2>4
<1> QED
  BY <1>1, <1>2, <1>3, StepKinds

\* Without --overlap, or with the newest period read again, the collector
\* implements the abstract archive log: the table grows at its end only and
\* every hole in it was declared by the meter.
THEOREM CollectorImplementsLog ==
  ASSUME ReachesBackToNewest
  PROVE  Spec => ImplementsArchiveLog
<1>1. TypeInv /\ CursorInv /\ [Next]_vars
        => [Log!Next]_<<StoredPeriods, AbsentPeriods>>
  <2>1. UNCHANGED vars => UNCHANGED <<StoredPeriods, AbsentPeriods>>
    BY DEF vars, StoredPeriods, AbsentPeriods
  <2> QED
    BY <2>1, LogStep
<1> QED
  BY <1>1, LogInit, TypeInvariant, CursorInvariant, PTL
     DEF Spec, ImplementsArchiveLog, Log!Spec

\* Without --overlap a stored row is final: the upsert never meets its own
\* conflict clause (SaveArchive).
THEOREM RowsAreFinal ==
  ASSUME Overlap <= 0
  PROVE  Spec => NoRewrite
<1> DEFINE Kept == \A k \in DOMAIN rows : k \in DOMAIN rows' /\ rows'[k] = rows[k]
<1>1. TypeInv /\ CursorInv /\ [Next]_vars => Kept \/ UNCHANGED rows
  <2> SUFFICES ASSUME TypeInv, CursorInv, Next PROVE Kept \/ UNCHANGED rows
    BY DEF vars
  <2>1. CASE Quiet \/ CursorSet \/ Passed
    BY <2>1 DEF Quiet, CursorSet, Passed
  <2>2. CASE Saved
    <3>1. KeyOf(start) \notin DOMAIN rows
      BY <2>2, CursorFacts DEF Saved, CursorInv, CursorOK, Cursor
    <3> QED
      BY <2>2, <3>1 DEF Saved, Upsert
  <2> QED
    BY <2>1, <2>2, StepKinds
<1> QED
  <2>1. ReachesBackToNewest
    BY DEF ReachesBackToNewest
  <2> QED
    BY <1>1, <2>1, TypeInvariant, CursorInvariant, PTL DEF Spec, NoRewrite
-----------------------------------------------------------------------------
(* Uniform rows.                                                           *)

ChunkLabels == {"chunkList", "chunkDate", "chunkData"}
RefreshLabels == {"rActive", "rCurrent", "rTV1", "rTV2", "rDB", "rType", "rList"}

\* Lists that are in use have something to read.
ListsUsable ==
  /\ pc \in LoopLabels \cup {"list", "last", "range"} => NumChunks[es] > 0
  /\ pc \in RecordLabels => NumChunks[list] > 0

\* The registers of the meter hold what the next request relies on.
RegistersOK ==
  /\ pc \in {"active", "list", "last", "range", "loop", "save", "rActive",
             "rCurrent", "rList"} \cup ChunkLabels => regType = Typ
  /\ pc \in {"chunkDate", "chunkData"} => regList = <<list, chunk>>
  /\ pc = "chunkData" => regDate = KeyOf(start)

\* What has been read of the record is the first chunks of its list, under one
\* scheme; that scheme still rules as long as the meter owes no exception 5.
ResultOK ==
  /\ pc \in ChunkLabels =>
       /\ chunk \in 1..NumChunks[list]
       /\ \E s \in Schemes :
            /\ result = Chunks(s, list, chunk - 1, KeyOf(start))
            /\ (chunk > 1 /\ ~notice => s = scheme)
  /\ pc \in RefreshLabels => chunk = 1 /\ result = {}
  /\ pc = "save" => \E s \in Schemes : result = Chunks(s, list, NumChunks[list], KeyOf(start))

UniformInv == ListsUsable /\ RegistersOK /\ ResultOK /\ UniformRow

\* Initially there are no lists, no chunks and no rows.
LEMMA UniformInit == Init => UniformInv
BY DEF Init, UniformInv, ListsUsable, RegistersOK, ResultOK, UniformRow,
       LoopLabels, RecordLabels, ChunkLabels, RefreshLabels

\* Every step leaves the registers as the next request relies on them.
LEMMA RegistersStep ==
  ASSUME DatesOnly, TypeInv, UniformInv, Next
  PROVE  (ListsUsable /\ RegistersOK)'
<1> USE DEF TypeInv, TypeOK, LocalsOK, UniformInv, ListsUsable, RegistersOK,
       LoopLabels, RecordLabels, ChunkLabels, RefreshLabels, Return, NoJob, NoRecord,
       Abandon, RefreshScheme, PassOver, RefusesSetup3, meter, world, job, record
<1>1. CASE StartSession
  BY <1>1 DEF StartSession
<1>2. CASE ReadService
  BY <1>2 DEF ReadService
<1>3. CASE ReadSessionActive
  BY <1>3 DEF ReadSessionActive
<1>4. CASE SelectCurrent
  BY <1>4 DEF SelectCurrent
<1>5. CASE ReadSessionDB
  BY <1>5 DEF ReadSessionDB
<1>6. CASE SelectType
  BY <1>6 DEF SelectType
<1>7. CASE ReadActive
  BY <1>7 DEF ReadActive
<1>8. CASE WriteList
  BY <1>8 DEF WriteList
<1>9. CASE ReadCursor
  BY <1>9 DEF ReadCursor
<1>10. CASE ReadRange
  BY <1>10 DEF ReadRange
<1>11. CASE NextRecord
  BY <1>11 DEF NextRecord
<1>12. CASE WriteChunkList
  BY <1>12 DEF WriteChunkList
<1>13. CASE WriteChunkDate
  BY <1>13 DEF WriteChunkDate
<1>14. CASE ReadChunkData
  BY <1>14 DEF ReadChunkData
<1>15. CASE RefreshActive
  BY <1>15 DEF RefreshActive
<1>16. CASE RefreshCurrent
  BY <1>16 DEF RefreshCurrent
<1>17. CASE RefreshTV1
  BY <1>17 DEF RefreshTV1, RefreshMeta
<1>18. CASE RefreshTV2
  BY <1>18 DEF RefreshTV2, RefreshMeta
<1>19. CASE RefreshDB
  BY <1>19 DEF RefreshDB, RefreshMeta
<1>20. CASE RestoreType
  BY <1>20 DEF RestoreType
<1>21. CASE RestoreList
  BY <1>21 DEF RestoreList
<1>22. CASE SaveArchive
  BY <1>22 DEF SaveArchive
<1>23. CASE Tick
  BY <1>23 DEF Tick
<1>24. CASE SwitchScheme
  BY <1>24 DEF SwitchScheme
<1>25. CASE Crash
  BY <1>25 DEF Crash
<1> QED
  BY <1>1, <1>2, <1>3, <1>4, <1>5, <1>6, <1>7, <1>8, <1>9, <1>10, <1>11, <1>12, <1>13, <1>14, <1>15, <1>16, <1>17, <1>18, <1>19, <1>20, <1>21, <1>22, <1>23, <1>24, <1>25
     DEF Next, Program, World

\* A record of which nothing is read has no chunks.
LEMMA NoChunks ==
  ASSUME NEW s, NEW l, NEW k
  PROVE  Chunks(s, l, 0, k) = {}
BY DEF Chunks

\* The next chunk is what a record with one chunk more has in addition.
LEMMA OneMoreChunk ==
  ASSUME NEW s, NEW l, NEW k, NEW n \in Nat \ {0}
  PROVE  Chunks(s, l, n - 1, k)
           \cup {[scheme |-> s, list |-> <<l, n>>, type |-> Typ, date |-> k]}
           = Chunks(s, l, n, k)
<1>1. \A c : c \in 1..n <=> c \in 1..(n - 1) \/ c = n
  OBVIOUS
<1> QED
  BY <1>1 DEF Chunks

\* As long as the meter accepts requests, what was read is of its scheme.
LEMMA ReadSoFar ==
  ASSUME ResultOK, pc \in ChunkLabels, Accepts
  PROVE  result = Chunks(scheme, list, chunk - 1, KeyOf(start))
<1>1. PICK s \in Schemes : /\ result = Chunks(s, list, chunk - 1, KeyOf(start))
                           /\ (chunk > 1 /\ ~notice => s = scheme)
  BY DEF ResultOK
<1>2. CASE chunk = 1
  <2>1. chunk - 1 = 0
    BY <1>2
  <2>2. \A t : Chunks(t, list, chunk - 1, KeyOf(start)) = {}
    BY <2>1, NoChunks
  <2> QED
    BY <1>1, <2>2
<1>3. CASE chunk > 1
  BY <1>1, <1>3 DEF Accepts
<1>4. chunk = 1 \/ chunk > 1
  BY DEF ResultOK
<1> QED
  BY <1>2, <1>3, <1>4

\* Every step keeps the record being read uniform.
LEMMA ResultStep ==
  ASSUME DatesOnly, TypeInv, UniformInv, Next
  PROVE  ResultOK'
<1> USE DEF TypeInv, TypeOK, LocalsOK, UniformInv, ListsUsable, RegistersOK, ResultOK,
       LoopLabels, RecordLabels, ChunkLabels, RefreshLabels, Return, NoJob, NoRecord,
       Abandon, RefreshScheme, PassOver, RefusesSetup3, meter, world, job, record
<1>1. CASE StartSession
  BY <1>1 DEF StartSession
<1>2. CASE ReadService
  BY <1>2 DEF ReadService
<1>3. CASE ReadSessionActive
  BY <1>3 DEF ReadSessionActive
<1>4. CASE SelectCurrent
  BY <1>4 DEF SelectCurrent
<1>5. CASE ReadSessionDB
  BY <1>5 DEF ReadSessionDB
<1>6. CASE SelectType
  BY <1>6 DEF SelectType
<1>7. CASE ReadActive
  BY <1>7 DEF ReadActive
<1>8. CASE WriteList
  BY <1>8 DEF WriteList
<1>9. CASE ReadCursor
  BY <1>9 DEF ReadCursor
<1>10. CASE ReadRange
  BY <1>10 DEF ReadRange
<1>11. CASE NextRecord
  <2>1. CASE pc' = "chunkList"
    <3>1. /\ result' = {} /\ chunk' = 1 /\ list' = es
          /\ scheme' = scheme /\ start' = start
      BY <1>11, <2>1 DEF NextRecord
    <3> QED
      BY <1>11, <2>1, <3>1, NoChunks, ChunksAssumption DEF NextRecord
  <2> QED
    BY <1>11, <2>1 DEF NextRecord
<1>12. CASE WriteChunkList
  BY <1>12 DEF WriteChunkList
<1>13. CASE WriteChunkDate
  BY <1>13 DEF WriteChunkDate
<1>14. CASE ReadChunkData
  <2>1. CASE Works /\ Accepts /\ result' = result \cup {Answer}
    <3>2. result = Chunks(scheme, list, chunk - 1, KeyOf(start))
      BY <1>14, <2>1, ReadSoFar DEF ReadChunkData
    <3>3. result' = Chunks(scheme, list, chunk, KeyOf(start))
      BY <1>14, <2>1, <3>2, OneMoreChunk DEF ReadChunkData, Answer
    <3> QED
      BY <1>14, <2>1, <3>3, ChunksAssumption DEF ReadChunkData
  <2> QED
    BY <1>14, <2>1 DEF ReadChunkData
<1>15. CASE RefreshActive
  BY <1>15 DEF RefreshActive
<1>16. CASE RefreshCurrent
  BY <1>16 DEF RefreshCurrent
<1>17. CASE RefreshTV1
  BY <1>17 DEF RefreshTV1, RefreshMeta
<1>18. CASE RefreshTV2
  BY <1>18 DEF RefreshTV2, RefreshMeta
<1>19. CASE RefreshDB
  BY <1>19 DEF RefreshDB, RefreshMeta
<1>20. CASE RestoreType
  BY <1>20 DEF RestoreType
<1>21. CASE RestoreList
  <2>1. CASE pc' = "chunkList"
    <3>1. /\ result' = {} /\ chunk' = 1 /\ list' = list
          /\ scheme' = scheme /\ start' = start
      BY <1>21, <2>1 DEF RestoreList
    <3> QED
      BY <1>21, <2>1, <3>1, NoChunks, ChunksAssumption DEF RestoreList
  <2> QED
    BY <1>21, <2>1 DEF RestoreList
<1>22. CASE SaveArchive
  BY <1>22 DEF SaveArchive
<1>23. CASE Tick
  BY <1>23 DEF Tick
<1>24. CASE SwitchScheme
  BY <1>24 DEF SwitchScheme
<1>25. CASE Crash
  BY <1>25 DEF Crash
<1> QED
  BY <1>1, <1>2, <1>3, <1>4, <1>5, <1>6, <1>7, <1>8, <1>9, <1>10, <1>11, <1>12, <1>13, <1>14, <1>15, <1>16, <1>17, <1>18, <1>19, <1>20, <1>21, <1>22, <1>23, <1>24, <1>25
     DEF Next, Program, World

\* Every row a step stores is uniform, and no other row changes (SaveArchive).
LEMMA UniformRowStep ==
  ASSUME TypeInv, UniformInv, Next
  PROVE  UniformRow'
<1>1. CASE rows' = rows
  BY <1>1 DEF UniformInv, UniformRow
<1>2. CASE SaveArchive /\ Upsert
  <2>1. PICK s \in Schemes : result = Chunks(s, list, NumChunks[list], KeyOf(start))
    BY <1>2 DEF UniformInv, ResultOK, SaveArchive
  <2>2. ASSUME NEW k \in DOMAIN rows'
        PROVE  \E t \in Schemes :
                 rows'[k].values = Chunks(t, rows'[k].list, NumChunks[rows'[k].list], k)
    <3>1. CASE k = KeyOf(start)
      BY <1>2, <2>1, <2>2, <3>1 DEF Upsert, ReadRow
    <3>2. CASE k # KeyOf(start)
      BY <1>2, <2>2, <3>2 DEF Upsert, UniformInv, UniformRow
    <3> QED
      BY <3>1, <3>2
  <2> QED
    BY <2>2 DEF UniformRow
<1>3. rows' = rows \/ (SaveArchive /\ Upsert)
  BY DEF Next, Program, World, StartSession, ReadService, ReadSessionActive,
         SelectCurrent, ReadSessionDB, SelectType, ReadActive, WriteList,
         ReadCursor, ReadRange, NextRecord, WriteChunkList, WriteChunkDate,
         ReadChunkData, RefreshActive, RefreshCurrent, RefreshTV1, RefreshTV2,
         RefreshDB, RefreshMeta, RestoreType, RestoreList, SaveArchive, Tick,
         SwitchScheme, Crash
<1> QED
  BY <1>1, <1>2, <1>3

\* If the meter answers exception 3 to date and data requests only, every row
\* is the whole of one list, of the row's own date and type, measured under
\* one scheme, whatever is switched, lost or restarted meanwhile.
THEOREM RowsAreUniform ==
  ASSUME DatesOnly
  PROVE  Spec => []UniformRow
<1>1. TypeInv /\ UniformInv /\ [Next]_vars => UniformInv'
  <2>1. UniformInv /\ UNCHANGED vars => UniformInv'
    BY DEF UniformInv, ListsUsable, RegistersOK, ResultOK, UniformRow,
           vars, meter, job, record
  <2> QED
    BY <2>1, RegistersStep, ResultStep, UniformRowStep DEF UniformInv
<1>2. UniformInv => UniformRow
  BY DEF UniformInv
<1> QED
  BY <1>1, <1>2, UniformInit, TypeInvariant, PTL DEF Spec
-----------------------------------------------------------------------------
(* Refreshed records.                                                      *)

\* As long as the meter owes no exception 5, what a refresh has read so far is
\* of the scheme that rules.
RefreshCurrentOK ==
  ~notice =>
    /\ pc \in RefreshLabels \ {"rActive"} => list = scheme
    /\ pc \in {"rTV2", "rDB", "rType", "rList"} => recMeta.tv1 = scheme
    /\ pc \in {"rDB", "rType", "rList"} => recMeta.tv2 = scheme
    /\ pc \in {"rType", "rList"} => recMeta.db = scheme
    /\ attempt = 1 /\ pc \in ChunkLabels => list = scheme

\* A retried record has the metadata of its list, and so have its pieces,
\* whatever the meter owes by now.
RetryOK ==
  attempt = 1 /\ pc \in ChunkLabels \cup {"save"} =>
    /\ recMeta = [tv1 |-> list, tv2 |-> list, db |-> list]
    /\ \A piece \in result : piece.scheme = list

RefreshInv ==
  /\ pc \in RefreshLabels => result = {}
  /\ RefreshCurrentOK
  /\ RetryOK

\* Every step keeps it: a switch owes an exception 5, and the second attempt
\* begins only if none came since the refresh began.
LEMMA RefreshStep ==
  ASSUME Diagnostics, TypeInv, RefreshInv, Next
  PROVE  RefreshInv'
<1> USE DEF TypeInv, TypeOK, LocalsOK, RefreshInv, RefreshCurrentOK, RetryOK,
       LoopLabels, RecordLabels, ChunkLabels, RefreshLabels, Return, NoJob, NoRecord,
       Abandon, RefreshScheme, PassOver, meter, world, job, record
<1>1. CASE StartSession
  BY <1>1 DEF StartSession
<1>2. CASE ReadService
  BY <1>2 DEF ReadService
<1>3. CASE ReadSessionActive
  BY <1>3 DEF ReadSessionActive
<1>4. CASE SelectCurrent
  BY <1>4 DEF SelectCurrent
<1>5. CASE ReadSessionDB
  BY <1>5 DEF ReadSessionDB
<1>6. CASE SelectType
  BY <1>6 DEF SelectType
<1>7. CASE ReadActive
  BY <1>7 DEF ReadActive
<1>8. CASE WriteList
  BY <1>8 DEF WriteList
<1>9. CASE ReadCursor
  BY <1>9 DEF ReadCursor
<1>10. CASE ReadRange
  BY <1>10 DEF ReadRange
<1>11. CASE NextRecord
  BY <1>11 DEF NextRecord
<1>12. CASE WriteChunkList
  BY <1>12 DEF WriteChunkList
<1>13. CASE WriteChunkDate
  BY <1>13 DEF WriteChunkDate
<1>14. CASE ReadChunkData
  BY <1>14 DEF ReadChunkData, Answer, Accepts
<1>15. CASE RefreshActive
  BY <1>15 DEF RefreshActive
<1>16. CASE RefreshCurrent
  BY <1>16 DEF RefreshCurrent
<1>17. CASE RefreshTV1
  BY <1>17 DEF RefreshTV1, RefreshMeta, SchemeRead, Metadata
<1>18. CASE RefreshTV2
  BY <1>18 DEF RefreshTV2, RefreshMeta, SchemeRead, Metadata
<1>19. CASE RefreshDB
  BY <1>19 DEF RefreshDB, RefreshMeta, SchemeRead, Metadata
<1>20. CASE RestoreType
  BY <1>20 DEF RestoreType
<1>21. CASE RestoreList
  BY <1>21 DEF RestoreList, Accepts, Metadata
<1>22. CASE SaveArchive
  BY <1>22 DEF SaveArchive
<1>23. CASE Tick
  BY <1>23 DEF Tick
<1>24. CASE SwitchScheme
  BY <1>24 DEF SwitchScheme
<1>25. CASE Crash
  BY <1>25 DEF Crash
<1> QED
  BY <1>1, <1>2, <1>3, <1>4, <1>5, <1>6, <1>7, <1>8, <1>9, <1>10, <1>11, <1>12, <1>13,
     <1>14, <1>15, <1>16, <1>17, <1>18, <1>19, <1>20, <1>21, <1>22, <1>23, <1>24, <1>25
     DEF Next, Program, World

\* If the firmware has the reads of its scheme and database, a record retried
\* after an exception 5 carries the metadata of the scheme that measured it.
THEOREM RetriesAreConsistent ==
  ASSUME Diagnostics
  PROVE  Spec => []RefreshedRecordConsistent
<1>1. Init => RefreshInv
  BY DEF Init, RefreshInv, RefreshCurrentOK, RetryOK, ChunkLabels, RefreshLabels
<1>2. TypeInv /\ RefreshInv /\ [Next]_vars => RefreshInv'
  <2>1. RefreshInv /\ UNCHANGED vars => RefreshInv'
    BY DEF RefreshInv, RefreshCurrentOK, RetryOK, vars, meter, record
  <2> QED
    BY <2>1, RefreshStep
<1>3. RefreshInv => RefreshedRecordConsistent
  BY DEF RefreshInv, RetryOK, RefreshedRecordConsistent
<1> QED
  BY <1>1, <1>2, <1>3, TypeInvariant, PTL DEF Spec
-----------------------------------------------------------------------------
(* Finished periods.                                                       *)

Finished(k, t) ==
  CASE Typ = "Hourly" -> k + 1 <= t
    [] Typ = "Daily"  -> 24 * (k + 1) <= t
    [] OTHER          -> k < t

\* A mark that is due stays due, and its period is over.
LEMMA DueFinished ==
  ASSUME NEW t \in Int, NEW a \in Int, NEW b \in Int, due(t, a), a <= b
  PROVE  due(t, b) /\ Finished(KeyOf(t), b)
<1>1. CASE Typ = "Hourly"
  BY <1>1 DEF due, Finished, KeyOf
<1>2. CASE Typ = "Daily"
  BY <1>2 DEF due, Finished, KeyOf
<1>3. CASE Typ \in Dated
  BY <1>3 DEF due, Finished, KeyOf, Dated
<1> QED
  BY <1>1, <1>2, <1>3, TypAssumption

\* A period that is over stays over.
LEMMA FinishedStays ==
  ASSUME NEW k \in Int, NEW a \in Int, NEW b \in Int, Finished(k, a), a <= b
  PROVE  Finished(k, b)
<1>1. CASE Typ = "Hourly"
  BY <1>1 DEF Finished
<1>2. CASE Typ = "Daily"
  BY <1>2 DEF Finished
<1>3. CASE Typ \in Dated
  BY <1>3 DEF Finished, Dated
<1> QED
  BY <1>1, <1>2, <1>3, TypAssumption

FinishedInv ==
  /\ pc \in RecordLabels => due(start, now)
  /\ \A k \in DOMAIN rows : Finished(k, now)

\* Every step stores only what is over; due() checks it, the clock never goes back.
LEMMA FinishedStep ==
  ASSUME TypeInv, FinishedInv, [Next]_vars
  PROVE  FinishedInv'
<1>1. now \in Int /\ now' \in Int /\ now <= now' /\ start \in Int
  BY MomentsAssumption DEF TypeInv, TypeOK, Time, Next, Program, World, vars,
     world, StartSession, ReadService, ReadSessionActive,
     SelectCurrent, ReadSessionDB, SelectType, ReadActive, WriteList,
     ReadCursor, ReadRange, NextRecord, WriteChunkList, WriteChunkDate,
     ReadChunkData, RefreshActive, RefreshCurrent, RefreshTV1, RefreshTV2,
     RefreshDB, RefreshMeta, RestoreType, RestoreList, SaveArchive, Tick,
     SwitchScheme, Crash
<1>2. \/ pc' \notin RecordLabels
      \/ pc \in RecordLabels /\ start' = start
      \/ due(start, now) /\ start' = start
  BY DEF Next, Program, World, vars, job, Return, NoJob, RecordLabels,
     PassOver, RefreshScheme, Abandon, StartSession, ReadService,
     ReadSessionActive, SelectCurrent, ReadSessionDB, SelectType, ReadActive,
     WriteList, ReadCursor, ReadRange, NextRecord, WriteChunkList,
     WriteChunkDate, ReadChunkData, RefreshActive, RefreshCurrent, RefreshTV1,
     RefreshTV2, RefreshDB, RefreshMeta, RestoreType, RestoreList,
     SaveArchive, Tick, SwitchScheme, Crash
<1>3. pc' \in RecordLabels => due(start', now')
  BY <1>1, <1>2, DueFinished DEF FinishedInv
<1>4. DOMAIN rows' = DOMAIN rows \/ (pc \in LoopLabels /\ SaveArchive /\ Upsert)
  BY DEF Next, Program, World, vars, LoopLabels, RecordLabels, StartSession, ReadService,
     ReadSessionActive, SelectCurrent, ReadSessionDB, SelectType, ReadActive,
     WriteList, ReadCursor, ReadRange, NextRecord, WriteChunkList,
     WriteChunkDate, ReadChunkData, RefreshActive, RefreshCurrent, RefreshTV1,
     RefreshTV2, RefreshDB, RefreshMeta, RestoreType, RestoreList,
     SaveArchive, Tick, SwitchScheme, Crash
<1>5. ASSUME NEW k \in DOMAIN rows'
      PROVE  Finished(k, now')
  <2>1. CASE k \in DOMAIN rows
    BY <1>1, <2>1, FinishedStays, CursorFacts DEF FinishedInv
  <2>2. CASE k \notin DOMAIN rows
    <3>1. k = KeyOf(start) /\ due(start, now)
      BY <1>4, <1>5, <2>2 DEF Upsert, SaveArchive, FinishedInv, RecordLabels
    <3> QED
      BY <1>1, <3>1, DueFinished
  <2> QED
    BY <2>1, <2>2
<1> QED
  BY <1>3, <1>5 DEF FinishedInv

\* No stored row is of a period that was still running when it was read.
THEOREM RowsAreFinished == Spec => []OnlyFinishedPeriods
<1>1. Init => FinishedInv
  BY DEF Init, FinishedInv, RecordLabels
<1>2. FinishedInv => OnlyFinishedPeriods
  BY DEF FinishedInv, OnlyFinishedPeriods, Finished
<1> QED
  BY <1>1, <1>2, FinishedStep, TypeInvariant, PTL DEF Spec
=============================================================================
