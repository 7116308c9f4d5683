--------------------------- MODULE SessionProofs ----------------------------
(***************************************************************************)
(* Theorems about Session, for any report days, lists, properties and      *)
(* firmware, and any number of faults.                                     *)
(***************************************************************************)
EXTENDS Session, TLAPS

\* The transaction of UpsertActive holds the elements inserted so far.
StagedInv ==
  /\ pc \in {"day", "upsert"} => es \in Lists
  /\ pc \notin {"stage", "upsert"} => staged = None
  /\ pc = "upsert" /\ staged # None => /\ item \in 1..(Len(es) + 1)
                                       /\ staged = {es[i] : i \in 1..(item - 1)}

\* The read of a current table has come as far as item says.
AttributedInv ==
  pc \in DOMAIN Tables => /\ item = 1 => type = pc
                          /\ item = 2 => reading = pc

\* Where the report day of the session stands.
DayInv ==
  /\ pc \in {"connect", "exited", "wait", "ping"} => day = Unknown
  /\ pc \in {"open", "begin", "version", "service"} => day = Unknown /\ learned = Unknown
  /\ pc \in {"properties", "stage", "active", "day"} => day = learned
  /\ pc \in {"upsert", "select", "db", "touch"} /\ device.report_day \in Days =>
       \/ day \in {learned, device.report_day}
       \/ unasked /\ learned \notin Days /\ day = DefaultDay

\* What the session may write into the device row.
RowInv ==
  /\ pc = "version" => begun \/ refused
  /\ pc \in {"service", "properties", "stage", "active", "day", "upsert", "select", "db",
             "touch"} => version = ServerVersion \/ refused
  /\ pc = "db" => type = "Current"
  /\ pc = "touch" => db \in Databases \/ ~diagnostics

-----------------------------------------------------------------------------
\* Every action keeps the types of the flags.
LEMMA FlagsKept == Flags /\ [Next]_vars => Flags'
<1> SUFFICES ASSUME Flags, [Next]_vars PROVE Flags'
  OBVIOUS
<1> USE Zenon DEF Flags, Works, Fails, Stored, Unstored, PerhapsBegun, PerhapsRead, Fresh,
    Leave, Stay, Quiet, Skip, Proceed, Tables,
    process, meter, locals, tables, history
<1>1. CASE Connect /\ UNCHANGED diagnostics
  BY <1>1 DEF Connect, vars
<1>2. CASE Wait /\ UNCHANGED diagnostics
  BY <1>2 DEF Wait, vars
<1>3. CASE Ping /\ UNCHANGED diagnostics
  BY <1>3 DEF Ping, vars
<1>4. CASE OpenPort /\ UNCHANGED diagnostics
  BY <1>4 DEF OpenPort, vars
<1>5. CASE BeginSession /\ UNCHANGED diagnostics
  BY <1>5 DEF BeginSession, vars
<1>6. CASE InitialRead /\ UNCHANGED diagnostics
  BY <1>6 DEF InitialRead, vars
<1>7. CASE ReadService /\ UNCHANGED diagnostics
  BY <1>7 DEF ReadService, vars
<1>8. CASE ReadProperties /\ UNCHANGED diagnostics
  BY <1>8 DEF ReadProperties, vars
<1>9. CASE UpsertProperty /\ UNCHANGED diagnostics
  BY <1>9 DEF UpsertProperty, vars
<1>10. CASE ReadActive /\ UNCHANGED diagnostics
  BY <1>10 DEF ReadActive, vars
<1>11. CASE ReportDay /\ UNCHANGED diagnostics
  BY <1>11 DEF ReportDay, vars
<1>12. CASE UpsertActive /\ UNCHANGED diagnostics
  BY <1>12 DEF UpsertActive, vars
<1>13. CASE SelectCurrent /\ UNCHANGED diagnostics
  BY <1>13 DEF SelectCurrent, vars
<1>14. CASE ReadActiveDB /\ UNCHANGED diagnostics
  BY <1>14 DEF ReadActiveDB, vars
<1>15. CASE Touch /\ UNCHANGED diagnostics
  BY <1>15 DEF Touch, vars
<1>16. CASE CollectArchive /\ UNCHANGED diagnostics
  BY <1>16 DEF CollectArchive, vars
<1>17. CASE SetCurrentType /\ UNCHANGED diagnostics
  BY <1>17 DEF SetCurrentType, vars
<1>18. CASE ReadCurrent /\ UNCHANGED diagnostics
  BY <1>18 DEF ReadCurrent, vars
<1>19. CASE SaveCurrent /\ UNCHANGED diagnostics
  BY <1>19 DEF SaveCurrent, vars
<1>20. CASE Tick
  BY <1>20 DEF Tick, vars
<1>21. CASE Cancel
  BY <1>21 DEF Cancel, vars
<1>22. CASE Crash
  BY <1>22 DEF Crash, vars
<1>23. CASE Restart
  BY <1>23 DEF Restart, vars
<1>24. CASE UNCHANGED vars
  BY <1>24 DEF vars
<1> QED BY <1>1, <1>2, <1>3, <1>4, <1>5, <1>6, <1>7, <1>8, <1>9, <1>10, <1>11, <1>12, <1>13,
    <1>14, <1>15, <1>16, <1>17, <1>18, <1>19, <1>20, <1>21, <1>22, <1>23, <1>24
    DEF Next, Program

\* Every action keeps the types of the other variables.
LEMMA ValuesKept == Values /\ [Next]_vars => Values'
<1> SUFFICES ASSUME Values, [Next]_vars PROVE Values'
  OBVIOUS
<1> USE DaysAssumption, BoundsAssumption, VersionsAssumption
    DEF Values, DayKnown, ItemOK, Types, Unknown, Jobs, Works, Fails, Stored, Unstored,
        PerhapsBegun, PerhapsRead, Fresh, Leave, Stay, Quiet, Skip, Proceed, Tables,
    process, meter, locals, tables, history
<1>1. CASE Connect /\ UNCHANGED diagnostics
  BY <1>1 DEF Connect, vars
<1>2. CASE Wait /\ UNCHANGED diagnostics
  BY <1>2 DEF Wait, vars
<1>3. CASE Ping /\ UNCHANGED diagnostics
  BY <1>3 DEF Ping, vars
<1>4. CASE OpenPort /\ UNCHANGED diagnostics
  BY <1>4 DEF OpenPort, vars
<1>5. CASE BeginSession /\ UNCHANGED diagnostics
  BY <1>5 DEF BeginSession, vars
<1>6. CASE InitialRead /\ UNCHANGED diagnostics
  BY <1>6 DEF InitialRead, vars
<1>7. CASE ReadService /\ UNCHANGED diagnostics
  BY <1>7 DEF ReadService, vars
<1>8. CASE ReadProperties /\ UNCHANGED diagnostics
  BY <1>8 DEF ReadProperties, vars
<1>9. CASE UpsertProperty /\ UNCHANGED diagnostics
  BY <1>9 DEF UpsertProperty, vars
<1>10. CASE ReadActive /\ UNCHANGED diagnostics
  BY <1>10 DEF ReadActive, vars
<1>11. CASE ReportDay /\ UNCHANGED diagnostics
  BY <1>11 DEF ReportDay, vars
<1>12. CASE UpsertActive /\ UNCHANGED diagnostics
  BY <1>12 DEF UpsertActive, vars
<1>13. CASE SelectCurrent /\ UNCHANGED diagnostics
  BY <1>13 DEF SelectCurrent, vars
<1>14. CASE ReadActiveDB /\ UNCHANGED diagnostics
  BY <1>14 DEF ReadActiveDB, vars
<1>15. CASE Touch /\ UNCHANGED diagnostics
  BY <1>15 DEF Touch, vars
<1>16. CASE CollectArchive /\ UNCHANGED diagnostics
  BY <1>16 DEF CollectArchive, vars
<1>17. CASE SetCurrentType /\ UNCHANGED diagnostics
  BY <1>17 DEF SetCurrentType, vars
<1>18. CASE ReadCurrent /\ UNCHANGED diagnostics
  BY <1>18 DEF ReadCurrent, vars
<1>19. CASE SaveCurrent /\ UNCHANGED diagnostics
  BY <1>19 DEF SaveCurrent, vars
<1>20. CASE Tick
  BY <1>20 DEF Tick, vars
<1>21. CASE Cancel
  BY <1>21 DEF Cancel, vars
<1>22. CASE Crash
  BY <1>22 DEF Crash, vars
<1>23. CASE Restart
  BY <1>23 DEF Restart, vars
<1>24. CASE UNCHANGED vars
  BY <1>24 DEF vars
<1> QED BY <1>1, <1>2, <1>3, <1>4, <1>5, <1>6, <1>7, <1>8, <1>9, <1>10, <1>11, <1>12, <1>13,
    <1>14, <1>15, <1>16, <1>17, <1>18, <1>19, <1>20, <1>21, <1>22, <1>23, <1>24
    DEF Next, Program

\* The initial values have their types.
LEMMA InitTyped == Init => Flags /\ Values
<1>1. Init => Flags
  BY Zenon DEF Init, Flags
<1>2. Init => Values
  BY DaysAssumption, BoundsAssumption, VersionsAssumption
     DEF Init, Values, DayKnown, ItemOK, Types, Jobs, Unknown, Tables
<1> QED BY <1>1, <1>2

\* Every variable has its type, and the archives start with a valid report
\* day, whatever the meter and the device row said (once).
THEOREM TypesKept == Spec => []TypeOK
<1> QED BY InitTyped, FlagsKept, ValuesKept, PTL DEF Spec, TypeOK

-----------------------------------------------------------------------------
\* What the transaction of UpsertActive holds follows its loop over the list.
LEMMA StagedKept == Values /\ StagedInv /\ [Next]_vars => StagedInv'
<1> SUFFICES ASSUME Values, StagedInv, [Next]_vars PROVE StagedInv'
  OBVIOUS
<1> USE ListsAssumption DEF Values, StagedInv, ItemOK, Works, Fails, Stored, Unstored,
    PerhapsBegun, PerhapsRead, Fresh, Leave, Stay, Quiet, Skip, Proceed, Tables,
    process, meter, locals, tables, history
<1>1. CASE Connect /\ UNCHANGED diagnostics
  BY <1>1 DEF Connect, vars
<1>2. CASE Wait /\ UNCHANGED diagnostics
  BY <1>2 DEF Wait, vars
<1>3. CASE Ping /\ UNCHANGED diagnostics
  BY <1>3 DEF Ping, vars
<1>4. CASE OpenPort /\ UNCHANGED diagnostics
  BY <1>4 DEF OpenPort, vars
<1>5. CASE BeginSession /\ UNCHANGED diagnostics
  BY <1>5 DEF BeginSession, vars
<1>6. CASE InitialRead /\ UNCHANGED diagnostics
  BY <1>6 DEF InitialRead, vars
<1>7. CASE ReadService /\ UNCHANGED diagnostics
  BY <1>7 DEF ReadService, vars
<1>8. CASE ReadProperties /\ UNCHANGED diagnostics
  BY <1>8 DEF ReadProperties, vars
<1>9. CASE UpsertProperty /\ UNCHANGED diagnostics
  BY <1>9 DEF UpsertProperty, vars
<1>10. CASE ReadActive /\ UNCHANGED diagnostics
  BY <1>10 DEF ReadActive, vars
<1>11. CASE ReportDay /\ UNCHANGED diagnostics
  BY <1>11 DEF ReportDay, vars
<1>12. CASE UpsertActive /\ UNCHANGED diagnostics
  BY <1>12 DEF UpsertActive, vars
<1>13. CASE SelectCurrent /\ UNCHANGED diagnostics
  BY <1>13 DEF SelectCurrent, vars
<1>14. CASE ReadActiveDB /\ UNCHANGED diagnostics
  BY <1>14 DEF ReadActiveDB, vars
<1>15. CASE Touch /\ UNCHANGED diagnostics
  BY <1>15 DEF Touch, vars
<1>16. CASE CollectArchive /\ UNCHANGED diagnostics
  BY <1>16 DEF CollectArchive, vars
<1>17. CASE SetCurrentType /\ UNCHANGED diagnostics
  BY <1>17 DEF SetCurrentType, vars
<1>18. CASE ReadCurrent /\ UNCHANGED diagnostics
  BY <1>18 DEF ReadCurrent, vars
<1>19. CASE SaveCurrent /\ UNCHANGED diagnostics
  BY <1>19 DEF SaveCurrent, vars
<1>20. CASE Tick
  BY <1>20 DEF Tick, vars
<1>21. CASE Cancel
  BY <1>21 DEF Cancel, vars
<1>22. CASE Crash
  BY <1>22 DEF Crash, vars
<1>23. CASE Restart
  BY <1>23 DEF Restart, vars
<1>24. CASE UNCHANGED vars
  BY <1>24 DEF vars
<1> QED BY <1>1, <1>2, <1>3, <1>4, <1>5, <1>6, <1>7, <1>8, <1>9, <1>10, <1>11, <1>12, <1>13,
    <1>14, <1>15, <1>16, <1>17, <1>18, <1>19, <1>20, <1>21, <1>22, <1>23, <1>24
    DEF Next, Program

\* Both tables change at a commit only, and then to what the transaction made.
LEMMA WholeKept == StagedInv /\ WholeTables /\ [Next]_vars => WholeTables'
<1> SUFFICES ASSUME StagedInv, WholeTables, [Next]_vars PROVE WholeTables'
  OBVIOUS
<1> USE ListsAssumption DEF StagedInv, WholeTables, Works, Fails, Stored, Unstored,
    PerhapsBegun, PerhapsRead, Fresh, Leave, Stay, Quiet, Skip, Proceed, Tables,
    process, meter, locals, tables, history
<1>1. CASE Connect /\ UNCHANGED diagnostics
  BY <1>1 DEF Connect, vars
<1>2. CASE Wait /\ UNCHANGED diagnostics
  BY <1>2 DEF Wait, vars
<1>3. CASE Ping /\ UNCHANGED diagnostics
  BY <1>3 DEF Ping, vars
<1>4. CASE OpenPort /\ UNCHANGED diagnostics
  BY <1>4 DEF OpenPort, vars
<1>5. CASE BeginSession /\ UNCHANGED diagnostics
  BY <1>5 DEF BeginSession, vars
<1>6. CASE InitialRead /\ UNCHANGED diagnostics
  BY <1>6 DEF InitialRead, vars
<1>7. CASE ReadService /\ UNCHANGED diagnostics
  BY <1>7 DEF ReadService, vars
<1>8. CASE ReadProperties /\ UNCHANGED diagnostics
  BY <1>8 DEF ReadProperties, vars
<1>9. CASE UpsertProperty /\ UNCHANGED diagnostics
  BY <1>9 DEF UpsertProperty, vars
<1>10. CASE ReadActive /\ UNCHANGED diagnostics
  BY <1>10 DEF ReadActive, vars
<1>11. CASE ReportDay /\ UNCHANGED diagnostics
  BY <1>11 DEF ReportDay, vars
<1>12. CASE UpsertActive /\ UNCHANGED diagnostics
  BY <1>12 DEF UpsertActive, vars
<1>13. CASE SelectCurrent /\ UNCHANGED diagnostics
  BY <1>13 DEF SelectCurrent, vars
<1>14. CASE ReadActiveDB /\ UNCHANGED diagnostics
  BY <1>14 DEF ReadActiveDB, vars
<1>15. CASE Touch /\ UNCHANGED diagnostics
  BY <1>15 DEF Touch, vars
<1>16. CASE CollectArchive /\ UNCHANGED diagnostics
  BY <1>16 DEF CollectArchive, vars
<1>17. CASE SetCurrentType /\ UNCHANGED diagnostics
  BY <1>17 DEF SetCurrentType, vars
<1>18. CASE ReadCurrent /\ UNCHANGED diagnostics
  BY <1>18 DEF ReadCurrent, vars
<1>19. CASE SaveCurrent /\ UNCHANGED diagnostics
  BY <1>19 DEF SaveCurrent, vars
<1>20. CASE Tick
  BY <1>20 DEF Tick, vars
<1>21. CASE Cancel
  BY <1>21 DEF Cancel, vars
<1>22. CASE Crash
  BY <1>22 DEF Crash, vars
<1>23. CASE Restart
  BY <1>23 DEF Restart, vars
<1>24. CASE UNCHANGED vars
  BY <1>24 DEF vars
<1> QED BY <1>1, <1>2, <1>3, <1>4, <1>5, <1>6, <1>7, <1>8, <1>9, <1>10, <1>11, <1>12, <1>13,
    <1>14, <1>15, <1>16, <1>17, <1>18, <1>19, <1>20, <1>21, <1>22, <1>23, <1>24
    DEF Next, Program

\* active_elements is one list of the meter and properties is one reading,
\* between any two statements and after any failure (SaveProperties and
\* UpsertActive of the store).
THEOREM TablesWhole == Spec => []WholeTables
<1>1. Init => Flags /\ Values
  BY InitTyped
<1>2. Init => StagedInv /\ WholeTables
  BY DEF Init, StagedInv, WholeTables
<1> QED BY <1>1, <1>2, ValuesKept, StagedKept, WholeKept, PTL DEF Spec

-----------------------------------------------------------------------------
\* A current table is read under its own type and stored after that read only.
LEMMA AttributedKept == AttributedInv /\ CurrentAttributed /\ [Next]_vars => (AttributedInv /\ CurrentAttributed)'
<1> SUFFICES ASSUME AttributedInv, CurrentAttributed, [Next]_vars PROVE (AttributedInv /\ CurrentAttributed)'
  OBVIOUS
<1> USE DEF AttributedInv, CurrentAttributed, Works, Fails, Stored, Unstored, PerhapsBegun,
    PerhapsRead, Fresh, Leave, Stay, Quiet, Skip, Proceed, Tables,
    process, meter, locals, tables, history
<1>1. CASE Connect /\ UNCHANGED diagnostics
  BY <1>1 DEF Connect, vars
<1>2. CASE Wait /\ UNCHANGED diagnostics
  BY <1>2 DEF Wait, vars
<1>3. CASE Ping /\ UNCHANGED diagnostics
  BY <1>3 DEF Ping, vars
<1>4. CASE OpenPort /\ UNCHANGED diagnostics
  BY <1>4 DEF OpenPort, vars
<1>5. CASE BeginSession /\ UNCHANGED diagnostics
  BY <1>5 DEF BeginSession, vars
<1>6. CASE InitialRead /\ UNCHANGED diagnostics
  BY <1>6 DEF InitialRead, vars
<1>7. CASE ReadService /\ UNCHANGED diagnostics
  BY <1>7 DEF ReadService, vars
<1>8. CASE ReadProperties /\ UNCHANGED diagnostics
  BY <1>8 DEF ReadProperties, vars
<1>9. CASE UpsertProperty /\ UNCHANGED diagnostics
  BY <1>9 DEF UpsertProperty, vars
<1>10. CASE ReadActive /\ UNCHANGED diagnostics
  BY <1>10 DEF ReadActive, vars
<1>11. CASE ReportDay /\ UNCHANGED diagnostics
  BY <1>11 DEF ReportDay, vars
<1>12. CASE UpsertActive /\ UNCHANGED diagnostics
  BY <1>12 DEF UpsertActive, vars
<1>13. CASE SelectCurrent /\ UNCHANGED diagnostics
  BY <1>13 DEF SelectCurrent, vars
<1>14. CASE ReadActiveDB /\ UNCHANGED diagnostics
  BY <1>14 DEF ReadActiveDB, vars
<1>15. CASE Touch /\ UNCHANGED diagnostics
  BY <1>15 DEF Touch, vars
<1>16. CASE CollectArchive /\ UNCHANGED diagnostics
  BY <1>16 DEF CollectArchive, vars
<1>17. CASE SetCurrentType /\ UNCHANGED diagnostics
  BY <1>17 DEF SetCurrentType, vars
<1>18. CASE ReadCurrent /\ UNCHANGED diagnostics
  BY <1>18 DEF ReadCurrent, vars
<1>19. CASE SaveCurrent /\ UNCHANGED diagnostics
  BY <1>19 DEF SaveCurrent, vars
<1>20. CASE Tick
  BY <1>20 DEF Tick, vars
<1>21. CASE Cancel
  BY <1>21 DEF Cancel, vars
<1>22. CASE Crash
  BY <1>22 DEF Crash, vars
<1>23. CASE Restart
  BY <1>23 DEF Restart, vars
<1>24. CASE UNCHANGED vars
  BY <1>24 DEF vars
<1> QED BY <1>1, <1>2, <1>3, <1>4, <1>5, <1>6, <1>7, <1>8, <1>9, <1>10, <1>11, <1>12, <1>13,
    <1>14, <1>15, <1>16, <1>17, <1>18, <1>19, <1>20, <1>21, <1>22, <1>23, <1>24
    DEF Next, Program

\* Current values are stored in current_values and totals in current_totals,
\* whatever type the rest of the session left in the meter (collectCurrent).
THEOREM ValuesAttributed == Spec => []CurrentAttributed
<1>1. Init => AttributedInv /\ CurrentAttributed
  BY DEF Init, AttributedInv, CurrentAttributed, Tables
<1> QED BY <1>1, AttributedKept, PTL DEF Spec

-----------------------------------------------------------------------------
\* Where the report day of the session comes from.
LEMMA DayInvKept == Values /\ DayInv /\ [Next]_vars => DayInv'
<1> SUFFICES ASSUME Values, DayInv, [Next]_vars PROVE DayInv'
  OBVIOUS
<1> USE DEF Values, DayInv, Unknown, Works, Fails, Stored, Unstored, PerhapsBegun, PerhapsRead,
    Fresh, Leave, Stay, Quiet, Skip, Proceed, Tables,
    process, meter, locals, tables, history
<1>1. CASE Connect /\ UNCHANGED diagnostics
  BY <1>1 DEF Connect, vars
<1>2. CASE Wait /\ UNCHANGED diagnostics
  BY <1>2 DEF Wait, vars
<1>3. CASE Ping /\ UNCHANGED diagnostics
  BY <1>3 DEF Ping, vars
<1>4. CASE OpenPort /\ UNCHANGED diagnostics
  BY <1>4 DEF OpenPort, vars
<1>5. CASE BeginSession /\ UNCHANGED diagnostics
  BY <1>5 DEF BeginSession, vars
<1>6. CASE InitialRead /\ UNCHANGED diagnostics
  BY <1>6 DEF InitialRead, vars
<1>7. CASE ReadService /\ UNCHANGED diagnostics
  BY <1>7 DEF ReadService, vars
<1>8. CASE ReadProperties /\ UNCHANGED diagnostics
  BY <1>8 DEF ReadProperties, vars
<1>9. CASE UpsertProperty /\ UNCHANGED diagnostics
  BY <1>9 DEF UpsertProperty, vars
<1>10. CASE ReadActive /\ UNCHANGED diagnostics
  BY <1>10 DEF ReadActive, vars
<1>11. CASE ReportDay /\ UNCHANGED diagnostics
  BY <1>11 DEF ReportDay, vars
<1>12. CASE UpsertActive /\ UNCHANGED diagnostics
  BY <1>12 DEF UpsertActive, vars
<1>13. CASE SelectCurrent /\ UNCHANGED diagnostics
  BY <1>13 DEF SelectCurrent, vars
<1>14. CASE ReadActiveDB /\ UNCHANGED diagnostics
  BY <1>14 DEF ReadActiveDB, vars
<1>15. CASE Touch /\ UNCHANGED diagnostics
  BY <1>15 DEF Touch, vars
<1>16. CASE CollectArchive /\ UNCHANGED diagnostics
  BY <1>16 DEF CollectArchive, vars
<1>17. CASE SetCurrentType /\ UNCHANGED diagnostics
  BY <1>17 DEF SetCurrentType, vars
<1>18. CASE ReadCurrent /\ UNCHANGED diagnostics
  BY <1>18 DEF ReadCurrent, vars
<1>19. CASE SaveCurrent /\ UNCHANGED diagnostics
  BY <1>19 DEF SaveCurrent, vars
<1>20. CASE Tick
  BY <1>20 DEF Tick, vars
<1>21. CASE Cancel
  BY <1>21 DEF Cancel, vars
<1>22. CASE Crash
  BY <1>22 DEF Crash, vars
<1>23. CASE Restart
  BY <1>23 DEF Restart, vars
<1>24. CASE UNCHANGED vars
  BY <1>24 DEF vars
<1> QED BY <1>1, <1>2, <1>3, <1>4, <1>5, <1>6, <1>7, <1>8, <1>9, <1>10, <1>11, <1>12, <1>13,
    <1>14, <1>15, <1>16, <1>17, <1>18, <1>19, <1>20, <1>21, <1>22, <1>23, <1>24
    DEF Next, Program

\* Touch is the only step that changes the device row.
LEMMA DeviceWritten == [Next]_vars => UNCHANGED device \/ (Touch /\ UNCHANGED diagnostics)
<1> SUFFICES ASSUME [Next]_vars PROVE UNCHANGED device \/ (Touch /\ UNCHANGED diagnostics)
  OBVIOUS
<1> USE DEF Works, Fails, Stored, Unstored, Fresh, Leave, Stay, Quiet, Skip, Proceed, process,
    meter, locals, tables, history
<1>1. CASE Connect /\ UNCHANGED diagnostics
  BY <1>1 DEF Connect, vars
<1>2. CASE Wait /\ UNCHANGED diagnostics
  BY <1>2 DEF Wait, vars
<1>3. CASE Ping /\ UNCHANGED diagnostics
  BY <1>3 DEF Ping, vars
<1>4. CASE OpenPort /\ UNCHANGED diagnostics
  BY <1>4 DEF OpenPort, vars
<1>5. CASE BeginSession /\ UNCHANGED diagnostics
  BY <1>5 DEF BeginSession, vars
<1>6. CASE InitialRead /\ UNCHANGED diagnostics
  BY <1>6 DEF InitialRead, vars
<1>7. CASE ReadService /\ UNCHANGED diagnostics
  BY <1>7 DEF ReadService, vars
<1>8. CASE ReadProperties /\ UNCHANGED diagnostics
  BY <1>8 DEF ReadProperties, vars
<1>9. CASE UpsertProperty /\ UNCHANGED diagnostics
  BY <1>9 DEF UpsertProperty, vars
<1>10. CASE ReadActive /\ UNCHANGED diagnostics
  BY <1>10 DEF ReadActive, vars
<1>11. CASE ReportDay /\ UNCHANGED diagnostics
  BY <1>11 DEF ReportDay, vars
<1>12. CASE UpsertActive /\ UNCHANGED diagnostics
  BY <1>12 DEF UpsertActive, vars
<1>13. CASE SelectCurrent /\ UNCHANGED diagnostics
  BY <1>13 DEF SelectCurrent, vars
<1>14. CASE ReadActiveDB /\ UNCHANGED diagnostics
  BY <1>14 DEF ReadActiveDB, vars
<1>15. CASE Touch /\ UNCHANGED diagnostics
  BY <1>15 DEF Touch, vars
<1>16. CASE CollectArchive /\ UNCHANGED diagnostics
  BY <1>16 DEF CollectArchive, vars
<1>17. CASE SetCurrentType /\ UNCHANGED diagnostics
  BY <1>17 DEF SetCurrentType, vars
<1>18. CASE ReadCurrent /\ UNCHANGED diagnostics
  BY <1>18 DEF ReadCurrent, vars
<1>19. CASE SaveCurrent /\ UNCHANGED diagnostics
  BY <1>19 DEF SaveCurrent, vars
<1>20. CASE Tick
  BY <1>20 DEF Tick, vars
<1>21. CASE Cancel
  BY <1>21 DEF Cancel, vars
<1>22. CASE Crash
  BY <1>22 DEF Crash, vars
<1>23. CASE Restart
  BY <1>23 DEF Restart, vars
<1>24. CASE UNCHANGED vars
  BY <1>24 DEF vars
<1> QED BY <1>1, <1>2, <1>3, <1>4, <1>5, <1>6, <1>7, <1>8, <1>9, <1>10, <1>11, <1>12, <1>13,
    <1>14, <1>15, <1>16, <1>17, <1>18, <1>19, <1>20, <1>21, <1>22, <1>23, <1>24
    DEF Next, Program

\* A valid report day in the device row is only replaced by one the meter
\* reported in that session - or, when the meter gave none and the row could not
\* be read, by the default (once, Touch).
THEOREM LearnedDayStays == Spec => LearnedDayKept
<1>1. Init => Values
  BY InitTyped
<1>2. Init => DayInv
  BY DEF Init, DayInv
<1>3. ASSUME DayInv, [Next]_vars
      PROVE  device.report_day \in Days /\ device'.report_day # device.report_day =>
               \/ device'.report_day = learned
               \/ unasked /\ learned \notin Days /\ device'.report_day = DefaultDay
  <2>1. CASE UNCHANGED device
    BY <2>1
  <2>2. CASE Touch
    BY <1>3, <2>2 DEF Touch, DayInv
  <2> QED BY <1>3, <2>1, <2>2, DeviceWritten
<1> QED BY <1>1, <1>2, <1>3, ValuesKept, DayInvKept, PTL DEF Spec, LearnedDayKept

-----------------------------------------------------------------------------
\* What the session knows when it writes the device row.
LEMMA RowInvKept == RowInv /\ [Next]_vars => RowInv'
<1> SUFFICES ASSUME RowInv, [Next]_vars PROVE RowInv'
  OBVIOUS
<1> USE DEF RowInv, Works, Fails, Stored, Unstored, PerhapsBegun, PerhapsRead, Fresh, Leave,
    Stay, Quiet, Skip, Proceed, Tables,
    process, meter, locals, tables, history
<1>1. CASE Connect /\ UNCHANGED diagnostics
  BY <1>1 DEF Connect, vars
<1>2. CASE Wait /\ UNCHANGED diagnostics
  BY <1>2 DEF Wait, vars
<1>3. CASE Ping /\ UNCHANGED diagnostics
  BY <1>3 DEF Ping, vars
<1>4. CASE OpenPort /\ UNCHANGED diagnostics
  BY <1>4 DEF OpenPort, vars
<1>5. CASE BeginSession /\ UNCHANGED diagnostics
  BY <1>5 DEF BeginSession, vars
<1>6. CASE InitialRead /\ UNCHANGED diagnostics
  BY <1>6 DEF InitialRead, vars
<1>7. CASE ReadService /\ UNCHANGED diagnostics
  BY <1>7 DEF ReadService, vars
<1>8. CASE ReadProperties /\ UNCHANGED diagnostics
  BY <1>8 DEF ReadProperties, vars
<1>9. CASE UpsertProperty /\ UNCHANGED diagnostics
  BY <1>9 DEF UpsertProperty, vars
<1>10. CASE ReadActive /\ UNCHANGED diagnostics
  BY <1>10 DEF ReadActive, vars
<1>11. CASE ReportDay /\ UNCHANGED diagnostics
  BY <1>11 DEF ReportDay, vars
<1>12. CASE UpsertActive /\ UNCHANGED diagnostics
  BY <1>12 DEF UpsertActive, vars
<1>13. CASE SelectCurrent /\ UNCHANGED diagnostics
  BY <1>13 DEF SelectCurrent, vars
<1>14. CASE ReadActiveDB /\ UNCHANGED diagnostics
  BY <1>14 DEF ReadActiveDB, vars
<1>15. CASE Touch /\ UNCHANGED diagnostics
  BY <1>15 DEF Touch, vars
<1>16. CASE CollectArchive /\ UNCHANGED diagnostics
  BY <1>16 DEF CollectArchive, vars
<1>17. CASE SetCurrentType /\ UNCHANGED diagnostics
  BY <1>17 DEF SetCurrentType, vars
<1>18. CASE ReadCurrent /\ UNCHANGED diagnostics
  BY <1>18 DEF ReadCurrent, vars
<1>19. CASE SaveCurrent /\ UNCHANGED diagnostics
  BY <1>19 DEF SaveCurrent, vars
<1>20. CASE Tick
  BY <1>20 DEF Tick, vars
<1>21. CASE Cancel
  BY <1>21 DEF Cancel, vars
<1>22. CASE Crash
  BY <1>22 DEF Crash, vars
<1>23. CASE Restart
  BY <1>23 DEF Restart, vars
<1>24. CASE UNCHANGED vars
  BY <1>24 DEF vars
<1> QED BY <1>1, <1>2, <1>3, <1>4, <1>5, <1>6, <1>7, <1>8, <1>9, <1>10, <1>11, <1>12, <1>13,
    <1>14, <1>15, <1>16, <1>17, <1>18, <1>19, <1>20, <1>21, <1>22, <1>23, <1>24
    DEF Next, Program

\* The device row holds the meter's server version and database, unless the
\* session was refused or the firmware does not know the request (Touch).
THEOREM RowsReal == Spec => DeviceRowReal
<1>1. Init => RowInv
  BY DEF Init, RowInv
<1>2. ASSUME RowInv, [Next]_vars
      PROVE  device' # device => /\ device'.server_version = ServerVersion \/ refused
                                 /\ device'.active_db \in Databases \/ ~diagnostics
  <2>1. CASE UNCHANGED device
    BY <2>1
  <2>2. CASE Touch
    BY <1>2, <2>2 DEF Touch, RowInv
  <2> QED BY <1>2, <2>1, <2>2, DeviceWritten
<1> QED BY <1>1, <1>2, RowInvKept, PTL DEF Spec, DeviceRowReal

-----------------------------------------------------------------------------
\* Every statement takes the context, and Ping comes before the port.
LEMMA QuietStep == [Next]_vars => (cancelled => UNCHANGED tables /\ (pc' = "open" => pc = "open"))
<1> SUFFICES ASSUME [Next]_vars, cancelled PROVE UNCHANGED tables /\ (pc' = "open" => pc = "open")
  OBVIOUS
<1> USE DEF Works, Fails, Stored, Unstored, PerhapsBegun, PerhapsRead, Fresh, Leave, Stay,
    Quiet, Skip, Proceed, Tables,
    process, meter, locals, tables, history
<1>1. CASE Connect /\ UNCHANGED diagnostics
  BY <1>1 DEF Connect, vars
<1>2. CASE Wait /\ UNCHANGED diagnostics
  BY <1>2 DEF Wait, vars
<1>3. CASE Ping /\ UNCHANGED diagnostics
  BY <1>3 DEF Ping, vars
<1>4. CASE OpenPort /\ UNCHANGED diagnostics
  BY <1>4 DEF OpenPort, vars
<1>5. CASE BeginSession /\ UNCHANGED diagnostics
  BY <1>5 DEF BeginSession, vars
<1>6. CASE InitialRead /\ UNCHANGED diagnostics
  BY <1>6 DEF InitialRead, vars
<1>7. CASE ReadService /\ UNCHANGED diagnostics
  BY <1>7 DEF ReadService, vars
<1>8. CASE ReadProperties /\ UNCHANGED diagnostics
  BY <1>8 DEF ReadProperties, vars
<1>9. CASE UpsertProperty /\ UNCHANGED diagnostics
  BY <1>9 DEF UpsertProperty, vars
<1>10. CASE ReadActive /\ UNCHANGED diagnostics
  BY <1>10 DEF ReadActive, vars
<1>11. CASE ReportDay /\ UNCHANGED diagnostics
  BY <1>11 DEF ReportDay, vars
<1>12. CASE UpsertActive /\ UNCHANGED diagnostics
  BY <1>12 DEF UpsertActive, vars
<1>13. CASE SelectCurrent /\ UNCHANGED diagnostics
  BY <1>13 DEF SelectCurrent, vars
<1>14. CASE ReadActiveDB /\ UNCHANGED diagnostics
  BY <1>14 DEF ReadActiveDB, vars
<1>15. CASE Touch /\ UNCHANGED diagnostics
  BY <1>15 DEF Touch, vars
<1>16. CASE CollectArchive /\ UNCHANGED diagnostics
  BY <1>16 DEF CollectArchive, vars
<1>17. CASE SetCurrentType /\ UNCHANGED diagnostics
  BY <1>17 DEF SetCurrentType, vars
<1>18. CASE ReadCurrent /\ UNCHANGED diagnostics
  BY <1>18 DEF ReadCurrent, vars
<1>19. CASE SaveCurrent /\ UNCHANGED diagnostics
  BY <1>19 DEF SaveCurrent, vars
<1>20. CASE Tick
  BY <1>20 DEF Tick, vars
<1>21. CASE Cancel
  BY <1>21 DEF Cancel, vars
<1>22. CASE Crash
  BY <1>22 DEF Crash, vars
<1>23. CASE Restart
  BY <1>23 DEF Restart, vars
<1>24. CASE UNCHANGED vars
  BY <1>24 DEF vars
<1> QED BY <1>1, <1>2, <1>3, <1>4, <1>5, <1>6, <1>7, <1>8, <1>9, <1>10, <1>11, <1>12, <1>13,
    <1>14, <1>15, <1>16, <1>17, <1>18, <1>19, <1>20, <1>21, <1>22, <1>23, <1>24
    DEF Next, Program

\* After SIGTERM nothing is stored and no session gets to the port (Run, once).
THEOREM CancelQuiets == Spec => QuietAfterCancel
<1> QED BY QuietStep, PTL DEF Spec, QuietAfterCancel
=============================================================================
