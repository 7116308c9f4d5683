------------------------------ MODULE Session -------------------------------
(***************************************************************************)
(* The daemon around its archives: main(), the ticker of Run(), the        *)
(* session once() and the tables of a device that are not archives.  One   *)
(* action is one request to the meter or one statement to PostgreSQL; in   *)
(* between the daemon may be told to stop, or be killed and started again. *)
(* What collectArchive() does is the module ArchiveCollector; here it is   *)
(* what the rest of the session sees of it, the value type it leaves.      *)
(***************************************************************************)
EXTENDS Naturals, Sequences, FiniteSets

CONSTANTS
  Days,         \* valid report days, 1..31 in the code
  DefaultDay,   \* the day taken when none is known, 30
  Versions,     \* what the first byte of a data answer may be
  ServerVersion, \* the server version among them
  Databases,    \* what the meter may report as its active database
  Address,      \* the meter's address, the first byte of an exception frame
  Lists,        \* active lists the meter may send
  Properties,   \* names of the properties
  Readings,     \* tells one reading of the properties from another
  None,         \* nothing: no number, no table, no transaction
  MaxFaults     \* bound: failed requests and statements, and crashes

ASSUME DaysAssumption == Days \subseteq Nat \ {0} /\ DefaultDay \in Days
ASSUME ListsAssumption == \A l \in Lists : Len(l) \in Nat /\ DOMAIN l = 1..Len(l)
ASSUME VersionsAssumption == ServerVersion \in Versions
ASSUME AddressAssumption == Address \notin Databases
ASSUME NoneAssumption == None \notin Databases \cup Versions \cup Readings \cup {Address}
ASSUME BoundsAssumption == MaxFaults \in Nat

Unknown == 0                    \* a report day that was never learned
Jobs    == <<"Hourly", "Daily", "Monthly", "Total">>
Types   == {Jobs[i] : i \in 1..4} \cup {"Current", "CurrentTotal", "Properties"}

VARIABLES
  \* the process
  pc,         \* the call that comes next
  positive,   \* is the configured interval positive?
  cancelled,  \* SIGTERM: the context is done
  tick,       \* the channel of the ticker holds a tick
  open,       \* is the serial port open?
  \* the meter
  diagnostics, \* does its firmware know the request for the database?
  type,       \* register: value type
  begun,      \* BeginSession was executed and no data was read since
  \* locals of once()
  version,    \* serverVersion
  day,        \* reportDay
  service,    \* serviceOK
  db,         \* archiveMeta.ActiveDB
  es,         \* the active list
  reading,    \* what was read last and is to be stored
  item,       \* where the loop over es or the jobs, or ReadCurrent, stands
  \* PostgreSQL
  device,     \* the device row
  active,     \* active_elements
  properties, \* properties
  current,    \* current_values and current_totals: <<table, type read>>
  staged,     \* what an open transaction has made of its table
  \* history
  learned,    \* the report day the meter gave in this session
  refused,    \* BeginSession was answered by an exception in this session
  unasked,    \* the stored report day could not be read in this session
  faults

process == <<positive, cancelled, tick, open>>
meter   == <<type, begun>>
locals  == <<version, day, service, db, es, reading, item>>
tables  == <<device, active, properties, current>>
history == <<learned, refused, unasked>>
vars    == <<pc, process, diagnostics, meter, locals, tables, staged, history, faults>>

-----------------------------------------------------------------------------
(* Calls *)

Works == UNCHANGED faults
Fails == faults < MaxFaults /\ faults' = faults + 1

\* Every statement takes the context: once it is done pgx refuses them all.
Stored   == ~cancelled /\ Works
Unstored == (cancelled /\ Works) \/ (~cancelled /\ Fails)

\* A failed request may have been executed all the same.
PerhapsBegun == begun' = TRUE \/ UNCHANGED begun
PerhapsRead  == begun' = FALSE \/ UNCHANGED begun

Fresh == /\ version' = 0 /\ day' = Unknown /\ service' = FALSE /\ db' = None
         /\ es' = <<>> /\ reading' = None /\ item' = 0

\* The end of once(), whatever ended it: the deferred Close.
Leave == /\ pc' = "wait" /\ open' = FALSE /\ Fresh
         /\ UNCHANGED <<positive, cancelled, tick>>

Stay  == UNCHANGED process
Quiet == UNCHANGED <<tables, staged>>

Init ==
  /\ pc = "connect" /\ positive \in BOOLEAN
  /\ cancelled = FALSE /\ tick = FALSE /\ open = FALSE
  /\ diagnostics \in BOOLEAN /\ type \in Types /\ begun = FALSE
  /\ version = 0 /\ day = Unknown /\ service = FALSE /\ db = None
  /\ es = <<>> /\ reading = None /\ item = 0
  /\ device = [report_day |-> Unknown, server_version |-> None, active_db |-> None]
  /\ active = {} /\ properties = [p \in Properties |-> None] /\ current = {}
  /\ staged = None
  /\ learned = Unknown /\ refused = FALSE /\ unasked = FALSE
  /\ faults = 0

-----------------------------------------------------------------------------
(* main() and Run() *)

\* storage.New and Migrate; a failure exits.  NewTicker panics on an interval
\* Parse had refused, since Load drops its error.
Connect ==
  /\ pc = "connect"
  /\ \/ Stored /\ pc' = IF positive THEN "ping" ELSE "exited"
     \/ Unstored /\ pc' = "exited"
  /\ Stay /\ Quiet /\ UNCHANGED <<meter, locals, history>>

\* Slip: only the ticker ends the wait.
WaitForTick ==
  /\ pc = "wait"
  /\ tick /\ tick' = FALSE /\ pc' = "ping"
  /\ Works /\ Quiet /\ UNCHANGED <<positive, cancelled, open, meter, locals, history>>

\* Slip: only the context ends the wait.
WaitForEnd ==
  /\ pc = "wait" /\ cancelled /\ pc' = "exited"
  /\ Works /\ Quiet /\ UNCHANGED <<process, meter, locals, history>>

\* The select of Run: either branch when both are ready.
Wait ==
  /\ pc = "wait"
  /\ \/ cancelled /\ pc' = "exited" /\ UNCHANGED tick
     \/ tick /\ tick' = FALSE /\ pc' = "ping"
  /\ Works /\ Quiet /\ UNCHANGED <<positive, cancelled, open, meter, locals, history>>

\* Ping, then Device; the session does not touch the port before both worked.
Ping ==
  /\ pc = "ping"
  /\ \/ Stored /\ pc' = "open" /\ Stay /\ UNCHANGED locals
     \/ Unstored /\ Leave
  /\ learned' = Unknown /\ refused' = FALSE /\ unasked' = FALSE
  /\ Quiet /\ UNCHANGED meter

OpenPort ==
  /\ pc = "open"
  /\ \/ /\ Works /\ open' = TRUE /\ pc' = "begin"
        /\ UNCHANGED <<positive, cancelled, tick, locals>>
     \/ Fails /\ Leave
  /\ Quiet /\ UNCHANGED <<meter, history>>

-----------------------------------------------------------------------------
(* once(): what the meter says about itself *)

\* Begin looks at the transport error only: an exception passes for a session.
BeginSession ==
  /\ pc = "begin"
  /\ \/ Works /\ begun' = TRUE /\ pc' = "version" /\ Stay /\ UNCHANGED <<locals, refused>>
     \/ Fails /\ refused' = TRUE /\ pc' = "version" /\ Stay /\ UNCHANGED <<locals, begun>>
     \/ Fails /\ PerhapsBegun /\ Leave /\ UNCHANGED refused
  /\ Quiet /\ UNCHANGED <<type, learned, unasked>>

\* The first data read after BeginSession gives the server version.
InitialRead ==
  /\ pc = "version"
  /\ \/ /\ Works /\ begun' = FALSE
        /\ \E v \in IF begun THEN {ServerVersion} ELSE Versions \cup {0} : version' = v
        /\ pc' = "service" /\ Stay /\ UNCHANGED <<day, service, db, es, reading, item>>
     \/ Fails /\ PerhapsRead /\ Leave
  /\ Quiet /\ UNCHANGED <<type, history>>

\* ReadService and ParseService.  An exception frame is too short for it and
\* ends here as well; the day may be out of range.
ReadService ==
  /\ pc = "service"
  /\ \/ /\ Works /\ service' = TRUE
        /\ \E d \in Days \cup {Unknown} : day' = d /\ learned' = d
     \/ Fails /\ UNCHANGED <<service, day, learned>>
  /\ pc' = "properties"
  /\ Stay /\ Quiet /\ UNCHANGED <<meter, version, db, es, reading, item, refused, unasked>>

\* collectProperties up to the answer: SetType, SetReadList, ReadData.
ReadProperties ==
  /\ pc = "properties"
  /\ \/ /\ Works /\ type' = "Properties" /\ begun' = FALSE
        /\ \E r \in Readings : reading' = r
        /\ pc' = "stage" /\ UNCHANGED item
     \/ /\ Fails /\ type' \in {type, "Properties"} /\ PerhapsRead
        /\ pc' = "active" /\ UNCHANGED <<reading, item>>
  /\ Stay /\ Quiet /\ UNCHANGED <<version, day, service, db, es, history>>

-----------------------------------------------------------------------------
(* The transactions of the store: staged is the table as the transaction   *)
(* sees it, and nobody else sees it before the commit.                     *)

\* Slip: the upserts of SaveProperties, each committed by itself.
UpsertPropertyAtOnce ==
  /\ pc = "stage"
  /\ \E p \in Properties :
       /\ properties[p] # reading
       /\ properties' = [properties EXCEPT ![p] = reading]
  /\ pc' = IF \A p \in Properties : properties'[p] = reading THEN "active" ELSE "stage"
  /\ Stored /\ Stay
  /\ UNCHANGED <<meter, locals, device, active, current, staged, history>>

\* SaveProperties upserts one property after the other, in no order.
UpsertProperty ==
  /\ pc = "stage"
  /\ LET table == IF staged = None THEN properties ELSE staged
     IN  \/ /\ Stored
            /\ \E p \in Properties :
                 /\ table[p] # reading
                 /\ staged' = [table EXCEPT ![p] = reading]
            /\ UNCHANGED <<pc, properties>>
         \/ /\ Stored /\ \A p \in Properties : table[p] = reading
            /\ properties' = table /\ staged' = None /\ pc' = "active"
         \/ Unstored /\ staged' = None /\ pc' = "active" /\ UNCHANGED properties
  /\ Stay /\ UNCHANGED <<meter, locals, device, active, current, history>>

\* ActiveElements; an empty list ends the session as an error does.
ReadActive ==
  /\ pc = "active"
  /\ \/ /\ Works /\ es' \in Lists /\ reading' = None
        /\ pc' = "day" /\ Stay /\ UNCHANGED <<version, day, service, db, item>>
     \/ Fails /\ Leave
  /\ Quiet /\ UNCHANGED <<meter, history>>

\* Slip: the default is taken without a look at the device row.
ReportDayFromMeter ==
  /\ pc = "day"
  /\ day' = IF day \in Days THEN day ELSE DefaultDay
  /\ pc' = "upsert"
  /\ Works /\ Stay /\ Quiet
  /\ UNCHANGED <<meter, version, service, db, es, reading, item, history>>

\* Slip: what the device row has is taken as it is.
ReportDayAsStored ==
  /\ pc = "day"
  /\ \/ day \in Days /\ Works /\ UNCHANGED <<day, unasked>>
     \/ day \notin Days /\ Stored /\ UNCHANGED unasked /\ day' = device.report_day
     \/ day \notin Days /\ Unstored /\ unasked' = TRUE /\ day' = DefaultDay
  /\ pc' = "upsert"
  /\ Stay /\ Quiet
  /\ UNCHANGED <<meter, version, service, db, es, reading, item, learned, refused>>

\* The meter's report day, else the stored one, else the default.
ReportDay ==
  /\ pc = "day"
  /\ \/ day \in Days /\ Works /\ UNCHANGED <<day, unasked>>
     \/ /\ day \notin Days /\ Stored /\ UNCHANGED unasked
        /\ day' = IF device.report_day \in Days THEN device.report_day ELSE DefaultDay
     \/ day \notin Days /\ Unstored /\ unasked' = TRUE /\ day' = DefaultDay
  /\ pc' = "upsert"
  /\ Stay /\ Quiet
  /\ UNCHANGED <<meter, version, service, db, es, reading, item, learned, refused>>

\* UpsertActive: DELETE, an INSERT for each element, COMMIT.
UpsertActive ==
  /\ pc = "upsert"
  /\ \/ /\ Stored /\ staged = None /\ staged' = {} /\ item' = 1
        /\ UNCHANGED <<pc, active>>
     \/ /\ Stored /\ staged # None /\ item <= Len(es)
        /\ staged' = staged \cup {es[item]} /\ item' = item + 1
        /\ UNCHANGED <<pc, active>>
     \/ /\ Stored /\ staged # None /\ item > Len(es)
        /\ active' = staged /\ staged' = None /\ item' = 0 /\ pc' = "select"
     \/ Unstored /\ staged' = None /\ item' = 0 /\ pc' = "select" /\ UNCHANGED active
  /\ Stay /\ UNCHANGED <<meter, version, day, service, db, es, reading,
                         device, properties, current, history>>

-----------------------------------------------------------------------------
(* once(): the device row, the archives, the current values *)

\* Slip: the database is asked for whatever became of the value type.
SelectCurrentUnchecked ==
  /\ pc = "select"
  /\ \/ Works /\ type' = "Current"
     \/ Fails /\ type' \in {type, "Current"}
  /\ pc' = "db"
  /\ Stay /\ Quiet /\ UNCHANGED <<begun, locals, history>>

\* "ReadActiveDB is valid for a normal data type": skipped without one.
SelectCurrent ==
  /\ pc = "select"
  /\ \/ Works /\ type' = "Current" /\ pc' = "db" /\ UNCHANGED item
     \/ Fails /\ type' \in {type, "Current"} /\ pc' = "jobs" /\ item' = 1
  /\ Stay /\ Quiet /\ UNCHANGED <<begun, version, day, service, db, es, reading, history>>

\* ReadActiveDB does not look for an exception: the first byte of whatever
\* frame there is becomes the database.  The meter refuses the request when
\* its firmware does not know it, and under the type of the properties.
ReadActiveDB ==
  /\ pc = "db"
  /\ \/ /\ Works /\ diagnostics /\ type # "Properties" /\ db' \in Databases
        /\ pc' = "touch" /\ UNCHANGED item
     \/ /\ Works /\ (~diagnostics \/ type = "Properties") /\ db' = Address
        /\ pc' = "touch" /\ UNCHANGED item
     \/ Fails /\ pc' = "jobs" /\ item' = 1 /\ UNCHANGED db
  /\ Stay /\ Quiet /\ UNCHANGED <<meter, version, day, service, es, reading, history>>

\* Slip: the row is still written when the daemon is being stopped.
TouchDetached ==
  /\ pc = "touch" /\ Works
  /\ device' = IF service THEN [report_day |-> day, server_version |-> version, active_db |-> db] ELSE device
  /\ pc' = "jobs" /\ item' = 1
  /\ Stay
  /\ UNCHANGED <<meter, version, day, service, db, es, reading, active, properties,
                 current, staged, history>>

\* Touch writes the device row of a meter that said who it is.
Touch ==
  /\ pc = "touch"
  /\ \/ Stored /\ service /\ device' = [report_day |-> day, server_version |-> version, active_db |-> db]
     \/ Unstored /\ service /\ UNCHANGED device
     \/ Works /\ ~service /\ UNCHANGED device
  /\ pc' = "jobs" /\ item' = 1
  /\ Stay
  /\ UNCHANGED <<meter, version, day, service, db, es, reading, active, properties,
                 current, staged, history>>

\* Four archives, one after the other.  Each selects its type first, and one
\* that fails or refreshes its scheme may leave the former type or Current.
CollectArchive ==
  /\ pc = "jobs" /\ Works
  /\ IF item <= 4
     THEN /\ type' \in {type, Jobs[item], "Current"}
          /\ PerhapsRead
          /\ item' = item + 1 /\ UNCHANGED pc
     ELSE pc' = "Current" /\ item' = 0 /\ UNCHANGED meter
  /\ Stay /\ Quiet /\ UNCHANGED <<version, day, service, db, es, reading, history>>

\* ReadCurrent and SaveCurrent, for the current values and then for their
\* totals; an error goes on to the next step of the session.
Tables == [Current |-> "current_values", CurrentTotal |-> "current_totals"]

Skip ==
  IF pc = "Current"
  THEN /\ pc' = "CurrentTotal" /\ item' = 0 /\ reading' = None
       /\ Stay /\ UNCHANGED <<version, day, service, db, es>>
  ELSE Leave

Proceed == item' = item + 1 /\ Stay /\ UNCHANGED <<pc, version, day, service, db, es>>

\* Slip: a value type that could not be set does not stop the read.
SetCurrentTypeUnchecked ==
  /\ pc \in DOMAIN Tables /\ item = 0
  /\ \/ Works /\ type' = pc
     \/ Fails /\ type' \in {type, pc}
  /\ Proceed
  /\ Quiet /\ UNCHANGED <<reading, begun, history>>

SetCurrentType ==
  /\ pc \in DOMAIN Tables /\ item = 0
  /\ \/ Works /\ type' = pc /\ Proceed /\ UNCHANGED reading
     \/ Fails /\ type' \in {type, pc} /\ Skip
  /\ Quiet /\ UNCHANGED <<begun, history>>

\* SetReadList and ReadData: the values are of the type in the register.
ReadCurrent ==
  /\ pc \in DOMAIN Tables /\ item = 1
  /\ \/ Works /\ begun' = FALSE /\ reading' = type /\ Proceed
     \/ Fails /\ PerhapsRead /\ Skip
  /\ Quiet /\ UNCHANGED <<type, history>>

SaveCurrent ==
  /\ pc \in DOMAIN Tables /\ item = 2
  /\ \/ Stored /\ current' = current \cup {<<Tables[pc], reading>>}
     \/ Unstored /\ UNCHANGED current
  /\ Skip
  /\ UNCHANGED <<meter, device, active, properties, staged, history>>

-----------------------------------------------------------------------------
(* The world: time, systemd, death *)

Tick ==
  /\ pc # "connect" /\ pc # "exited" /\ ~tick /\ tick' = TRUE
  /\ Works /\ Quiet /\ UNCHANGED <<pc, positive, cancelled, open, diagnostics, meter, locals, history>>

Cancel ==
  /\ pc # "exited" /\ ~cancelled /\ cancelled' = TRUE
  /\ Works /\ Quiet /\ UNCHANGED <<pc, positive, tick, open, diagnostics, meter, locals, history>>

\* The process dies; PostgreSQL rolls an open transaction back.
Crash ==
  /\ pc # "exited" /\ Fails /\ pc' = "exited"
  /\ open' = FALSE /\ tick' = FALSE /\ staged' = None /\ Fresh
  /\ UNCHANGED <<positive, cancelled, diagnostics, meter, tables, history>>

\* Restart=always, until the unit is stopped.
Restart ==
  /\ pc = "exited" /\ ~cancelled /\ pc' = "connect" /\ tick' = FALSE
  /\ Works /\ Quiet /\ UNCHANGED <<positive, cancelled, open, diagnostics, meter, locals, history>>

Program ==
  /\ UNCHANGED diagnostics
  /\ \/ Connect \/ Wait \/ Ping \/ OpenPort
     \/ BeginSession \/ InitialRead \/ ReadService
     \/ ReadProperties \/ UpsertProperty \/ ReadActive \/ ReportDay \/ UpsertActive
     \/ SelectCurrent \/ ReadActiveDB \/ Touch \/ CollectArchive
     \/ SetCurrentType \/ ReadCurrent \/ SaveCurrent

Next == Program \/ Tick \/ Cancel \/ Crash \/ Restart

Spec == Init /\ [][Next]_vars

\* The program goes on, its requests end (TransactionEnds), its archives end
\* (SessionEnds), the ticker ticks and systemd restarts the unit.  A select
\* with two ready cases takes one at random, so it does not prefer the ticker
\* for ever.
Stop     == Wait /\ pc' = "exited" /\ UNCHANGED diagnostics
FairSpec == Spec /\ WF_vars(Program) /\ WF_vars(Tick) /\ WF_vars(Restart) /\ SF_vars(Stop)

-----------------------------------------------------------------------------
(* Properties *)

Flags ==
  /\ positive \in BOOLEAN /\ cancelled \in BOOLEAN /\ tick \in BOOLEAN /\ open \in BOOLEAN
  /\ diagnostics \in BOOLEAN /\ begun \in BOOLEAN /\ service \in BOOLEAN
  /\ refused \in BOOLEAN /\ unasked \in BOOLEAN

ItemOK   == item \in Nat /\ (pc = "jobs" => item > 0)
DayKnown == pc \in {"upsert", "select", "db", "touch", "jobs"} => day \in Days

Values ==
  /\ pc \in {"connect", "exited", "wait", "ping", "open", "begin", "version", "service",
             "properties", "stage", "active", "day", "upsert", "select", "db", "touch",
             "jobs"} \cup DOMAIN Tables
  /\ type \in Types
  /\ version \in Versions \cup {0}
  /\ day \in Days \cup {Unknown} /\ learned \in Days \cup {Unknown}
  /\ device \in [report_day : Days \cup {Unknown}, server_version : Versions \cup {0, None},
                 active_db : Databases \cup {Address, None}]
  /\ DayKnown /\ ItemOK
  /\ db \in Databases \cup {Address, None}
  /\ es \in Lists \cup {<<>>}
  /\ faults \in 0..MaxFaults

\* The variables have their types, and the archives start with a report day
\* that is one, whatever the meter and the device row said.
TypeOK == Flags /\ Values

\* A valid report day in the device row gives way to a day the meter reported
\* in the session that writes it, and to nothing else - but for one case, which
\* the code does not handle: the meter gave no day and the row could not be read
\* (once, lines 129-145 and 160-164). The session then writes the default, 30,
\* over the day an earlier session learned.
LearnedDayKept ==
  [][device.report_day \in Days /\ device'.report_day # device.report_day =>
       \/ device'.report_day = learned
       \/ unasked /\ learned \notin Days /\ device'.report_day = DefaultDay]_vars

\* Readers of the two tables never see half of one: active_elements is one
\* list the meter sent, and the properties come from one reading, whatever
\* fails, is cancelled or dies between two statements of a transaction.
WholeTables ==
  /\ active = {} \/ \E l \in Lists : active = {l[i] : i \in DOMAIN l}
  /\ \A p, q \in Properties : properties[p] = properties[q]

\* The device row holds the meter's own server version and database, with the
\* two exceptions the client cannot see: a session the meter refused, and a
\* firmware that does not know the request for the database.
DeviceRowReal ==
  [][device' # device => /\ device'.server_version = ServerVersion \/ refused
                         /\ device'.active_db \in Databases \/ ~diagnostics]_vars

\* Current values and their totals never change places, whatever type the
\* archives, the metadata or a failed request left in the meter.
CurrentAttributed ==
  \A row \in current : row[2] \in DOMAIN Tables /\ row[1] = Tables[row[2]]

\* After SIGTERM nothing is stored and no session gets as far as the port,
\* although only the archives look at the context themselves; the session
\* under way goes on with the meter to no effect.
QuietAfterCancel ==
  [][cancelled => UNCHANGED tables /\ (pc' = "open" => pc = "open")]_vars

\* The daemon stops after SIGTERM, in whatever it was engaged.
ShutsDown == cancelled ~> pc = "exited"

\* Until then there is always another session, after errors, crashes and a
\* database that was away, if the interval is one Parse accepts.
SessionsRecur == []<>(pc = "ping" \/ cancelled \/ ~positive)
=============================================================================
