-------------------------- MODULE ArchiveCollector --------------------------
(***************************************************************************)
(* How a session of vkt7d brings one archive of a VKT-7 meter into its     *)
(* table: the part of once() that prepares the scheme metadata, then       *)
(* collectArchive() and readArchiveRecord(), one action per request to the *)
(* meter or to PostgreSQL.  Between any two of them the meter may switch   *)
(* its measurement scheme, the clock may move and the daemon may die.      *)
(*                                                                         *)
(* A measurement scheme stands for everything that changes with it: the    *)
(* active-element list, the scheme numbers of TV1 and TV2, the active      *)
(* database.  A read list is named by the scheme whose elements it holds.  *)
(***************************************************************************)
EXTENDS ArchiveCalendar, FiniteSets, FiniteSetsExt

CONSTANTS
  Schemes,      \* the measurement schemes the meter may be set to
  NumChunks,    \* into how many chunks the filtered list of a scheme splits
  Fits,         \* schemes whose filtered list fits one write (255 bytes)
  DatesOnly,    \* does exception 3 answer requests for a date or data only?
  Diagnostics,  \* does the firmware answer the scheme and database reads?
  RangeReplies, \* what the range request may return, decoded
  Batch,        \* --batch-<type>, as configured
  Moments,      \* bound: the times the clock takes
  MaxChanges,   \* bound: how often the scheme is switched
  MaxFaults,    \* bound: failed requests and deaths of the daemon together
  Horizon,      \* bound: the periods of the archive that liveness follows
  Nil,          \* a value that was never read, a register of unknown content
  Address       \* the meter's address: what a misread exception frame yields

ASSUME SchemesAssumption == Nil \notin Schemes /\ Address \notin Schemes
ASSUME ChunksAssumption == NumChunks \in [Schemes -> Nat]
ASSUME FitsAssumption == Fits \subseteq Schemes
ASSUME FirmwareAssumption == DatesOnly \in BOOLEAN /\ Diagnostics \in BOOLEAN
ASSUME RangeAssumption == RangeReplies \subseteq RangeReply
ASSUME BatchAssumption == Batch \in Int
ASSUME MomentsAssumption == Moments \subseteq Time
ASSUME BoundsAssumption == MaxChanges \in Nat /\ MaxFaults \in Nat

Limit == IF Batch <= 0 THEN 1 ELSE Batch

VARIABLES
  \* the meter
  scheme,   \* the scheme it measures by
  notice,   \* it owes the master an exception 5 for a switched scheme
  regType,  \* register: value type
  regList,  \* register: read list, a scheme and a chunk number (0 = all)
  regDate,  \* register: date
  \* the world around the session
  now,      \* the clock
  changes,  \* how often the scheme was switched
  faults,   \* how many requests failed and how often the daemon died
  \* PostgreSQL
  rows,     \* the archive table: a row per key
  \* history
  absent,   \* the marks whose request was answered by exception 3
  \* locals of once() and collectArchive()
  pc,
  meta,     \* archiveMeta, shared by pointer
  es,       \* the scheme whose list is being used
  start,    \* the cursor
  count,    \* records saved by this call
  \* locals of readArchiveRecord()
  attempt,
  list,     \* its own es
  chunk,    \* the chunk being read
  result,   \* the values merged so far
  recMeta   \* the metadata it will return

meter == <<scheme, notice, regType, regList, regDate>>
world == <<now, changes>>
record == <<attempt, list, chunk, result, recMeta>>
job == <<es, start, count>>
vars == <<meter, world, faults, rows, absent, pc, meta, job, record>>
-----------------------------------------------------------------------------
Metadata == [tv1 : Schemes \cup {Nil, Address},
             tv2 : Schemes \cup {Nil, Address},
             db : Schemes \cup {Nil, Address}]

NoMeta == [tv1 |-> Nil, tv2 |-> Nil, db |-> Nil]

\* What one chunk of a ReadData answer carries: who measured the values, and
\* the registers the meter assembled them from.
Piece == [scheme : Schemes, list : (Schemes \X Nat) \cup {Nil},
          type : {Typ, "Current", Nil}, date : Time \cup {Nil}]

Row == [values : SUBSET Piece, meta : Metadata, list : Schemes]

Labels == {"idle", "service", "active0", "current", "db0",
           "type", "active", "list", "last", "range", "loop",
           "chunkList", "chunkDate", "chunkData",
           "rActive", "rCurrent", "rTV1", "rTV2", "rDB", "rType", "rList",
           "save"}

TypeOK ==
  /\ scheme \in Schemes
  /\ notice \in BOOLEAN
  /\ regType \in {Typ, "Current", Nil}
  /\ regList \in (Schemes \X Nat) \cup {Nil}
  /\ regDate \in Time \cup {Nil}
  /\ now \in Time
  /\ changes \in Nat
  /\ faults \in Nat
  /\ rows \in [DOMAIN rows -> Row] /\ DOMAIN rows \subseteq Time
  /\ absent \subseteq Time
  /\ pc \in Labels
  /\ meta \in Metadata
  /\ es \in Schemes \cup {Nil}
  /\ start \in Time
  /\ count \in Nat
  /\ attempt \in {0, 1}
  /\ list \in Schemes \cup {Nil}
  /\ chunk \in Nat
  /\ result \in SUBSET Piece
  /\ recMeta \in Metadata

\* The locals as they are outside a call: no step reads them there.
NoRecord ==
  /\ attempt' = 0 /\ list' = Nil /\ chunk' = 0
  /\ result' = {} /\ recMeta' = NoMeta

NoJob == es' = Nil /\ start' = 0 /\ count' = 0

\* collectArchive() returns and the session comes to its end.
Return == pc' = "idle" /\ meta' = NoMeta /\ NoJob /\ NoRecord

Init ==
  /\ scheme \in Schemes /\ notice = FALSE
  /\ regType = Nil /\ regList = Nil /\ regDate = Nil
  /\ now \in Moments /\ changes = 0 /\ faults = 0
  /\ rows = [k \in {} |-> Nil] /\ absent = {}
  /\ pc = "idle" /\ meta = NoMeta
  /\ es = Nil /\ start = 0 /\ count = 0
  /\ attempt = 0 /\ list = Nil /\ chunk = 0 /\ result = {} /\ recMeta = NoMeta
-----------------------------------------------------------------------------
(* What the meter answers.  It refuses a read-list, date or data request   *)
(* with exception 5 as long as it owes one.  It may refuse a date or data  *)
(* request with exception 3 (no record of that mark) and, unless DatesOnly, *)
(* any other request of readArchiveRecord() that looks for exceptions.     *)
(* While faults are left any request may fail: no answer in time, a        *)
(* damaged one, one that does not parse.                                   *)

Accepts == ~notice
Refuses5 == notice
Refuses3 == ~notice
RefusesSetup3 == ~notice /\ ~DatesOnly
Works == faults' = faults
Fails == faults < MaxFaults /\ faults' = faults + 1

\* The content of a register whose write failed: taken or not, none can tell.
Unsure == Nil

\* The answer to a scheme or database read.  Neither ReadScheme nor
\* ReadActiveDB looks for an exception: from a firmware without the request
\* they get the first byte of the exception frame, the meter's address.
SchemeRead == IF Diagnostics THEN scheme ELSE Address
-----------------------------------------------------------------------------
(* once(): the scheme metadata of the session.                             *)

StartSession ==
  /\ pc = "idle"
  /\ pc' = "service"
  /\ Works
  /\ UNCHANGED <<meter, world, rows, absent, meta, job, record>>

\* ReadService and ParseService; an error only costs the scheme numbers.
ReadService ==
  /\ pc = "service"
  /\ \/ Works /\ meta' = [meta EXCEPT !.tv1 = scheme, !.tv2 = scheme]
     \/ Fails /\ meta' = meta
  /\ pc' = "active0"
  /\ UNCHANGED <<meter, world, rows, absent, job, record>>

\* The active list of the session, whose reading settles an owed exception 5.
ReadSessionActive ==
  /\ pc = "active0"
  /\ \/ /\ Works /\ notice' = FALSE
        /\ pc' = "current" /\ UNCHANGED <<meta, job, record>>
     \/ Fails /\ notice' = notice /\ Return
  /\ UNCHANGED <<scheme, regType, regList, regDate, world, rows, absent>>

SelectCurrent ==
  /\ pc = "current"
  /\ \/ Works /\ regType' = "Current" /\ pc' = "db0"
     \/ Fails /\ regType' = Unsure /\ pc' = "type"
  /\ UNCHANGED <<scheme, notice, regList, regDate, world, rows, absent,
                 meta, job, record>>

ReadSessionDB ==
  /\ pc = "db0"
  /\ \/ Works /\ meta' = [meta EXCEPT !.db = SchemeRead]
     \/ Fails /\ meta' = meta
  /\ pc' = "type"
  /\ UNCHANGED <<meter, world, rows, absent, job, record>>
-----------------------------------------------------------------------------
(* collectArchive()                                                        *)

SelectType ==
  /\ pc = "type"
  /\ \/ /\ Works /\ regType' = Typ
        /\ pc' = "active" /\ UNCHANGED <<meta, job, record>>
     \/ Fails /\ regType' = Unsure /\ Return
  /\ UNCHANGED <<scheme, notice, regList, regDate, world, rows, absent>>

\* The list of the archive; nothing to ask for ends the call.
ReadActive ==
  /\ pc = "active"
  /\ \/ /\ Works /\ notice' = FALSE
        /\ NumChunks[scheme] > 0
        /\ es' = scheme /\ pc' = "list"
        /\ UNCHANGED <<start, count, meta, record>>
     \/ Works /\ notice' = FALSE /\ NumChunks[scheme] = 0 /\ Return
     \/ Fails /\ notice' = notice /\ Return
  /\ UNCHANGED <<scheme, regType, regList, regDate, world, rows, absent>>

\* The whole filtered list is written once although only chunks are used
\* later: one that does not fit a write ends the call before it is sent.
WriteList ==
  /\ pc = "list"
  /\ \/ /\ Works /\ es \in Fits /\ Accepts
        /\ regList' = <<es, 0>> /\ pc' = "last"
        /\ UNCHANGED <<meta, job, record>>
     \/ Works /\ es \notin Fits /\ regList' = regList /\ Return
     \/ Works /\ Refuses5 /\ regList' = regList /\ Return
     \/ Fails /\ regList' = Unsure /\ Return
  /\ UNCHANGED <<scheme, notice, regType, regDate, world, rows, absent>>

\* Last() and the cursor after it.
ReadCursor ==
  /\ pc = "last"
  /\ \/ /\ Works /\ DOMAIN rows = {}
        /\ pc' = "range" /\ UNCHANGED <<meta, job, record>>
     \/ /\ Works /\ DOMAIN rows # {}
        /\ start' = afterStored(TimeOfKey(Max(DOMAIN rows)))
        /\ pc' = "loop"
        /\ UNCHANGED <<es, count, meta, record>>
     \/ Fails /\ Return
  /\ UNCHANGED <<meter, world, rows, absent>>

\* An empty table starts where the meter's archive does.
ReadRange ==
  /\ pc = "range"
  /\ \/ /\ Works
        /\ \E reply \in RangeReplies : start' = parseStart(reply, now)
        /\ pc' = "loop"
        /\ UNCHANGED <<es, count, meta, record>>
     \/ Fails /\ Return
  /\ UNCHANGED <<meter, world, rows, absent>>

\* The head of the loop over records: leave it, or call readArchiveRecord().
NextRecord ==
  /\ pc = "loop"
  /\ \/ /\ Works /\ count < Limit /\ due(start, now)
        /\ attempt' = 0 /\ list' = es /\ chunk' = 1
        /\ result' = {} /\ recMeta' = meta
        /\ pc' = "chunkList"
        /\ UNCHANGED <<meta, job>>
     \/ Works /\ ~(count < Limit /\ due(start, now)) /\ Return
     \/ Fails /\ Return  \* the context was cancelled
  /\ UNCHANGED <<meter, world, rows, absent>>

\* Slip of PassOver: the mark is tried again at once.
PassOverStays ==
  /\ absent' = absent \cup {start}
  /\ pc' = "loop"
  /\ NoRecord
  /\ UNCHANGED <<meta, job>>

\* Exception 3, from whichever request of readArchiveRecord(): the mark is
\* passed over and does not count, and the list and metadata that the call
\* may have refreshed are dropped.  nextArchiveTime always advances, so the
\* branch for a cursor that does not is dead.
PassOver ==
  /\ absent' = absent \cup {start}
  /\ start' = nextArchiveTime(start)
  /\ pc' = "loop"
  /\ NoRecord
  /\ UNCHANGED <<es, count, meta>>
-----------------------------------------------------------------------------
(* readArchiveRecord()                                                     *)

\* Slip of RefreshScheme: the chunks read under the old list are kept.
RefreshKeepingChunks ==
  /\ pc' = "rActive"
  /\ chunk' = 1
  /\ UNCHANGED <<attempt, list, result, recMeta, absent, meta, job>>

\* Exception 5: what was read of the record so far is given up.
RefreshScheme ==
  /\ pc' = "rActive"
  /\ chunk' = 1 /\ result' = {}
  /\ UNCHANGED <<attempt, list, recMeta, absent, meta, job>>

Abandon == Return /\ absent' = absent

WriteChunkList ==
  /\ pc = "chunkList"
  /\ \/ /\ Works /\ Accepts
        /\ regList' = <<list, chunk>> /\ pc' = "chunkDate"
        /\ UNCHANGED <<absent, meta, job, record>>
     \/ Works /\ RefusesSetup3 /\ regList' = regList /\ PassOver
     \/ Works /\ Refuses5 /\ regList' = regList /\ RefreshScheme
     \/ Fails /\ regList' = Unsure /\ Abandon
  /\ UNCHANGED <<scheme, notice, regType, regDate, world, rows>>

WriteChunkDate ==
  /\ pc = "chunkDate"
  /\ \/ /\ Works /\ Accepts
        /\ regDate' = KeyOf(start) /\ pc' = "chunkData"
        /\ UNCHANGED <<absent, meta, job, record>>
     \/ Works /\ Refuses3 /\ regDate' = regDate /\ PassOver
     \/ Works /\ Refuses5 /\ regDate' = regDate /\ RefreshScheme
     \/ Fails /\ regDate' = Unsure /\ Abandon
  /\ UNCHANGED <<scheme, notice, regType, regList, world, rows>>

Answer == [scheme |-> scheme, list |-> regList, type |-> regType, date |-> regDate]

ReadChunkData ==
  /\ pc = "chunkData"
  /\ \/ /\ Works /\ Accepts
        /\ result' = result \cup {Answer}
        /\ \/ chunk < NumChunks[list] /\ chunk' = chunk + 1 /\ pc' = "chunkList"
           \/ chunk >= NumChunks[list] /\ chunk' = chunk /\ pc' = "save"
        /\ UNCHANGED <<attempt, list, recMeta, absent, meta, job>>
     \/ Works /\ Refuses3 /\ PassOver
     \/ Works /\ Refuses5 /\ RefreshScheme
     \/ Fails /\ Abandon
  /\ UNCHANGED <<meter, world, rows>>

RefreshActive ==
  /\ pc = "rActive"
  /\ \/ /\ Works /\ notice' = FALSE
        /\ NumChunks[scheme] > 0
        /\ list' = scheme /\ pc' = "rCurrent"
        /\ UNCHANGED <<attempt, chunk, result, recMeta, absent, meta, job>>
     \/ Works /\ notice' = FALSE /\ NumChunks[scheme] = 0 /\ Abandon
     \/ Works /\ RefusesSetup3 /\ notice' = notice /\ PassOver
     \/ Fails /\ notice' = notice /\ Abandon
  /\ UNCHANGED <<scheme, regType, regList, regDate, world, rows>>

RefreshCurrent ==
  /\ pc = "rCurrent"
  /\ \/ /\ Works /\ regType' = "Current" /\ pc' = "rTV1"
        /\ UNCHANGED <<absent, meta, job, record>>
     \/ Works /\ RefusesSetup3 /\ regType' = regType /\ PassOver
     \/ Fails /\ regType' = Unsure /\ Abandon
  /\ UNCHANGED <<scheme, notice, regList, regDate, world, rows>>

\* One of the three reads the new metadata is made of.
RefreshMeta(here, field, next) ==
  /\ pc = here
  /\ \/ /\ Works
        /\ recMeta' = [recMeta EXCEPT ![field] = SchemeRead] /\ pc' = next
        /\ UNCHANGED <<attempt, list, chunk, result, absent, meta, job>>
     \/ Fails /\ Abandon
  /\ UNCHANGED <<meter, world, rows>>

\* Slip of RefreshTV2: the second scheme stored over the first.
RefreshTV1Twice == RefreshMeta("rTV2", "tv1", "rDB")

RefreshTV1 == RefreshMeta("rTV1", "tv1", "rTV2")
RefreshTV2 == RefreshMeta("rTV2", "tv2", "rDB")
RefreshDB == RefreshMeta("rDB", "db", "rType")

RestoreType ==
  /\ pc = "rType"
  /\ \/ /\ Works /\ regType' = Typ /\ pc' = "rList"
        /\ UNCHANGED <<absent, meta, job, record>>
     \/ Works /\ RefusesSetup3 /\ regType' = regType /\ PassOver
     \/ Fails /\ regType' = Unsure /\ Abandon
  /\ UNCHANGED <<scheme, notice, regList, regDate, world, rows>>

\* Slip of RestoreList: the attempts are not counted out.
RestoreListAgain ==
  /\ pc = "rList"
  /\ \/ /\ Works /\ list \in Fits /\ Accepts
        /\ regList' = <<list, 0>>
        /\ attempt' = attempt + 1 /\ pc' = "chunkList"
        /\ UNCHANGED <<list, chunk, result, recMeta, absent, meta, job>>
     \/ Fails /\ regList' = Unsure /\ Abandon
  /\ UNCHANGED <<scheme, notice, regType, regDate, world, rows>>

\* Then the second attempt begins; after it there is no third.
RestoreList ==
  /\ pc = "rList"
  /\ \/ /\ Works /\ list \in Fits /\ Accepts /\ attempt = 0
        /\ regList' = <<list, 0>>
        /\ attempt' = 1 /\ pc' = "chunkList"
        /\ UNCHANGED <<list, chunk, result, recMeta, absent, meta, job>>
     \/ Works /\ list \in Fits /\ Accepts /\ attempt = 1 /\ regList' = <<list, 0>> /\ Abandon
     \/ Works /\ list \in Fits /\ RefusesSetup3 /\ regList' = regList /\ PassOver
     \/ Works /\ list \in Fits /\ Refuses5 /\ regList' = regList /\ Abandon
     \/ Works /\ list \notin Fits /\ regList' = regList /\ Abandon
     \/ Fails /\ regList' = Unsure /\ Abandon
  /\ UNCHANGED <<scheme, notice, regType, regDate, world, rows>>
-----------------------------------------------------------------------------
(* Back in collectArchive(): a complete record.                            *)

ReadRow == [values |-> result, meta |-> recMeta, list |-> list]

\* The upsert of SaveArchive().
Upsert ==
  rows' = [k \in DOMAIN rows \cup {KeyOf(start)} |->
             IF k = KeyOf(start) THEN ReadRow ELSE rows[k]]

\* Slip of SaveArchive: its error is logged and the loop goes on.
SaveArchiveUnchecked ==
  /\ pc = "save"
  /\ \/ Works /\ Upsert
     \/ Fails /\ rows' = rows
  /\ es' = list /\ meta' = recMeta
  /\ start' = nextArchiveTime(start) /\ count' = count + 1
  /\ pc' = "loop" /\ NoRecord
  /\ UNCHANGED <<meter, world, absent>>

\* The refreshed list and metadata are taken over and the row is saved.  An
\* error of the upsert, even one that comes after the commit, ends the call.
SaveArchive ==
  /\ pc = "save"
  /\ \/ /\ Works /\ Upsert
        /\ es' = list /\ meta' = recMeta
        /\ start' = nextArchiveTime(start) /\ count' = count + 1
        /\ pc' = "loop" /\ NoRecord
     \/ Fails /\ (Upsert \/ rows' = rows) /\ Return
  /\ UNCHANGED <<meter, world, absent>>
-----------------------------------------------------------------------------
(* The world: time passes, the meter switches schemes, the daemon is       *)
(* killed and started again.                                               *)

Tick ==
  /\ \E t \in Moments : t > now /\ now' = t
  /\ UNCHANGED <<meter, changes, faults, rows, absent, pc, meta, job, record>>

SwitchScheme ==
  /\ changes < MaxChanges /\ changes' = changes + 1
  /\ \E s \in Schemes \ {scheme} : scheme' = s
  /\ notice' = TRUE
  /\ UNCHANGED <<regType, regList, regDate, now, faults, rows, absent,
                 pc, meta, job, record>>

Crash ==
  /\ pc # "idle"
  /\ Fails /\ Return
  /\ UNCHANGED <<meter, world, rows, absent>>

Program ==
  \/ StartSession \/ ReadService \/ ReadSessionActive
  \/ SelectCurrent \/ ReadSessionDB
  \/ SelectType \/ ReadActive \/ WriteList \/ ReadCursor \/ ReadRange
  \/ NextRecord
  \/ WriteChunkList \/ WriteChunkDate \/ ReadChunkData
  \/ RefreshActive \/ RefreshCurrent \/ RefreshTV1 \/ RefreshTV2 \/ RefreshDB
  \/ RestoreType \/ RestoreList
  \/ SaveArchive

World == Tick \/ SwitchScheme \/ Crash

Next == Program \/ World

Spec == Init /\ [][Next]_vars

\* The ticker of Run() and the restarts of systemd keep the program going;
\* the clock runs.
FairSpec == Spec /\ WF_vars(Program) /\ WF_vars(Tick)
-----------------------------------------------------------------------------
(* Properties                                                              *)

StoredPeriods == {PeriodOf(k) : k \in DOMAIN rows}

\* Passed over for good reason: the mark asked for was that of the period.
AbsentPeriods ==
  {PeriodOf(k) : k \in {j \in {KeyOf(t) : t \in absent} : j = KeyOfPeriod(PeriodOf(j))}}

Log == INSTANCE ArchiveLog WITH log <- StoredPeriods, skipped <- AbsentPeriods

\* The archive table implements the abstract log: it grows at its end only,
\* and leaves a period out only after the meter answered exception 3 for it,
\* whatever fails, restarts or is refused (collectArchive, lines 255-333).
ImplementsArchiveLog == Log!Spec

\* Two stored periods have no unexplained period between them.
NoSilentGap == Log!NoGap

\* A record is asked for only when its period is over, so no stored row can
\* hold a period that was still running (due, lines 573-588).
OnlyFinishedPeriods ==
  \A k \in DOMAIN rows :
    CASE Typ = "Hourly" -> k + 1 <= now
      [] Typ = "Daily"  -> 24 * (k + 1) <= now
      [] OTHER          -> k < now

\* Without --overlap a stored row is never written again: neither a retried
\* save, nor a commit whose answer was lost, nor a restart reads it anew.
NoRewrite ==
  [][\A k \in DOMAIN rows : k \in DOMAIN rows' /\ rows'[k] = rows[k]]_rows

\* A row is all the chunks of one list, read for its own date and type, and
\* measured under one scheme: a switch between two chunks, a failed restore
\* of the archive type or a retry never mixes records (readArchiveRecord).
\* Chunks are the first n of list l, read for key k under scheme s.
Chunks(s, l, n, k) ==
  {[scheme |-> s, list |-> <<l, c>>, type |-> Typ, date |-> k] : c \in 1..n}

UniformRow ==
  \A k \in DOMAIN rows :
    \E s \in Schemes :
      rows[k].values = Chunks(s, rows[k].list, NumChunks[rows[k].list], k)

\* A record retried after an exception 5 is read with the list, and carries
\* the metadata, of the very scheme that measured it.
RefreshedRecordConsistent ==
  pc = "save" /\ attempt = 1 =>
    /\ \A piece \in result : piece.scheme = list
    /\ recMeta = [tv1 |-> list, tv2 |-> list, db |-> list]

\* Every session ends: the loop over records is not counted while marks are
\* passed over, yet it cannot go round for ever, nor can a refresh.
SessionEnds == (pc # "idle") ~> (pc = "idle")

\* No archive can be read under such a scheme (collectArchive, lines 246-254).
Unreadable == NumChunks[scheme] = 0 \/ scheme \notin Fits

\* A period of the archive that is over is collected or found absent, however
\* the batches, faults and restarts fell, once the faults have ended and
\* unless the meter stands at a scheme that cannot be read.
EventuallyCollected ==
  \A p \in Horizon :
    due(TimeOfKey(KeyOfPeriod(p)), now) ~>
      p \in StoredPeriods \cup AbsentPeriods \/ Unreadable
-----------------------------------------------------------------------------
(* A statement of the README that the code does not keep.                  *)

\* README, line 123: a mark that was absent is not taken for collected, the
\* next cycle can retry it - its cursor must not be beyond the mark.
AbsentDateRetried ==
  pc = "idle" /\ DOMAIN rows # {} =>
    \A t \in absent :
      \/ KeyOf(t) \in DOMAIN rows
      \/ t >= afterStored(TimeOfKey(Max(DOMAIN rows)))
=============================================================================
