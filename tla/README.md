# vkt7d in TLA+

vkt7d is a daemon that reads a VKT-7 heat meter over a serial line (local or
behind an RFC 2217 server) and keeps its archives in PostgreSQL.  This
directory models what the daemon must get right over many requests, sessions,
failures and restarts, checks it with TLC on small instances and proves the
central properties with TLAPS for every instance.

## 1. The system

| part | state | operations | interacts with |
| --- | --- | --- | --- |
| `main`, `Collector.Run`, `once` (`main.go`, `collector.go`) | the context, the ticker; per session: the port, service data, report day, archive metadata shared by pointer, active list | a session: ping, open, begin, service, properties, active list, device row, four archives, current values and totals | protocol client, store |
| `collectArchive`, `readArchiveRecord` (`collector.go`) | cursor, count, read list, attempt, merged values, refreshed metadata | prepare an archive, read a record in chunks, refresh after exception 5, pass over exception 3, save | meter registers, store |
| cursor arithmetic (`monthReportDate`, `due`, `nextArchiveTime`, `parseStart`) | none | pure functions on times | storage keys |
| transaction layer (`protocol.tx`, `readResponse`) | the serial input buffer, the answer so far, the attempt | purge, write, collect an answer, check its length and CRC, one retry | serial port or RFC 2217 port |
| record codecs (`ParseElements`, `ParseProperties`, `makeReadListPayload`, `splitArchiveReadList`, `filter`, `encode`) | none | pure functions | collector, store |
| Telnet decoder (`telnet.go`) | decoder state, subnegotiation so far | `feed` | the port's reader |
| RFC 2217 port (`rfc2217.go`) | pending acknowledgements, data channel, error channel, done, write mutex | reader goroutine, `command`, `Read`, `Write`, `ResetInputBuffer`, `ResetOutputBuffer`, `SetDTR`, `Break`, `Close` | TCP server |
| store (`storage.go`) | the tables | upserts, transactions, `Last`, `ReportDay` | PostgreSQL |
| configuration, migrations, systemd unit | flags and environment | start-up, restart | everything |
| `tools/vkt7_report_db.py` | none | an offline PDF report | the tables |

What is hard here: the meter is a register machine that keeps a value type, a
read list and a date between requests, so every answer depends on writes made
earlier; it may switch its measurement scheme between any two requests and
says so only once (exception 5); a mark without a record is exception 3; a
session may end after any request, for want of an answer, by a signal or a
crash; the only memory across sessions is the tables; the protocol has no
transaction number; the port's two goroutines share channels of limited
length, a map and a mutex that is held over a write without a deadline.

What makes each part correct:

- **session**: a reader of the tables never sees half of a list or of the
  properties; current values and totals do not change places; a report day the
  meter gave is not lost to a default while the row can be read; after SIGTERM nothing is written and the
  daemon ends; otherwise sessions recur, whatever fails;
- **archives**: no record is skipped without the meter having said it has none,
  none is read before its period is over, none is stored from mixed chunks,
  schemes or dates; everything due is collected in the end; a session ends;
- **transactions**: an accepted frame answers the request just sent; a good line
  gives no errors; nothing is executed twice but for damage; a failure ends the
  exchange; `tx` returns;
- **Telnet decoder**: what the server means arrives once and in order, however
  TCP cuts the stream, and nothing leaves the decoder stuck;
- **RFC 2217 port**: after `ResetInputBuffer` nothing older is read, but for what comes
  after its pause; RTS is
  released before the connection goes and a break ends; every call returns and
  the reader goroutine ends;
- **codecs**: a row holds the meter's bytes for every element, its value as far as
  JSON can keep it, and nothing else;
  a record is given up only for a reason the meter gave; sixteen properties are
  stored or none.

## 2. Modules

| module | what it is | code |
| --- | --- | --- |
| `ArchiveCalendar` | cursor arithmetic as operators on integers | `due`, `nextArchiveTime`, `monthReportDate`, `parseStart`, the overlap, storage keys |
| `ArchiveLog` | abstract specification of an archive table | README 123-125 |
| `ArchiveCollector` | extends `ArchiveCalendar`; implements `ArchiveLog` | `once` up to the archives, `collectArchive`, `readArchiveRecord`, `SaveArchive`, `Last` |
| `Session` | the daemon around its archives | `main`, `Run`, `once`, `collectProperties`, `ReadCurrent`, the other tables of `storage.go` |
| `Vkt7Exchange` | abstract specification of one request | the promise of `tx` |
| `Vkt7Transaction` | implements `Vkt7Exchange` | `tx`, `readResponse`, `responseLength`, `validateResponse` |
| `ElementCodec` | lists and values as operators on bytes | `meaningful` to `ParseProperties`, `splitArchiveReadList`, `encode`, `propertyAddress` |
| `RecordRead` | extends `ElementCodec` with a meter: one record from its registers to a row | `readArchiveRecord`, `ReadCurrent`, `collectProperties` without their exceptions |
| `TelnetDecoder` | the decoder, one action per state | `telnet.go` |
| `TelnetStream` | `TelnetDecoder` composed with a server that writes to it | the TCP stream |
| `Rfc2217Port` | the two goroutines, their maps, channels and mutex, the server | `rfc2217.go` |
| `MCArchiveCollector`, `MCRecordRead`, `MCSession` | the instances TLC checks | |
| `ArchiveCalendarProofs`, `ArchiveCollectorProofs`, `SessionProofs`, `TelnetProofs`, `Rfc2217Proofs`, `RecordProofs` | theorems about the module of that name | |
| `Vkt7Proofs`, `Vkt7ExchangeProofs` | theorems about `Vkt7Transaction`: its own properties, and that it implements `Vkt7Exchange` | |

The modules meet at their interfaces: an action of `ArchiveCollector` or
`Session` is one request, which `Vkt7Transaction` refines (`Works` and `Fails`
are its answer and its failure); a byte of `Vkt7Transaction`'s input
is what `Rfc2217Port` or a local port hands over; a message of `Rfc2217Port` is
what `TelnetStream` decodes; a piece of a record in `ArchiveCollector` is what
`RecordRead` decodes byte by byte.

Definitions keep the names of the source where TLA+ allows it; a definition
called *slip* in its comment is no part of a specification: it is a plausible
error in the operator that follows it, kept to show that the properties notice.

### ArchiveCollector

Every request to the meter and every database call is one action; `pc` names the
request that comes next. `meta` is the `archiveMeta` the session shares with its
archives by pointer, `es` the active list of `collectArchive`, `start` and
`count` its loop; `attempt`, `list`, `chunk`, `result` and `recMeta` are locals of
`readArchiveRecord`. The meter is its registers: value type, read list, date, the
scheme it measures by, and `notice`, the exception 5 it owes after a switch.
`Works`, `Refuses5`, `Refuses3` and `Fails` are the outcomes of a request. A row
holds the pieces its values came from - scheme, list, type and date - instead of
numbers, so a mixed row can be told from a good one.

A session reads the service data, the active list and the active database and
then runs one archive; `ReadCursor` is `Last()` with the overlap, `PassOver` the
exception-3 branch with its `i--`, `RefreshActive` to `RestoreList` the seven
requests after an exception 5, `SaveArchive` the upsert and what the loop does
after it. `Crash` is a signal or a dead process: only `rows` survives.

Abstractions: times are hours or packed dates in UTC; a measurement scheme stands
for all that changes with it (list, scheme numbers, database); the four archives
of a session are taken one at a time, each as an instance of the module with its
own `Typ`; SQL is taken to do what the statement says, with the one exception
that a commit may succeed and its answer be lost.

### Session

One action per request to the meter and per SQL statement, in the order of
`once()`. A transaction of the store works on `staged`, a copy of its table that
`COMMIT` puts in place and a failure or a crash throws away: `UpsertActive` is
`DELETE`, one `INSERT` per element and `COMMIT`; `UpsertProperty` the loop of
`SaveProperties`. `CollectArchive` is all of `ArchiveCollector` that the session
sees: the value type it leaves in the meter's register, which decides what
`ReadActiveDB` and `ReadCurrent` would get. `BeginSession`, `ReadActiveDB` and
`ReadService` treat an exception frame the way the code does: it passes for a
session, for a database number (the meter's address), or is too short.
`cancelled` is the context after SIGTERM: every later statement fails, requests
go on. A statement already on its way when the signal comes counts as before it.
`positive` is the configured interval being valid: with one that `Parse` refused
`NewTicker` panics at each start. `device`, `active`, `properties` and `current`
are the tables; `device.report_day`, `server_version` and `active_db` are its
columns, and `current` records of each value which type the register had.

### Vkt7Transaction

`pc` walks through `tx`; `out` is what `readResponse` has collected. A frame is cut to the bytes
the code looks at, each tagged with the execution it belongs to; the tag is what
the protocol lacks and only the properties read. Frame sizes are scaled down: an
exception has two bytes, an acknowledgement of a write three, a read three or four.
The CRC is perfect. `Settles` says whether the line falls silent during the
20 ms pause, which the code relies on. The
line and the meter may lose, damage and delay bytes and requests; every
call of the port may fail. A read returns any part of what has arrived.

### ElementCodec and RecordRead

`ElementCodec` is the arithmetic of lists and values over bytes of base `Radix`
(256 in the code) with the limits of a read answer and of a write as constants
(`ChunkBytes`, `PayloadBytes`), so that small bytes reach every limit: the sign
bit, the width, a float that is not finite, a text with a NUL, a list one byte too
long. The element addresses and the kinds of values (signed numbers, floats,
counters, digits, text) are the code's tables. What the code does in a loop is a
recursive function or a sum: `Keep` the loop of `filter`, `Placed` that of
`splitArchiveReadList`, one `Place` per element, `Ends` the offset of
`ParseProperties`. `Consume` says what the loop of `ParseElements` comes to, with
the offset before each element as a sum: an error if some element does not fit or
is of a size its kind does not have, otherwise the value, bytes, quality and NS of each;
it does not look at what is left over. `CodecAssumption` and `RecordAssumption` say what a
byte and a list entry are, and that a meter numbers its elements once each.

`encode` is what JSON and jsonb make of a value. `Storable` is what they refuse.
`JsonText` is what `json.Marshal` makes of a text: it takes the bytes for UTF-8 and puts
U+FFFD in the place of each that is no part of a character, the lower half of the
bytes being characters by themselves and the longer ones those of `Multibyte`
(`Utf8Assumption`: a character is never found inside or across others, so their order does not
matter). A minus zero becomes zero. The column `raw` has the bytes in hex, from
which nothing is lost. Names of units go another way: `ParseProperties` decodes them from
code page 866, which has a different character for every byte, and so they are
kept as their bytes.

`RecordRead` puts a meter in front of it, whose encoding is written from the
meaning of the bytes and not from the decoder, and takes a record through
`ActiveElements`, `filter`, `splitArchiveReadList`, `makeReadListPayload`,
`ParseElements`, the merge and `encode`. `Arrivals` are the bytes an answer may
consist of: whole, cut where the meter's transmitter buffer ends (`Transmit`, the
reason for chunks), or with `Stale` those of the request before. The properties go
their own way through `ParseProperties` and `SaveProperties`.

### Telnet

`TelnetDecoder` works on real bytes. `TelnetStream` adds a server that writes data,
negotiations, one-byte commands and subnegotiations, well formed or not; `Arrive`
feeds one byte and `Cut` is the end of a TCP read, so a stream is cut everywhere.

### Rfc2217Port

The caller (each call a walk through `command`, `writeRaw` or a `select`) and the
reader goroutine share `acks`, `queue` (the `data` channel), `errCh`, `done` and
`lock` (`writeMu`). A call sends its `Script`, message by message: `Send` registers
the acknowledgement, `Lock` takes the mutex, `Written` writes while the connection
takes it - a full connection (`Window`) blocks the writer with the mutex held - and
`Acknowledged`, `CommandError` or `Timeout` end the wait. The reader decodes,
pushes data, hands over acknowledgements, answers options under the same mutex, and
ends with the connection. The server executes, ignores or delays commands, forwards
what the device sends, and the connection may be lost.

`serial` is what the device has sent and the server has not yet written to the connection.
A server may acknowledge a purge while bytes the device has sent are still on the
line or in its hands (`rfc2217.go` 559-564): `Purge` leaves any first and any last
part of `serial`, which then comes after the acknowledgement. This is what the 20 ms
of `ResetInputBuffer` are for, between the acknowledgement and `Drain`. How much gets to the
queue in that time is open: `EndPause` notes in `overtaken` what did not, which are
bytes the server still has, those in the connection, and those the reader holds
because the queue is full.

Abstractions: whole messages instead of bytes (the decoder has its own module);
`SET_BAUDRATE` stands for the four settings with an acknowledgement of their own;
serial bytes are numbered in the order the device sends them; a command has a
number that only the properties read. The three seconds of a command may pass
before its acknowledgement comes; the history variable `late` remembers it, since
the next command of the same kind may then take that acknowledgement for its own,
and `failed` remembers which of `Break` and `Close` had a command fail.

## 3. Runs

Passing runs:

| run | instance | shows |
| --- | --- | --- |
| `monthly` | report day 30; 30 January, 29 February, 30 March 2000; batch of two; one fault or crash | the table implements `ArchiveLog`; no stored row changes; the clamped month is neither skipped nor read early; everything due is settled; sessions end |
| `daily` | three days, overlap 1 below batch 2, first mark at 0:00, 6:00 or 23:00; three schemes, one without archive elements, one with a list too long to write; no scheme reads | only days that are over; no gap; all due days are settled unless the meter stands at an unreadable scheme; sessions end |
| `scheme` | hourly; two schemes of two and one chunks, two switches, one fault, full and short range replies | rows are uniform; a retried record carries its scheme's metadata; sessions end |
| `session` | any number of sessions, two active lists, two properties, two report days; one failed request, lost statement or crash; SIGTERM at any step | tables are whole, values attributed, a learned report day is kept unless the meter gives none and the row cannot be read, the device row is real, nothing is written after SIGTERM; the daemon ends when told to and goes on when not |
| `record` | every subset of ten elements of every kind and of wrong sizes, bytes of base 8, chunks and transmitter of 12 bytes; texts that are UTF-8, in part or not at all; properties with names of four lengths, answers three bytes short to two long | rows are faithful in their bytes, and in their values where JSON can keep them, refusals are explained, properties are all or nothing |
| `transaction` | two requests, reads and writes, two faults | answers are one's own; no false alarm; a repeat needs damage; refinement of `Vkt7Exchange`; `tx` returns |
| `telnet` | three items of bytes that look like commands, one malformed subnegotiation | the stream arrives as it was meant; the decoder finds back |
| `port` | a queue of one, a connection that holds one message, runs of two bytes into a room of one, two device bytes, one call of any kind between `Open` and `Close`, one command ignored or option negotiated, any timeout, a purge that leaves any part of the bytes on their way, a connection lost anywhere | no stale data but what the pause is too short for; RTS released before the connection goes; a break ends; the three of them unless an acknowledgement came late; every call and the reader goroutine end |

Runs that find a disagreement between the code and what its documentation says:

| run | what happens |
| --- | --- |
| `retry_absent` | a mark answered by exception 3 is never retried once a later one is stored (README 123) |
| `overlap_month` | with `--overlap` the cursor 30 March less one month is 1 March, for which the meter has no record: 29 February and 30 April 2000 are stored, March never |
| `overlap_batch` | an overlap no smaller than the batch keeps the archive where it is |
| `stale_tail` | a stale answer longer than the list is decoded as the chunk that was asked for, which the comment in `collector.go` 460-462 excludes |

Behaviour the models have and no property of a run forbids, worth knowing when
one reads them:

- a damaged answer makes `tx` send a write a second time as well as a read (README 83-84
  speaks of reads); `RepeatNeedsDamage` says that nothing else does;
- the contents of a malformed subnegotiation become serial data (`TelnetStream` with
  `MaxBreaks = 1`), although `telnet.go` 105-106 means to end it there;
- exception 3 after exception 5 drops the refreshed list (`PassOver` with `attempt = 1`), and
  the next record is asked for with the former one;
- the archive's own active-list read settles a scheme switch (`ReadActive`), and the session's
  metadata stay those of the former scheme;
- an exception frame in answer to a scheme read is taken for its number (`SchemeRead` with
  `Diagnostics = FALSE`, `ReadActiveDB` of `Session`), and one in answer to
  `BeginSession` for a session;
- an interval that `Parse` refuses is used all the same, since `Load` drops the error: the
  daemon panics at each start and systemd starts it again (`Connect` with `positive = FALSE`);
- with `Settles = FALSE` a late answer is taken for the answer to the next request;
- an acknowledgement that comes after its command has timed out is taken for that of the
  next command of the same kind (`late`). The next `ResetInputBuffer` then returns before its own
  purge; `Close` takes the acknowledgement of an `RTS_ON` that `Open` gave up for that of
  `RTS_OFF` and disconnects with RTS asserted, without an error; `Break` succeeds before the
  server has ended the break. `NothingStale`, `ReleasedBeforeDisconnect` and `BreakReleased` exempt
  such a session;
- bytes that a purge has left and that come after the pause, or find the queue full,
  meet the next `Read` (`overtaken`); in `tx` only the second `ResetInputBuffer` can still take
  them away, which is the assumption `Settles` of the layer above;
- a report day learned by an earlier session is overwritten with 30 when the meter gives none
  and the row cannot be read (`unasked`, the second half of `LearnedDayKept`);
- letters beyond ASCII in elements 77 and 78 get into `values` as U+FFFD, and only
  `raw` has them (the exemption `Lossless` in `RecordFaithful`);
- `PutBack` moves the rest of a long run behind later data, and waits without a
  limit when the queue is full (the exception in `CallEnds`);
- a full queue keeps the reader from the acknowledgement of the purge that
  would empty it; the purge then times out;
- a server that takes nothing more from the connection stops the writer, and through the
  mutex the other goroutine, for ever: `CallEnds` assumes a server that reads.

**Bounds.** The clock takes the values of `Moments`: enough for a batch to end
in the middle of the archive, for a period to end during a session and for a
clamped month between two unclamped ones. `MaxChanges = 2` lets the scheme
switch during the refresh that a switch caused, `MaxFaults = 1` puts one failed
request, lost commit or crash at any place; the theorems cover the rest. The
sessions of `session` are not counted, so what a fault leaves behind meets later
ones. Two transactions are enough for a foreign answer, two faults for a retry that
fails too. Three items let a cut fall in, before and after a command. A
queue and a window of one are full soon; the code's 64 only takes longer. The
elements of `record` have one of each kind on either side of each limit, and all their
subsets put every pair of kinds beside each other in a chunk. Runs with
`CHECK_DEADLOCK FALSE` model programs that end: a closed port, a stopped daemon, a
stored record, a bounded number of requests.

**Fairness.** The collector assumes weak fairness of the program as a whole (the
ticker of `Run`, and systemd after a crash) and of the clock; nothing is assumed
of the meter beyond the bound on faults. The session assumes the same of the
program, the ticker and `Restart=always`, and strong fairness of the branch of
`Run`'s `select` that ends it: Go chooses among ready branches at random, so the
ticker is not preferred for ever. The transaction assumes that the
program goes on, that its deadline comes and that the meter and the line work
on what they have. The port assumes fairness of its two goroutines, whose
timers fire, and a server that takes what is written to it; of its answers and of
the connection nothing is assumed.

## 4. Proofs

All are checked by TLAPS for every value of the constants.

- `ArchiveCalendarProofs`: `ReportDateClamped`, `NextPeriod`, `NextAdvances` -
  a report date lies in its month, the next mark belongs to the next period and
  is later (so the code's branch for a cursor that stands still is dead).
- `ArchiveCollectorProofs`: `TypeCorrect`; then `GapFree` and `CollectorImplementsLog`
  wherever a session reaches back no further than the newest stored period
  (`ReachesBackToNewest`): without `--overlap`, or with an overlap of one, for monthly
  archives up to report day 28. The
  invariant `CursorInv` says that the cursor is the key of its period, that no
  stored period is after it, and that everything between a stored period
  and the cursor is stored or absent; `NoSilentGap` alone is not inductive,
  since it forgets where the next row will go. `StepKinds` reduces the 25
  actions to four: nothing, cursor set, mark passed, row saved. Without
  `--overlap` the cursor is beyond all rows, hence `RowsAreFinal`. The bound is not
  for convenience: a month back from the 29th to 31st runs over and a period is lost
  (`overlap_month`), and from a table shorter than the overlap the cursor comes to stand
  before the first row, so that the rows grow at the wrong end until the session
  has caught up, and a session that dies in between leaves a gap to later ones.
  `RowsAreUniform`, for meters whose exception 3 answers requests for a date only
  (`DatesOnly`), rests on `UniformInv`: what the registers hold at every label, and that the
  pieces read so far are the first chunks of the list under one scheme.
  `RetriesAreConsistent`, for firmware that has the scheme reads (`Diagnostics`), rests on
  `RefreshInv`: what a refresh has read is of the scheme that rules, as long as
  the meter owes no exception 5, and the second attempt begins only if it owes none.
  `RowsAreFinished` holds with any overlap: `due` was checked when the record
  was begun, and the clock does not go back.
- `SessionProofs`: `TypesKept`, `TablesWhole`, `ValuesAttributed`, `LearnedDayStays`,
  `RowsReal`, `CancelQuiets`. Each safety property has its own strengthening:
  `StagedInv` says how much of its table an open transaction holds at each label,
  `AttributedInv` what the type register and the value read are between the three
  requests of `ReadCurrent`, `DayInv` where the report day of the session comes
  from (the meter, the row, or the default when the row could not be read), `RowInv` what the device row was made of.
- `Vkt7Proofs`: `TransactionTypes`, and, if the line settles (`Settles`),
  `AnswersAreOwn`, `GoodLinesAnswer` and `RepeatsExplained`. The invariant `OwnInv` says that between the pause and
  the end of a transaction everything on the line, in the buffer and in `out`
  is damaged or belongs to an execution of the current request, and that all
  pending requests are the current one. `CalmInv` adds what a line without faults
  carries: one frame, of which `out`, the buffer and the line hold the beginning,
  the middle and the end (`Underway`), so that `readResponse` finds its end by its
  own first bytes (`AnswerRead`), and each request is executed once.
- `Vkt7ExchangeProofs`: `ExchangeImplemented` - on a line that settles, every step of
  `tx` is a step of `Vkt7Exchange` or none. The mapping counts with `Runs` how often the
  meter has executed each request. `ExchangeInv` says that executions and copies still on
  their way are together no more than what was written, at most two (`OwedInv`); where
  the first byte of an answer can be, and that there is none before the execution, nor
  before the second one when a first answer was thrown away (`HeadInv`); and that of a
  request that was answered no copy is on its way (`OverInv`). Without `HeadInv` an
  answer could be accepted while a copy of its request may still be executed.
- `TelnetProofs`: `TelnetTypes`, `DecoderResynchronises` and
  `DecoderTransparent`. The invariant relates the decoder's state to the
  server's: running the decoder's transition function over the rest of the
  piece on the wire leads to the state that fits the server, and what was
  decoded, what is pending and what that rest will yield is what was sent.
- `Rfc2217Proofs`: `TypesKept`, `ResetsHold`, `CloseReleases`, `BreaksEnd`. The invariant
  `PortInv` rests on `OneCommand`: unless a command has timed out before its
  acknowledgement came, there is at most one command under way - to the server, or
  back as its acknowledgement, or acknowledged in the map - and it is the last one sent. Then an acknowledgement that the caller gets
  is that of its own purge, and everything the device had sent before lies in front of
  it in the connection, in `held` or in the queue, or was left by the purge (`unpurged`).
  When the pause is over, what of this has not got to the queue is `overtaken`, and `Drain` takes
  the rest. For `Close` and `Break` the number of the
  last executed command tells what the server has made of RTS and the break.
- `RecordProofs`: `RecordsFaithful`, `RefusalsExplained`, `PropertiesAreFaithful`, for every
  byte width, list of elements, chunk length and transmitter. The operators are
  recursive functions, and the library's induction theorems cannot be used, so the
  module proves what it needs: sets of numbers have least elements, because inclusion
  is well founded on finite sets (`Least`, `Induction`), and a recursive definition on
  `0..n` has a function that satisfies it (`Recursion`). On these rest the lemmas on
  sums, on numbers in base `Radix` (`PutUintFits`, `SignedRoundTrip`: two's complement of
  any width comes back), on `Keep`, on chunks (`SplitDef`: together they hold every element of
  the list and no other, and each is short enough or is one long element alone), on values
  (`ValueRoundTrip`: the decoder undoes the meter's encoding for every kind), and on
  answers: where each piece of a flattened answer lies, and that `ParseElements`
  takes exactly these. `RecordInv` then says of a record on its way that every list
  still to be written can be, and belongs to the record; that what was read is the
  answer to the list, or its beginning; that the result holds readings of wanted elements
  only; and that each wanted element is in the result or in a list to come.
  `PropertyInv` says little more than what the meter's names and digits are, since the
  properties take one step to read and one to store; the work is in the lemmas that an answer
  with its last bytes missing, or with bytes added, cannot be cut into sixteen
  properties that end where it ends (`EndsDef`, `PartRefused`, `PropertiesParsed`).
  What JSON does to a value comes last: `ValueAsJson` says that it loses nothing of a value
  that is `Lossless`. Two assumptions are needed. `Stale = FALSE`: the answer is the one to the request,
  which is what `Vkt7Transaction` shows of the layer below under `Settles`; the run
  `stale_tail` shows what becomes of the decoder's own check without it. And `ChunkBytes <= Transmit` for
  `RefusalsExplained`: the 60 bytes of a chunk fit the transmitter, which is what
  the comment on `archiveReadChunkBytes` chose them for.

With TLC only: all liveness (temporal reasoning about fairness is out of reach
of the prover), and what becomes of an overlap beyond `ReachesBackToNewest`.

Assumptions of the models that the code does not guarantee are the constants
`Settles`, `DatesOnly`, `Diagnostics`, `Stale` and the reach of `Overlap`. The overlap runs show
what lies beyond it, `stale_tail` the other `Stale`; section 3 says what happens without the first. The meter's
description has exception 3 for a date without a record only; `monthly` and
`daily` let it answer any archive request all the same. Uniform rows are claimed
for `DatesOnly` alone: with exception 3 on the requests that restore the archive
type, the loop would go on with current values selected. Without `Diagnostics` the
metadata of every row hold the meter's address.

## 5. Not modelled

- The collection log of the store: it is written and never read. The name and port
  columns of a device.
- The modem bits and the read timeout of the port: one number each, on which
  nothing else depends. Several goroutines calling the port at once: the daemon
  has one, so that "already pending" and "closed" are not reached.
- Requests of the client that the daemon never sends (subscriber number, device
  time).
- Time zones: the models take the zone to be UTC. With another one, date tables and
  hourly tables give cursors of different locations.
- Flag and environment parsing, migrations, indexes and defaults of the schema, the
  build and the installer: no behaviour over time.
- The PDF report: an offline script without state, whose arithmetic is on
  floating-point numbers.

## 6. Plan

The models cover what the daemon does over time. What could be added: the zone
of a cursor as a pair of locations, two goroutines on one port (the package allows
it, the daemon does not use it), and archives of a device whose number changes.
