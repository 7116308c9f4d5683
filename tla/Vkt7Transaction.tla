--------------------------- MODULE Vkt7Transaction ---------------------------
(***************************************************************************)
(* Client.tx and readResponse: one VKT-7 request at a time over a serial   *)
(* line whose frames carry no transaction number.                          *)
(*                                                                         *)
(* A frame is cut to the bytes the code looks at.  A byte is the frame it  *)
(* belongs to, its place in it and a value; the first byte stands for      *)
(* address and function, the second for the byte count of a read, the      *)
(* others for data and CRC.  A damaged byte belongs to no frame.  The CRC  *)
(* is taken to be perfect: it accepts a whole undamaged frame, in order,   *)
(* and nothing else.  Sizes are scaled down with the frame.                *)
(*                                                                         *)
(* The meter executes the requests that reach it one after the other and   *)
(* answers each; its bytes travel on the line and collect in the receive   *)
(* buffer, which is all that ResetInputBuffer can clear.                   *)
(***************************************************************************)
EXTENDS Naturals, Sequences, SequencesExt, FiniteSets

CONSTANTS
  Kinds,      \* functions the session uses: "read", "write"
  Settles,    \* is the 20 ms pause long enough for the line to fall silent?
  MaxTx,      \* bound: transactions
  MaxFaults   \* bound: bytes or requests lost or damaged, failing port calls

ASSUME KindsAssumption == Kinds \subseteq {"read", "write"}
ASSUME SettlesAssumption == Settles \in BOOLEAN
ASSUME BoundsAssumption == MaxTx \in Nat /\ MaxFaults \in Nat

MaxAttempts == 2
ExceptionSize == 2
WriteSize == 3
MaxFrame == 6

Values == 0..3
Exception(v) == v = 3      \* the high bit of the function byte
Counts == 1..2             \* byte counts of the meter's read answers
LengthOf(count) == count + 2

VARIABLES
  pc,         \* where tx() is
  attempt,    \* its loop variable
  out,        \* what readResponse has collected
  input,      \* receive buffer of the port
  line,       \* bytes on their way to it
  pending,    \* requests on their way to the meter
  kinds,      \* history: the function of each request
  executed,   \* history: the request of each execution
  frames,     \* history: the frame that answered each execution
  results,    \* history: per finished transaction the execution whose frame it
              \* returned, or 0
  faults,     \* how many faults there were
  disturbed   \* history: was there any fault or deadline?

client == <<pc, attempt, out, kinds, results>>
meter == <<pending, executed, frames>>
vars == <<client, meter, input, line, faults, disturbed>>

Labels == {"idle", "purge", "settle", "write", "read", "purge after CRC"}

\* Frames and places count from 1; a damaged byte has place 0 in frame 0.
FrameByte == [frame : Nat, place : Nat, value : Values]

TypeOK ==
  /\ pc \in Labels /\ attempt \in 1..MaxAttempts
  /\ out \in Seq(FrameByte) /\ input \in Seq(FrameByte) /\ line \in Seq(FrameByte)
  /\ pending \in Seq(Nat) /\ kinds \in Seq(Kinds)
  /\ executed \in Seq(Nat) /\ frames \in Seq(Seq(FrameByte))
  /\ Len(frames) = Len(executed)
  /\ results \in Seq(Nat)
  /\ faults \in 0..MaxFaults /\ disturbed \in BOOLEAN

Init ==
  /\ pc = "idle" /\ attempt = 1 /\ out = <<>>
  /\ input = <<>> /\ line = <<>> /\ pending = <<>>
  /\ kinds = <<>> /\ executed = <<>> /\ frames = <<>> /\ results = <<>>
  /\ faults = 0 /\ disturbed = FALSE

Request == Len(kinds)   \* the number of the request under way

\* One more fault.
Fault == faults < MaxFaults /\ faults' = faults + 1 /\ disturbed' = TRUE
Fine == UNCHANGED <<faults, disturbed>>
-----------------------------------------------------------------------------
(* What the bytes received so far say.                                     *)

\* The announced length of the answer, 0 as long as it is not known.
responseLength(function, response) ==
  IF Len(response) < 1 THEN 0
  ELSE IF Exception(response[1].value)
       THEN IF Len(response) >= ExceptionSize THEN ExceptionSize ELSE 0
  ELSE IF function = "write" THEN WriteSize
  ELSE IF Len(response) < 2 THEN 0 ELSE LengthOf(response[2].value)

\* validateResponse: the CRC, see above.
Valid(response) == response \in Range(frames)

\* Slip of Verdict: what one read returned is taken for the whole answer.
VerdictEager(function, response) ==
  LET expected == responseLength(function, response)
  IN  IF Len(response) > MaxFrame \/ Len(response) # expected THEN "bad"
      ELSE IF Valid(response) THEN "good" ELSE "crc"

Verdict(function, response) ==
  LET expected == responseLength(function, response)
  IN  IF Len(response) > MaxFrame THEN "bad"
      ELSE IF expected = 0 \/ Len(response) < expected THEN "partial"
      ELSE IF Len(response) > expected THEN "bad"
      ELSE IF Valid(response) THEN "good" ELSE "crc"
-----------------------------------------------------------------------------
(* The client.                                                             *)

Return(result) ==
  /\ pc' = "idle" /\ out' = <<>> /\ results' = Append(results, result)
  /\ UNCHANGED <<attempt, kinds>>

Goto(label) == pc' = label /\ UNCHANGED <<attempt, out, kinds, results>>

\* read() or write() builds a request and calls tx().
Begin ==
  /\ pc = "idle" /\ Len(kinds) < MaxTx
  /\ \E k \in Kinds : kinds' = Append(kinds, k)
  /\ pc' = "purge" /\ attempt' = 1
  /\ UNCHANGED <<out, results, meter, input, line>> /\ Fine

\* ResetInputBuffer before the pause.
Purge ==
  /\ pc = "purge"
  /\ input' = <<>> /\ Goto("settle")
  /\ UNCHANGED <<meter, line>> /\ Fine

Silent == line = <<>> /\ pending = <<>>

\* Slip of PurgeAgain: the buffer is cleared before the pause only.
PurgeOnce ==
  /\ pc = "settle" /\ (Settles => Silent)
  /\ Goto("write")
  /\ UNCHANGED <<input, meter, line>> /\ Fine

\* The pause of 20 ms has passed; ResetInputBuffer again.
PurgeAgain ==
  /\ pc = "settle" /\ (Settles => Silent)
  /\ input' = <<>> /\ Goto("write")
  /\ UNCHANGED <<meter, line>> /\ Fine

\* A damaged request is no request to the meter.
WriteRequest ==
  /\ pc = "write"
  /\ \/ pending' = Append(pending, Request) /\ Fine
     \/ pending' = pending /\ Fault
  /\ Goto("read")
  /\ UNCHANGED <<executed, frames, input, line>>

\* One iteration of readResponse: some of the buffered bytes.  A read of none,
\* at its own timeout or with io.EOF, only goes round the loop.
ReadSome ==
  /\ pc = "read"
  /\ \E n \in 1..Len(input) :
       LET response == out \o SubSeq(input, 1, n)
           verdict == Verdict(kinds[Request], response)
       IN  /\ input' = SubSeq(input, n + 1, Len(input))
           /\ \/ verdict = "partial" /\ out' = response
                 /\ UNCHANGED <<pc, attempt, kinds, results>>
              \/ verdict = "good" /\ Return(CHOOSE e \in DOMAIN frames : frames[e] = response)
              \/ verdict = "crc" /\ attempt < MaxAttempts /\ Goto("purge after CRC")
              \/ verdict = "crc" /\ attempt = MaxAttempts /\ Return(0)
              \/ verdict = "bad" /\ Return(0)
  /\ UNCHANGED <<meter, line>> /\ Fine

\* Slip of Deadline: an answer that has begun is waited for.
DeadlineWhenSilent ==
  /\ pc = "read" /\ out = <<>>
  /\ Return(0) /\ disturbed' = TRUE
  /\ UNCHANGED <<meter, input, line, faults>>

\* Slip of Deadline: a silent meter is asked again.
DeadlineRetries ==
  /\ pc = "read" /\ disturbed' = TRUE
  /\ \/ attempt < MaxAttempts /\ Goto("purge after CRC")
     \/ attempt = MaxAttempts /\ Return(0)
  /\ UNCHANGED <<meter, input, line, faults>>

\* The loop finds the deadline passed.
Deadline ==
  /\ pc = "read"
  /\ Return(0) /\ disturbed' = TRUE
  /\ UNCHANGED <<meter, input, line, faults>>

\* The buffer is cleared, the pause passes, the same request is sent again.
\* What arrives in this pause stays in the buffer.
Retry ==
  /\ pc = "purge after CRC"
  /\ input' = <<>> /\ attempt' = attempt + 1 /\ pc' = "write" /\ out' = <<>>
  /\ UNCHANGED <<kinds, results, meter, line>> /\ Fine

\* A call of the port fails; a write may have got through all the same.
PortError ==
  /\ pc # "idle"
  /\ Return(0) /\ Fault
  /\ \/ pending' = pending
     \/ pc = "write" /\ pending' = Append(pending, Request)
  /\ UNCHANGED <<executed, frames, input, line>>

Client == Purge \/ PurgeAgain \/ WriteRequest \/ ReadSome \/ Deadline \/ Retry
-----------------------------------------------------------------------------
(* The meter and the line.                                                 *)

\* The frames with which the meter may answer its n-th execution.
Answers(n, function) ==
  LET Frame(first, second, length) ==
        [i \in 1..length |->
          [frame |-> n, place |-> i,
           value |-> IF i = 1 THEN first ELSE IF i = 2 THEN second ELSE 0]]
  IN  {Frame(3, 0, ExceptionSize)} \cup
      IF function = "read" THEN {Frame(0, c, LengthOf(c)) : c \in Counts}
      ELSE {Frame(0, 0, WriteSize)}

Execute ==
  /\ pending # <<>>
  /\ pending' = Tail(pending) /\ executed' = Append(executed, Head(pending))
  /\ \E f \in Answers(Len(executed) + 1, kinds[Head(pending)]) :
       frames' = Append(frames, f) /\ line' = line \o f
  /\ UNCHANGED <<client, input>> /\ Fine

Arrive ==
  /\ line # <<>>
  /\ line' = Tail(line) /\ input' = Append(input, Head(line))
  /\ UNCHANGED <<client, meter>> /\ Fine

LoseByte ==
  /\ line # <<>> /\ Fault
  /\ line' = Tail(line) /\ input' = input
  /\ UNCHANGED <<client, meter>>

DamageByte ==
  /\ line # <<>> /\ Fault
  /\ \E v \in Values \ {Head(line).value} :
       input' = Append(input, [frame |-> 0, place |-> 0, value |-> v])
  /\ line' = Tail(line)
  /\ UNCHANGED <<client, meter>>

Meter == Execute \/ Arrive

Next == Begin \/ Client \/ PortError \/ Meter \/ LoseByte \/ DamageByte

Spec == Init /\ [][Next]_vars

\* The program goes on, its clock reaches the deadline, and the meter reacts.
FairSpec == Spec /\ WF_vars(Client) /\ WF_vars(Deadline) /\ WF_vars(Meter)
-----------------------------------------------------------------------------
\* An accepted frame is the answer to the transaction's own request, although
\* frames carry no number and neither address nor function is compared.
\* protocol.go, lines 110-112: left-over bytes "cannot safely be associated
\* with a new request".
OwnAnswer ==
  \A i \in DOMAIN results : results[i] # 0 => executed[results[i]] = i

\* On a line that does its work every transaction returns the answer, in
\* whatever pieces the port delivers it (readResponse, responseLength).
NoFalseAlarm == ~disturbed => \A i \in DOMAIN results : results[i] # 0

\* A request is executed a second time only if something was lost or damaged:
\* a meter that is merely late or silent is not asked twice.  Writes are
\* repeated like reads (tx looks at the error alone, not at the function).
RepeatNeedsDamage ==
  \A e, f \in DOMAIN executed : executed[e] = executed[f] => e = f \/ faults > 0

Runs(r) == Cardinality({e \in DOMAIN executed : executed[e] = r})

Exchange == INSTANCE Vkt7Exchange WITH
  MaxRuns <- MaxAttempts,
  busy <- pc # "idle",
  runs <- [r \in 1..Len(kinds) |-> Runs(r)],
  verdict <- [i \in 1..Len(results) |-> results[i] # 0]

\* To the layers above, tx() is the simple exchange: an answer means executed
\* and over, a failure means nothing.
ImplementsExchange == Exchange!Spec

\* Every call of tx() returns.
TransactionEnds == pc # "idle" ~> pc = "idle"
=============================================================================
