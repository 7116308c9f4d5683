----------------------------- MODULE Vkt7Proofs -----------------------------
(***************************************************************************)
(* If the line is silent when the settling pause ends, a frame that tx()   *)
(* accepts is the answer to its own request, a line without faults gives   *)
(* no errors, and nothing is executed twice but for a fault: for any       *)
(* number of requests, losses, damage, port errors and deadlines.          *)
(***************************************************************************)
EXTENDS Vkt7Transaction, TLAPS

\* What the frames of the meter look like.
LEMMA AnswerShape ==
  ASSUME NEW n \in Nat, NEW k, NEW f \in Answers(n, k)
  PROVE  /\ f \in Seq(FrameByte) /\ f # <<>>
         /\ \A i \in DOMAIN f : f[i].frame = n
<1> DEFINE Frame(first, second, length) ==
             [i \in 1..length |->
               [frame |-> n, place |-> i,
                value |-> IF i = 1 THEN first ELSE IF i = 2 THEN second ELSE 0]]
<1>1. ASSUME NEW first \in Values, NEW second \in Values, NEW length \in 1..4
      PROVE  /\ Frame(first, second, length) \in Seq(FrameByte)
             /\ Frame(first, second, length) # <<>>
             /\ \A i \in DOMAIN Frame(first, second, length) :
                  Frame(first, second, length)[i].frame = n
  <2>1. \A i \in 1..length :
          [frame |-> n, place |-> i,
           value |-> IF i = 1 THEN first ELSE IF i = 2 THEN second ELSE 0] \in FrameByte
    BY DEF FrameByte, Values
  <2> QED
    BY <2>1
<1>2. PICK first \in Values, second \in Values, length \in 1..4 :
        f = Frame(first, second, length)
  BY DEF Answers, Values, Counts, LengthOf, ExceptionSize, WriteSize
<1> HIDE DEF Frame
<1> QED
  BY <1>1, <1>2

\* Appending keeps the type.
LEMMA AppendType ==
  ASSUME NEW P, NEW s \in Seq(P), NEW e \in P
  PROVE  Append(s, e) \in Seq(P)
OBVIOUS

\* The same for joining two sequences.
LEMMA JoinType ==
  ASSUME NEW P, NEW s \in Seq(P), NEW t \in Seq(P)
  PROVE  s \o t \in Seq(P)
OBVIOUS

\* The pieces into which a sequence is cut keep its type.
LEMMA PieceTypes ==
  ASSUME NEW P, NEW s \in Seq(P), NEW n \in 1..Len(s)
  PROVE  /\ SubSeq(s, 1, n) \in Seq(P) /\ SubSeq(s, n + 1, Len(s)) \in Seq(P)
         /\ Tail(s) \in Seq(P) /\ Head(s) \in P
OBVIOUS

\* Nothing is known of a byte that came from nowhere.
LEMMA NoBytes == \A P : <<>> \in Seq(P)
OBVIOUS
-----------------------------------------------------------------------------
(* Types.                                                                  *)

TypeInv ==
  /\ TypeOK
  /\ pc = "purge after CRC" => attempt < MaxAttempts

\* Reading the next bytes and returning keep the types.
LEMMA ReadType ==
  ASSUME TypeInv, ReadSome
  PROVE  TypeInv'
<1>0. /\ out \in Seq(FrameByte) /\ input \in Seq(FrameByte) /\ results \in Seq(Nat)
      /\ frames \in Seq(Seq(FrameByte)) /\ attempt \in 1..MaxAttempts /\ pc = "read"
  BY DEF TypeInv, TypeOK, ReadSome
<1>1. PICK n \in 1..Len(input) :
        LET response == out \o SubSeq(input, 1, n)
            verdict == Verdict(kinds[Request], response)
        IN  /\ input' = SubSeq(input, n + 1, Len(input))
            /\ \/ verdict = "partial" /\ out' = response
                  /\ UNCHANGED <<pc, attempt, kinds, results>>
               \/ verdict = "good" /\ Return(CHOOSE e \in DOMAIN frames : frames[e] = response)
               \/ verdict = "crc" /\ attempt < MaxAttempts /\ Goto("purge after CRC")
               \/ verdict = "crc" /\ attempt = MaxAttempts /\ Return(0)
               \/ verdict = "bad" /\ Return(0)
  BY DEF ReadSome
<1> DEFINE response == out \o SubSeq(input, 1, n)
           verdict == Verdict(kinds[Request], response)
           result == CHOOSE e \in DOMAIN frames : frames[e] = response
<1>2. response \in Seq(FrameByte) /\ SubSeq(input, n + 1, Len(input)) \in Seq(FrameByte)
  <2>1. SubSeq(input, 1, n) \in Seq(FrameByte)
        /\ SubSeq(input, n + 1, Len(input)) \in Seq(FrameByte)
    BY <1>0, PieceTypes
  <2> QED
    BY <1>0, <2>1, JoinType
<1> HIDE DEF response
<1>3. verdict = "good" => result \in Nat
  <2> SUFFICES ASSUME verdict = "good" PROVE result \in Nat
    OBVIOUS
  <2>1. \E e \in DOMAIN frames : frames[e] = response
    BY DEF Verdict, Valid, Range
  <2>2. result \in DOMAIN frames
    BY <2>1
  <2> QED
    BY <1>0, <2>2
<1>4. UNCHANGED <<meter, line, faults, disturbed>>
  BY DEF ReadSome, Fine
<1>5. /\ input' = SubSeq(input, n + 1, Len(input))
      /\ \/ verdict = "partial" /\ out' = response
            /\ UNCHANGED <<pc, attempt, kinds, results>>
         \/ verdict = "good" /\ Return(result)
         \/ verdict = "crc" /\ attempt < MaxAttempts /\ Goto("purge after CRC")
         \/ verdict = "crc" /\ attempt = MaxAttempts /\ Return(0)
         \/ verdict = "bad" /\ Return(0)
  BY <1>1 DEF response
<1> HIDE DEF verdict, result
<1>6. \A r \in Nat : Append(results, r) \in Seq(Nat)
  BY <1>0, AppendType
<1>7. input' \in Seq(FrameByte)
  BY <1>2, <1>5
<1>8. /\ out' \in Seq(FrameByte) /\ results' \in Seq(Nat) /\ pc' \in Labels
      /\ attempt' \in 1..MaxAttempts /\ kinds' = kinds
      /\ pc' = "purge after CRC" => attempt' < MaxAttempts
  BY <1>0, <1>2, <1>3, <1>5, <1>6, NoBytes DEF Return, Goto, Labels
<1> QED
  BY <1>4, <1>7, <1>8 DEF meter, TypeInv, TypeOK

\* Counting a fault, or none.
LEMMA FaultType ==
  ASSUME TypeInv, Fault \/ Fine
  PROVE  faults' \in 0..MaxFaults /\ disturbed' \in BOOLEAN
<1>1. faults \in 0..MaxFaults /\ MaxFaults \in Nat /\ disturbed \in BOOLEAN
  BY BoundsAssumption DEF TypeInv, TypeOK
<1>2. CASE Fault
  BY <1>1, <1>2 DEF Fault
<1>3. CASE Fine
  BY <1>1, <1>3 DEF Fine
<1> QED
  BY <1>2, <1>3

\* Every other step of the client.
LEMMA ClientType ==
  ASSUME TypeInv,
         Begin \/ Purge \/ PurgeAgain \/ WriteRequest \/ Deadline \/ Retry \/ PortError
  PROVE  TypeInv'
<1>0. /\ results \in Seq(Nat) /\ kinds \in Seq(Kinds) /\ pending \in Seq(Nat)
      /\ attempt \in 1..MaxAttempts
  BY DEF TypeInv, TypeOK
<1>a. Retry => attempt < MaxAttempts
  BY DEF TypeInv, Retry
<1>r. Request \in Nat
  <2>1. Len(kinds) \in Nat
    BY <1>0
  <2> QED
    BY <2>1 DEF Request
<1>1. Append(results, 0) \in Seq(Nat) /\ Append(pending, Request) \in Seq(Nat)
  BY <1>0, <1>r, AppendType
<1>2. \A k \in Kinds : Append(kinds, k) \in Seq(Kinds)
  BY <1>0, AppendType
<1>3. CASE Begin
  BY <1>2, <1>3 DEF Begin, TypeInv, TypeOK, Labels, meter, Fine, MaxAttempts
<1>4. CASE Purge \/ PurgeAgain
  BY <1>4, NoBytes DEF Purge, PurgeAgain, Goto, TypeInv, TypeOK, Labels, meter, Fine
<1>5. CASE WriteRequest
  <2>1. faults' \in 0..MaxFaults /\ disturbed' \in BOOLEAN
    BY <1>5, FaultType DEF WriteRequest
  <2> QED
    BY <1>1, <1>5, <2>1 DEF WriteRequest, Goto, TypeInv, TypeOK, Labels
<1>6. CASE Deadline
  BY <1>1, <1>6, NoBytes DEF Deadline, Return, TypeInv, TypeOK, Labels, meter
<1>7. CASE Retry
  <2>1. attempt' \in 1..MaxAttempts
    <3>1. attempt' = attempt + 1 /\ attempt < MaxAttempts /\ attempt \in 1..MaxAttempts
      BY <1>0, <1>a, <1>7 DEF Retry
    <3> QED
      BY ONLY <3>1 DEF MaxAttempts
  <2>2. <<>> \in Seq(FrameByte)
    OBVIOUS
  <2> QED
    BY <1>7, <2>1, <2>2 DEF Retry, TypeInv, TypeOK, Labels, meter, Fine
<1>8. CASE PortError
  <2>1. faults' \in 0..MaxFaults /\ disturbed' \in BOOLEAN
    BY <1>8, FaultType DEF PortError
  <2> QED
    BY <1>1, <1>8, <2>1, NoBytes DEF PortError, Return, TypeInv, TypeOK, Labels
<1> QED
  BY <1>3, <1>4, <1>5, <1>6, <1>7, <1>8

\* The steps of the meter and the line.
LEMMA MeterType ==
  ASSUME TypeInv, Execute \/ Arrive \/ LoseByte \/ DamageByte
  PROVE  TypeInv'
<1>0. /\ line \in Seq(FrameByte) /\ input \in Seq(FrameByte) /\ pending \in Seq(Nat)
      /\ executed \in Seq(Nat) /\ frames \in Seq(Seq(FrameByte)) /\ Len(frames) = Len(executed)
      /\ faults \in 0..MaxFaults
  BY DEF TypeInv, TypeOK
<1>1. CASE Execute
  <2>1. PICK f \in Answers(Len(executed) + 1, kinds[Head(pending)]) :
          frames' = Append(frames, f) /\ line' = line \o f
    BY <1>1 DEF Execute
  <2>2. f \in Seq(FrameByte)
    BY <1>0, <2>1, AnswerShape
  <2>3. frames' \in Seq(Seq(FrameByte)) /\ line' \in Seq(FrameByte)
    BY <1>0, <2>1, <2>2, AppendType, JoinType
  <2>4. pending' \in Seq(Nat) /\ executed' \in Seq(Nat) /\ Len(frames') = Len(executed')
    <3>0. pending # <<>>
      BY <1>1 DEF Execute
    <3>1. Head(pending) \in Nat /\ Tail(pending) \in Seq(Nat)
      BY <1>0, <3>0
    <3> QED
      BY <1>0, <1>1, <2>1, <2>2, <3>1, SMTT(30) DEF Execute
  <2> QED
    BY <1>1, <2>3, <2>4 DEF Execute, TypeInv, TypeOK, client, Fine
<1>2. CASE Arrive \/ LoseByte
  <2>1. line' \in Seq(FrameByte) /\ input' \in Seq(FrameByte)
    <3>1. line # <<>>
      BY <1>2 DEF Arrive, LoseByte
    <3>2. Head(line) \in FrameByte /\ Tail(line) \in Seq(FrameByte)
      BY <1>0, <3>1
    <3> QED
      BY <1>0, <1>2, <3>2, AppendType DEF Arrive, LoseByte
  <2>2. faults' \in 0..MaxFaults /\ disturbed' \in BOOLEAN
    BY <1>2, FaultType DEF Arrive, LoseByte
  <2> QED
    BY <1>2, <2>1, <2>2 DEF Arrive, LoseByte, TypeInv, TypeOK, client, meter
<1>3. CASE DamageByte
  <2>1. PICK v \in Values : input' = Append(input, [frame |-> 0, place |-> 0, value |-> v])
    BY <1>3 DEF DamageByte
  <2>2. [frame |-> 0, place |-> 0, value |-> v] \in FrameByte
    BY DEF FrameByte
  <2>3. line' \in Seq(FrameByte) /\ input' \in Seq(FrameByte)
    BY <1>0, <1>3, <2>1, <2>2, AppendType DEF DamageByte
  <2>4. faults' \in 0..MaxFaults /\ disturbed' \in BOOLEAN
    BY <1>3, FaultType DEF DamageByte
  <2> QED
    BY <1>3, <2>3, <2>4 DEF DamageByte, TypeInv, TypeOK, client, meter
<1> QED
  BY <1>1, <1>2, <1>3

\* The program starts with the right types ...
LEMMA InitType == Init => TypeInv
<1>1. <<>> \in Seq(FrameByte) /\ <<>> \in Seq(Nat) /\ <<>> \in Seq(Kinds)
      /\ <<>> \in Seq(Seq(FrameByte))
  OBVIOUS
<1>2. 1 \in 1..MaxAttempts /\ 0 \in 0..MaxFaults /\ Len(<<>>) = 0
  BY BoundsAssumption DEF MaxAttempts
<1> QED
  BY <1>1, <1>2 DEF Init, TypeInv, TypeOK, Labels

\* ... and keeps them.
LEMMA StepType == TypeInv /\ [Next]_vars => TypeInv'
<1> SUFFICES ASSUME TypeInv, [Next]_vars PROVE TypeInv'
  OBVIOUS
<1>1. CASE UNCHANGED vars
  BY <1>1 DEF vars, client, meter, TypeInv, TypeOK
<1> QED
  BY <1>1, ReadType, ClientType, MeterType DEF Next, Client, Meter

\* Every variable keeps its type.
THEOREM TransactionTypes == Spec => []TypeOK
<1>1. TypeInv => TypeOK
  BY DEF TypeInv
<1> QED
  BY <1>1, InitType, StepType, PTL DEF Spec
-----------------------------------------------------------------------------
(* Answers.                                                                *)

\* Bytes that are damaged or belong to an execution of the current request.
OwnByte == {b \in FrameByte : b.frame \in DOMAIN executed => executed[b.frame] = Request}

\* From the silence of the settling pause on, only such bytes are about.
Sending == {"write", "read", "purge after CRC"}

Clean ==
  /\ line \in Seq(OwnByte) /\ input \in Seq(OwnByte) /\ out \in Seq(OwnByte)
  /\ pending \in Seq({Request})

\* One result per finished transaction.
Counted == Len(results) = IF pc = "idle" THEN Request ELSE Request - 1

\* A result is an execution of its own request.
ResultsOwn ==
  \A i \in DOMAIN results :
    results[i] # 0 => results[i] \in DOMAIN executed /\ executed[results[i]] = i

\* The first byte of a frame tells which frame it is.
Marked == \A e \in DOMAIN frames : frames[e] # <<>> /\ frames[e][1].frame = e

OwnInv ==
  /\ Counted
  /\ ResultsOwn
  /\ Marked
  /\ pc \notin {"read", "purge after CRC"} => out = <<>>
  /\ pc \in Sending => Clean

\* Sequences over a larger set.
LEMMA SeqMonotone ==
  ASSUME NEW P, NEW Q, P \subseteq Q, NEW s \in Seq(P)
  PROVE  s \in Seq(Q)
OBVIOUS

\* Steps that leave results, executions and frames alone.
LEMMA QuietStep ==
  ASSUME TypeInv, OwnInv, UNCHANGED <<kinds, results, executed, frames>>,
         (pc = "idle") = (pc' = "idle")
  PROVE  Counted' /\ ResultsOwn' /\ Marked' /\ OwnByte' = OwnByte /\ Request' = Request
BY DEF OwnInv, Counted, ResultsOwn, Marked, OwnByte, Request

\* A result that is 0 or an execution of the current request.
LEMMA ReturnStep ==
  ASSUME TypeInv, OwnInv, pc # "idle", NEW r \in Nat, Return(r), UNCHANGED <<executed, frames>>,
         r # 0 => r \in DOMAIN executed /\ executed[r] = Request
  PROVE  OwnInv'
<1>1. results \in Seq(Nat) /\ kinds \in Seq(Kinds)
  BY DEF TypeInv, TypeOK
<1>2. Len(results) = Request - 1 /\ Request \in Nat
  <2>1. Request \in Nat
    BY <1>1 DEF Request
  <2> QED
    BY <2>1 DEF OwnInv, Counted
<1>3. pc' = "idle" /\ out' = <<>> /\ results' = Append(results, r) /\ Request' = Request
  BY DEF Return, Request
<1>4. Counted'
  BY <1>1, <1>2, <1>3 DEF Counted
<1>5. ResultsOwn'
  <2> SUFFICES ASSUME NEW i \in DOMAIN results', results'[i] # 0
               PROVE  results'[i] \in DOMAIN executed /\ executed[results'[i]] = i
    BY DEF ResultsOwn
  <2>1. CASE i \in DOMAIN results
    <3>1. results'[i] = results[i]
      BY <1>1, <1>3, <2>1
    <3>2. results[i] \in DOMAIN executed /\ executed[results[i]] = i
      BY <2>1, <3>1 DEF OwnInv, ResultsOwn
    <3> QED
      BY <3>1, <3>2
  <2>2. CASE i = Request
    BY <1>1, <1>2, <1>3, <2>2
  <2> QED
    BY <1>1, <1>2, <1>3, <2>1, <2>2
<1>6. Marked'
  BY DEF OwnInv, Marked
<1> QED
  BY <1>3, <1>4, <1>5, <1>6 DEF OwnInv, Sending

\* The bytes a read takes are its own, and so is the frame it accepts.
LEMMA ReadOwn ==
  ASSUME TypeInv, OwnInv, ReadSome
  PROVE  OwnInv'
<1>0. /\ pc = "read" /\ Clean /\ Marked /\ UNCHANGED <<executed, frames, pending, line>>
      /\ Len(frames) = Len(executed) /\ frames \in Seq(Seq(FrameByte)) /\ executed \in Seq(Nat)
  BY DEF ReadSome, meter, OwnInv, Sending, TypeInv, TypeOK
<1>1. PICK n \in 1..Len(input) :
        LET response == out \o SubSeq(input, 1, n)
            verdict == Verdict(kinds[Request], response)
        IN  /\ input' = SubSeq(input, n + 1, Len(input))
            /\ \/ verdict = "partial" /\ out' = response
                  /\ UNCHANGED <<pc, attempt, kinds, results>>
               \/ verdict = "good" /\ Return(CHOOSE e \in DOMAIN frames : frames[e] = response)
               \/ verdict = "crc" /\ attempt < MaxAttempts /\ Goto("purge after CRC")
               \/ verdict = "crc" /\ attempt = MaxAttempts /\ Return(0)
               \/ verdict = "bad" /\ Return(0)
  BY DEF ReadSome
<1> DEFINE response == out \o SubSeq(input, 1, n)
           verdict == Verdict(kinds[Request], response)
           result == CHOOSE e \in DOMAIN frames : frames[e] = response
<1>2. response \in Seq(OwnByte) /\ SubSeq(input, n + 1, Len(input)) \in Seq(OwnByte)
  <2>1. SubSeq(input, 1, n) \in Seq(OwnByte)
        /\ SubSeq(input, n + 1, Len(input)) \in Seq(OwnByte)
    BY <1>0, PieceTypes DEF Clean
  <2> QED
    BY <1>0, <2>1, JoinType DEF Clean
<1> HIDE DEF response
<1>3. verdict = "good" =>
        result \in DOMAIN executed /\ executed[result] = Request /\ result \in Nat
  <2> SUFFICES ASSUME verdict = "good"
               PROVE  result \in DOMAIN executed /\ executed[result] = Request /\ result \in Nat
    OBVIOUS
  <2>1. \E e \in DOMAIN frames : frames[e] = response
    BY DEF Verdict, Valid, Range
  <2>2. result \in DOMAIN frames /\ frames[result] = response
    BY <2>1
  <2>3. response # <<>> /\ response[1].frame = result
    BY <1>0, <2>2 DEF Marked
  <2>4. response[1] \in OwnByte
    BY <1>2, <2>3
  <2>5. DOMAIN executed = DOMAIN frames
    BY <1>0
  <2>6. response[1].frame \in DOMAIN executed => executed[response[1].frame] = Request
    BY <2>4 DEF OwnByte
  <2>7. result \in DOMAIN executed /\ executed[result] = Request
    BY <2>2, <2>3, <2>5, <2>6
  <2>8. DOMAIN frames \subseteq Nat
    BY <1>0
  <2> QED
    BY <2>2, <2>7, <2>8
<1>4. /\ input' = SubSeq(input, n + 1, Len(input))
      /\ \/ verdict = "partial" /\ out' = response
            /\ UNCHANGED <<pc, attempt, kinds, results>>
         \/ verdict = "good" /\ Return(result)
         \/ verdict = "crc" /\ attempt < MaxAttempts /\ Goto("purge after CRC")
         \/ verdict = "crc" /\ attempt = MaxAttempts /\ Return(0)
         \/ verdict = "bad" /\ Return(0)
  BY <1>1 DEF response
<1> HIDE DEF verdict, result
<1>5. CASE Return(0)
  BY <1>0, <1>5, ReturnStep
<1>6. CASE verdict = "good" /\ Return(result)
  BY <1>0, <1>3, <1>6, ReturnStep
<1>7. CASE \/ verdict = "partial" /\ out' = response /\ UNCHANGED <<pc, attempt, kinds, results>>
           \/ Goto("purge after CRC")
  <2>1. /\ UNCHANGED <<kinds, results, executed, frames>>
        /\ pc' \in {"read", "purge after CRC"} /\ out' \in {out, response}
    BY <1>0, <1>7 DEF Goto
  <2>2. Counted' /\ ResultsOwn' /\ Marked' /\ OwnByte' = OwnByte /\ Request' = Request
    BY <1>0, <2>1, QuietStep
  <2>3. Clean'
    BY <1>0, <1>2, <1>4, <2>1, <2>2 DEF Clean
  <2> QED
    BY <2>1, <2>2, <2>3 DEF OwnInv
<1> QED
  BY <1>4, <1>5, <1>6, <1>7

\* The other steps of the client.  The second purge starts from silence.
LEMMA ClientOwn ==
  ASSUME Settles, TypeInv, OwnInv,
         Begin \/ Purge \/ PurgeAgain \/ WriteRequest \/ Deadline \/ Retry \/ PortError
  PROVE  OwnInv'
<1>0. /\ results \in Seq(Nat) /\ kinds \in Seq(Kinds) /\ pending \in Seq(Nat)
      /\ executed \in Seq(Nat) /\ Request \in Nat
  <2>1. results \in Seq(Nat) /\ kinds \in Seq(Kinds) /\ pending \in Seq(Nat)
        /\ executed \in Seq(Nat)
    BY DEF TypeInv, TypeOK
  <2> QED
    BY <2>1 DEF Request
<1>1. CASE Begin
  <2>1. PICK k \in Kinds : kinds' = Append(kinds, k)
    BY <1>1 DEF Begin
  <2>2. Request' = Request + 1 /\ UNCHANGED <<results, executed, frames, out>>
        /\ pc = "idle" /\ pc' = "purge"
    BY <1>0, <1>1, <2>1 DEF Begin, Request, meter
  <2> QED
    BY <1>0, <2>2 DEF OwnInv, Counted, ResultsOwn, Marked, Sending
<1>2. CASE Purge
  <2>1. UNCHANGED <<kinds, results, executed, frames, out>> /\ pc = "purge" /\ pc' = "settle"
    BY <1>2 DEF Purge, Goto, meter
  <2> QED
    BY <2>1, QuietStep DEF OwnInv, Sending
<1>3. CASE PurgeAgain
  <2>1. /\ UNCHANGED <<kinds, results, executed, frames>>
        /\ pc = "settle" /\ pc' = "write" /\ out = <<>> /\ out' = <<>>
        /\ line' = <<>> /\ input' = <<>> /\ pending' = <<>>
    BY <1>3 DEF PurgeAgain, Goto, meter, Silent, OwnInv
  <2>2. Clean'
    BY <2>1 DEF Clean
  <2> QED
    BY <2>1, <2>2, QuietStep DEF OwnInv
<1>4. CASE WriteRequest
  <2>1. /\ UNCHANGED <<kinds, results, executed, frames, line, input, out>>
        /\ pc = "write" /\ pc' = "read" /\ pending' \in {pending, Append(pending, Request)}
    BY <1>4 DEF WriteRequest, Goto
  <2>2. Clean /\ Request' = Request /\ OwnByte' = OwnByte
    BY <2>1, QuietStep DEF OwnInv, Sending
  <2>3. Append(pending, Request) \in Seq({Request})
    BY <2>2, AppendType DEF Clean
  <2>4. Clean'
    BY <2>1, <2>2, <2>3 DEF Clean
  <2> QED
    BY <2>1, <2>4, QuietStep DEF OwnInv
<1>5. CASE Deadline
  BY <1>5, ReturnStep DEF Deadline, meter
<1>6. CASE Retry
  <2>1. /\ UNCHANGED <<kinds, results, executed, frames, line, pending>>
        /\ pc = "purge after CRC" /\ pc' = "write" /\ input' = <<>> /\ out' = <<>>
    BY <1>6 DEF Retry, meter
  <2>2. Clean /\ Request' = Request /\ OwnByte' = OwnByte
    BY <2>1, QuietStep DEF OwnInv, Sending
  <2>3. <<>> \in Seq(OwnByte)
    OBVIOUS
  <2>4. Clean'
    BY <2>1, <2>2, <2>3 DEF Clean
  <2> QED
    BY <2>1, <2>4, QuietStep DEF OwnInv
<1>7. CASE PortError
  BY <1>7, ReturnStep DEF PortError
<1> QED
  BY <1>1, <1>2, <1>3, <1>4, <1>5, <1>6, <1>7

\* The meter executes what is pending; the line moves, loses or damages bytes.
LEMMA MeterOwn ==
  ASSUME TypeInv, OwnInv, Execute \/ Arrive \/ LoseByte \/ DamageByte
  PROVE  OwnInv'
<1>0. /\ line \in Seq(FrameByte) /\ input \in Seq(FrameByte) /\ executed \in Seq(Nat)
      /\ pending \in Seq(Nat) /\ frames \in Seq(Seq(FrameByte))
      /\ Len(frames) = Len(executed) /\ results \in Seq(Nat)
  BY DEF TypeInv, TypeOK
<1>1. UNCHANGED <<pc, kinds, results, out>> /\ Request' = Request
  BY DEF Execute, Arrive, LoseByte, DamageByte, client, Request
<1>2. CASE Execute
  <2>1. PICK f \in Answers(Len(executed) + 1, kinds[Head(pending)]) :
          frames' = Append(frames, f) /\ line' = line \o f
    BY <1>2 DEF Execute
  <2>0. Len(executed) + 1 \in Nat
    BY <1>0
  <2>2. /\ f \in Seq(FrameByte) /\ f # <<>>
        /\ \A i \in DOMAIN f : f[i].frame = Len(executed) + 1
    BY <2>0, <2>1, AnswerShape
  <2>3. /\ pending # <<>> /\ pending' = Tail(pending) /\ input' = input
        /\ executed' = Append(executed, Head(pending))
    BY <1>2 DEF Execute
  <2>4. /\ \A e \in DOMAIN executed : e \in DOMAIN executed' /\ executed'[e] = executed[e]
        /\ DOMAIN executed' = 1..(Len(executed) + 1)
        /\ executed'[Len(executed) + 1] = Head(pending)
    BY <1>0, <2>3
  <2>5. ResultsOwn'
    BY <1>1, <2>4 DEF OwnInv, ResultsOwn
  <2>6. Marked'
    <3> SUFFICES ASSUME NEW e \in DOMAIN frames'
                 PROVE  frames'[e] # <<>> /\ frames'[e][1].frame = e
      BY DEF Marked
    <3>1. CASE e \in DOMAIN frames
      <4>1. frames'[e] = frames[e]
        BY <1>0, <2>1, <3>1
      <4>2. frames[e] # <<>> /\ frames[e][1].frame = e
        BY <3>1 DEF OwnInv, Marked
      <4> QED
        BY <4>1, <4>2
    <3>2. CASE e = Len(executed) + 1
      BY <1>0, <2>1, <2>2, <3>2, SMTT(30)
    <3> QED
      BY <1>0, <2>1, <2>2, <3>1, <3>2, SMTT(30)
  <2>7. ASSUME pc \in Sending
        PROVE  Clean'
    <3>0. Clean /\ pending \in Seq({Request}) /\ pending # <<>>
      BY <2>3, <2>7 DEF OwnInv, Clean
    <3>1. Clean /\ Head(pending) = Request /\ Tail(pending) \in Seq({Request})
      BY <3>0
    <3>2. OwnByte \subseteq OwnByte'
      <4> SUFFICES ASSUME NEW b \in OwnByte, b.frame \in DOMAIN executed'
                   PROVE  executed'[b.frame] = Request'
        BY DEF OwnByte
      <4> QED
        BY <1>0, <1>1, <2>4, <3>1, SMTT(30) DEF OwnByte
    <3>3. f \in Seq(OwnByte')
      <4>1. \A i \in DOMAIN f : f[i] \in OwnByte'
        BY <1>1, <2>2, <2>4, <3>1 DEF OwnByte
      <4> QED
        BY <2>2, <4>1
    <3>4. line \in Seq(OwnByte') /\ input \in Seq(OwnByte') /\ out \in Seq(OwnByte')
      BY <3>1, <3>2, SeqMonotone DEF Clean
    <3>5. line' \in Seq(OwnByte')
      BY <2>1, <3>3, <3>4, JoinType
    <3> QED
      BY <1>1, <2>3, <3>1, <3>4, <3>5 DEF Clean
  <2> QED
    BY <1>1, <2>5, <2>6, <2>7 DEF OwnInv, Counted
<1>3. CASE Arrive \/ LoseByte \/ DamageByte
  <2>1. UNCHANGED <<pending, executed, frames>> /\ line # <<>> /\ line' = Tail(line)
    BY <1>3 DEF Arrive, LoseByte, DamageByte, meter
  <2>2. Counted' /\ ResultsOwn' /\ Marked' /\ OwnByte' = OwnByte
    BY <1>1, <2>1, QuietStep
  <2>3. ASSUME pc \in Sending
        PROVE  Clean'
    <3>1. Clean
      BY <2>3 DEF OwnInv
    <3>2. Head(line) \in OwnByte /\ Tail(line) \in Seq(OwnByte)
      BY <2>1, <3>1 DEF Clean
    <3>3. \A v \in Values : [frame |-> 0, place |-> 0, value |-> v] \in OwnByte
      BY <1>0 DEF OwnByte, FrameByte
    <3>4. input' \in Seq(OwnByte)
      <4>1. \E b \in OwnByte : input' \in {input, Append(input, b)}
        BY <1>3, <3>2, <3>3 DEF Arrive, LoseByte, DamageByte
      <4> QED
        BY <3>1, <4>1, AppendType DEF Clean
    <3> QED
      BY <1>1, <2>1, <2>2, <3>1, <3>2, <3>4 DEF Clean
  <2> QED
    BY <1>1, <2>2, <2>3 DEF OwnInv
<1> QED
  BY <1>2, <1>3

\* The invariant holds at first.
LEMMA InitOwn == Init => TypeInv /\ OwnInv
<1> SUFFICES ASSUME Init PROVE TypeInv /\ OwnInv
  OBVIOUS
<1>1. TypeInv
  BY InitType
<1>2. Len(<<>>) = 0 /\ DOMAIN <<>> = {}
  OBVIOUS
<1>3. Counted /\ ResultsOwn /\ Marked
  BY <1>2 DEF Init, Counted, ResultsOwn, Marked, Request
<1> QED
  BY <1>1, <1>3 DEF Init, OwnInv, Sending

\* Every step keeps it if the line settles.
LEMMA StepOwn ==
  ASSUME Settles
  PROVE  TypeInv /\ OwnInv /\ [Next]_vars => TypeInv' /\ OwnInv'
<1> SUFFICES ASSUME TypeInv, OwnInv, [Next]_vars PROVE TypeInv' /\ OwnInv'
  OBVIOUS
<1>1. TypeInv'
  BY StepType
<1>2. CASE UNCHANGED vars
  <2>1. UNCHANGED <<pc, out, line, input, pending, kinds, results, executed, frames>>
    BY <1>2 DEF vars, client, meter
  <2>2. Counted' /\ ResultsOwn' /\ Marked' /\ OwnByte' = OwnByte /\ Request' = Request
    BY <2>1, QuietStep
  <2>3. pc \in Sending => Clean'
    BY <2>1, <2>2 DEF OwnInv, Clean
  <2>4. pc \notin {"read", "purge after CRC"} => out = <<>>
    BY DEF OwnInv
  <2> QED
    BY <1>1, <2>1, <2>2, <2>3, <2>4 DEF OwnInv
<1>3. CASE Next
  <2>1. \/ ReadSome
        \/ Begin \/ Purge \/ PurgeAgain \/ WriteRequest \/ Deadline \/ Retry \/ PortError
        \/ Execute \/ Arrive \/ LoseByte \/ DamageByte
    BY <1>3 DEF Next, Client, Meter
  <2>2. CASE ReadSome
    BY <1>1, <2>2, ReadOwn
  <2>3. CASE \/ Begin \/ Purge \/ PurgeAgain \/ WriteRequest
             \/ Deadline \/ Retry \/ PortError
    BY <1>1, <2>3, ClientOwn
  <2>4. CASE Execute \/ Arrive \/ LoseByte \/ DamageByte
    BY <1>1, <2>4, MeterOwn
  <2> QED
    BY <1>1, <2>1, <2>2, <2>3, <2>4
<1> QED
  BY <1>1, <1>2, <1>3

\* A frame that tx() accepts answers the transaction's own request, if the line
\* falls silent in the settling pause.
THEOREM AnswersAreOwn ==
  ASSUME Settles
  PROVE  Spec => []OwnAnswer
<1>1. OwnInv => OwnAnswer
  BY DEF OwnInv, ResultsOwn, OwnAnswer
<1> QED
  BY <1>1, InitOwn, StepOwn, PTL DEF Spec
-----------------------------------------------------------------------------
(* A line without faults.                                                  *)

\* Every request is executed once.
Once ==
  /\ \A e, f \in DOMAIN executed : executed[e] = executed[f] => e = f
  /\ \A e \in DOMAIN executed :
       /\ executed[e] <= Request
       /\ pc \in {"purge", "settle", "write"} => executed[e] # Request
       /\ pending # <<>> => executed[e] # pending[1]
  /\ pending # <<>> =>
       /\ Len(pending) = 1 /\ pending[1] <= Request
       /\ pc \in {"purge", "settle", "write"} => pending[1] # Request

Empty == line = <<>> /\ input = <<>> /\ out = <<>>

\* One frame is under way: what was read of it, what waits in the buffer and
\* what is still on the line are its beginning, its middle and its end.
Underway(f) ==
  /\ f \in Range(frames)
  /\ Len(out) < Len(f) /\ Len(out) + Len(input) + Len(line) = Len(f)
  /\ \A i \in 1..Len(out) : out[i] = f[i]
  /\ \A i \in 1..Len(input) : input[i] = f[Len(out) + i]
  /\ \A i \in 1..Len(line) : line[i] = f[Len(out) + Len(input) + i]

\* From the silence of the settling pause on, the line carries the answer to
\* the request of this transaction and nothing else.
Flowing ==
  /\ pc # "purge after CRC"
  /\ pc = "write" => pending = <<>> /\ Empty
  /\ pc = "read" =>
       \/ pending = <<Request>> /\ Empty
       \/ pending = <<>> /\ \E n \in Nat : \E f \in Answers(n, kinds[Request]) : Underway(f)

CalmInv ==
  /\ faults > 0 => disturbed
  /\ ~disturbed => \A i \in DOMAIN results : results[i] # 0
  /\ faults = 0 => Once /\ Flowing

\* The three kinds of answers.
LEMMA AnswerForms ==
  ASSUME NEW n \in Nat, NEW k \in {"read", "write"}, NEW f \in Answers(n, k)
  PROVE  \/ Len(f) = 2 /\ f[1].value = 3
         \/ k = "write" /\ Len(f) = 3 /\ f[1].value = 0
         \/ k = "read" /\ Len(f) \in 3..4 /\ f[1].value = 0 /\ f[2].value = Len(f) - 2
<1> DEFINE Frame(first, second, length) ==
             [i \in 1..length |->
               [frame |-> n, place |-> i,
                value |-> IF i = 1 THEN first ELSE IF i = 2 THEN second ELSE 0]]
<1>1. ASSUME NEW first \in Values, NEW second \in Values, NEW length \in 2..4
      PROVE  /\ Len(Frame(first, second, length)) = length
             /\ Frame(first, second, length)[1].value = first
             /\ Frame(first, second, length)[2].value = second
  <2>1. 1 \in 1..length /\ 2 \in 1..length
    OBVIOUS
  <2>2. Frame(first, second, length) \in Seq([frame : {n}, place : Nat, value : Values])
    BY DEF Values
  <2> QED
    BY <2>1, <2>2
<1>2. \/ f = Frame(3, 0, 2)
      \/ k = "write" /\ f = Frame(0, 0, 3)
      \/ k = "read" /\ \E c \in 1..2 : f = Frame(0, c, c + 2)
  BY DEF Answers, Counts, LengthOf, ExceptionSize, WriteSize
<1>3. /\ 0 \in Values /\ 3 \in Values
      /\ \A c \in 1..2 : c \in Values /\ c + 2 \in 2..4 /\ c + 2 \in 3..4 /\ c = (c + 2) - 2
  BY DEF Values
<1> HIDE DEF Frame
<1>4. CASE f = Frame(3, 0, 2)
  BY <1>1, <1>3, <1>4
<1>5. CASE k = "write" /\ f = Frame(0, 0, 3)
  BY <1>1, <1>3, <1>5
<1>6. CASE k = "read" /\ \E c \in 1..2 : f = Frame(0, c, c + 2)
  <2>1. PICK c \in 1..2 : f = Frame(0, c, c + 2)
    BY <1>6
  <2>2. 0 \in Values /\ c \in Values /\ c + 2 \in 2..4 /\ c + 2 \in 3..4
    BY <1>3
  <2>3. /\ Len(Frame(0, c, c + 2)) = c + 2
        /\ Frame(0, c, c + 2)[1].value = 0 /\ Frame(0, c, c + 2)[2].value = c
    BY <1>1, <2>2
  <2>4. Len(f) = c + 2 /\ f[1].value = 0 /\ f[2].value = c /\ c = (c + 2) - 2
    BY <2>1, <2>3
  <2>5. Len(f) \in 3..4 /\ f[2].value = Len(f) - 2
    BY <2>2, <2>4
  <2> QED
    BY <1>6, <2>4, <2>5
<1> QED
  BY <1>2, <1>4, <1>5, <1>6

\* A part of an undamaged answer is a part to readResponse, whatever its
\* length, and the whole of it is good.
LEMMA AnswerRead ==
  ASSUME NEW n \in Nat, NEW k \in {"read", "write"}, NEW f \in Answers(n, k),
         f \in Range(frames), NEW r \in Seq(FrameByte),
         Len(r) \in 1..Len(f), \A i \in 1..Len(r) : r[i] = f[i]
  PROVE  Verdict(k, r) = IF Len(r) = Len(f) THEN "good" ELSE "partial"
<1>1. f \in Seq(FrameByte)
  BY AnswerShape
<1>2. Len(r) = Len(f) => r = f
  BY <1>1
<1>3. Len(r) = Len(f) => Valid(r)
  BY <1>2 DEF Valid
<1>4. Len(f) \in 2..4 /\ r[1] = f[1] /\ (Len(r) >= 2 => r[2] = f[2]) /\ Len(r) \in 1..4
  <2>1. Len(f) = 2 \/ Len(f) = 3 \/ Len(f) \in 3..4
    BY AnswerForms
  <2>2. Len(f) \in 2..4
    BY <2>1
  <2>3. PICK m \in Nat : m = Len(r)
    OBVIOUS
  <2>4. PICK l \in 2..4 : l = Len(f)
    BY <2>2
  <2>5. 1 <= m /\ m <= l
    BY <2>3, <2>4
  <2>6. 1 \in 1..m /\ (m >= 2 => 2 \in 1..m) /\ m \in 1..4
    BY <2>4, <2>5
  <2>7. r[1] = f[1] /\ (Len(r) >= 2 => r[2] = f[2])
    BY <2>3, <2>6
  <2> QED
    BY <2>2, <2>3, <2>6, <2>7
<1>5. \/ responseLength(k, r) = Len(f)
      \/ responseLength(k, r) = 0 /\ Len(r) < Len(f)
  <2>1. CASE Len(f) = 2 /\ f[1].value = 3
    BY <1>4, <2>1 DEF responseLength, Exception, ExceptionSize
  <2>2. CASE k = "write" /\ Len(f) = 3 /\ f[1].value = 0
    BY <1>4, <2>2 DEF responseLength, Exception, WriteSize
  <2>3. CASE k = "read" /\ Len(f) \in 3..4 /\ f[1].value = 0 /\ f[2].value = Len(f) - 2
    BY <1>4, <2>3 DEF responseLength, Exception, LengthOf
  <2> QED
    BY <2>1, <2>2, <2>3, AnswerForms
<1> HIDE DEF responseLength
<1> QED
  BY <1>3, <1>4, <1>5 DEF Verdict, MaxFrame

\* The number of faults is a number.
LEMMA FaultsCounted ==
  ASSUME TypeInv
  PROVE  faults \in Nat /\ (faults = 0 \/ faults > 0) /\ disturbed \in BOOLEAN
<1>1. faults \in 0..MaxFaults /\ disturbed \in BOOLEAN
  BY Zenon DEF TypeInv, TypeOK
<1>2. MaxFaults \in Nat
  BY BoundsAssumption
<1>3. faults \in Nat
  BY <1>1, <1>2
<1>4. faults = 0 \/ faults > 0
  BY <1>3
<1> QED
  BY <1>1, <1>3, <1>4

\* After a fault nothing more is claimed.
LEMMA FaultCalm ==
  ASSUME TypeInv, Fault
  PROVE  CalmInv'
<1>1. faults' > 0 /\ disturbed' = TRUE /\ faults' # 0
  <2>1. faults' = faults + 1 /\ disturbed' = TRUE
    BY DEF Fault
  <2> QED
    BY <2>1, FaultsCounted
<1> QED
  BY <1>1 DEF CalmInv

\* Neither does a step after a fault.
LEMMA LaterCalm ==
  ASSUME TypeInv, CalmInv, faults # 0, faults' = faults, disturbed' \in {disturbed, TRUE}
  PROVE  CalmInv'
<1>1. faults \in Nat /\ faults > 0 /\ disturbed \in BOOLEAN
  BY FaultsCounted
<1>2. faults > 0 /\ disturbed
  BY <1>1 DEF CalmInv
<1>3. disturbed'
  BY <1>1, <1>2, Zenon
<1> QED
  BY <1>1, <1>2, <1>3 DEF CalmInv

\* A transaction begins, and the buffer is cleared.
LEMMA PurgeCalm ==
  ASSUME Settles, TypeInv, OwnInv, CalmInv, faults = 0, Begin \/ Purge \/ PurgeAgain
  PROVE  CalmInv'
<1>0. /\ kinds \in Seq(Kinds) /\ executed \in Seq(Nat) /\ pending \in Seq(Nat) /\ Once
      /\ Request \in Nat /\ faults' = 0
  <2>1. kinds \in Seq(Kinds) /\ executed \in Seq(Nat) /\ pending \in Seq(Nat)
    BY DEF TypeInv, TypeOK
  <2> QED
    BY <2>1 DEF CalmInv, Request, Begin, Purge, PurgeAgain, Fine
<1>r. UNCHANGED <<results, executed, disturbed>>
  BY DEF Begin, Purge, PurgeAgain, Goto, meter, Fine
<1>1. CASE Begin
  <2>1. PICK k \in Kinds : kinds' = Append(kinds, k)
    BY <1>1 DEF Begin
  <2>2. Request' = Request + 1 /\ pc' = "purge" /\ pending' = pending
    BY <1>0, <1>1, <2>1 DEF Begin, Request, meter
  <2>3. \A e \in DOMAIN executed : executed[e] \in Nat
    BY <1>0
  <2>4. pending # <<>> => pending[1] \in Nat
    BY <1>0
  <2>5. Once'
    BY <1>0, <1>r, <2>2, <2>3, <2>4 DEF Once
  <2>6. Flowing'
    BY <2>2 DEF Flowing
  <2> QED
    BY <1>0, <1>r, <2>5, <2>6 DEF CalmInv
<1>2. CASE Purge
  <2>1. pc = "purge" /\ pc' = "settle" /\ Request' = Request /\ pending' = pending
    BY <1>2 DEF Purge, Goto, Request, meter
  <2>2. Once'
    BY <1>0, <1>r, <2>1 DEF Once
  <2>3. Flowing'
    BY <2>1 DEF Flowing
  <2> QED
    BY <1>0, <1>r, <2>2, <2>3 DEF CalmInv
<1>3. CASE PurgeAgain
  <2>1. /\ pc = "settle" /\ pc' = "write" /\ Request' = Request
        /\ pending' = pending /\ pending = <<>> /\ line' = <<>> /\ input' = <<>> /\ out' = <<>>
    BY <1>3 DEF PurgeAgain, Goto, Request, meter, Silent, OwnInv
  <2>2. Once'
    BY <1>0, <1>r, <2>1 DEF Once
  <2>3. Flowing'
    BY <2>1 DEF Flowing, Empty
  <2> QED
    BY <1>0, <1>r, <2>2, <2>3 DEF CalmInv
<1> QED
  BY <1>1, <1>2, <1>3

\* The request goes out, and the meter has not seen it before.
LEMMA WriteCalm ==
  ASSUME TypeInv, OwnInv, CalmInv, faults = 0, WriteRequest, Fine
  PROVE  CalmInv'
<1>0. /\ kinds \in Seq(Kinds) /\ executed \in Seq(Nat) /\ Once /\ Flowing
      /\ Request \in Nat /\ pc = "write"
  <2>1. kinds \in Seq(Kinds) /\ executed \in Seq(Nat)
    BY DEF TypeInv, TypeOK
  <2> QED
    BY <2>1 DEF CalmInv, Request, WriteRequest
<1>1. pending = <<>> /\ Empty
  BY <1>0 DEF Flowing
<1>2. /\ pending' = Append(pending, Request) /\ pc' = "read" /\ Request' = Request
      /\ UNCHANGED <<results, executed, line, input, out, faults, disturbed>>
  BY DEF WriteRequest, Fault, Fine, Goto, Request, TypeInv, TypeOK
<1>3. pending' = <<Request>>
  BY <1>0, <1>1, <1>2
<1>4. pending'[1] = Request /\ Len(pending') = 1
  BY <1>0, <1>3
<1>5. Once'
  BY <1>0, <1>2, <1>4 DEF Once
<1>6. Flowing'
  BY <1>1, <1>2, <1>3 DEF Flowing, Empty
<1> QED
  BY <1>2, <1>5, <1>6 DEF CalmInv

\* A read takes a part of the frame under way, and the whole is an answer.
LEMMA ReadCalm ==
  ASSUME TypeInv, OwnInv, CalmInv, faults = 0, ReadSome
  PROVE  CalmInv'
<1>0. /\ kinds \in Seq(Kinds) /\ results \in Seq(Nat) /\ Once /\ Flowing /\ pc = "read"
      /\ out \in Seq(FrameByte) /\ input \in Seq(FrameByte) /\ line \in Seq(FrameByte)
      /\ frames \in Seq(Seq(FrameByte))
      /\ UNCHANGED <<executed, frames, pending, line, faults, disturbed>>
  BY DEF TypeInv, TypeOK, CalmInv, ReadSome, meter, Fine
<1>k. kinds[Request] \in {"read", "write"}
  <2>1. Len(results) \in Nat /\ Len(results) = Request - 1 /\ Request \in Nat
    BY <1>0 DEF OwnInv, Counted, Request
  <2>2. Request \in DOMAIN kinds
    BY <1>0, <2>1 DEF Request
  <2>3. kinds[Request] \in Kinds
    BY <1>0, <2>2
  <2> QED
    BY <2>3, KindsAssumption
<1>1. PICK n \in 1..Len(input) :
        LET response == out \o SubSeq(input, 1, n)
            verdict == Verdict(kinds[Request], response)
        IN  /\ input' = SubSeq(input, n + 1, Len(input))
            /\ \/ verdict = "partial" /\ out' = response
                  /\ UNCHANGED <<pc, attempt, kinds, results>>
               \/ verdict = "good" /\ Return(CHOOSE e \in DOMAIN frames : frames[e] = response)
               \/ verdict = "crc" /\ attempt < MaxAttempts /\ Goto("purge after CRC")
               \/ verdict = "crc" /\ attempt = MaxAttempts /\ Return(0)
               \/ verdict = "bad" /\ Return(0)
  BY DEF ReadSome
<1>n. n \in Nat /\ n >= 1 /\ n <= Len(input) /\ Len(input) \in Nat /\ n \in 1..Len(input)
  <2>1. PICK m \in Nat : m = Len(input)
    BY <1>0
  <2>2. n \in 1..m
    BY <2>1
  <2>3. n \in Nat /\ n >= 1 /\ n <= m
    BY <2>2
  <2> QED
    BY <2>1, <2>2, <2>3
<1> DEFINE response == out \o SubSeq(input, 1, n)
           verdict == Verdict(kinds[Request], response)
           result == CHOOSE e \in DOMAIN frames : frames[e] = response
<1>2. pending = <<>> /\ \E m \in Nat : \E f \in Answers(m, kinds[Request]) : Underway(f)
  <2>1. Len(input) \in Nat /\ n >= 1 /\ n <= Len(input)
    BY <1>n
  <2>2. input # <<>>
    <3>1. Len(<<>>) = 0
      OBVIOUS
    <3> QED
      BY <2>1, <3>1
  <2> QED
    BY <1>0, <2>2 DEF Flowing, Empty
<1>3. PICK m \in Nat : \E f \in Answers(m, kinds[Request]) : Underway(f)
  BY <1>2
<1>4. PICK f \in Answers(m, kinds[Request]) : Underway(f)
  BY <1>3
<1>5. f \in Seq(FrameByte) /\ f \in Range(frames)
  BY <1>4, AnswerShape DEF Underway
<1>6. /\ response \in Seq(FrameByte) /\ Len(response) = Len(out) + n
      /\ \A i \in 1..Len(out) : response[i] = out[i]
      /\ \A i \in 1..n : response[Len(out) + i] = input[i]
  <2>0. n \in Nat /\ n <= Len(input) /\ Len(input) \in Nat /\ n \in 1..Len(input)
    BY <1>n
  <2>1. /\ SubSeq(input, 1, n) \in Seq(FrameByte) /\ Len(SubSeq(input, 1, n)) = n
        /\ \A i \in 1..n : SubSeq(input, 1, n)[i] = input[i]
    BY <1>0, <2>0
  <2> QED
    BY <1>0, <2>1
<1> HIDE DEF response
<1>7. Len(response) \in 1..Len(f) /\ \A i \in 1..Len(response) : response[i] = f[i]
  <2>1. /\ Len(out) + Len(input) + Len(line) = Len(f)
        /\ \A i \in 1..Len(out) : out[i] = f[i]
        /\ \A i \in 1..Len(input) : input[i] = f[Len(out) + i]
    BY <1>4 DEF Underway
  <2>2. Len(out) \in Nat /\ Len(input) \in Nat /\ Len(line) \in Nat /\ Len(f) \in Nat
    BY <1>0, <1>5
  <2>3. Len(response) \in 1..Len(f)
    BY <1>n, <1>6, <2>1, <2>2
  <2>4. ASSUME NEW i \in 1..Len(response)
        PROVE  response[i] = f[i]
    <3>1. CASE i <= Len(out)
      BY <1>6, <2>1, <2>2, <3>1
    <3>2. CASE i > Len(out)
      <4>1. i - Len(out) \in 1..n /\ i - Len(out) \in 1..Len(input) /\ Len(out) + (i - Len(out)) = i
        <5>1. i \in Nat /\ i <= Len(out) + n /\ i > Len(out)
          BY <1>n, <1>6, <2>2, <3>2
        <5> QED
          BY <1>n, <2>2, <5>1
      <4> QED
        BY <1>6, <2>1, <4>1
    <3> QED
      BY <2>2, <3>1, <3>2
  <2> QED
    BY <2>3, <2>4
<1>8. verdict = IF Len(response) = Len(f) THEN "good" ELSE "partial"
  BY <1>5, <1>6, <1>7, <1>k, AnswerRead
<1>9. /\ input' = SubSeq(input, n + 1, Len(input))
      /\ \/ verdict = "partial" /\ out' = response /\ UNCHANGED <<pc, attempt, kinds, results>>
         \/ verdict = "good" /\ Return(result)
  BY <1>1, <1>8 DEF response
<1>10. CASE verdict = "good" /\ Return(result)
  <2>1. Len(response) = Len(f)
    BY <1>8, <1>10
  <2>2. response = f
    BY <1>5, <1>6, <1>7, <2>1
  <2>3. result \in DOMAIN frames
    BY <1>5, <2>2 DEF Range
  <2>4. result # 0
    <3>1. DOMAIN frames = 1..Len(frames) /\ Len(frames) \in Nat
      BY <1>0
    <3> HIDE DEF result
    <3> QED
      BY <2>3, <3>1
  <2> HIDE DEF result
  <2>5. /\ pc' = "idle" /\ results' = Append(results, result) /\ Request' = Request
    BY <1>10 DEF Return, Request
  <2>6. ~disturbed => \A i \in DOMAIN results' : results'[i] # 0
    <3>1. /\ DOMAIN results' = DOMAIN results \cup {Len(results) + 1}
          /\ \A i \in DOMAIN results : results'[i] = results[i]
          /\ results'[Len(results) + 1] = result
      BY <1>0, <2>5
    <3>2. ASSUME \A i \in DOMAIN results : results[i] # 0
          PROVE  \A i \in DOMAIN results' : results'[i] # 0
      <4> SUFFICES ASSUME NEW i \in DOMAIN results' PROVE results'[i] # 0
        OBVIOUS
      <4>1. CASE i \in DOMAIN results
        <5>1. results'[i] = results[i] /\ results[i] # 0
          BY <3>1, <3>2, <4>1
        <5> QED
          BY <5>1
      <4>2. CASE i = Len(results) + 1
        <5>1. results'[i] = result
          BY <3>1, <4>2
        <5> QED
          BY <2>4, <5>1
      <4> QED
        BY <3>1, <4>1, <4>2
    <3> QED
      BY <3>2, Zenon DEF CalmInv
  <2>7. Once' /\ Flowing'
    BY <1>0, <2>5 DEF Once, Flowing
  <2> QED
    BY <1>0, <2>6, <2>7 DEF CalmInv
<1>11. CASE verdict = "partial" /\ out' = response /\ UNCHANGED <<pc, attempt, kinds, results>>
  <2>1. Request' = Request /\ Len(response) # Len(f)
    BY <1>8, <1>11 DEF Request
  <2>2. Once'
    BY <1>0, <1>11, <2>1 DEF Once
  <2>3. /\ Len(input') = Len(input) - n
        /\ \A i \in 1..Len(input') : input'[i] = input[n + i]
    BY <1>0, <1>9, <1>n
  <2>4. Underway(f)'
    <3>1. /\ Len(out) + Len(input) + Len(line) = Len(f)
          /\ \A i \in 1..Len(input) : input[i] = f[Len(out) + i]
          /\ \A i \in 1..Len(line) : line[i] = f[Len(out) + Len(input) + i]
      BY <1>4 DEF Underway
    <3>2. Len(out) \in Nat /\ Len(input) \in Nat /\ Len(line) \in Nat /\ Len(f) \in Nat /\ n \in Nat
      BY <1>0, <1>n, <1>5
    <3>3. Len(out') = Len(out) + n /\ line' = line
      BY <1>0, <1>6, <1>11
    <3>4. \A i \in 1..Len(input') : input'[i] = f[Len(out') + i]
      <4> SUFFICES ASSUME NEW i \in 1..Len(input') PROVE input'[i] = f[Len(out') + i]
        OBVIOUS
      <4>1. n + i \in 1..Len(input) /\ Len(out) + (n + i) = Len(out') + i
        <5>1. i \in Nat /\ i >= 1 /\ i <= Len(input) - n
          BY <2>3, <3>2
        <5> QED
          BY <1>n, <3>2, <3>3, <5>1
      <4> QED
        BY <2>3, <3>1, <4>1
    <3>5. \A i \in 1..Len(line') : line'[i] = f[Len(out') + Len(input') + i]
      <4>1. \A i \in 1..Len(line) : Len(out) + Len(input) + i = Len(out') + Len(input') + i
        BY <2>3, <3>2, <3>3
      <4> QED
        BY <3>1, <3>3, <4>1
    <3>6. Len(out') < Len(f) /\ Len(out') + Len(input') + Len(line') = Len(f)
      <4>1. Len(response) = Len(out') /\ Len(response) <= Len(f) /\ Len(response) # Len(f)
        BY <1>6, <1>7, <2>1, <3>2, <3>3
      <4>2. \A o, i, l, x \in Nat :
              x <= i => (o + x) + (i - x) + l = o + i + l
        OBVIOUS
      <4>3. (Len(out) + n) + (Len(input) - n) + Len(line) = Len(out) + Len(input) + Len(line)
        BY <1>n, <3>2, <4>2
      <4>4. Len(out') + Len(input') + Len(line') = Len(f)
        BY <2>3, <3>1, <3>3, <4>3
      <4>5. Len(out') \in Nat
        BY <3>2, <3>3
      <4>6. Len(out') < Len(f)
        BY <3>2, <4>1, <4>5
      <4> QED
        BY <4>4, <4>6
    <3>7. \A i \in 1..Len(out') : out'[i] = f[i]
      BY <1>7, <1>11
    <3>8. f \in Range(frames')
      BY <1>0, <1>5
    <3> QED
      BY <3>4, <3>5, <3>6, <3>7, <3>8 DEF Underway
  <2>5. Flowing'
    BY <1>0, <1>2, <1>4, <1>11, <2>1, <2>4 DEF Flowing
  <2> QED
    BY <1>0, <1>11, <2>2, <2>5 DEF CalmInv
<1> QED
  BY <1>9, <1>10, <1>11

\* A deadline ends the transaction; what is under way is left to the pause.
LEMMA DeadlineCalm ==
  ASSUME TypeInv, CalmInv, faults = 0, Deadline
  PROVE  CalmInv'
<1>1. /\ pc' = "idle" /\ disturbed' = TRUE /\ Request' = Request
      /\ UNCHANGED <<executed, pending, faults>>
  BY DEF Deadline, Return, Request, meter
<1>2. Once' /\ Flowing'
  BY <1>1 DEF CalmInv, Once, Flowing
<1> QED
  BY <1>1, <1>2 DEF CalmInv

\* The meter sends one frame for the one request.
LEMMA ExecuteCalm ==
  ASSUME TypeInv, OwnInv, CalmInv, faults = 0, Execute
  PROVE  CalmInv'
<1>0. /\ executed \in Seq(Nat) /\ pending \in Seq(Nat) /\ frames \in Seq(Seq(FrameByte))
      /\ Once /\ Flowing /\ pending # <<>>
      /\ UNCHANGED <<pc, out, kinds, results, input, faults, disturbed>>
      /\ pending' = Tail(pending) /\ executed' = Append(executed, Head(pending))
  BY DEF TypeInv, TypeOK, CalmInv, Execute, client, Fine
<1>1. PICK f \in Answers(Len(executed) + 1, kinds[Head(pending)]) :
        frames' = Append(frames, f) /\ line' = line \o f
  BY DEF Execute
<1>2. Len(executed) + 1 \in Nat /\ Request' = Request
  BY <1>0 DEF Request
<1>3. Len(pending) = 1 /\ pending[1] <= Request /\ pending' = <<>> /\ Head(pending) = pending[1]
  <2>1. Len(pending) = 1 /\ pending[1] <= Request
    BY <1>0 DEF Once
  <2>2. Tail(pending) \in Seq(Nat) /\ Len(Tail(pending)) = 0 /\ Head(pending) = pending[1]
    BY <1>0, <2>1
  <2>3. \A s \in Seq(Nat) : Len(s) = 0 => s = <<>>
    OBVIOUS
  <2>4. Tail(pending) = <<>>
    BY <2>2, <2>3
  <2> QED
    BY <1>0, <2>1, <2>2, <2>4
<1>4. Once'
  <2>1. /\ DOMAIN executed' = DOMAIN executed \cup {Len(executed) + 1}
        /\ \A e \in DOMAIN executed : executed'[e] = executed[e]
        /\ executed'[Len(executed) + 1] = pending[1]
    BY <1>0, <1>3
  <2> QED
    BY <1>0, <1>2, <1>3, <2>1 DEF Once
<1>5. ASSUME pc = "read"
      PROVE  Underway(f)' /\ f \in Answers(Len(executed) + 1, kinds[Request])
  <2>1. pending = <<Request>> /\ line = <<>> /\ input = <<>> /\ out = <<>>
    BY <1>0, <1>5 DEF Flowing, Empty
  <2>2. Head(pending) = Request
    BY <2>1
  <2>3. f \in Seq(FrameByte) /\ f # <<>>
    BY <1>1, <1>2, AnswerShape
  <2>4. line' = f /\ input' = <<>> /\ out' = <<>>
    BY <1>0, <1>1, <2>1, <2>3
  <2>5. f \in Range(frames')
    <3>1. Len(frames) + 1 \in DOMAIN frames' /\ frames'[Len(frames) + 1] = f
      BY <1>0, <1>1, <2>3
    <3> QED
      BY <3>1 DEF Range
  <2>6. Len(f) \in Nat /\ Len(f) > 0 /\ Len(<<>>) = 0
    BY <2>3
  <2>7. Underway(f)'
    BY <2>4, <2>5, <2>6 DEF Underway
  <2> QED
    BY <1>1, <2>2, <2>7
<1>6. Flowing'
  <2>1. pc # "write"
    BY <1>0 DEF Flowing
  <2> QED
    BY <1>0, <1>2, <1>3, <1>5, <2>1 DEF Flowing
<1> QED
  BY <1>0, <1>4, <1>6 DEF CalmInv

\* A byte moves from the line to the buffer.
LEMMA ArriveCalm ==
  ASSUME TypeInv, CalmInv, faults = 0, Arrive
  PROVE  CalmInv'
<1>0. /\ line \in Seq(FrameByte) /\ input \in Seq(FrameByte) /\ out \in Seq(FrameByte)
      /\ Once /\ Flowing /\ line # <<>>
      /\ UNCHANGED <<pc, out, kinds, results, executed, pending, frames, faults, disturbed>>
      /\ line' = Tail(line) /\ input' = Append(input, Head(line)) /\ Request' = Request
  BY DEF TypeInv, TypeOK, CalmInv, Arrive, client, meter, Fine, Request
<1>1. Once'
  BY <1>0 DEF Once
<1>2. /\ Len(line') = Len(line) - 1 /\ Len(input') = Len(input) + 1
      /\ \A i \in 1..Len(line') : line'[i] = line[i + 1]
      /\ \A i \in 1..Len(input) : input'[i] = input[i]
      /\ input'[Len(input) + 1] = line[1] /\ Len(line) >= 1
      /\ Len(line) \in Nat /\ Len(input) \in Nat /\ Len(out) \in Nat
  BY <1>0
<1>3. ASSUME NEW m \in Nat, NEW f \in Answers(m, kinds[Request]), Underway(f)
      PROVE  Underway(f)'
  <2>1. Len(out') < Len(f) /\ Len(out') + Len(input') + Len(line') = Len(f) /\ f \in Range(frames')
    BY <1>0, <1>2, <1>3 DEF Underway
  <2>2. \A i \in 1..Len(out') : out'[i] = f[i]
    BY <1>0, <1>3 DEF Underway
  <2>3. ASSUME NEW i \in 1..Len(input') PROVE input'[i] = f[Len(out') + i]
    <3>1. CASE i \in 1..Len(input)
      BY <1>0, <1>2, <1>3, <3>1 DEF Underway
    <3>2. CASE i = Len(input) + 1
      <4>1. 1 \in 1..Len(line) /\ line[1] = f[Len(out) + Len(input) + 1]
        BY <1>2, <1>3 DEF Underway
      <4>2. Len(out) + Len(input) + 1 = Len(out') + i
        BY <1>0, <1>2, <3>2
      <4> QED
        BY <1>2, <3>2, <4>1, <4>2
    <3> QED
      BY <1>2, <3>1, <3>2
  <2>4. ASSUME NEW i \in 1..Len(line') PROVE line'[i] = f[Len(out') + Len(input') + i]
    <3>1. i + 1 \in 1..Len(line) /\ Len(out) + Len(input) + (i + 1) = Len(out') + Len(input') + i
      BY <1>0, <1>2
    <3>2. line[i + 1] = f[Len(out) + Len(input) + (i + 1)]
      BY <1>3, <3>1 DEF Underway
    <3> QED
      BY <1>2, <3>1, <3>2
  <2> QED
    BY <2>1, <2>2, <2>3, <2>4 DEF Underway
<1>4. Flowing'
  BY <1>0, <1>3 DEF Flowing, Empty
<1> QED
  BY <1>0, <1>1, <1>4 DEF CalmInv

\* The invariant of a line that settles.
LEMMA InitCalm == Init => TypeInv /\ OwnInv /\ CalmInv
<1> SUFFICES ASSUME Init PROVE TypeInv /\ OwnInv /\ CalmInv
  OBVIOUS
<1>1. DOMAIN <<>> = {} /\ ~(0 > 0)
  OBVIOUS
<1>2. /\ executed = <<>> /\ pending = <<>> /\ results = <<>> /\ faults = 0
      /\ pc = "idle"
  BY DEF Init
<1>3. Once /\ Flowing
  BY <1>1, <1>2 DEF Once, Flowing
<1>4. CalmInv
  BY <1>1, <1>2, <1>3 DEF CalmInv
<1> QED
  BY <1>4, InitOwn

\* Every step keeps it.
LEMMA StepCalm ==
  ASSUME Settles
  PROVE  TypeInv /\ OwnInv /\ CalmInv /\ [Next]_vars => TypeInv' /\ OwnInv' /\ CalmInv'
<1> SUFFICES ASSUME TypeInv, OwnInv, CalmInv, [Next]_vars PROVE TypeInv' /\ OwnInv' /\ CalmInv'
  OBVIOUS
<1>1. TypeInv' /\ OwnInv'
  BY StepType, StepOwn
<1>2. CASE UNCHANGED vars
  <2>1. UNCHANGED <<pc, out, line, input, pending, kinds, results, executed, frames, faults, disturbed>>
    BY <1>2 DEF vars, client, meter
  <2>2. Request' = Request /\ Once' = Once /\ Empty' = Empty
    BY <2>1 DEF Request, Once, Empty
  <2>3. \A f : Underway(f)' = Underway(f)
    BY <2>1 DEF Underway
  <2>4. Flowing => Flowing'
    BY <2>1, <2>2, <2>3 DEF Flowing
  <2> QED
    BY <1>1, <2>1, <2>2, <2>4 DEF CalmInv
<1>3. CASE Next /\ Fault
  BY <1>1, <1>3, FaultCalm
<1>4. CASE Next /\ ~Fault
  <2>1. \/ (Begin \/ Purge \/ PurgeAgain \/ (WriteRequest /\ Fine) \/ ReadSome \/ Retry
             \/ Execute \/ Arrive) /\ Fine
        \/ Deadline
    BY <1>4 DEF Next, Client, Meter, PortError, LoseByte, DamageByte, WriteRequest,
                Begin, Purge, PurgeAgain, ReadSome, Retry, Execute, Arrive
  <2>2. CASE faults # 0
    <3>1. faults' = faults /\ disturbed' \in {disturbed, TRUE}
      BY <2>1 DEF Fine, Deadline
    <3> QED
      BY <1>1, <2>2, <3>1, LaterCalm
  <2>3. CASE faults = 0
    <3>1. ~Retry
      BY <2>3 DEF CalmInv, Flowing, Retry
    <3> QED
      BY <1>1, <2>1, <2>3, <3>1, PurgeCalm, WriteCalm, ReadCalm, DeadlineCalm, ExecuteCalm, ArriveCalm
  <2> QED
    BY <2>2, <2>3
<1> QED
  BY <1>2, <1>3, <1>4

\* On a line that settles and does its work every transaction returns the
\* answer, in whatever pieces the port delivers it.
THEOREM GoodLinesAnswer ==
  ASSUME Settles
  PROVE  Spec => []NoFalseAlarm
<1>1. CalmInv => NoFalseAlarm
  BY DEF CalmInv, NoFalseAlarm
<1> QED
  BY <1>1, InitCalm, StepCalm, PTL DEF Spec

\* On a line that settles a request is executed a second time only if
\* something was lost or damaged.
THEOREM RepeatsExplained ==
  ASSUME Settles
  PROVE  Spec => []RepeatNeedsDamage
<1>1. TypeInv /\ CalmInv => RepeatNeedsDamage
  <2>1. TypeInv => faults = 0 \/ faults > 0
    BY FaultsCounted
  <2> QED
    BY <2>1 DEF CalmInv, Once, RepeatNeedsDamage
<1> QED
  BY <1>1, InitCalm, StepCalm, PTL DEF Spec
=============================================================================
