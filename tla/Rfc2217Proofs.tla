---------------------------- MODULE Rfc2217Proofs ----------------------------
(***************************************************************************)
(* Theorems about Rfc2217Port, for queues, buffers, runs of bytes and      *)
(* connections of any size and any number of calls, bytes and ignored      *)
(* commands.                                                               *)
(***************************************************************************)
EXTENDS Rfc2217Port, TLAPS

Senders == Calls \ {"Read"}
Sending == {"send", "lock", "write", "await"}
IsCommand(m) == m.cmd \in Commands
IsAck(m) == m.kind = "ack"

\* Where the caller, the connection and the reader can be at the same time.
CallInv ==
  /\ call = "none" <=> pc \in Idle
  /\ pc \in Sending => call \in Senders /\ step <= Len(Script(call))
  /\ pc = "await" => Cmd \in Commands
  /\ pc \in {"pause", "drain"} => call = "ResetInputBuffer"
  /\ pc \in {"read", "put back"} => call = "Read"
  /\ pc # "put back" => rest = <<>>
  /\ pc \in {"lock", "write", "await"} /\ Cmd \in Commands => acks[Cmd] # "none"

\* The two goroutines and the connection.
ConnInv ==
  /\ pc = "new" <=> conn = "none"
  /\ pc = "closed" <=> conn = "closed"
  /\ pc = "new" <=> reader = "off"
  /\ conn = "lost" => toServer = <<>>
  /\ errCh => reader = "ended"
  /\ reader = "ended" => conn = "closed" \/ (conn = "lost" /\ toClient = <<>>)
  /\ reader # "push" => held = <<>>

\* Numbers that have been given.
NumberedInv ==
  /\ \A i \in DOMAIN toServer : toServer[i].id <= sent
  /\ since <= produced /\ fresh <= produced

\* Unless an acknowledgement is late, one command at most is on its way, to the
\* server or back, and it is the one the caller waits for.
OneCommand ==
  ~late /\ conn # "closed" =>
    /\ \A i \in DOMAIN toServer : IsCommand(toServer[i]) =>
         pc = "await" /\ toServer[i] = Message /\ answered < sent
    /\ \A i, j \in DOMAIN toServer : IsCommand(toServer[i]) /\ IsCommand(toServer[j]) => i = j
    /\ \A i \in DOMAIN toClient : IsAck(toClient[i]) =>
         /\ pc = "await" /\ toClient[i].cmd = Cmd /\ toClient[i].id = sent
         /\ answered = sent /\ acks[Cmd] = "waiting"
    /\ \A i, j \in DOMAIN toClient : IsAck(toClient[i]) /\ IsAck(toClient[j]) => i = j
    /\ \A c \in Commands : acks[c] = "acked" => pc = "await" /\ c = Cmd /\ answered = sent
    /\ pc \in {"lock", "write"} /\ Cmd \in Commands => answered < sent

\* RTS is low once the first command of Close is acknowledged.
ReleasedInv ==
  ~late /\ "Close" \notin failed =>
    /\ conn = "closed" => ~rts /\ answered = sent
    /\ call = "Close" /\ pc \in Sending /\ step = 2 => ~rts
    /\ call = "Close" /\ pc = "await" /\ answered = sent => ~rts

\* The line is in break only between the two commands of Break.
BreakInv ==
  brk /\ ~late /\ "Break" \notin failed /\ conn # "closed" =>
    /\ call = "Break" /\ pc \in Sending
    /\ step = 2 /\ pc = "await" => answered # sent

\* Bytes later than the n-th or in the set bs, in a run, on their way to the
\* queue, and from there.
Newer(run, n, bs) == \A i \in DOMAIN run : run[i] > n \/ run[i] \in bs
UpstreamNewer(n, bs) ==
  /\ Newer(serial, n, bs) /\ Newer(held, n, bs)
  /\ \A j \in DOMAIN toClient : Newer(toClient[j].bytes, n, bs)
QueueNewer(n, bs) == Newer(rest, n, bs) /\ \A i \in DOMAIN queue : Newer(queue[i], n, bs)

\* What the server sends behind an acknowledgement.
AfterAck(n, bs) ==
  \A i \in DOMAIN toClient : IsAck(toClient[i]) =>
    /\ Newer(serial, n, bs)
    /\ \A j \in DOMAIN toClient : j > i => Newer(toClient[j].bytes, n, bs)

\* Between the execution of a purge and the drained queue: only what the purge
\* has left is behind its acknowledgement, and only what has not come in the
\* pause is still outside the queue after it.
PurgeInv ==
  ~late /\ call = "ResetInputBuffer" =>
    /\ pc = "await" => AfterAck(since, unpurged)
    /\ pc = "pause" \/ (pc = "await" /\ acks[Cmd] = "acked") => UpstreamNewer(since, unpurged)
    /\ pc = "drain" => UpstreamNewer(since, overtaken)

-----------------------------------------------------------------------------
(* Sequences.                                                              *)

\* Appending keeps the type of a sequence.
LEMMA AppendType ==
  ASSUME NEW P, NEW s \in Seq(P), NEW e \in P
  PROVE  Append(s, e) \in Seq(P) /\ Len(Append(s, e)) = Len(s) + 1
OBVIOUS

\* The pieces into which a sequence is cut keep its type.
LEMMA PieceTypes ==
  ASSUME NEW P, NEW s \in Seq(P), NEW n \in 0..Len(s)
  PROVE  SubSeq(s, 1, n) \in Seq(P) /\ SubSeq(s, n + 1, Len(s)) \in Seq(P)
OBVIOUS

\* The first element of a sequence and the others keep its type.
LEMMA TailType ==
  ASSUME NEW P, NEW s \in Seq(P), s # <<>>
  PROVE  Head(s) \in P /\ Tail(s) \in Seq(P) /\ Len(Tail(s)) = Len(s) - 1 /\ Len(s) \in Nat
OBVIOUS

-----------------------------------------------------------------------------
(* Types.                                                                  *)

\* What a call writes: one to four messages, and what the proofs need of them.
LEMMA Scripts ==
  /\ \A c \in Senders :
       /\ Len(Script(c)) \in 1..4
       /\ \A i \in 1..Len(Script(c)) : /\ Script(c)[i][1] \in Commands \cup {"DATA", "OPTION"}
                                       /\ Script(c)[i][2] \in Values
  /\ \A c \in Senders : \A i \in 1..Len(Script(c)) :
       Script(c)[i][2] = "BREAK_ON" => c = "Break" /\ i = 1
  /\ Len(Script("Break")) = 2 /\ Script("Break")[1] = <<"SET_CONTROL", "BREAK_ON">>
  /\ Script("Break")[2] = <<"SET_CONTROL", "BREAK_OFF">>
  /\ Len(Script("Close")) = 2 /\ Script("Close")[1] = <<"SET_CONTROL", "RTS_OFF">>
  /\ Script("Close")[2] = <<"PURGE_DATA", "BOTH">>
  /\ Len(Script("ResetInputBuffer")) = 1
  /\ Script("ResetInputBuffer")[1] = <<"PURGE_DATA", "RECEIVE">>
<1> USE DEF Commands, Values
<1>1. Script("Open") = <<<<"OPTION", "request">>, <<"SET_BAUDRATE", "9600">>,
                         <<"SET_CONTROL", "NO_FLOW">>, <<"SET_CONTROL", "RTS_ON">>>>
  BY DEF Script
<1>2. Script("Write") = <<<<"DATA", "request">>>>
  BY DEF Script
<1>3. Script("ResetInputBuffer") = <<<<"PURGE_DATA", "RECEIVE">>>>
  BY DEF Script
<1>4. Script("ResetOutputBuffer") = <<<<"PURGE_DATA", "TRANSMIT">>>>
  BY DEF Script
<1>5. Script("SetDTR") = <<<<"SET_CONTROL", "DTR_ON">>>>
  BY DEF Script
<1>6. Script("Break") = <<<<"SET_CONTROL", "BREAK_ON">>, <<"SET_CONTROL", "BREAK_OFF">>>>
  BY DEF Script
<1>7. Script("Close") = <<<<"SET_CONTROL", "RTS_OFF">>, <<"PURGE_DATA", "BOTH">>>>
  BY DEF Script
<1>8. ASSUME NEW c \in Senders
      PROVE  /\ Len(Script(c)) \in 1..4
             /\ \A i \in 1..Len(Script(c)) : /\ Script(c)[i][1] \in Commands \cup {"DATA", "OPTION"}
                                             /\ Script(c)[i][2] \in Values
             /\ \A i \in 1..Len(Script(c)) : Script(c)[i][2] = "BREAK_ON" => c = "Break" /\ i = 1
  <2>1. CASE c = "Open"
    <3>1. /\ Script(c)[1][1] = "OPTION" /\ Script(c)[1][2] = "request"
          /\ Script(c)[2][1] = "SET_BAUDRATE" /\ Script(c)[2][2] = "9600"
      BY <1>1, <2>1
    <3>2. /\ Script(c)[3][1] = "SET_CONTROL" /\ Script(c)[3][2] = "NO_FLOW"
          /\ Script(c)[4][1] = "SET_CONTROL" /\ Script(c)[4][2] = "RTS_ON"
      BY <1>1, <2>1
    <3>3. Len(Script(c)) = 4
      BY <1>1, <2>1
    <3>4. \A i \in 1..Len(Script(c)) : i = 1 \/ i = 2 \/ i = 3 \/ i = 4
      BY <3>3
    <3>5. \A i \in 1..Len(Script(c)) : /\ Script(c)[i][1] \in Commands \cup {"DATA", "OPTION"}
                                      /\ Script(c)[i][2] \in Values \ {"BREAK_ON"}
      BY <3>1, <3>2, <3>4
    <3> QED
      BY <3>3, <3>5
  <2>2. CASE c = "Write"
    BY <1>2, <2>2
  <2>3. CASE c = "ResetInputBuffer"
    BY <1>3, <2>3
  <2>4. CASE c = "ResetOutputBuffer"
    BY <1>4, <2>4
  <2>5. CASE c = "SetDTR"
    BY <1>5, <2>5
  <2>6. CASE c = "Break"
    BY <1>6, <2>6
  <2>7. CASE c = "Close"
    BY <1>7, <2>7
  <2> QED BY <2>1, <2>2, <2>3, <2>4, <2>5, <2>6, <2>7 DEF Senders, Calls
<1> QED BY <1>3, <1>6, <1>7, <1>8

\* Every step keeps the types of the flags.
LEMMA FlagsKept == Flags /\ [Next]_vars => Flags'
<1> SUFFICES ASSUME Flags, [Next]_vars PROVE Flags'
  OBVIOUS
<1> USE Zenon DEF Flags, Leave, Finish, Succeed, Failed, LastMessage, SetAck, removeAck,
    Switched, caller, history, port, goroutine, server, net
<1>1. CASE Open
  BY <1>1 DEF Open
<1>2. CASE \E c \in Senders : Request(c)
  BY <1>2 DEF Request, NewCall
<1>3. CASE Read
  BY <1>3 DEF Read, NewCall
<1>4. CASE Close
  BY <1>4 DEF Close
<1>5. CASE Send
  BY <1>5 DEF Send
<1>6. CASE Lock
  BY <1>6 DEF Lock
<1>7. CASE Written
  BY <1>7 DEF Written, writeRaw
<1>8. CASE WriteFailed
  BY <1>8 DEF WriteFailed
<1>9. CASE Acknowledged
  BY <1>9 DEF Acknowledged
<1>10. CASE CommandError
  BY <1>10 DEF CommandError
<1>11. CASE Timeout
  BY <1>11 DEF Timeout, OnItsWay
<1>31. CASE EndPause
  BY <1>31 DEF EndPause
<1>12. CASE Drain
  BY <1>12 DEF Drain
<1>13. CASE ReadData
  BY <1>13 DEF ReadData
<1>14. CASE PutBack
  BY <1>14 DEF PutBack
<1>15. CASE ReadNothing
  BY <1>15 DEF ReadNothing
<1>16. CASE Decode
  BY <1>16 DEF Decode, Received
<1>17. CASE pushData
  BY <1>17 DEF pushData
<1>18. CASE handleSubneg
  BY <1>18 DEF handleSubneg, Received
<1>19. CASE handleNegotiation
  BY <1>19 DEF handleNegotiation, Received
<1>20. CASE ReaderLock
  BY <1>20 DEF ReaderLock
<1>21. CASE ReaderWrite
  BY <1>21 DEF ReaderWrite, writeRaw
<1>22. CASE ReaderEnd
  BY <1>22 DEF ReaderEnd
<1>23. CASE ServerExecutes
  BY <1>23 DEF ServerExecutes, ServerReads
<1>24. CASE ServerIgnores
  BY <1>24 DEF ServerIgnores, ServerReads
<1>25. CASE ServerPasses
  BY <1>25 DEF ServerPasses, ServerReads
<1>26. CASE ServerNegotiates
  BY <1>26 DEF ServerNegotiates
<1>27. CASE DeviceSends
  BY <1>27 DEF DeviceSends
<1>28. CASE ServerForwards
  BY <1>28 DEF ServerForwards
<1>29. CASE ConnectionLost
  BY <1>29 DEF ConnectionLost
<1>30. CASE UNCHANGED vars
  BY <1>30 DEF vars
<1> QED
  BY <1>1, <1>2, <1>3, <1>4, <1>5, <1>6, <1>7, <1>8, <1>9, <1>10, <1>11, <1>12, <1>13,
     <1>14, <1>15, <1>16, <1>17, <1>18, <1>19, <1>20, <1>21, <1>22, <1>23, <1>24, <1>25,
     <1>26, <1>27, <1>28, <1>29, <1>30, <1>31
  DEF Next, Caller, Reader, Server, ResetInputBuffer, ResetOutputBuffer, SetDTR, Break, Write,
      Senders, Calls

\* The end of a message that needs no answer or has got it: the next message of
\* the call, or its end.
LEMMA MovedOn ==
  ASSUME Control, CallInv, pc \in {"write", "await"}, Succeed \/ Failed
  PROVE  /\ pc' \in {"send", "ready", "pause", "closed"} /\ call' \in Calls \cup {"none"}
         /\ step' \in 1..4
         /\ call' = "none" <=> pc' \in Idle
         /\ pc' = "send" => call' \in Senders /\ step' <= Len(Script(call'))
         /\ pc' = "pause" => call' = "ResetInputBuffer"
         /\ pc' = "closed" => conn' = "closed"
         /\ pc' # "closed" => conn' = conn
         /\ conn' \in {conn, "closed"} /\ done' \in {done, TRUE}
<1>0. call \in Senders /\ step <= Len(Script(call)) /\ step \in 1..4
  BY DEF CallInv, Control, Sending
<1>1. call \in Senders /\ Len(Script(call)) \in 1..4
  BY <1>0, Scripts
<1>2. ~LastMessage => step + 1 \in 1..4 /\ step + 1 <= Len(Script(call))
  <2>1. \A n \in 1..4, m \in 1..4 : m <= n /\ m # n => m + 1 \in 1..4 /\ m + 1 <= n
    OBVIOUS
  <2> QED BY <1>0, <1>1, <2>1 DEF LastMessage
<1>3. 1 \in 1..4 /\ 1 <= Len(Script("Close")) /\ done \in {done, TRUE} /\ conn \in {conn, "closed"}
  BY Scripts
<1>4. CASE Succeed
  BY ONLY <1>1, <1>2, <1>3, <1>4 DEF Succeed, Finish, Idle, Calls, Senders
<1>5. CASE Failed /\ call = "Close"
  BY <1>4, <1>5 DEF Failed
<1>6. CASE Failed /\ call # "Close"
  BY ONLY <1>1, <1>3, <1>6 DEF Failed, Leave, Idle, Calls, Senders
<1> QED BY <1>4, <1>5, <1>6

\* A call that returns: to its caller, or from Open to Close.
LEMMA Returned ==
  ASSUME CallInv, pc \in {"drain", "read", "put back"}, Leave
  PROVE  pc' = "ready" /\ call' = "none" /\ step' = 1
BY DEF CallInv, Leave

\* The map of the acknowledgements keeps its type.
LEMMA AcksTyped ==
  ASSUME Control, NEW state \in {"none", "waiting", "acked"}, SetAck(state)
  PROVE  /\ acks' \in [Commands -> {"none", "waiting", "acked"}]
         /\ Cmd \in Commands => acks'[Cmd] = state
         /\ \A c \in Commands : c # Cmd => acks'[c] = acks[c]
BY DEF Control, SetAck

\* Only a failure of Break or Close is remembered.
LEMMA FailuresTyped ==
  ASSUME Control, Failed
  PROVE  failed' \in SUBSET {"Break", "Close"}
BY DEF Control, Failed

\* Every step keeps the caller within its call.
LEMMA CallKept == Control /\ CallInv /\ [Next]_vars => CallInv'
<1> SUFFICES ASSUME Control, CallInv, [Next]_vars PROVE CallInv'
  OBVIOUS
<1> USE Scripts DEF Control, CallInv, Labels, Idle, Calls, Senders, Sending, Cmd,
    caller, history, port, goroutine, server, net
<1>1. CASE Open
  BY <1>1 DEF Open
<1>2. CASE \E c \in Senders : Request(c)
  BY <1>2 DEF Request, NewCall
<1>3. CASE Read
  BY <1>3 DEF Read, NewCall
<1>4. CASE Close
  BY <1>4 DEF Close
<1>5. CASE Send
  BY <1>5 DEF Send, SetAck
<1>6. CASE Lock
  BY <1>6 DEF Lock
<1>7. CASE Written
  <2>1. CASE Cmd \in Commands
    BY <1>7, <2>1 DEF Written, writeRaw
  <2>2. CASE Cmd \notin Commands
    BY <1>7, <2>2, MovedOn DEF Written
  <2> QED BY <2>1, <2>2
<1>8. CASE WriteFailed
  BY <1>8, MovedOn DEF WriteFailed
<1>9. CASE Acknowledged
  BY <1>9, MovedOn DEF Acknowledged
<1>10. CASE CommandError
  BY <1>10, MovedOn DEF CommandError
<1>11. CASE Timeout
  BY <1>11, MovedOn DEF Timeout
<1>31. CASE EndPause
  BY <1>31 DEF EndPause
<1>12. CASE Drain
  BY <1>12, Returned DEF Drain
<1>13. CASE ReadData
  <2>1. CASE Leave
    BY <1>13, <2>1, Returned DEF ReadData, Leave
  <2>2. CASE pc' = "put back" /\ UNCHANGED <<call, step>>
    BY <1>13, <2>2 DEF ReadData
  <2> QED BY <1>13, <2>1, <2>2 DEF ReadData
<1>14. CASE PutBack
  BY <1>14, Returned DEF PutBack
<1>15. CASE ReadNothing
  BY <1>15, Returned DEF ReadNothing
<1>16. CASE Decode
  BY <1>16 DEF Decode, Received
<1>17. CASE pushData
  BY <1>17 DEF pushData
<1>18. CASE handleSubneg
  BY <1>18 DEF handleSubneg, Received
<1>19. CASE handleNegotiation
  BY <1>19 DEF handleNegotiation, Received
<1>20. CASE ReaderLock
  BY <1>20 DEF ReaderLock
<1>21. CASE ReaderWrite
  BY <1>21 DEF ReaderWrite, writeRaw
<1>22. CASE ReaderEnd
  BY <1>22 DEF ReaderEnd
<1>23. CASE ServerExecutes
  BY <1>23 DEF ServerExecutes, ServerReads
<1>24. CASE ServerIgnores
  BY <1>24 DEF ServerIgnores, ServerReads
<1>25. CASE ServerPasses
  BY <1>25 DEF ServerPasses, ServerReads
<1>26. CASE ServerNegotiates
  BY <1>26 DEF ServerNegotiates
<1>27. CASE DeviceSends
  BY <1>27 DEF DeviceSends
<1>28. CASE ServerForwards
  BY <1>28 DEF ServerForwards
<1>29. CASE ConnectionLost
  BY <1>29 DEF ConnectionLost
<1>30. CASE UNCHANGED vars
  BY <1>30 DEF vars
<1> QED
  BY <1>1, <1>2, <1>3, <1>4, <1>5, <1>6, <1>7, <1>8, <1>9, <1>10, <1>11, <1>12, <1>13,
     <1>14, <1>15, <1>16, <1>17, <1>18, <1>19, <1>20, <1>21, <1>22, <1>23, <1>24, <1>25,
     <1>26, <1>27, <1>28, <1>29, <1>30, <1>31
  DEF Next, Caller, Reader, Server, ResetInputBuffer, ResetOutputBuffer, SetDTR, Break, Write,
      Senders, Calls

\* Every step keeps the caller, the reader and the maps within their states.
LEMMA ControlKept == Control /\ CallInv /\ [Next]_vars => Control'
<1> SUFFICES ASSUME Control, CallInv, [Next]_vars PROVE Control'
  OBVIOUS
<1> USE DEF Control,
    caller, history, port, goroutine, server, net
<1>1. CASE Open
  BY <1>1 DEF Open, Labels, Idle, Calls
<1>2. CASE \E c \in Senders : Request(c)
  BY <1>2 DEF Request, NewCall, Senders, Labels
<1>3. CASE Read
  BY <1>3 DEF Read, NewCall, Labels, Calls
<1>4. CASE Close
  BY <1>4 DEF Close, Labels, Idle, Calls
<1>5. CASE Send
  BY <1>5, AcksTyped DEF Send, Labels
<1>6. CASE Lock
  BY <1>6 DEF Lock, Labels, Idle, Calls
<1>7. CASE Written
  <2>1. CASE Cmd \in Commands
    BY <1>7, <2>1 DEF Written, writeRaw, Labels
  <2>2. CASE Cmd \notin Commands
    BY <1>7, <2>2, MovedOn DEF Labels, Idle, Written, Succeed, writeRaw
  <2> QED BY <2>1, <2>2
<1>8. CASE WriteFailed
  <2>1. acks' \in [Commands -> {"none", "waiting", "acked"}]
    BY <1>8, AcksTyped DEF WriteFailed, removeAck
  <2> QED BY <1>8, <2>1, MovedOn, FailuresTyped DEF WriteFailed, Labels, Idle
<1>9. CASE Acknowledged
  <2>1. acks' \in [Commands -> {"none", "waiting", "acked"}]
    BY <1>9, AcksTyped DEF Acknowledged, removeAck
  <2> QED BY <1>9, <2>1, MovedOn DEF Acknowledged, Labels, Idle
<1>10. CASE CommandError
  <2>1. acks' \in [Commands -> {"none", "waiting", "acked"}]
    BY <1>10, AcksTyped DEF CommandError, removeAck
  <2> QED BY <1>10, <2>1, MovedOn, FailuresTyped DEF CommandError, Labels, Idle
<1>11. CASE Timeout
  <2>1. acks' \in [Commands -> {"none", "waiting", "acked"}]
    BY <1>11, AcksTyped DEF Timeout, removeAck
  <2> QED BY <1>11, <2>1, MovedOn, FailuresTyped DEF Timeout, Labels, Idle
<1>31. CASE EndPause
  BY <1>31 DEF EndPause, Labels, Idle, Calls
<1>12. CASE Drain
  <2>1. pc' \in Labels
    BY <1>12, Returned DEF Drain, Labels, Idle
  <2>2. Leave \/ UNCHANGED <<call, step>>
    BY <1>12 DEF Drain
  <2>3. pc \in {"drain", "read", "put back"}
    BY <1>12 DEF Drain
  <2>4. call' \in Calls \cup {"none"} /\ step' \in 1..4
    <3>1. CASE Leave
      <4>1. call' = "none" /\ step' = 1
        BY <2>3, <3>1, Returned
      <4> QED BY <4>1
    <3>2. CASE UNCHANGED <<call, step>>
      BY <3>2
    <3> QED BY <2>2, <3>1, <3>2
  <2> QED BY <1>12, <2>1, <2>4 DEF Drain
<1>13. CASE ReadData
  <2>1. pc' \in Labels
    BY <1>13, Returned DEF ReadData, Labels, Idle
  <2>2. Leave \/ UNCHANGED <<call, step>>
    BY <1>13 DEF ReadData
  <2>3. pc \in {"drain", "read", "put back"}
    BY <1>13 DEF ReadData
  <2>4. call' \in Calls \cup {"none"} /\ step' \in 1..4
    <3>1. CASE Leave
      <4>1. call' = "none" /\ step' = 1
        BY <2>3, <3>1, Returned
      <4> QED BY <4>1
    <3>2. CASE UNCHANGED <<call, step>>
      BY <3>2
    <3> QED BY <2>2, <3>1, <3>2
  <2> QED BY <1>13, <2>1, <2>4 DEF ReadData
<1>14. CASE PutBack
  <2>1. pc' \in Labels
    BY <1>14, Returned DEF PutBack, Labels, Idle
  <2>2. Leave \/ UNCHANGED <<call, step>>
    BY <1>14 DEF PutBack
  <2>3. pc \in {"drain", "read", "put back"}
    BY <1>14 DEF PutBack
  <2>4. call' \in Calls \cup {"none"} /\ step' \in 1..4
    <3>1. CASE Leave
      <4>1. call' = "none" /\ step' = 1
        BY <2>3, <3>1, Returned
      <4> QED BY <4>1
    <3>2. CASE UNCHANGED <<call, step>>
      BY <3>2
    <3> QED BY <2>2, <3>1, <3>2
  <2> QED BY <1>14, <2>1, <2>4 DEF PutBack
<1>15. CASE ReadNothing
  <2>1. pc' \in Labels
    BY <1>15, Returned DEF ReadNothing, Labels, Idle
  <2>2. Leave \/ UNCHANGED <<call, step>>
    BY <1>15 DEF ReadNothing
  <2>3. pc \in {"drain", "read", "put back"}
    BY <1>15 DEF ReadNothing
  <2>4. call' \in Calls \cup {"none"} /\ step' \in 1..4
    <3>1. CASE Leave
      <4>1. call' = "none" /\ step' = 1
        BY <2>3, <3>1, Returned
      <4> QED BY <4>1
    <3>2. CASE UNCHANGED <<call, step>>
      BY <3>2
    <3> QED BY <2>2, <3>1, <3>2
  <2> QED BY <1>15, <2>1, <2>4 DEF ReadNothing
<1>16. CASE Decode
  BY <1>16 DEF Decode, Received
<1>17. CASE pushData
  BY <1>17 DEF pushData
<1>18. CASE handleSubneg
  BY <1>18 DEF handleSubneg, Received
<1>19. CASE handleNegotiation
  BY <1>19 DEF handleNegotiation, Received
<1>20. CASE ReaderLock
  BY <1>20 DEF ReaderLock
<1>21. CASE ReaderWrite
  BY <1>21 DEF ReaderWrite, writeRaw
<1>22. CASE ReaderEnd
  BY <1>22 DEF ReaderEnd
<1>23. CASE ServerExecutes
  BY <1>23 DEF ServerExecutes, ServerReads
<1>24. CASE ServerIgnores
  BY <1>24 DEF ServerIgnores, ServerReads
<1>25. CASE ServerPasses
  BY <1>25 DEF ServerPasses, ServerReads
<1>26. CASE ServerNegotiates
  BY <1>26 DEF ServerNegotiates
<1>27. CASE DeviceSends
  BY <1>27 DEF DeviceSends
<1>28. CASE ServerForwards
  BY <1>28 DEF ServerForwards
<1>29. CASE ConnectionLost
  BY <1>29 DEF ConnectionLost
<1>30. CASE UNCHANGED vars
  BY <1>30 DEF vars
<1> QED
  BY <1>1, <1>2, <1>3, <1>4, <1>5, <1>6, <1>7, <1>8, <1>9, <1>10, <1>11, <1>12, <1>13,
     <1>14, <1>15, <1>16, <1>17, <1>18, <1>19, <1>20, <1>21, <1>22, <1>23, <1>24, <1>25,
     <1>26, <1>27, <1>28, <1>29, <1>30, <1>31
  DEF Next, Caller, Reader, Server, ResetInputBuffer, ResetOutputBuffer, SetDTR, Break, Write,
      Senders, Calls

\* The elements of one sequence are among those of another.
DrawnFrom(t, s) == \A k \in DOMAIN t : \E l \in DOMAIN s : t[k] = s[l]

\* Two pieces of a run, the first and the last, hold bytes of it only.
LEMMA LeftOver ==
  ASSUME NEW s \in Seq(Bytes), NEW i \in 0..Len(s), NEW j \in i..Len(s)
  PROVE  /\ SubSeq(s, 1, i) \o SubSeq(s, j + 1, Len(s)) \in Seq(Bytes)
         /\ DrawnFrom(SubSeq(s, 1, i) \o SubSeq(s, j + 1, Len(s)), s)
<1> DEFINE a == SubSeq(s, 1, i)
           b == SubSeq(s, j + 1, Len(s))
<1>1. a \in Seq(Bytes) /\ b \in Seq(Bytes)
  BY PieceTypes
<1>2. \A k \in DOMAIN a : \E l \in DOMAIN s : a[k] = s[l]
  OBVIOUS
<1>3. \A k \in DOMAIN b : \E l \in DOMAIN s : b[k] = s[l]
  <2> SUFFICES ASSUME NEW k \in DOMAIN b PROVE \E l \in DOMAIN s : b[k] = s[l]
    OBVIOUS
  <2>1. k + j \in DOMAIN s /\ b[k] = s[k + j]
    OBVIOUS
  <2> QED BY <2>1
<1> HIDE DEF a, b
<1>4. /\ a \o b \in Seq(Bytes)
      /\ \A k \in DOMAIN (a \o b) :
           \/ k \in DOMAIN a /\ (a \o b)[k] = a[k]
           \/ k - Len(a) \in DOMAIN b /\ (a \o b)[k] = b[k - Len(a)]
  BY <1>1
<1>5. DrawnFrom(a \o b, s)
  BY <1>2, <1>3, <1>4 DEF DrawnFrom
<1> QED BY <1>4, <1>5 DEF a, b

\* A command that is executed leaves bytes in the server that were there before,
\* and a purge tells which.
LEMMA Purged ==
  ASSUME Data, ServerExecutes
  PROVE  /\ serial' \in Seq(Bytes) /\ DrawnFrom(serial', serial)
         /\ unpurged' = unpurged \/ unpurged' = Range(serial')
<1>1. serial \in Seq(Bytes)
  BY DEF Data
<1>2. CASE UNCHANGED <<serial, unpurged>>
  BY <1>1, <1>2 DEF DrawnFrom
<1>3. CASE Purge
  <2>1. PICK i \in 0..Len(serial) : \E j \in i..Len(serial) :
          serial' = SubSeq(serial, 1, i) \o SubSeq(serial, j + 1, Len(serial))
    BY <1>3 DEF Purge
  <2>2. PICK j \in i..Len(serial) :
          serial' = SubSeq(serial, 1, i) \o SubSeq(serial, j + 1, Len(serial))
    BY <2>1
  <2>3. unpurged' = Range(serial')
    BY <1>3 DEF Purge
  <2>4. /\ SubSeq(serial, 1, i) \o SubSeq(serial, j + 1, Len(serial)) \in Seq(Bytes)
        /\ DrawnFrom(SubSeq(serial, 1, i) \o SubSeq(serial, j + 1, Len(serial)), serial)
    BY <1>1, LeftOver
  <2> QED BY <2>2, <2>3, <2>4, Zenon
<1> QED BY <1>2, <1>3 DEF ServerExecutes

\* The first message for the server, and the others.
LEMMA ServerTail ==
  ASSUME Data, toServer # <<>>
  PROVE  /\ Head(toServer) \in ToServer /\ Head(toServer) = toServer[1] /\ 1 \in DOMAIN toServer
         /\ Tail(toServer) \in Seq(ToServer) /\ Len(Tail(toServer)) <= Window
         /\ \A i \in DOMAIN Tail(toServer) :
              i + 1 \in DOMAIN toServer /\ Tail(toServer)[i] = toServer[i + 1]
<1>1. toServer \in Seq(ToServer) /\ Len(toServer) <= Window /\ Window \in Nat
  BY SizesAssumption DEF Data
<1> QED BY <1>1

\* The first run of bytes in the queue, and the others.
LEMMA QueueTail ==
  ASSUME Data, queue # <<>>
  PROVE  /\ Head(queue) \in Seq(Bytes) /\ Head(queue) = queue[1] /\ 1 \in DOMAIN queue
         /\ Tail(queue) \in Seq(Seq(Bytes)) /\ Len(Tail(queue)) <= Cap
         /\ \A i \in DOMAIN Tail(queue) : i + 1 \in DOMAIN queue /\ Tail(queue)[i] = queue[i + 1]
<1>1. queue \in Seq(Seq(Bytes)) /\ Len(queue) <= Cap /\ Cap \in Nat
  BY SizesAssumption DEF Data
<1> QED BY <1>1

\* There is room for one more.
LEMMA QueueMore ==
  ASSUME Data, NEW run \in Seq(Bytes), Len(queue) < Cap
  PROVE  Append(queue, run) \in Seq(Seq(Bytes)) /\ Len(Append(queue, run)) <= Cap
<1>1. queue \in Seq(Seq(Bytes)) /\ Len(queue) \in Nat /\ Cap \in Nat
  BY SizesAssumption DEF Data
<1> QED BY <1>1, AppendType

\* What a call writes is a message.
LEMMA MessageTyped ==
  ASSUME Control, CallInv, Counts, pc \in Sending
  PROVE  Message \in ToServer
<1>1. call \in Senders /\ step \in 1..4 /\ step <= Len(Script(call)) /\ sent \in Nat
  BY DEF Control, CallInv, Counts
<1>2. Len(Script(call)) \in 1..4
  BY <1>1, Scripts
<1>3. \A n \in 1..4, m \in 1..4 : m <= n => m \in 1..n
  OBVIOUS
<1>4. step \in 1..Len(Script(call))
  BY <1>1, <1>2, <1>3
<1>5. /\ Script(call)[step][1] \in Commands \cup {"DATA", "OPTION"}
      /\ Script(call)[step][2] \in Values
  BY <1>1, <1>4, Scripts
<1> QED BY <1>1, <1>5 DEF Message, Cmd, ToServer

\* A write adds a message where there is room, or nothing.
LEMMA WriteTyped ==
  ASSUME Data, NEW m \in ToServer, writeRaw(m)
  PROVE  toServer' \in Seq(ToServer) /\ Len(toServer') <= Window
<1>1. toServer \in Seq(ToServer) /\ Len(toServer) \in Nat /\ Len(toServer) <= Window /\ Window \in Nat
  BY SizesAssumption DEF Data
<1>2. Append(toServer, m) \in Seq(ToServer) /\ Len(Append(toServer, m)) = Len(toServer) + 1
  BY <1>1, AppendType
<1> QED BY <1>1, <1>2 DEF writeRaw

\* What a write adds is numbered like everything before it.
LEMMA NumberedMore ==
  ASSUME Data, Counts, NumberedInv, NEW m, m.id \in 0..sent, writeRaw(m), UNCHANGED sent
  PROVE  \A i \in DOMAIN toServer' : toServer'[i].id <= sent'
<1>1. toServer \in Seq(ToServer)
  BY DEF Data
<1>2. CASE toServer' = toServer
  BY <1>2 DEF NumberedInv
<1>3. CASE toServer' = Append(toServer, m)
  <2>1. DOMAIN toServer' = 1..(Len(toServer) + 1)
    BY <1>1, <1>3
  <2>2. \A i \in DOMAIN toServer' : toServer'[i] = IF i <= Len(toServer) THEN toServer[i] ELSE m
    BY <1>1, <1>3
  <2>3. m.id <= sent
    BY DEF Counts
  <2> QED BY <1>1, <2>1, <2>2, <2>3 DEF NumberedInv
<1> QED BY <1>2, <1>3 DEF writeRaw

\* Every step keeps the types of what is queued and on its way.
LEMMA DataKept == Control /\ CallInv /\ Data /\ Counts /\ [Next]_vars => Data'
<1> SUFFICES ASSUME Control, CallInv, Data, Counts, [Next]_vars PROVE Data'
  OBVIOUS
<1> USE DEF Data, caller, history, port, goroutine, server, net
<1>1. CASE Open
  BY <1>1 DEF Open
<1>2. CASE \E c \in Senders : Request(c)
  BY <1>2 DEF Request, NewCall
<1>3. CASE Read
  BY <1>3 DEF Read, NewCall
<1>4. CASE Close
  BY <1>4 DEF Close
<1>5. CASE Send
  BY <1>5 DEF Send
<1>6. CASE Lock
  BY <1>6 DEF Lock
<1>7. CASE Written
  <2>1. toServer' \in Seq(ToServer) /\ Len(toServer') <= Window
    <3>1. pc \in Sending /\ writeRaw(Message)
      BY <1>7 DEF Written, Sending
    <3>2. Message \in ToServer
      BY <3>1, MessageTyped
    <3> QED BY <3>1, <3>2, WriteTyped
  <2> QED BY <1>7, <2>1 DEF Written
<1>8. CASE WriteFailed
  BY <1>8 DEF WriteFailed
<1>9. CASE Acknowledged
  BY <1>9 DEF Acknowledged
<1>10. CASE CommandError
  BY <1>10 DEF CommandError
<1>11. CASE Timeout
  BY <1>11 DEF Timeout
<1>31. CASE EndPause
  BY <1>31 DEF EndPause
<1>12. CASE Drain
  <2>1. queue # <<>> => Tail(queue) \in Seq(Seq(Bytes)) /\ Len(Tail(queue)) <= Cap
    BY QueueTail
  <2> QED BY <1>12, <2>1 DEF Drain
<1>13. CASE ReadData
  <2>1. /\ Tail(queue) \in Seq(Seq(Bytes)) /\ Len(Tail(queue)) <= Cap
        /\ Head(queue) \in Seq(Bytes)
    BY <1>13, QueueTail DEF ReadData
  <2>2. \A d \in Seq(Bytes) : (IF Len(d) < Buf THEN Len(d) ELSE Buf) \in 0..Len(d)
    BY SizesAssumption
  <2>3. rest' \in Seq(Bytes)
    BY <1>13, <2>1, <2>2, PieceTypes DEF ReadData
  <2> QED BY <1>13, <2>1, <2>3 DEF ReadData
<1>14. CASE PutBack
  <2>1. Append(queue, rest) \in Seq(Seq(Bytes)) /\ Len(Append(queue, rest)) <= Cap
    BY <1>14, QueueMore DEF PutBack
  <2>2. <<>> \in Seq(Bytes)
    OBVIOUS
  <2> QED BY <1>14, <2>1, <2>2 DEF PutBack
<1>15. CASE ReadNothing
  BY <1>15 DEF ReadNothing
<1>16. CASE Decode
  <2>1. Tail(toClient) \in Seq(ToClient) /\ Head(toClient) \in ToClient
    BY <1>16, TailType DEF Decode, Received
  <2> QED BY <1>16, <2>1 DEF Decode, Received, ToClient
<1>17. CASE pushData
  <2>1. Len(queue) < Cap => Append(queue, held) \in Seq(Seq(Bytes)) /\ Len(Append(queue, held)) <= Cap
    BY QueueMore
  <2>2. <<>> \in Seq(Bytes)
    OBVIOUS
  <2> QED BY <1>17, <2>1, <2>2 DEF pushData
<1>18. CASE handleSubneg
  <2>1. Tail(toClient) \in Seq(ToClient) /\ Head(toClient) \in ToClient
    BY <1>18, TailType DEF handleSubneg, Received
  <2> QED BY <1>18, <2>1 DEF handleSubneg, Received
<1>19. CASE handleNegotiation
  <2>1. Tail(toClient) \in Seq(ToClient) /\ Head(toClient) \in ToClient
    BY <1>19, TailType DEF handleNegotiation, Received
  <2> QED BY <1>19, <2>1 DEF handleNegotiation, Received
<1>20. CASE ReaderLock
  BY <1>20 DEF ReaderLock
<1>21. CASE ReaderWrite
  <2>1. [cmd |-> "OPTION", value |-> "reply", id |-> 0] \in ToServer
    BY DEF ToServer, Values
  <2>2. toServer' \in Seq(ToServer) /\ Len(toServer') <= Window
    BY <1>21, <2>1, WriteTyped DEF ReaderWrite
  <2> QED BY <1>21, <2>2 DEF ReaderWrite
<1>22. CASE ReaderEnd
  BY <1>22 DEF ReaderEnd
<1>23. CASE ServerExecutes
  <2>1. Tail(toServer) \in Seq(ToServer) /\ Len(Tail(toServer)) <= Window
    BY <1>23, ServerTail DEF ServerExecutes, ServerReads
  <2>2. Head(toServer) \in ToServer /\ Head(toServer).cmd \in Commands
    BY <1>23, ServerTail DEF ServerExecutes, ServerReads
  <2>3. <<>> \in Seq(Bytes)
    OBVIOUS
  <2>4. [kind |-> "ack", cmd |-> Head(toServer).cmd, id |-> Head(toServer).id, bytes |-> <<>>] \in ToClient
    BY <2>2, <2>3 DEF ToClient, ToServer
  <2>5. toClient' \in Seq(ToClient)
    BY <1>23, <2>4, AppendType DEF ServerExecutes
  <2>6. serial' \in Seq(Bytes)
    BY <1>23, Purged
  <2> QED BY <1>23, <2>1, <2>5, <2>6 DEF ServerExecutes, ServerReads
<1>24. CASE ServerIgnores
  <2>1. Tail(toServer) \in Seq(ToServer) /\ Len(Tail(toServer)) <= Window
    BY <1>24, ServerTail DEF ServerIgnores, ServerReads
  <2> QED BY <1>24, <2>1 DEF ServerIgnores, ServerReads
<1>25. CASE ServerPasses
  <2>1. Tail(toServer) \in Seq(ToServer) /\ Len(Tail(toServer)) <= Window
    BY <1>25, ServerTail DEF ServerPasses, ServerReads
  <2> QED BY <1>25, <2>1 DEF ServerPasses, ServerReads
<1>26. CASE ServerNegotiates
  <2>1. [kind |-> "option", cmd |-> "", id |-> 0, bytes |-> <<>>] \in ToClient
    <3>1. <<>> \in Seq(Bytes)
      OBVIOUS
    <3> QED BY <3>1 DEF ToClient
  <2>2. toClient' \in Seq(ToClient)
    BY <1>26, <2>1, AppendType DEF ServerNegotiates
  <2> QED BY <1>26, <2>2 DEF ServerNegotiates
<1>27. CASE DeviceSends
  <2>1. produced + 1 \in Bytes
    BY <1>27, BoundsAssumption DEF DeviceSends, Counts, Bytes
  <2>2. serial' \in Seq(Bytes)
    BY <1>27, <2>1, AppendType DEF DeviceSends
  <2> QED BY <1>27, <2>2 DEF DeviceSends
<1>28. CASE ServerForwards
  <2>1. PICK n \in 1..Len(serial) :
          /\ toClient' = Append(toClient, [kind |-> "data", cmd |-> "", id |-> 0, bytes |-> SubSeq(serial, 1, n)])
          /\ serial' = SubSeq(serial, n + 1, Len(serial))
    BY <1>28 DEF ServerForwards
  <2>2. SubSeq(serial, 1, n) \in Seq(Bytes) /\ serial' \in Seq(Bytes)
    <3>1. n \in 0..Len(serial)
      OBVIOUS
    <3> QED BY <2>1, <3>1, PieceTypes
  <2>3. [kind |-> "data", cmd |-> "", id |-> 0, bytes |-> SubSeq(serial, 1, n)] \in ToClient
    BY <2>2 DEF ToClient
  <2>4. toClient' \in Seq(ToClient)
    BY <2>1, <2>3, AppendType
  <2> QED BY <1>28, <2>2, <2>4 DEF ServerForwards
<1>29. CASE ConnectionLost
  <2>1. <<>> \in Seq(ToServer) /\ <<>> \in Seq(ToClient) /\ Len(<<>>) <= Window
    BY SizesAssumption
  <2> QED BY <1>29, <2>1 DEF ConnectionLost
<1>30. CASE UNCHANGED vars
  BY <1>30 DEF vars
<1> QED
  BY <1>1, <1>2, <1>3, <1>4, <1>5, <1>6, <1>7, <1>8, <1>9, <1>10, <1>11, <1>12, <1>13,
     <1>14, <1>15, <1>16, <1>17, <1>18, <1>19, <1>20, <1>21, <1>22, <1>23, <1>24, <1>25,
     <1>26, <1>27, <1>28, <1>29, <1>30, <1>31
  DEF Next, Caller, Reader, Server, ResetInputBuffer, ResetOutputBuffer, SetDTR, Break, Write,
      Senders, Calls

\* Every step keeps the counters within their bounds, and no command has a
\* number that has not been given yet.
LEMMA CountsKept == Control /\ CallInv /\ Data /\ Counts /\ NumberedInv /\ [Next]_vars => Counts' /\ NumberedInv'
<1> SUFFICES ASSUME Control, CallInv, Data, Counts, NumberedInv, [Next]_vars
             PROVE  Counts' /\ NumberedInv'
  OBVIOUS
<1> USE BoundsAssumption DEF Counts, NumberedInv, caller, history, port, goroutine, server, net
<1>1. CASE Open
  BY <1>1 DEF Open
<1>2. CASE \E c \in Senders : Request(c)
  BY <1>2 DEF Request, NewCall
<1>3. CASE Read
  BY <1>3 DEF Read, NewCall
<1>4. CASE Close
  BY <1>4 DEF Close
<1>5. CASE Send
  <2>1. sent' \in {sent, sent + 1}
    BY <1>5 DEF Send
  <2>2. \A i \in DOMAIN toServer : toServer[i].id <= sent'
    <3>1. \A i \in DOMAIN toServer : toServer[i].id \in Nat
      <4>1. \A m \in ToServer : m.id \in Nat
        BY DEF ToServer
      <4>2. \A i \in DOMAIN toServer : toServer[i] \in ToServer
        BY DEF Data
      <4> QED BY <4>1, <4>2
    <3> QED BY <2>1, <3>1
  <2> QED BY <1>5, <2>1, <2>2 DEF Send
<1>6. CASE Lock
  BY <1>6 DEF Lock
<1>7. CASE Written
  <2>1. Message.id \in 0..sent
    BY DEF Message
  <2>2. NumberedInv'
    BY <1>7, <2>1, NumberedMore DEF Written
  <2> QED BY <1>7, <2>2 DEF Written
<1>8. CASE WriteFailed
  BY <1>8 DEF WriteFailed
<1>9. CASE Acknowledged
  BY <1>9 DEF Acknowledged
<1>10. CASE CommandError
  BY <1>10 DEF CommandError
<1>11. CASE Timeout
  BY <1>11 DEF Timeout
<1>31. CASE EndPause
  BY <1>31 DEF EndPause
<1>12. CASE Drain
  BY <1>12 DEF Drain
<1>13. CASE ReadData
  BY <1>13 DEF ReadData
<1>14. CASE PutBack
  BY <1>14 DEF PutBack
<1>15. CASE ReadNothing
  BY <1>15 DEF ReadNothing
<1>16. CASE Decode
  BY <1>16 DEF Decode, Received
<1>17. CASE pushData
  BY <1>17 DEF pushData
<1>18. CASE handleSubneg
  BY <1>18 DEF handleSubneg, Received
<1>19. CASE handleNegotiation
  BY <1>19 DEF handleNegotiation, Received
<1>20. CASE ReaderLock
  BY <1>20 DEF ReaderLock
<1>21. CASE ReaderWrite
  <2>1. [cmd |-> "OPTION", value |-> "reply", id |-> 0].id \in 0..sent
    OBVIOUS
  <2>2. NumberedInv'
    BY <1>21, <2>1, NumberedMore DEF ReaderWrite
  <2> QED BY <1>21, <2>2 DEF ReaderWrite
<1>22. CASE ReaderEnd
  BY <1>22 DEF ReaderEnd
<1>23. CASE ServerExecutes
  <2>1. Head(toServer) = toServer[1] /\ 1 \in DOMAIN toServer /\ Head(toServer) \in ToServer
    BY <1>23, ServerTail DEF ServerExecutes, ServerReads
  <2>2. \A i \in DOMAIN Tail(toServer) : i + 1 \in DOMAIN toServer /\ Tail(toServer)[i] = toServer[i + 1]
    BY <1>23, ServerTail DEF ServerExecutes, ServerReads
  <2>3. Head(toServer).id \in Nat
    BY <2>1 DEF ToServer
  <2>4. Counts'
    <3>1. unpurged' \in SUBSET Bytes
      BY <1>23, Purged DEF Range
    <3> QED BY <1>23, <2>1, <2>3, <3>1 DEF ServerExecutes
  <2>5. NumberedInv'
    BY <1>23, <2>2 DEF ServerExecutes, ServerReads
  <2> QED BY <2>4, <2>5
<1>24. CASE ServerIgnores
  <2>1. Head(toServer) = toServer[1] /\ 1 \in DOMAIN toServer /\ Head(toServer) \in ToServer
    BY <1>24, ServerTail DEF ServerIgnores, ServerReads
  <2>2. \A i \in DOMAIN Tail(toServer) : i + 1 \in DOMAIN toServer /\ Tail(toServer)[i] = toServer[i + 1]
    BY <1>24, ServerTail DEF ServerIgnores, ServerReads
  <2>3. Head(toServer).id \in Nat
    BY <2>1 DEF ToServer
  <2>4. Counts'
    BY <1>24, <2>1, <2>3 DEF ServerIgnores
  <2>5. NumberedInv'
    BY <1>24, <2>2 DEF ServerIgnores, ServerReads
  <2> QED BY <2>4, <2>5
<1>25. CASE ServerPasses
  <2>1. Head(toServer) = toServer[1] /\ 1 \in DOMAIN toServer /\ Head(toServer) \in ToServer
    BY <1>25, ServerTail DEF ServerPasses, ServerReads
  <2>2. \A i \in DOMAIN Tail(toServer) : i + 1 \in DOMAIN toServer /\ Tail(toServer)[i] = toServer[i + 1]
    BY <1>25, ServerTail DEF ServerPasses, ServerReads
  <2>3. Head(toServer).id \in Nat
    BY <2>1 DEF ToServer
  <2>4. Counts'
    BY <1>25, <2>1, <2>3 DEF ServerPasses
  <2>5. NumberedInv'
    BY <1>25, <2>2 DEF ServerPasses, ServerReads
  <2> QED BY <2>4, <2>5
<1>26. CASE ServerNegotiates
  <2>1. Counts'
    <3>1. silent' \in 0..MaxSilent
      <4>1. silent < MaxSilent /\ silent' = silent + 1
        BY Zenon, <1>26 DEF ServerNegotiates
      <4> QED BY <4>1
    <3>2. UNCHANGED <<produced, since, fresh, unpurged, overtaken, sent, answered, calls>>
      BY <1>26 DEF ServerNegotiates
    <3> QED BY <3>1, <3>2
  <2>2. NumberedInv'
    BY <1>26 DEF ServerNegotiates
  <2> QED BY <2>1, <2>2
<1>27. CASE DeviceSends
  BY <1>27 DEF DeviceSends
<1>28. CASE ServerForwards
  BY <1>28 DEF ServerForwards
<1>29. CASE ConnectionLost
  BY <1>29 DEF ConnectionLost
<1>30. CASE UNCHANGED vars
  BY <1>30 DEF vars
<1> QED
  BY <1>1, <1>2, <1>3, <1>4, <1>5, <1>6, <1>7, <1>8, <1>9, <1>10, <1>11, <1>12, <1>13,
     <1>14, <1>15, <1>16, <1>17, <1>18, <1>19, <1>20, <1>21, <1>22, <1>23, <1>24, <1>25,
     <1>26, <1>27, <1>28, <1>29, <1>30, <1>31
  DEF Next, Caller, Reader, Server, ResetInputBuffer, ResetOutputBuffer, SetDTR, Break, Write,
      Senders, Calls

\* Every step keeps the goroutines, the connection and what it carries together.
LEMMA ConnKept == Control /\ CallInv /\ Data /\ ConnInv /\ [Next]_vars => ConnInv'
<1> SUFFICES ASSUME Control, CallInv, Data, ConnInv, [Next]_vars PROVE ConnInv'
  OBVIOUS
<1> USE DEF ConnInv, caller, history, port, goroutine, server, net
<1>1. CASE Open
  BY <1>1 DEF Open
<1>2. CASE \E c \in Senders : Request(c)
  BY <1>2 DEF Request, NewCall
<1>3. CASE Read
  BY <1>3 DEF Read, NewCall
<1>4. CASE Close
  BY <1>4 DEF Close
<1>5. CASE Send
  BY <1>5 DEF Send
<1>6. CASE Lock
  BY <1>6 DEF Lock
<1>7. CASE Written
  BY <1>7, MovedOn DEF Written, writeRaw
<1>8. CASE WriteFailed
  BY <1>8, MovedOn DEF WriteFailed
<1>9. CASE Acknowledged
  BY <1>9, MovedOn DEF Acknowledged
<1>10. CASE CommandError
  BY <1>10, MovedOn DEF CommandError
<1>11. CASE Timeout
  BY <1>11, MovedOn DEF Timeout
<1>31. CASE EndPause
  BY <1>31 DEF EndPause
<1>12. CASE Drain
  BY <1>12, Returned DEF Drain
<1>13. CASE ReadData
  BY <1>13, Returned DEF ReadData
<1>14. CASE PutBack
  BY <1>14, Returned DEF PutBack
<1>15. CASE ReadNothing
  <2>1. errCh' => errCh
    BY Zenon, <1>15 DEF ReadNothing
  <2> QED BY <1>15, <2>1, Returned DEF ReadNothing
<1>16. CASE Decode
  BY <1>16 DEF Decode, Received
<1>17. CASE pushData
  BY <1>17 DEF pushData
<1>18. CASE handleSubneg
  BY <1>18 DEF handleSubneg, Received
<1>19. CASE handleNegotiation
  BY <1>19 DEF handleNegotiation, Received
<1>20. CASE ReaderLock
  BY <1>20 DEF ReaderLock
<1>21. CASE ReaderWrite
  BY <1>21 DEF ReaderWrite, writeRaw
<1>22. CASE ReaderEnd
  BY <1>22 DEF ReaderEnd
<1>23. CASE ServerExecutes
  BY <1>23 DEF ServerExecutes, ServerReads
<1>24. CASE ServerIgnores
  BY <1>24 DEF ServerIgnores, ServerReads
<1>25. CASE ServerPasses
  BY <1>25 DEF ServerPasses, ServerReads
<1>26. CASE ServerNegotiates
  BY <1>26 DEF ServerNegotiates
<1>27. CASE DeviceSends
  BY <1>27 DEF DeviceSends
<1>28. CASE ServerForwards
  BY <1>28 DEF ServerForwards
<1>29. CASE ConnectionLost
  BY <1>29 DEF ConnectionLost
<1>30. CASE UNCHANGED vars
  BY <1>30 DEF vars
<1> QED
  BY <1>1, <1>2, <1>3, <1>4, <1>5, <1>6, <1>7, <1>8, <1>9, <1>10, <1>11, <1>12, <1>13,
     <1>14, <1>15, <1>16, <1>17, <1>18, <1>19, <1>20, <1>21, <1>22, <1>23, <1>24, <1>25,
     <1>26, <1>27, <1>28, <1>29, <1>30, <1>31
  DEF Next, Caller, Reader, Server, ResetInputBuffer, ResetOutputBuffer, SetDTR, Break, Write,
      Senders, Calls

-----------------------------------------------------------------------------
(* Commands and their acknowledgements.                                    *)

\* An appended element comes last.
LEMMA MoreAt ==
  ASSUME NEW P, NEW s \in Seq(P), NEW e \in P
  PROVE  /\ DOMAIN s \subseteq DOMAIN Append(s, e)
         /\ \A i \in DOMAIN s : Append(s, e)[i] = s[i]
         /\ \A i \in DOMAIN Append(s, e) :
              (i \in DOMAIN s) \/ (i = Len(s) + 1 /\ Append(s, e)[i] = e)
OBVIOUS

\* The first message for the client, and the others.
LEMMA ClientTail ==
  ASSUME Data, toClient # <<>>
  PROVE  /\ Head(toClient) \in ToClient /\ Head(toClient) = toClient[1] /\ 1 \in DOMAIN toClient
         /\ Tail(toClient) \in Seq(ToClient)
         /\ \A i \in DOMAIN Tail(toClient) :
              i \in Nat \ {0} /\ i + 1 \in DOMAIN toClient /\ Tail(toClient)[i] = toClient[i + 1]
<1>1. toClient \in Seq(ToClient)
  BY DEF Data
<1> QED BY <1>1

\* While no command is on its way there is nothing to prove.
NothingSent ==
  /\ \A i \in DOMAIN toServer : ~IsCommand(toServer[i])
  /\ \A i \in DOMAIN toClient : ~IsAck(toClient[i])
  /\ \A c \in Commands : acks[c] # "acked"

\* Nothing is on its way before the command is written.
LEMMA NotAwaiting ==
  ASSUME OneCommand, ~late, conn # "closed", pc # "await"
  PROVE  NothingSent
BY DEF OneCommand, NothingSent

\* When the acknowledgement has come, nothing else is on its way.
LEMMA AckIsLast ==
  ASSUME Control, CallInv, ConnInv, Counts, OneCommand, ~late, pc = "await", acks[Cmd] = "acked"
  PROVE  /\ answered = sent
         /\ \A i \in DOMAIN toServer : ~IsCommand(toServer[i])
         /\ \A i \in DOMAIN toClient : ~IsAck(toClient[i])
<1>1. Cmd \in Commands /\ conn # "closed"
  BY DEF CallInv, ConnInv
<1>2. answered = sent
  BY <1>1 DEF OneCommand
<1>3. ~(answered < sent)
  BY <1>2 DEF Counts
<1> QED BY <1>1, <1>2, <1>3 DEF OneCommand

\* When nothing of a command is on its way, the call moves on with nothing sent.
LEMMA AcksCleared ==
  ASSUME Control, CallInv, ConnInv, Counts, OneCommand, ~late, pc = "await", removeAck,
         \A i \in DOMAIN toServer : ~IsCommand(toServer[i]),
         \A i \in DOMAIN toClient : ~IsAck(toClient[i]),
         UNCHANGED <<toServer, toClient>>
  PROVE  NothingSent'
<1>1. conn # "closed"
  BY DEF ConnInv
<1>2. \A c \in Commands : acks[c] = "acked" => c = Cmd
  BY <1>1 DEF OneCommand
<1>3. \A c \in Commands : acks'[c] # "acked"
  BY <1>2 DEF removeAck, SetAck
<1> QED BY <1>3 DEF NothingSent, IsCommand, IsAck

\* What NothingSent leaves to prove.
LEMMA NothingSentSuffices ==
  ASSUME NothingSent', pc' \in {"lock", "write"} /\ Cmd' \in Commands => answered' < sent'
  PROVE  OneCommand'
BY DEF NothingSent, OneCommand


\* A step of the caller that sends nothing, away from a command.
LEMMA QuietMove ==
  ASSUME OneCommand, ~late, conn # "closed", pc # "await", pc' \notin {"lock", "write"},
         UNCHANGED <<toServer, toClient, acks>>
  PROVE  OneCommand'
<1>1. NothingSent
  BY NotAwaiting
<1>2. NothingSent'
  BY <1>1 DEF NothingSent, IsCommand, IsAck
<1> QED BY <1>2, NothingSentSuffices

\* The call moves on when nothing of its command is left.
LEMMA CommandOver ==
  ASSUME Control, CallInv, ConnInv, Counts, OneCommand, ~late, pc = "await", removeAck,
         \A i \in DOMAIN toServer : ~IsCommand(toServer[i]),
         \A i \in DOMAIN toClient : ~IsAck(toClient[i]),
         UNCHANGED <<toServer, toClient>>, Succeed \/ Failed
  PROVE  OneCommand'
<1>1. pc' \notin {"lock", "write"}
  BY MovedOn
<1> QED BY <1>1, AcksCleared, NothingSentSuffices

\* A step that leaves the caller alone and adds neither command nor acknowledgement.
LEMMA NothingNew ==
  ASSUME OneCommand, ~late, conn # "closed", UNCHANGED <<caller, acks, answered>>,
         NEW k \in {0, 1}, NEW n \in {0, 1},
         \A i \in DOMAIN toServer' : IsCommand(toServer'[i]) =>
           i \in Nat /\ i + k \in DOMAIN toServer /\ toServer'[i] = toServer[i + k],
         \A i \in DOMAIN toClient' : IsAck(toClient'[i]) =>
           i \in Nat /\ i + n \in DOMAIN toClient /\ toClient'[i] = toClient[i + n]
  PROVE  OneCommand'
<1>1. Message' = Message /\ Cmd' = Cmd /\ pc' = pc /\ sent' = sent /\ acks' = acks /\ answered' = answered
  BY DEF caller, Message, Cmd
<1>2. \A i \in DOMAIN toServer' : IsCommand(toServer'[i]) =>
        pc = "await" /\ toServer'[i] = Message /\ answered < sent
  BY DEF OneCommand
<1>3. \A i, j \in DOMAIN toServer' : IsCommand(toServer'[i]) /\ IsCommand(toServer'[j]) => i = j
  <2> SUFFICES ASSUME NEW i \in DOMAIN toServer', NEW j \in DOMAIN toServer',
                      IsCommand(toServer'[i]), IsCommand(toServer'[j])
               PROVE  i = j
    OBVIOUS
  <2>1. i + k = j + k
    BY DEF OneCommand
  <2> QED BY <2>1
<1>4. \A i \in DOMAIN toClient' : IsAck(toClient'[i]) =>
        /\ pc = "await" /\ toClient'[i].cmd = Cmd /\ toClient'[i].id = sent
        /\ answered = sent /\ acks[Cmd] = "waiting"
  BY DEF OneCommand
<1>5. \A i, j \in DOMAIN toClient' : IsAck(toClient'[i]) /\ IsAck(toClient'[j]) => i = j
  <2> SUFFICES ASSUME NEW i \in DOMAIN toClient', NEW j \in DOMAIN toClient',
                      IsAck(toClient'[i]), IsAck(toClient'[j])
               PROVE  i = j
    OBVIOUS
  <2>1. i + n = j + n
    BY DEF OneCommand
  <2> QED BY <2>1
<1>6. /\ \A c \in Commands : acks[c] = "acked" => pc = "await" /\ c = Cmd /\ answered = sent
      /\ pc \in {"lock", "write"} /\ Cmd \in Commands => answered < sent
  BY DEF OneCommand
<1> QED BY <1>1, <1>2, <1>3, <1>4, <1>5, <1>6 DEF OneCommand, IsCommand, IsAck

\* The command is written.
LEMMA OneWritten ==
  ASSUME Control, CallInv, ConnInv, Data, Counts, OneCommand, ~late, conn # "closed", Written
  PROVE  OneCommand'
<1>1. NothingSent /\ pc = "write" /\ UNCHANGED <<acks, toClient, sent, answered>>
  BY NotAwaiting DEF Written, server
<1>2. \A i \in DOMAIN toServer' : IsCommand(toServer'[i]) => i \notin DOMAIN toServer /\ i = Len(toServer) + 1 /\ toServer'[i] = Message
  <2>1. CASE toServer' = toServer
    BY <1>1, <2>1 DEF NothingSent
  <2>2. CASE toServer' = Append(toServer, Message)
    <3>1. toServer \in Seq(ToServer)
      BY DEF Data
    <3>2. Message \in ToServer
      BY <1>1, MessageTyped DEF Sending
    <3> QED BY <1>1, <2>2, <3>1, <3>2, MoreAt DEF NothingSent
  <2> QED BY <2>1, <2>2 DEF Written, writeRaw
<1>3. CASE Cmd \in Commands
  <2>1. pc' = "await" /\ Cmd' = Cmd /\ Message' = Message
    BY <1>1, <1>3 DEF Written, Cmd, Message
  <2>2. answered < sent
    BY <1>1, <1>3 DEF OneCommand
  <2>3. \A i, j \in DOMAIN toServer' : IsCommand(toServer'[i]) /\ IsCommand(toServer'[j]) => i = j
    BY <1>2
  <2> QED BY <1>1, <1>2, <2>1, <2>2, <2>3 DEF OneCommand, NothingSent, IsCommand, IsAck
<1>4. CASE Cmd \notin Commands
  <2>1. \A i \in DOMAIN toServer' : ~IsCommand(toServer'[i])
    BY <1>2, <1>4 DEF IsCommand, Message
  <2>2. NothingSent'
    BY <1>1, <2>1 DEF NothingSent, IsCommand, IsAck
  <2>3. pc' \notin {"lock", "write"}
    BY <1>1, <1>4, MovedOn DEF Written
  <2> QED BY <2>2, <2>3, NothingSentSuffices
<1> QED BY <1>3, <1>4

\* The command is executed: it is answered, and its acknowledgement is the only one.
LEMMA OneExecuted ==
  ASSUME Control, CallInv, ConnInv, Data, Counts, OneCommand, ~late, conn # "closed", ServerExecutes
  PROVE  OneCommand'
<1> DEFINE m == Head(toServer)
           ack == [kind |-> "ack", cmd |-> m.cmd, id |-> m.id, bytes |-> <<>>]
<1>1. /\ toServer # <<>> /\ m.cmd \in Commands /\ toServer' = Tail(toServer)
      /\ toClient' = Append(toClient, ack) /\ answered' = m.id
      /\ UNCHANGED <<caller, acks>>
  BY DEF ServerExecutes, ServerReads, port
<1>2. m \in ToServer /\ m = toServer[1] /\ 1 \in DOMAIN toServer
  BY <1>1, ServerTail
<1>3. pc = "await" /\ m = Message /\ answered < sent
  BY <1>1, <1>2 DEF OneCommand, IsCommand
<1>4. Cmd \in Commands /\ m.cmd = Cmd /\ m.id = sent
  BY <1>3 DEF CallInv, Message
<1>5. \A i \in DOMAIN toServer' : ~IsCommand(toServer'[i])
  <2> SUFFICES ASSUME NEW i \in DOMAIN toServer', IsCommand(toServer'[i]) PROVE FALSE
    OBVIOUS
  <2>1. i \in Nat \ {0} /\ i + 1 \in DOMAIN toServer /\ toServer'[i] = toServer[i + 1]
    <3>1. toServer \in Seq(ToServer)
      BY DEF Data
    <3> QED BY <1>1, <3>1
  <2>2. i + 1 = 1
    BY <1>1, <1>2, <2>1 DEF OneCommand, IsCommand
  <2> QED BY <2>1, <2>2
<1>6. \A i \in DOMAIN toClient : ~IsAck(toClient[i])
  <2>1. answered # sent
    BY <1>3 DEF Counts
  <2> QED BY <2>1 DEF OneCommand
<1>7. \A i \in DOMAIN toClient' : IsAck(toClient'[i]) => i = Len(toClient) + 1 /\ toClient'[i] = ack
  <2>1. toClient \in Seq(ToClient)
    BY DEF Data
  <2>2. <<>> \in Seq(Bytes)
    OBVIOUS
  <2>3. ack \in ToClient
    BY <1>1, <1>2, <2>2 DEF ToClient, ToServer
  <2> QED BY ONLY <1>1, <1>6, <2>1, <2>3, MoreAt
<1>8. acks[Cmd] = "waiting"
  <2>1. acks[Cmd] # "acked"
    <3>1. answered # sent
      BY <1>3 DEF Counts
    <3> QED BY <1>4, <3>1 DEF OneCommand
  <2>2. acks[Cmd] # "none"
    BY <1>3, <1>4 DEF CallInv
  <2> QED BY <1>4, <2>1, <2>2 DEF Control
<1>9. \A c \in Commands : acks[c] # "acked"
  <2>1. answered # sent
    BY <1>3 DEF Counts
  <2> QED BY <2>1 DEF OneCommand
<1>10. pc' = pc /\ Cmd' = Cmd /\ sent' = sent /\ acks' = acks
  BY <1>1 DEF caller, Cmd
<1>11. \A i \in DOMAIN toClient' : IsAck(toClient'[i]) =>
         toClient'[i].cmd = Cmd /\ toClient'[i].id = sent
  BY <1>4, <1>7
<1>12. \A i, j \in DOMAIN toClient' : IsAck(toClient'[i]) /\ IsAck(toClient'[j]) => i = j
  BY <1>7
<1> HIDE DEF m, ack
<1> QED BY <1>1, <1>3, <1>4, <1>5, <1>8, <1>9, <1>10, <1>11, <1>12 DEF OneCommand, IsCommand, IsAck

\* The acknowledgement is handed to the caller.
LEMMA OneAcknowledged ==
  ASSUME Control, CallInv, Data, Counts, OneCommand, ~late, conn # "closed", handleSubneg
  PROVE  OneCommand'
<1>1. /\ toClient # <<>> /\ IsAck(Head(toClient)) /\ toClient' = Tail(toClient)
      /\ acks' = [c \in Commands |-> IF c = Head(toClient).cmd /\ acks[c] = "waiting" THEN "acked" ELSE acks[c]]
      /\ UNCHANGED <<caller, toServer, answered>>
  BY DEF handleSubneg, Received, IsAck, server
<1>2. Head(toClient) = toClient[1] /\ 1 \in DOMAIN toClient
  BY <1>1, ClientTail
<1>3. pc = "await" /\ Head(toClient).cmd = Cmd /\ answered = sent
  BY <1>1, <1>2 DEF OneCommand
<1>4. \A i \in DOMAIN toClient' : ~IsAck(toClient'[i])
  <2> SUFFICES ASSUME NEW i \in DOMAIN toClient', IsAck(toClient'[i]) PROVE FALSE
    OBVIOUS
  <2>1. i \in Nat \ {0} /\ i + 1 \in DOMAIN toClient /\ toClient'[i] = toClient[i + 1]
    BY <1>1, ClientTail
  <2>2. i + 1 = 1
    BY <1>1, <1>2, <2>1 DEF OneCommand
  <2> QED BY <2>1, <2>2
<1>5. \A i \in DOMAIN toServer : ~IsCommand(toServer[i])
  <2>1. ~(answered < sent)
    BY <1>3 DEF Counts
  <2> QED BY <2>1 DEF OneCommand
<1>6. \A c \in Commands : acks'[c] = "acked" => c = Cmd
  BY <1>1, <1>3 DEF OneCommand
<1>7. pc' = pc /\ Cmd' = Cmd /\ sent' = sent /\ answered' = answered /\ toServer' = toServer
  BY <1>1 DEF caller, Cmd
<1> QED BY <1>3, <1>4, <1>5, <1>6, <1>7 DEF OneCommand, IsCommand, IsAck


\* A history that has become true stays so, and a closed connection closed.
LEMMA Irrevocable ==
  [Next]_vars => (late => late') /\ (ConnInv /\ Control /\ CallInv /\ conn = "closed" => conn' = "closed")
<1> SUFFICES ASSUME [Next]_vars
             PROVE  (late => late') /\ (ConnInv /\ Control /\ CallInv /\ conn = "closed" => conn' = "closed")
  OBVIOUS
<1> USE DEF ConnInv, caller, history, port, goroutine, server, net
<1>1. CASE Open
  BY <1>1 DEF Open
<1>2. CASE \E c \in Senders : Request(c)
  BY <1>2 DEF Request, NewCall
<1>3. CASE Read
  BY <1>3 DEF Read, NewCall
<1>4. CASE Close
  BY <1>4 DEF Close
<1>5. CASE Send
  BY <1>5 DEF Send
<1>6. CASE Lock
  BY <1>6 DEF Lock
<1>7. CASE Written
  BY <1>7 DEF Written, writeRaw
<1>8. CASE WriteFailed
  BY <1>8 DEF WriteFailed
<1>9. CASE Acknowledged
  BY <1>9 DEF Acknowledged
<1>10. CASE CommandError
  BY <1>10 DEF CommandError
<1>11. CASE Timeout
  BY <1>11 DEF Timeout
<1>31. CASE EndPause
  BY <1>31 DEF EndPause
<1>12. CASE Drain
  BY <1>12 DEF Drain
<1>13. CASE ReadData
  BY <1>13 DEF ReadData
<1>14. CASE PutBack
  BY <1>14 DEF PutBack
<1>15. CASE ReadNothing
  BY <1>15 DEF ReadNothing
<1>16. CASE Decode
  BY <1>16 DEF Decode, Received
<1>17. CASE pushData
  BY <1>17 DEF pushData
<1>18. CASE handleSubneg
  BY <1>18 DEF handleSubneg, Received
<1>19. CASE handleNegotiation
  BY <1>19 DEF handleNegotiation, Received
<1>20. CASE ReaderLock
  BY <1>20 DEF ReaderLock
<1>21. CASE ReaderWrite
  BY <1>21 DEF ReaderWrite, writeRaw
<1>22. CASE ReaderEnd
  BY <1>22 DEF ReaderEnd
<1>23. CASE ServerExecutes
  BY <1>23 DEF ServerExecutes, ServerReads
<1>24. CASE ServerIgnores
  BY <1>24 DEF ServerIgnores, ServerReads
<1>25. CASE ServerPasses
  BY <1>25 DEF ServerPasses, ServerReads
<1>26. CASE ServerNegotiates
  BY <1>26 DEF ServerNegotiates
<1>27. CASE DeviceSends
  BY <1>27 DEF DeviceSends
<1>28. CASE ServerForwards
  BY <1>28 DEF ServerForwards
<1>29. CASE ConnectionLost
  BY <1>29 DEF ConnectionLost
<1>30. CASE UNCHANGED vars
  BY <1>30 DEF vars
<1> QED
  BY <1>1, <1>2, <1>3, <1>4, <1>5, <1>6, <1>7, <1>8, <1>9, <1>10, <1>11, <1>12, <1>13,
     <1>14, <1>15, <1>16, <1>17, <1>18, <1>19, <1>20, <1>21, <1>22, <1>23, <1>24, <1>25,
     <1>26, <1>27, <1>28, <1>29, <1>30, <1>31
  DEF Next, Caller, Reader, Server, ResetInputBuffer, ResetOutputBuffer, SetDTR, Break, Write,
      Senders, Calls

\* Nothing changes on the way.
LEMMA NothingUnchanged ==
  ASSUME OneCommand, ~late, conn # "closed",
         UNCHANGED <<caller, acks, toServer, toClient, answered>>
  PROVE  OneCommand'
<1>1. Message' = Message /\ Cmd' = Cmd /\ pc' = pc /\ sent' = sent
  BY DEF caller, Message, Cmd
<1> QED BY <1>1 DEF OneCommand, IsCommand, IsAck

\* The server takes a message that it does not answer.
LEMMA ServerLess ==
  ASSUME Data, OneCommand, ~late, conn # "closed", toServer # <<>>, toServer' = Tail(toServer),
         UNCHANGED <<caller, acks, toClient, answered>>
  PROVE  OneCommand'
<1>1. toServer \in Seq(ToServer) /\ toClient \in Seq(ToClient)
  BY DEF Data
<1>2. \A i \in DOMAIN toServer' :
        i \in Nat /\ i + 1 \in DOMAIN toServer /\ toServer'[i] = toServer[i + 1]
  BY <1>1
<1>3. \A i \in DOMAIN toClient' :
        i \in Nat /\ i + 0 \in DOMAIN toClient /\ toClient'[i] = toClient[i + 0]
  BY <1>1
<1> QED BY <1>2, <1>3, NothingNew

\* The same for the reader.
LEMMA ClientLess ==
  ASSUME Data, OneCommand, ~late, conn # "closed", toClient # <<>>, toClient' = Tail(toClient),
         UNCHANGED <<caller, acks, toServer, answered>>
  PROVE  OneCommand'
<1>1. toServer \in Seq(ToServer)
  BY DEF Data
<1>2. \A i \in DOMAIN toServer' :
        i \in Nat /\ i + 0 \in DOMAIN toServer /\ toServer'[i] = toServer[i + 0]
  BY <1>1
<1>3. \A i \in DOMAIN toClient' :
        i \in Nat /\ i + 1 \in DOMAIN toClient /\ toClient'[i] = toClient[i + 1]
  BY ClientTail
<1> QED BY <1>2, <1>3, NothingNew

\* A command is registered.
LEMMA OneSent ==
  ASSUME Control, CallInv, Counts, OneCommand, ~late, conn # "closed", Send
  PROVE  OneCommand'
<1>1. /\ pc = "send" /\ pc' = "lock" /\ SetAck("waiting") /\ Cmd' = Cmd
      /\ UNCHANGED <<toServer, toClient, answered>>
      /\ Cmd \in Commands => sent' = sent + 1
  BY DEF Send, Cmd, net, server
<1>2. NothingSent
  BY <1>1, NotAwaiting
<1>3. \A c \in Commands : acks'[c] # "acked"
  BY <1>1, <1>2 DEF SetAck, NothingSent
<1>4. NothingSent'
  BY <1>1, <1>2, <1>3 DEF NothingSent, IsCommand, IsAck
<1>5. Cmd' \in Commands => answered' < sent'
  BY <1>1 DEF Counts
<1> QED BY <1>4, <1>5, NothingSentSuffices

\* The caller gets the mutex.
LEMMA OneLocked ==
  ASSUME OneCommand, ~late, conn # "closed", Lock
  PROVE  OneCommand'
<1>1. /\ pc = "lock" /\ pc' = "write" /\ Cmd' = Cmd
      /\ UNCHANGED <<toServer, toClient, answered, acks, sent>>
  BY DEF Lock, Cmd, net, server
<1>2. NothingSent /\ (Cmd \in Commands => answered < sent)
  BY <1>1, NotAwaiting DEF OneCommand
<1>3. NothingSent'
  BY <1>1, <1>2 DEF NothingSent, IsCommand, IsAck
<1> QED BY <1>1, <1>2, <1>3, NothingSentSuffices

\* The write fails.
LEMMA OneUnwritten ==
  ASSUME Control, CallInv, OneCommand, ~late, conn # "closed", WriteFailed
  PROVE  OneCommand'
<1>1. /\ pc = "write" /\ removeAck /\ Failed
      /\ UNCHANGED <<toServer, toClient>>
  BY DEF WriteFailed
<1>2. NothingSent
  BY <1>1, NotAwaiting
<1>3. \A c \in Commands : acks'[c] # "acked"
  BY <1>1, <1>2 DEF removeAck, SetAck, NothingSent
<1>4. NothingSent'
  BY <1>1, <1>2, <1>3 DEF NothingSent, IsCommand, IsAck
<1>5. pc' \notin {"lock", "write"}
  BY <1>1, MovedOn
<1> QED BY <1>4, <1>5, NothingSentSuffices

\* A timeout that leaves late false leaves nothing on its way.
LEMMA OneForgotten ==
  ASSUME Control, CallInv, ConnInv, Counts, OneCommand, ~late, conn # "closed", Timeout, ~late'
  PROVE  OneCommand'
<1>1. /\ pc = "await" /\ removeAck /\ Failed /\ ~OnItsWay
      /\ UNCHANGED <<toServer, toClient>>
  BY DEF Timeout
<1>2. Cmd \in Commands
  BY <1>1 DEF CallInv
<1>3. \A i \in DOMAIN toServer : ~IsCommand(toServer[i])
  <2>1. Message.id = sent
    BY <1>2 DEF Message
  <2> QED BY <1>1, <2>1 DEF OneCommand, OnItsWay
<1>4. \A i \in DOMAIN toClient : ~IsAck(toClient[i])
  BY <1>1 DEF OneCommand, OnItsWay
<1> QED BY <1>1, <1>3, <1>4, CommandOver

\* The reader's reply is no command.
LEMMA OneReplied ==
  ASSUME Data, OneCommand, ~late, conn # "closed", ReaderWrite
  PROVE  OneCommand'
<1> DEFINE m == [cmd |-> "OPTION", value |-> "reply", id |-> 0]
<1>1. /\ toServer' = toServer \/ toServer' = Append(toServer, m)
      /\ UNCHANGED <<caller, acks, toClient, answered>>
  BY DEF ReaderWrite, writeRaw, server
<1>2. m \in ToServer /\ ~IsCommand(m)
  BY DEF ToServer, Values, IsCommand, Commands
<1>3. toServer \in Seq(ToServer) /\ toClient \in Seq(ToClient)
  BY DEF Data
<1> HIDE DEF m
<1>4. \A i \in DOMAIN toServer' : IsCommand(toServer'[i]) =>
        i \in Nat /\ i + 0 \in DOMAIN toServer /\ toServer'[i] = toServer[i + 0]
  <2>1. CASE toServer' = toServer
    BY <1>3, <2>1
  <2>2. CASE toServer' = Append(toServer, m)
    <3>1. \A i \in DOMAIN toServer' : IsCommand(toServer'[i]) => i \in DOMAIN toServer /\ toServer'[i] = toServer[i]
      BY <1>2, <1>3, <2>2, MoreAt
    <3> QED BY <1>3, <3>1
  <2> QED BY <1>1, <2>1, <2>2
<1>5. \A i \in DOMAIN toClient' : i \in Nat /\ i + 0 \in DOMAIN toClient /\ toClient'[i] = toClient[i + 0]
  BY <1>1, <1>3
<1> QED BY <1>1, <1>4, <1>5, NothingNew

\* What the server sends of its own, and the device through it, acknowledges nothing.
LEMMA OneForwarded ==
  ASSUME Data, OneCommand, ~late, conn # "closed", ServerNegotiates \/ ServerForwards
  PROVE  OneCommand'
<1>1. /\ UNCHANGED <<caller, acks, toServer, answered>>
      /\ \E m \in ToClient : ~IsAck(m) /\ toClient' = Append(toClient, m)
  <2>1. CASE ServerNegotiates
    <3>1. <<>> \in Seq(Bytes)
      OBVIOUS
    <3>2. [kind |-> "option", cmd |-> "", id |-> 0, bytes |-> <<>>] \in ToClient
      BY <3>1 DEF ToClient
    <3>3. ~IsAck([kind |-> "option", cmd |-> "", id |-> 0, bytes |-> <<>>])
      BY DEF IsAck
    <3> QED BY <2>1, <3>2, <3>3 DEF ServerNegotiates, port
  <2>2. CASE ServerForwards
    <3>1. PICK n \in 1..Len(serial) :
            toClient' = Append(toClient, [kind |-> "data", cmd |-> "", id |-> 0, bytes |-> SubSeq(serial, 1, n)])
      BY <2>2 DEF ServerForwards
    <3>2. SubSeq(serial, 1, n) \in Seq(Bytes)
      <4>1. n \in 0..Len(serial) /\ serial \in Seq(Bytes)
        BY DEF Data
      <4> QED BY <4>1, PieceTypes
    <3>3. [kind |-> "data", cmd |-> "", id |-> 0, bytes |-> SubSeq(serial, 1, n)] \in ToClient
      BY <3>2 DEF ToClient
    <3>4. ~IsAck([kind |-> "data", cmd |-> "", id |-> 0, bytes |-> SubSeq(serial, 1, n)])
      BY DEF IsAck
    <3> QED BY <2>2, <3>1, <3>3, <3>4 DEF ServerForwards, port
  <2> QED BY <2>1, <2>2
<1>2. PICK m \in ToClient : ~IsAck(m) /\ toClient' = Append(toClient, m)
  BY <1>1
<1>3. toServer \in Seq(ToServer) /\ toClient \in Seq(ToClient)
  BY DEF Data
<1>4. \A i \in DOMAIN toServer' : i \in Nat /\ i + 0 \in DOMAIN toServer /\ toServer'[i] = toServer[i + 0]
  BY <1>1, <1>3
<1>5. \A i \in DOMAIN toClient' : IsAck(toClient'[i]) =>
        i \in Nat /\ i + 0 \in DOMAIN toClient /\ toClient'[i] = toClient[i + 0]
  <2>1. \A i \in DOMAIN toClient' : IsAck(toClient'[i]) => i \in DOMAIN toClient /\ toClient'[i] = toClient[i]
    BY <1>2, <1>3, MoreAt
  <2> QED BY <1>3, <2>1
<1> QED BY <1>1, <1>4, <1>5, NothingNew

\* The connection is lost, and what was on its way perhaps with it.
LEMMA OneLost ==
  ASSUME Data, OneCommand, ~late, conn # "closed", ConnectionLost
  PROVE  OneCommand'
<1>1. /\ toServer' = <<>> /\ toClient' \in {toClient, <<>>}
      /\ UNCHANGED <<caller, acks, answered>>
  BY DEF ConnectionLost, port, server
<1>2. toClient \in Seq(ToClient)
  BY DEF Data
<1>3. \A i \in DOMAIN toServer' : i \in Nat /\ i + 0 \in DOMAIN toServer /\ toServer'[i] = toServer[i + 0]
  BY <1>1
<1>4. \A i \in DOMAIN toClient' : i \in Nat /\ i + 0 \in DOMAIN toClient /\ toClient'[i] = toClient[i + 0]
  BY <1>1, <1>2
<1> QED BY <1>1, <1>3, <1>4, NothingNew


\* Every step keeps at most one command on its way.
LEMMA OneKept ==
  Control /\ CallInv /\ ConnInv /\ Data /\ Counts /\ OneCommand /\ [Next]_vars => OneCommand'
<1> SUFFICES ASSUME Control, CallInv, ConnInv, Data, Counts, OneCommand, [Next]_vars,
                    ~late', conn' # "closed"
             PROVE  OneCommand'
  BY DEF OneCommand
<1> ~late /\ conn # "closed"
  BY Irrevocable
<1>1. CASE Open
  <2>1. pc # "await" /\ pc' \notin {"lock", "write"} /\ UNCHANGED <<toServer, toClient, acks>>
    BY <1>1 DEF Open, net, port
  <2> QED BY <2>1, QuietMove
<1>2. CASE \E c \in Senders : Request(c)
  <2>1. pc # "await" /\ pc' \notin {"lock", "write"} /\ UNCHANGED <<toServer, toClient, acks>>
    BY <1>2 DEF Request, NewCall, net, port
  <2> QED BY <2>1, QuietMove
<1>3. CASE Read
  <2>1. pc # "await" /\ pc' \notin {"lock", "write"} /\ UNCHANGED <<toServer, toClient, acks>>
    BY <1>3 DEF Read, NewCall, net, port
  <2> QED BY <2>1, QuietMove
<1>4. CASE Close
  <2>1. pc # "await" /\ pc' \notin {"lock", "write"} /\ UNCHANGED <<toServer, toClient, acks>>
    BY <1>4 DEF Close, net, port
  <2> QED BY <2>1, QuietMove
<1>5. CASE Send
  BY <1>5, OneSent
<1>6. CASE Lock
  BY <1>6, OneLocked
<1>7. CASE Written
  BY <1>7, OneWritten
<1>8. CASE WriteFailed
  BY <1>8, OneUnwritten
<1>9. CASE Acknowledged
  <2>1. /\ pc = "await" /\ acks[Cmd] = "acked" /\ removeAck /\ Succeed
        /\ UNCHANGED <<toServer, toClient>>
    BY <1>9 DEF Acknowledged
  <2> QED BY <2>1, AckIsLast, CommandOver
<1>10. CASE CommandError
  <2>1. /\ pc = "await" /\ errCh /\ removeAck /\ Failed
        /\ UNCHANGED <<toServer, toClient>>
    BY <1>10 DEF CommandError
  <2>2. toServer = <<>> /\ toClient = <<>>
    BY <2>1 DEF ConnInv
  <2> QED BY <2>1, <2>2, CommandOver
<1>11. CASE Timeout
  BY <1>11, OneForgotten
<1>31. CASE EndPause
  <2>1. pc # "await" /\ pc' \notin {"lock", "write"} /\ UNCHANGED <<toServer, toClient, acks>>
    BY <1>31, Returned DEF EndPause, net, port
  <2> QED BY <2>1, QuietMove
<1>12. CASE Drain
  <2>1. pc # "await" /\ pc' \notin {"lock", "write"} /\ UNCHANGED <<toServer, toClient, acks>>
    BY <1>12, Returned DEF Drain, net, port
  <2> QED BY <2>1, QuietMove
<1>13. CASE ReadData
  <2>1. pc # "await" /\ pc' \notin {"lock", "write"} /\ UNCHANGED <<toServer, toClient, acks>>
    BY <1>13, Returned DEF ReadData, net, port
  <2> QED BY <2>1, QuietMove
<1>14. CASE PutBack
  <2>1. pc # "await" /\ pc' \notin {"lock", "write"} /\ UNCHANGED <<toServer, toClient, acks>>
    BY <1>14, Returned DEF PutBack, net, port
  <2> QED BY <2>1, QuietMove
<1>15. CASE ReadNothing
  <2>1. pc # "await" /\ pc' \notin {"lock", "write"} /\ UNCHANGED <<toServer, toClient, acks>>
    BY <1>15, Returned DEF ReadNothing, net, port
  <2> QED BY <2>1, QuietMove
<1>16. CASE Decode
  <2>1. /\ toClient # <<>> /\ toClient' = Tail(toClient)
        /\ UNCHANGED <<caller, acks, toServer, answered>>
    BY <1>16 DEF Decode, Received, port, server
  <2> QED BY <2>1, ClientLess
<1>17. CASE pushData
  <2>1. UNCHANGED <<caller, acks, toServer, toClient, answered>>
    BY <1>17 DEF pushData, net, port, server
  <2> QED BY <2>1, NothingUnchanged
<1>18. CASE handleSubneg
  BY <1>18, OneAcknowledged
<1>19. CASE handleNegotiation
  <2>1. /\ toClient # <<>> /\ toClient' = Tail(toClient)
        /\ UNCHANGED <<caller, acks, toServer, answered>>
    BY <1>19 DEF handleNegotiation, Received, port, server
  <2> QED BY <2>1, ClientLess
<1>20. CASE ReaderLock
  <2>1. UNCHANGED <<caller, acks, toServer, toClient, answered>>
    BY <1>20 DEF ReaderLock, net, port, server
  <2> QED BY <2>1, NothingUnchanged
<1>21. CASE ReaderWrite
  BY <1>21, OneReplied
<1>22. CASE ReaderEnd
  <2>1. UNCHANGED <<caller, acks, toServer, toClient, answered>>
    BY <1>22 DEF ReaderEnd, net, port, server
  <2> QED BY <2>1, NothingUnchanged
<1>23. CASE ServerExecutes
  BY <1>23, OneExecuted
<1>24. CASE ServerIgnores
  <2>1. /\ toServer # <<>> /\ toServer' = Tail(toServer)
        /\ UNCHANGED <<caller, acks, toClient, answered>>
    BY <1>24 DEF ServerIgnores, ServerReads, port, server
  <2> QED BY <2>1, ServerLess
<1>25. CASE ServerPasses
  <2>1. /\ toServer # <<>> /\ toServer' = Tail(toServer)
        /\ UNCHANGED <<caller, acks, toClient, answered>>
    BY <1>25 DEF ServerPasses, ServerReads, port, server
  <2> QED BY <2>1, ServerLess
<1>26. CASE ServerNegotiates
  BY <1>26, OneForwarded
<1>27. CASE DeviceSends
  <2>1. UNCHANGED <<caller, acks, toServer, toClient, answered>>
    BY <1>27 DEF DeviceSends, net, port, server
  <2> QED BY <2>1, NothingUnchanged
<1>28. CASE ServerForwards
  BY <1>28, OneForwarded
<1>29. CASE ConnectionLost
  BY <1>29, OneLost
<1>30. CASE UNCHANGED vars
  <2>1. UNCHANGED <<caller, acks, toServer, toClient, answered>>
    BY <1>30 DEF vars, net, port, server
  <2> QED BY <2>1, NothingUnchanged
<1> QED
  BY <1>1, <1>2, <1>3, <1>4, <1>5, <1>6, <1>7, <1>8, <1>9, <1>10, <1>11, <1>12, <1>13,
     <1>14, <1>15, <1>16, <1>17, <1>18, <1>19, <1>20, <1>21, <1>22, <1>23, <1>24, <1>25,
     <1>26, <1>27, <1>28, <1>29, <1>30, <1>31
  DEF Next, Caller, Reader, Server, ResetInputBuffer, ResetOutputBuffer, SetDTR, Break, Write,
      Senders, Calls

-----------------------------------------------------------------------------
(* RTS and break.                                                          *)

\* What the server executes is the message of the call under way.
LEMMA Executed ==
  ASSUME Control, CallInv, ConnInv, Data, Counts, OneCommand, ~late, ServerExecutes
  PROVE  /\ pc = "await" /\ conn = "up" /\ conn' = "up"
         /\ rts' = Switched(rts, Script(call)[step][2], "RTS_ON", "RTS_OFF")
         /\ brk' = Switched(brk, Script(call)[step][2], "BREAK_ON", "BREAK_OFF")
         /\ Script(call)[step][2] \in {"RECEIVE", "BOTH"} => unpurged' = Range(serial')
         /\ answered' = sent
         /\ UNCHANGED <<caller, since, fresh, overtaken, late, failed, acks, held, queue>>
<1> DEFINE m == Head(toServer)
<1>1. /\ toServer # <<>> /\ m.cmd \in Commands /\ conn = "up" /\ conn' = "up"
      /\ rts' = Switched(rts, m.value, "RTS_ON", "RTS_OFF")
      /\ brk' = Switched(brk, m.value, "BREAK_ON", "BREAK_OFF")
      /\ m.value \in {"RECEIVE", "BOTH"} => unpurged' = Range(serial')
      /\ answered' = m.id
      /\ UNCHANGED <<caller, since, fresh, overtaken, late, failed, acks, held, queue>>
  BY DEF ServerExecutes, ServerReads, Purge, port, goroutine
<1>2. m = toServer[1] /\ 1 \in DOMAIN toServer
  BY <1>1, ServerTail
<1>3. pc = "await" /\ m = Message
  BY <1>1, <1>2 DEF OneCommand, IsCommand
<1>4. m.value = Script(call)[step][2] /\ m.id = sent
  BY <1>3 DEF CallInv, Message
<1> HIDE DEF m
<1> QED BY <1>1, <1>3, <1>4

\* How far the calls go that have two messages, or one.
LEMMA CallSteps ==
  ASSUME Control, CallInv, pc \in Sending
  PROVE  /\ call = "Close" => step \in {1, 2}
         /\ call = "Break" => step \in {1, 2}
         /\ call = "ResetInputBuffer" => step = 1
         /\ call # "none"
<1>1. step \in 1..4 /\ step <= Len(Script(call)) /\ call # "none"
  BY DEF Control, CallInv, Sending, Senders, Calls
<1>2. \A n \in 1..4 : (n <= 2 => n \in {1, 2}) /\ (n <= 1 => n = 1)
  OBVIOUS
<1>3. ASSUME call = "Close" PROVE step <= 2
  BY <1>1, <1>3, Scripts
<1>4. ASSUME call = "Break" PROVE step <= 2
  BY <1>1, <1>4, Scripts
<1>5. ASSUME call = "ResetInputBuffer" PROVE step <= 1
  BY <1>1, <1>5, Scripts
<1> QED BY <1>1, <1>2, <1>3, <1>4, <1>5

\* What Succeed makes of a call, with the scripts of Close and Break.
LEMMA SucceededCalls ==
  ASSUME Control, CallInv, pc \in {"write", "await"}, Succeed
  PROVE  /\ call' \in {call, "none"}
         /\ call = "Close" /\ step = 1 => pc' = "send" /\ step' = 2 /\ call' = "Close" /\ conn' = conn
         /\ call = "Close" /\ step # 1 => pc' = "closed" /\ call' = "none"
         /\ call = "Break" /\ step = 1 => pc' = "send" /\ step' = 2 /\ call' = "Break" /\ conn' = conn
         /\ call = "Break" => step \in {1, 2}
         /\ call = "Close" => step \in {1, 2}
         /\ call # "Close" => conn' = conn
         /\ call' # "none" => pc' \in {"send", "pause"}
<1>1. call # "none" /\ (call = "Close" => step \in {1, 2}) /\ (call = "Break" => step \in {1, 2})
  BY CallSteps DEF Sending
<1>2. call = "Close" => (LastMessage <=> step = 2)
  BY Scripts DEF LastMessage
<1>3. call = "Break" => (LastMessage <=> step = 2)
  BY Scripts DEF LastMessage
<1>4. /\ call' \in {call, "none"}
      /\ call # "Close" => conn' = conn
      /\ call' # "none" => pc' \in {"send", "pause"}
  BY <1>1 DEF Succeed, Finish
<1>5. CASE step = 1
  BY ONLY <1>1, <1>2, <1>3, <1>4, <1>5, Succeed DEF Succeed
<1>6. CASE step # 1
  BY ONLY <1>1, <1>2, <1>3, <1>4, <1>6, Succeed DEF Succeed, Finish
<1> QED BY <1>5, <1>6

\* What a failure makes of a call.
LEMMA FailedCalls ==
  ASSUME Control, CallInv, ConnInv, pc \in {"write", "await"}, Failed
  PROVE  /\ call \in {"Close", "Break"} => call \in failed'
         /\ failed \subseteq failed'
         /\ call # "Close" => /\ conn' = conn /\ conn # "closed" /\ step' = 1
                              /\ pc' \in {"send", "ready"} /\ call' \in {"Close", "none"}
         /\ conn # "closed" /\ call' \in {"Close", "none"}
<1>1. call = "Close" => call' \in {"Close", "none"}
  BY SucceededCalls DEF Failed
<1> QED BY <1>1 DEF Failed, Leave, ConnInv

\* What becomes of a call when its message is written.
LEMMA WrittenCalls ==
  ASSUME Control, CallInv, Written
  PROVE  /\ UNCHANGED <<rts, brk, answered, sent, failed, late>>
         /\ \/ pc' = "await" /\ Cmd \in Commands /\ UNCHANGED <<call, step, conn>>
            \/ /\ call \notin {"Close", "Break", "ResetInputBuffer"} /\ call' \in {call, "none"}
               /\ conn' = conn /\ (call' # "none" => pc' = "send") /\ pc' \in {"send", "ready"}
         /\ pc = "write"
<1>1. pc = "write" /\ UNCHANGED <<rts, brk, answered, sent, failed, late>>
  BY DEF Written, history, server
<1>2. CASE Cmd \in Commands
  BY <1>1, <1>2 DEF Written
<1>3. CASE Cmd \notin Commands
  <2>1. Succeed
    BY <1>3 DEF Written
  <2>2. call \notin {"Close", "Break", "ResetInputBuffer"}
    <3>1. /\ Script("Close")[1][1] \in Commands /\ Script("Close")[2][1] \in Commands
          /\ Script("Break")[1][1] \in Commands /\ Script("Break")[2][1] \in Commands
          /\ Script("ResetInputBuffer")[1][1] \in Commands
      BY Scripts DEF Commands
    <3>2. /\ call \in {"Close", "Break"} => step \in {1, 2}
          /\ call = "ResetInputBuffer" => step = 1
      BY <1>1, CallSteps DEF Sending
    <3> QED BY <1>3, <3>1, <3>2 DEF Cmd
  <2>3. pc' \in {"send", "ready"} /\ call' \in {call, "none"} /\ conn' = conn /\ (call' # "none" => pc' = "send")
    BY <2>1, <2>2 DEF Succeed, Finish
  <2> QED BY <1>1, <2>2, <2>3
<1> QED BY <1>2, <1>3

\* The commands of Close release RTS and do not raise it.
LEMMA OnlyClose ==
  ASSUME Control, CallInv, pc = "await"
  PROVE  /\ call = "Close" /\ step # 2 => ~Switched(rts, Script(call)[step][2], "RTS_ON", "RTS_OFF")
         /\ call = "Close" /\ ~rts => ~Switched(rts, Script(call)[step][2], "RTS_ON", "RTS_OFF")
<1>1. call = "Close" => step \in {1, 2}
  BY CallSteps DEF Sending
<1> QED BY <1>1, Scripts DEF Switched

\* Break alone begins one, and its second command ends it.
LEMMA OnlyBreak ==
  ASSUME Control, CallInv, pc = "await",
         Switched(brk, Script(call)[step][2], "BREAK_ON", "BREAK_OFF")
  PROVE  \/ call = "Break" /\ step = 1
         \/ brk /\ ~(call = "Break" /\ step = 2)
<1>1. call \in Senders /\ step \in 1..4 /\ step <= Len(Script(call))
  BY DEF Control, CallInv, Sending
<1>2. step \in 1..Len(Script(call))
  <2>1. Len(Script(call)) \in 1..4
    BY <1>1, Scripts
  <2>2. \A n \in 1..4, m \in 1..4 : m <= n => m \in 1..n
    OBVIOUS
  <2> QED BY <1>1, <2>1, <2>2
<1>3. Script(call)[step][2] = "BREAK_ON" => call = "Break" /\ step = 1
  BY <1>1, <1>2, Scripts
<1>4. Script("Break")[2][2] = "BREAK_OFF"
  BY Scripts
<1> QED BY <1>3, <1>4 DEF Switched

\* Every step keeps the truth about RTS.
LEMMA ReleasedKept ==
  Control /\ CallInv /\ ConnInv /\ Data /\ Counts /\ OneCommand /\ OneCommand' /\ ReleasedInv /\ [Next]_vars => ReleasedInv'
<1> SUFFICES ASSUME Control, CallInv, ConnInv, Data, Counts, OneCommand, OneCommand', ReleasedInv,
                    [Next]_vars, ~late'
             PROVE  ReleasedInv'
  BY DEF ReleasedInv
<1> ~late
  BY Irrevocable
<1> USE DEF ReleasedInv, Sending, caller, history, port, goroutine, server, net
<1>1. CASE Open
  BY <1>1 DEF Open
<1>2. CASE \E c \in Senders : Request(c)
  BY <1>2 DEF Request, NewCall, Senders, ConnInv
<1>3. CASE Read
  BY <1>3 DEF Read, NewCall, ConnInv
<1>4. CASE Close
  BY <1>4 DEF Close, ConnInv
<1>5. CASE Send
  <2>1. /\ pc = "send" /\ pc' = "lock"
        /\ UNCHANGED <<call, step, rts, brk, answered, conn, failed>>
    BY <1>5 DEF Send
  <2> QED BY <2>1 DEF ConnInv
<1>6. CASE Lock
  BY <1>6 DEF Lock
<1>7. CASE Written
  BY <1>7, WrittenCalls DEF Counts, OneCommand, ConnInv
<1>8. CASE WriteFailed
  BY <1>8, FailedCalls DEF WriteFailed
<1>9. CASE Acknowledged
  <2>1. /\ pc = "await" /\ acks[Cmd] = "acked" /\ Succeed /\ answered = sent
        /\ UNCHANGED <<rts, answered, sent, failed>> /\ conn # "closed"
    BY <1>9, AckIsLast DEF Acknowledged, ConnInv
  <2> QED BY <2>1, SucceededCalls
<1>10. CASE CommandError
  BY <1>10, FailedCalls DEF CommandError
<1>11. CASE Timeout
  BY <1>11, FailedCalls DEF Timeout
<1>31. CASE EndPause
  BY <1>31 DEF EndPause
<1>12. CASE Drain
  BY <1>12, Returned DEF Drain
<1>13. CASE ReadData
  BY <1>13, Returned DEF ReadData
<1>14. CASE PutBack
  BY <1>14, Returned DEF PutBack
<1>15. CASE ReadNothing
  BY <1>15, Returned DEF ReadNothing
<1>16. CASE Decode
  BY <1>16 DEF Decode, Received
<1>17. CASE pushData
  BY <1>17 DEF pushData
<1>18. CASE handleSubneg
  BY <1>18 DEF handleSubneg, Received
<1>19. CASE handleNegotiation
  BY <1>19 DEF handleNegotiation, Received
<1>20. CASE ReaderLock
  BY <1>20 DEF ReaderLock
<1>21. CASE ReaderWrite
  BY <1>21 DEF ReaderWrite, writeRaw
<1>22. CASE ReaderEnd
  BY <1>22 DEF ReaderEnd
<1>23. CASE ServerExecutes
  BY <1>23, Executed, OnlyClose
<1>24. CASE ServerIgnores
  BY <1>24 DEF ServerIgnores, ServerReads
<1>25. CASE ServerPasses
  BY <1>25 DEF ServerPasses, ServerReads
<1>26. CASE ServerNegotiates
  BY <1>26 DEF ServerNegotiates
<1>27. CASE DeviceSends
  BY <1>27 DEF DeviceSends
<1>28. CASE ServerForwards
  BY <1>28 DEF ServerForwards
<1>29. CASE ConnectionLost
  BY <1>29 DEF ConnectionLost
<1>30. CASE UNCHANGED vars
  BY <1>30 DEF vars
<1> QED
  BY <1>1, <1>2, <1>3, <1>4, <1>5, <1>6, <1>7, <1>8, <1>9, <1>10, <1>11, <1>12, <1>13,
     <1>14, <1>15, <1>16, <1>17, <1>18, <1>19, <1>20, <1>21, <1>22, <1>23, <1>24, <1>25,
     <1>26, <1>27, <1>28, <1>29, <1>30, <1>31
  DEF Next, Caller, Reader, Server, ResetInputBuffer, ResetOutputBuffer, SetDTR, Break, Write,
      Senders, Calls

\* Every step keeps the truth about the break.
LEMMA BreakKept == Control /\ CallInv /\ ConnInv /\ Data /\ Counts /\ OneCommand /\ BreakInv /\ [Next]_vars => BreakInv'
<1> SUFFICES ASSUME Control, CallInv, ConnInv, Data, Counts, OneCommand, BreakInv,
                    [Next]_vars, ~late', conn' # "closed"
             PROVE  BreakInv'
  BY DEF BreakInv
<1> ~late /\ conn # "closed"
  BY Irrevocable
<1> USE DEF BreakInv, Sending, caller, history, port, goroutine, server, net
<1>1. CASE Open
  BY <1>1 DEF Open
<1>2. CASE \E c \in Senders : Request(c)
  BY <1>2 DEF Request, NewCall
<1>3. CASE Read
  BY <1>3 DEF Read, NewCall
<1>4. CASE Close
  BY <1>4 DEF Close
<1>5. CASE Send
  <2>1. /\ pc = "send" /\ pc' = "lock"
        /\ UNCHANGED <<call, step, brk, failed>>
    BY <1>5 DEF Send
  <2> QED BY <2>1
<1>6. CASE Lock
  BY <1>6 DEF Lock
<1>7. CASE Written
  <2>1. Cmd \in Commands /\ pc = "write" => answered # sent
    BY DEF OneCommand, Counts
  <2> QED BY <1>7, <2>1, WrittenCalls
<1>8. CASE WriteFailed
  BY <1>8, FailedCalls DEF WriteFailed
<1>9. CASE Acknowledged
  <2>1. /\ pc = "await" /\ acks[Cmd] = "acked" /\ Succeed /\ answered = sent
        /\ UNCHANGED <<brk, failed>>
    BY <1>9, AckIsLast DEF Acknowledged
  <2>2. brk /\ "Break" \notin failed => call = "Break" /\ step = 1
    BY <2>1, SucceededCalls
  <2> QED BY <2>1, <2>2, SucceededCalls
<1>10. CASE CommandError
  BY <1>10, FailedCalls DEF CommandError
<1>11. CASE Timeout
  BY <1>11, FailedCalls DEF Timeout
<1>31. CASE EndPause
  BY <1>31 DEF EndPause
<1>12. CASE Drain
  BY <1>12, Returned DEF Drain
<1>13. CASE ReadData
  BY <1>13, Returned DEF ReadData
<1>14. CASE PutBack
  BY <1>14, Returned DEF PutBack
<1>15. CASE ReadNothing
  BY <1>15, Returned DEF ReadNothing
<1>16. CASE Decode
  BY <1>16 DEF Decode, Received
<1>17. CASE pushData
  BY <1>17 DEF pushData
<1>18. CASE handleSubneg
  BY <1>18 DEF handleSubneg, Received
<1>19. CASE handleNegotiation
  BY <1>19 DEF handleNegotiation, Received
<1>20. CASE ReaderLock
  BY <1>20 DEF ReaderLock
<1>21. CASE ReaderWrite
  BY <1>21 DEF ReaderWrite, writeRaw
<1>22. CASE ReaderEnd
  BY <1>22 DEF ReaderEnd
<1>23. CASE ServerExecutes
  <2>1. /\ pc = "await" /\ UNCHANGED <<call, step, pc, failed>>
        /\ brk' = Switched(brk, Script(call)[step][2], "BREAK_ON", "BREAK_OFF")
    BY <1>23, Executed
  <2> QED BY <2>1, OnlyBreak
<1>24. CASE ServerIgnores
  BY <1>24 DEF ServerIgnores, ServerReads
<1>25. CASE ServerPasses
  BY <1>25 DEF ServerPasses, ServerReads
<1>26. CASE ServerNegotiates
  BY <1>26 DEF ServerNegotiates
<1>27. CASE DeviceSends
  BY <1>27 DEF DeviceSends
<1>28. CASE ServerForwards
  BY <1>28 DEF ServerForwards
<1>29. CASE ConnectionLost
  BY <1>29 DEF ConnectionLost
<1>30. CASE UNCHANGED vars
  BY <1>30 DEF vars
<1> QED
  BY <1>1, <1>2, <1>3, <1>4, <1>5, <1>6, <1>7, <1>8, <1>9, <1>10, <1>11, <1>12, <1>13,
     <1>14, <1>15, <1>16, <1>17, <1>18, <1>19, <1>20, <1>21, <1>22, <1>23, <1>24, <1>25,
     <1>26, <1>27, <1>28, <1>29, <1>30, <1>31
  DEF Next, Caller, Reader, Server, ResetInputBuffer, ResetOutputBuffer, SetDTR, Break, Write,
      Senders, Calls

-----------------------------------------------------------------------------
(* Bytes from before a reset.                                              *)

\* Runs of later bytes are cut into such runs, and grow with later bytes.
LEMMA NewerRuns ==
  ASSUME NEW n \in Nat, NEW bs, NEW s \in Seq(Bytes), Newer(s, n, bs)
  PROVE  /\ \A k \in 0..Len(s) : Newer(SubSeq(s, 1, k), n, bs) /\ Newer(SubSeq(s, k + 1, Len(s)), n, bs)
         /\ \A b \in Bytes : b > n => Newer(Append(s, b), n, bs)
<1>1. ASSUME NEW k \in 0..Len(s)
      PROVE  Newer(SubSeq(s, 1, k), n, bs) /\ Newer(SubSeq(s, k + 1, Len(s)), n, bs)
  BY DEF Newer
<1>2. ASSUME NEW b \in Bytes, b > n
      PROVE  Newer(Append(s, b), n, bs)
  BY <1>2 DEF Newer
<1> QED BY <1>1, <1>2

\* No byte is older than any.
LEMMA NewerEmpty == \A n, bs : Newer(<<>>, n, bs)
BY DEF Newer

\* Who moves bytes.
LEMMA Traffic ==
  [Next]_vars =>
    /\ \/ UNCHANGED <<toClient, serial>>
       \/ Decode \/ handleSubneg \/ handleNegotiation \/ ServerExecutes
       \/ ServerNegotiates \/ DeviceSends \/ ServerForwards \/ ConnectionLost
    /\ UNCHANGED held \/ Decode \/ pushData
    /\ UNCHANGED <<queue, rest>> \/ Drain \/ ReadData \/ PutBack \/ pushData
    /\ UNCHANGED produced \/ DeviceSends
<1> SUFFICES ASSUME [Next]_vars
             PROVE  /\ \/ UNCHANGED <<toClient, serial>>
                       \/ Decode \/ handleSubneg \/ handleNegotiation \/ ServerExecutes
                       \/ ServerNegotiates \/ DeviceSends \/ ServerForwards \/ ConnectionLost
                    /\ UNCHANGED held \/ Decode \/ pushData
                    /\ UNCHANGED <<queue, rest>> \/ Drain \/ ReadData \/ PutBack \/ pushData
                    /\ UNCHANGED produced \/ DeviceSends
  OBVIOUS
<1> USE DEF caller, history, port, goroutine, server, net
<1>1. CASE Open
  BY <1>1 DEF Open
<1>2. CASE \E c \in Senders : Request(c)
  BY <1>2 DEF Request, NewCall
<1>3. CASE Read
  BY <1>3 DEF Read, NewCall
<1>4. CASE Close
  BY <1>4 DEF Close
<1>5. CASE Send
  BY <1>5 DEF Send
<1>6. CASE Lock
  BY <1>6 DEF Lock
<1>7. CASE Written
  BY <1>7 DEF Written, writeRaw
<1>8. CASE WriteFailed
  BY <1>8 DEF WriteFailed
<1>9. CASE Acknowledged
  BY <1>9 DEF Acknowledged
<1>10. CASE CommandError
  BY <1>10 DEF CommandError
<1>11. CASE Timeout
  BY <1>11 DEF Timeout
<1>31. CASE EndPause
  BY <1>31 DEF EndPause
<1>12. CASE Drain
  BY <1>12 DEF Drain
<1>13. CASE ReadData
  BY <1>13 DEF ReadData
<1>14. CASE PutBack
  BY <1>14 DEF PutBack
<1>15. CASE ReadNothing
  BY <1>15 DEF ReadNothing
<1>16. CASE Decode
  BY <1>16 DEF Decode, Received
<1>17. CASE pushData
  BY <1>17 DEF pushData
<1>18. CASE handleSubneg
  BY <1>18 DEF handleSubneg, Received
<1>19. CASE handleNegotiation
  BY <1>19 DEF handleNegotiation, Received
<1>20. CASE ReaderLock
  BY <1>20 DEF ReaderLock
<1>21. CASE ReaderWrite
  BY <1>21 DEF ReaderWrite, writeRaw
<1>22. CASE ReaderEnd
  BY <1>22 DEF ReaderEnd
<1>23. CASE ServerExecutes
  BY <1>23 DEF ServerExecutes, ServerReads
<1>24. CASE ServerIgnores
  BY <1>24 DEF ServerIgnores, ServerReads
<1>25. CASE ServerPasses
  BY <1>25 DEF ServerPasses, ServerReads
<1>26. CASE ServerNegotiates
  BY <1>26 DEF ServerNegotiates
<1>27. CASE DeviceSends
  BY <1>27 DEF DeviceSends
<1>28. CASE ServerForwards
  BY <1>28 DEF ServerForwards
<1>29. CASE ConnectionLost
  BY <1>29 DEF ConnectionLost
<1>30. CASE UNCHANGED vars
  BY <1>30 DEF vars
<1> QED
  BY <1>1, <1>2, <1>3, <1>4, <1>5, <1>6, <1>7, <1>8, <1>9, <1>10, <1>11, <1>12, <1>13,
     <1>14, <1>15, <1>16, <1>17, <1>18, <1>19, <1>20, <1>21, <1>22, <1>23, <1>24, <1>25,
     <1>26, <1>27, <1>28, <1>29, <1>30, <1>31
  DEF Next, Caller, Reader, Server, ResetInputBuffer, ResetOutputBuffer, SetDTR, Break, Write,
      Senders, Calls

\* Where a message is that is appended or left behind, and what it carries.
LEMMA ClientMore ==
  ASSUME Data, NEW m \in ToClient, toClient' = Append(toClient, m)
  PROVE  /\ \A i \in DOMAIN toClient' : i \in Nat /\ \/ i \in DOMAIN toClient /\ toClient'[i] = toClient[i]
                                                     \/ i = Len(toClient) + 1 /\ toClient'[i] = m
         /\ \A i \in DOMAIN toClient : i \in Nat /\ i < Len(toClient) + 1
<1>1. toClient \in Seq(ToClient)
  BY DEF Data
<1> QED BY <1>1, MoreAt

\* What the server forwards is a first part of its buffer.
LEMMA Forwarded ==
  ASSUME Data, ServerForwards
  PROVE  \E k \in 0..Len(serial), m \in ToClient :
           /\ ~IsAck(m) /\ m.bytes = SubSeq(serial, 1, k)
           /\ toClient' = Append(toClient, m) /\ serial' = SubSeq(serial, k + 1, Len(serial))
<1>1. PICK n \in 1..Len(serial) :
        /\ toClient' = Append(toClient, [kind |-> "data", cmd |-> "", id |-> 0, bytes |-> SubSeq(serial, 1, n)])
        /\ serial' = SubSeq(serial, n + 1, Len(serial))
  BY DEF ServerForwards
<1>2. n \in 0..Len(serial) /\ serial \in Seq(Bytes)
  BY DEF Data
<1>3. SubSeq(serial, 1, n) \in Seq(Bytes)
  BY <1>2, PieceTypes
<1> DEFINE m == [kind |-> "data", cmd |-> "", id |-> 0, bytes |-> SubSeq(serial, 1, n)]
<1>4. m \in ToClient /\ m.bytes = SubSeq(serial, 1, n)
  BY <1>3 DEF ToClient
<1>5. ~IsAck(m)
  BY DEF IsAck
<1> HIDE DEF m
<1> QED BY <1>1, <1>2, <1>4, <1>5 DEF m

\* What the server sends of its own carries no bytes.
LEMMA Negotiated ==
  ASSUME ServerNegotiates
  PROVE  /\ \E m \in ToClient : ~IsAck(m) /\ m.bytes = <<>> /\ toClient' = Append(toClient, m)
         /\ serial' = serial
<1> DEFINE m == [kind |-> "option", cmd |-> "", id |-> 0, bytes |-> <<>>]
<1>1. <<>> \in Seq(Bytes)
  OBVIOUS
<1>2. m \in ToClient /\ m.bytes = <<>>
  BY <1>1 DEF ToClient
<1>3. ~IsAck(m)
  BY DEF IsAck
<1>4. toClient' = Append(toClient, m) /\ serial' = serial
  BY DEF ServerNegotiates
<1> HIDE DEF m
<1> QED BY <1>2, <1>3, <1>4

\* An acknowledgement carries no bytes either, and is the last message.
LEMMA Acked ==
  ASSUME Data, ServerExecutes
  PROVE  /\ \E m \in ToClient : m.bytes = <<>> /\ toClient' = Append(toClient, m)
         /\ DrawnFrom(serial', serial)
<1> DEFINE m == [kind |-> "ack", cmd |-> Head(toServer).cmd, id |-> Head(toServer).id, bytes |-> <<>>]
<1>1. <<>> \in Seq(Bytes)
  OBVIOUS
<1>2. toServer # <<>> /\ Head(toServer).cmd \in Commands
  BY DEF ServerExecutes, ServerReads
<1>3. Head(toServer) \in ToServer
  BY <1>2, ServerTail
<1>4. m \in ToClient /\ m.bytes = <<>>
  BY <1>1, <1>2, <1>3 DEF ToClient, ToServer
<1>5. toClient' = Append(toClient, m)
  BY DEF ServerExecutes
<1> HIDE DEF m
<1> QED BY <1>4, <1>5, Purged

\* What is on its way to the queue and later than n stays so.
LEMMA UpstreamKept ==
  ASSUME NEW n \in Nat, NEW bs, n <= produced, Data, Counts, ConnInv, UpstreamNewer(n, bs), [Next]_vars
  PROVE  UpstreamNewer(n, bs)'
<1> SUFFICES /\ Newer(serial', n, bs) /\ Newer(held', n, bs)
             /\ \A j \in DOMAIN toClient' : Newer(toClient'[j].bytes, n, bs)
  BY DEF UpstreamNewer, Newer
<1>0. /\ Newer(serial, n, bs) /\ Newer(held, n, bs) /\ serial \in Seq(Bytes)
      /\ \A j \in DOMAIN toClient : Newer(toClient[j].bytes, n, bs)
  BY DEF UpstreamNewer, Data
<1>1. Newer(held', n, bs)
  <2>1. CASE UNCHANGED held
    BY <1>0, <2>1
  <2>2. CASE Decode
    <3>1. toClient # <<>> /\ held' = Head(toClient).bytes
      BY <2>2 DEF Decode, Received
    <3> QED BY <1>0, <3>1, ClientTail
  <2>3. CASE pushData
    BY <2>3, NewerEmpty DEF pushData
  <2> QED BY <2>1, <2>2, <2>3, Traffic
<1>2. CASE UNCHANGED <<toClient, serial>>
  BY <1>0, <1>1, <1>2
<1>3. CASE Decode \/ handleSubneg \/ handleNegotiation
  <2>1. toClient # <<>> /\ toClient' = Tail(toClient) /\ serial' = serial
    BY <1>3 DEF Decode, handleSubneg, handleNegotiation, Received, server
  <2> QED BY <1>0, <1>1, <2>1, ClientTail
<1>4. CASE ServerExecutes
  <2>1. PICK m \in ToClient : m.bytes = <<>> /\ toClient' = Append(toClient, m)
    BY <1>4, Acked
  <2>2. Newer(serial', n, bs)
    BY <1>0, <1>4, Acked DEF Newer, DrawnFrom
  <2> QED BY <1>0, <1>1, <2>1, <2>2, ClientMore, NewerEmpty
<1>5. CASE ServerNegotiates
  <2>1. PICK m \in ToClient : m.bytes = <<>> /\ toClient' = Append(toClient, m)
    BY <1>5, Negotiated
  <2>2. Newer(serial', n, bs)
    BY <1>0, <1>5, Negotiated
  <2> QED BY <1>0, <1>1, <2>1, <2>2, ClientMore, NewerEmpty
<1>6. CASE DeviceSends
  <2>1. produced + 1 \in Bytes /\ produced + 1 > n /\ toClient' = toClient
        /\ serial' = Append(serial, produced + 1)
    BY <1>6, BoundsAssumption DEF DeviceSends, Counts, Bytes, net
  <2>2. Newer(serial', n, bs)
    BY <1>0, <2>1, NewerRuns
  <2> QED BY <1>0, <1>1, <2>1, <2>2
<1>7. CASE ServerForwards
  <2>1. PICK k \in 0..Len(serial), m \in ToClient :
           /\ ~IsAck(m) /\ m.bytes = SubSeq(serial, 1, k)
           /\ toClient' = Append(toClient, m) /\ serial' = SubSeq(serial, k + 1, Len(serial))
    BY <1>7, Forwarded
  <2>2. Newer(serial', n, bs) /\ Newer(m.bytes, n, bs)
    BY <1>0, <2>1, NewerRuns
  <2> QED BY <1>0, <1>1, <2>1, <2>2, ClientMore
<1>8. CASE ConnectionLost
  <2>1. serial' = serial /\ toClient' \in {toClient, <<>>}
    BY <1>8 DEF ConnectionLost, server
  <2> QED BY <1>0, <1>1, <2>1
<1> QED BY <1>2, <1>3, <1>4, <1>5, <1>6, <1>7, <1>8, Traffic

\* What is behind an acknowledgement and later than n stays so.
LEMMA AfterAckKept ==
  ASSUME NEW n \in Nat, NEW bs, n <= produced, Data, Counts, AfterAck(n, bs), [Next]_vars, ~ServerExecutes
  PROVE  AfterAck(n, bs)'
<1> SUFFICES ASSUME NEW i \in DOMAIN toClient', toClient'[i].kind = "ack"
             PROVE  /\ Newer(serial', n, bs)
                    /\ \A j \in DOMAIN toClient' : j > i => Newer(toClient'[j].bytes, n, bs)
  BY DEF AfterAck, Newer, IsAck
<1>0. serial \in Seq(Bytes)
  BY DEF Data
<1>a. ASSUME NEW k \in DOMAIN toClient, toClient[k].kind = "ack"
      PROVE  /\ Newer(serial, n, bs)
             /\ \A j \in DOMAIN toClient : j > k => Newer(toClient[j].bytes, n, bs)
  BY <1>a DEF AfterAck, IsAck
<1>2. CASE UNCHANGED <<toClient, serial>>
  BY <1>a, <1>2
<1>3. CASE Decode \/ handleSubneg \/ handleNegotiation
  <2>1. toClient # <<>> /\ toClient' = Tail(toClient) /\ serial' = serial
    BY <1>3 DEF Decode, handleSubneg, handleNegotiation, Received, server
  <2>2. i \in Nat /\ i + 1 \in DOMAIN toClient /\ toClient[i + 1].kind = "ack"
    BY <2>1, ClientTail
  <2>3. \A j \in DOMAIN toClient' : j > i => Newer(toClient'[j].bytes, n, bs)
    <3> SUFFICES ASSUME NEW j \in DOMAIN toClient', j > i PROVE Newer(toClient'[j].bytes, n, bs)
      OBVIOUS
    <3>1. j \in Nat /\ j + 1 \in DOMAIN toClient /\ toClient'[j] = toClient[j + 1]
      BY <2>1, ClientTail
    <3>2. j + 1 > i + 1
      BY <2>2, <3>1
    <3> QED BY <1>a, <2>2, <3>1, <3>2
  <2> QED BY <1>a, <2>1, <2>2, <2>3
<1>5. CASE ServerNegotiates
  <2>1. PICK m \in ToClient : ~IsAck(m) /\ m.bytes = <<>> /\ toClient' = Append(toClient, m)
    BY <1>5, Negotiated
  <2>2. serial' = serial
    BY <1>5, Negotiated
  <2>3. i \in DOMAIN toClient /\ toClient'[i] = toClient[i]
    BY <2>1, ClientMore DEF IsAck
  <2> QED BY <1>a, <2>1, <2>2, <2>3, ClientMore, NewerEmpty
<1>6. CASE DeviceSends
  <2>1. produced + 1 \in Bytes /\ produced + 1 > n /\ toClient' = toClient
        /\ serial' = Append(serial, produced + 1)
    BY <1>6, BoundsAssumption DEF DeviceSends, Counts, Bytes, net
  <2>2. Newer(serial, n, bs) => Newer(serial', n, bs)
    BY <1>0, <2>1, NewerRuns
  <2> QED BY <1>a, <2>1, <2>2
<1>7. CASE ServerForwards
  <2>1. PICK k \in 0..Len(serial), m \in ToClient :
           /\ ~IsAck(m) /\ m.bytes = SubSeq(serial, 1, k)
           /\ toClient' = Append(toClient, m) /\ serial' = SubSeq(serial, k + 1, Len(serial))
    BY <1>7, Forwarded
  <2>2. Newer(serial, n, bs) => Newer(serial', n, bs) /\ Newer(m.bytes, n, bs)
    BY <1>0, <2>1, NewerRuns
  <2>3. i \in DOMAIN toClient /\ toClient'[i] = toClient[i]
    BY <2>1, ClientMore DEF IsAck
  <2> QED BY <1>a, <2>1, <2>2, <2>3, ClientMore
<1>8. CASE ConnectionLost
  <2>1. serial' = serial /\ toClient' \in {toClient, <<>>}
    BY <1>8 DEF ConnectionLost, server
  <2> QED BY <1>a, <2>1
<1> QED BY <1>2, <1>3, <1>5, <1>6, <1>7, <1>8, Traffic

\* What is later than n in the queue stays so, if nothing earlier comes.
LEMMA QueueKept ==
  ASSUME NEW n \in Nat, NEW bs, Data, UpstreamNewer(n, bs), QueueNewer(n, bs), [Next]_vars
  PROVE  QueueNewer(n, bs)'
<1> SUFFICES Newer(rest', n, bs) /\ \A i \in DOMAIN queue' : Newer(queue'[i], n, bs)
  BY DEF QueueNewer, Newer
<1>0. /\ Newer(rest, n, bs) /\ Newer(held, n, bs) /\ rest \in Seq(Bytes) /\ held \in Seq(Bytes)
      /\ queue \in Seq(Seq(Bytes)) /\ \A i \in DOMAIN queue : Newer(queue[i], n, bs)
  BY DEF QueueNewer, UpstreamNewer, Data
<1>1. CASE UNCHANGED <<queue, rest>>
  BY <1>0, <1>1
<1>2. CASE Drain
  <2>1. rest' = rest /\ (queue' = queue \/ (queue # <<>> /\ queue' = Tail(queue)))
    BY <1>2 DEF Drain
  <2> QED BY <1>0, <2>1, QueueTail
<1>3. CASE ReadData
  <2>1. queue # <<>> /\ queue' = Tail(queue)
    BY <1>3 DEF ReadData
  <2>2. Newer(Head(queue), n, bs) /\ Head(queue) \in Seq(Bytes)
    BY <1>0, <2>1, QueueTail
  <2>3. \A d \in Seq(Bytes) : (IF Len(d) < Buf THEN Len(d) ELSE Buf) \in 0..Len(d)
    BY SizesAssumption
  <2>4. PICK k \in 0..Len(Head(queue)) : rest' = SubSeq(Head(queue), k + 1, Len(Head(queue)))
    BY <1>3, <2>2, <2>3 DEF ReadData
  <2>5. Newer(rest', n, bs)
    BY <2>2, <2>4, NewerRuns
  <2> QED BY <1>0, <2>1, <2>5, QueueTail
<1>4. CASE PutBack
  <2>1. rest' = <<>> /\ queue' = Append(queue, rest)
    BY <1>4 DEF PutBack
  <2> QED BY <1>0, <2>1, NewerEmpty, MoreAt
<1>5. CASE pushData
  <2>1. rest' = rest /\ (queue' = queue \/ queue' = Append(queue, held))
    BY <1>5 DEF pushData, caller
  <2>2. CASE queue' = queue
    BY <1>0, <2>1, <2>2
  <2>3. CASE queue' = Append(queue, held)
    BY <1>0, <2>1, <2>3, MoreAt
  <2> QED BY <2>1, <2>2, <2>3
<1> QED BY <1>1, <1>2, <1>3, <1>4, <1>5, Traffic

\* A command is acknowledged: what is behind the acknowledgement is later than the reset.
LEMMA PurgeAcked ==
  ASSUME NEW n \in Nat, NEW bs, Data, ConnInv, AfterAck(n, bs), handleSubneg
  PROVE  UpstreamNewer(n, bs)'
<1>1. /\ toClient # <<>> /\ IsAck(Head(toClient)) /\ toClient' = Tail(toClient)
      /\ reader = "read" /\ UNCHANGED <<held, serial>>
  BY DEF handleSubneg, Received, IsAck, goroutine, server
<1>2. 1 \in DOMAIN toClient /\ IsAck(toClient[1])
  BY <1>1, ClientTail
<1>3. /\ Newer(serial, n, bs)
      /\ \A j \in DOMAIN toClient : j > 1 => Newer(toClient[j].bytes, n, bs)
  BY <1>2 DEF AfterAck
<1>4. Newer(held, n, bs)
  BY <1>1, NewerEmpty DEF ConnInv
<1>5. \A j \in DOMAIN toClient' : Newer(toClient'[j].bytes, n, bs)
  <2> SUFFICES ASSUME NEW j \in DOMAIN toClient' PROVE Newer(toClient'[j].bytes, n, bs)
    OBVIOUS
  <2>1. j \in Nat \ {0} /\ j + 1 \in DOMAIN toClient /\ toClient'[j] = toClient[j + 1]
    BY <1>1, ClientTail
  <2>2. j + 1 > 1
    BY <2>1
  <2> QED BY <1>3, <2>1, <2>2
<1> QED BY <1>1, <1>3, <1>4, <1>5 DEF UpstreamNewer, Newer

\* A purge is executed: only what it has left is behind its acknowledgement.
LEMMA PurgeExecuted ==
  ASSUME Control, CallInv, ConnInv, Data, Counts, OneCommand, ~late, call = "ResetInputBuffer",
         NEW n \in Nat, NEW bs, bs = unpurged', ServerExecutes
  PROVE  AfterAck(n, bs)' /\ acks[Cmd] # "acked"
<1>1. pc = "await" /\ (Script(call)[step][2] \in {"RECEIVE", "BOTH"} => unpurged' = Range(serial'))
  BY Executed
<1>2. step = 1
  BY <1>1, CallSteps DEF Sending
<1>3. Newer(serial', n, bs)
  <2>1. bs = Range(serial')
    BY <1>1, <1>2, Scripts
  <2> QED BY <2>1 DEF Newer, Range
<1>4. /\ \A i \in DOMAIN toClient : ~IsAck(toClient[i])
      /\ acks[Cmd] # "acked"
  <2>1. /\ toServer # <<>> /\ Head(toServer).cmd \in Commands
    BY DEF ServerExecutes, ServerReads
  <2>2. 1 \in DOMAIN toServer /\ Head(toServer) = toServer[1] /\ conn # "closed"
    BY <2>1, ServerTail DEF ServerExecutes, ServerReads
  <2>3. answered # sent
    BY <2>1, <2>2 DEF OneCommand, IsCommand, Counts
  <2>4. Cmd \in Commands
    BY <1>1 DEF CallInv
  <2> QED BY <2>2, <2>3, <2>4 DEF OneCommand
<1>5. PICK m \in ToClient : toClient' = Append(toClient, m)
  BY Acked
<1>6. \A i \in DOMAIN toClient' : IsAck(toClient'[i]) => \A j \in DOMAIN toClient' : ~(j > i)
  <2>1. \A i \in DOMAIN toClient' : IsAck(toClient'[i]) => i = Len(toClient) + 1
    BY <1>4, <1>5, ClientMore
  <2>2. \A j \in DOMAIN toClient' : j \in Nat /\ j <= Len(toClient) + 1
    BY <1>5, ClientMore
  <2>3. Len(toClient) \in Nat
    BY DEF Data
  <2> QED BY <2>1, <2>2, <2>3
<1>7. AfterAck(n, bs)'
  BY <1>3, <1>6 DEF AfterAck, Newer, IsAck
<1> QED BY <1>4, <1>7

\* A command is just written: nothing can have been acknowledged.
LEMMA PurgeWritten ==
  ASSUME OneCommand, ~late, conn # "closed", NEW n \in Nat, NEW bs, Written, pc' = "await",
         UNCHANGED <<call, step>>
  PROVE  AfterAck(n, bs)' /\ (Cmd \in Commands => acks'[Cmd'] # "acked")
<1>1. NothingSent /\ UNCHANGED <<acks, toClient>> /\ Cmd' = Cmd
  BY NotAwaiting DEF Written, Cmd
<1> QED BY <1>1 DEF NothingSent, AfterAck, IsAck

\* The pause is over: what is not in the queue yet was overtaken.
LEMMA PauseOver ==
  ASSUME Data, NEW n \in Nat, n = since, NEW bs, bs = unpurged, NEW cs, cs = overtaken',
         UpstreamNewer(n, bs), EndPause
  PROVE  UpstreamNewer(n, cs)'
<1>1. /\ serial \in Seq(Bytes) /\ held \in Seq(Bytes)
      /\ \A j \in DOMAIN toClient : toClient[j].bytes \in Seq(Bytes)
  <2>1. serial \in Seq(Bytes) /\ held \in Seq(Bytes) /\ toClient \in Seq(ToClient)
    BY DEF Data
  <2>2. \A m \in ToClient : m.bytes \in Seq(Bytes)
    BY DEF ToClient
  <2>3. \A j \in DOMAIN toClient : toClient[j] \in ToClient
    BY <2>1
  <2> QED BY <2>1, <2>2, <2>3
<1>2. cs = {b \in bs \cap Upstream : b <= n} /\ UNCHANGED <<serial, held, toClient>>
  BY DEF EndPause, goroutine, server, net
<1>3. ASSUME NEW run \in Seq(Bytes), Range(run) \subseteq Upstream, Newer(run, n, bs)
      PROVE  Newer(run, n, cs)
  <2> SUFFICES ASSUME NEW i \in DOMAIN run PROVE run[i] > n \/ run[i] \in cs
    BY DEF Newer
  <2>1. run[i] \in Upstream /\ run[i] \in Nat /\ (run[i] > n \/ run[i] \in bs)
    <3>4. run[i] \in Bytes
      OBVIOUS
    <3>1. run[i] \in Nat
      BY <3>4 DEF Bytes
    <3>2. run[i] \in Upstream
      BY <1>3 DEF Range
    <3>3. run[i] > n \/ run[i] \in bs
      BY <1>3 DEF Newer
    <3> QED BY <3>1, <3>2, <3>3
  <2>2. \A b \in Nat : b > n \/ b <= n
    OBVIOUS
  <2> QED BY <1>2, <2>1, <2>2
<1>4. /\ Range(serial) \subseteq Upstream /\ Range(held) \subseteq Upstream
      /\ \A j \in DOMAIN toClient : Range(toClient[j].bytes) \subseteq Upstream
  BY DEF Upstream
<1>5. /\ Newer(serial, n, bs) /\ Newer(held, n, bs)
      /\ \A j \in DOMAIN toClient : Newer(toClient[j].bytes, n, bs)
  BY DEF UpstreamNewer
<1>6. /\ Newer(serial, n, cs) /\ Newer(held, n, cs)
      /\ \A j \in DOMAIN toClient : Newer(toClient[j].bytes, n, cs)
  BY <1>1, <1>3, <1>4, <1>5
<1> QED BY <1>2, <1>6 DEF UpstreamNewer, Newer

\* Every step keeps what has come of the reset under way.
LEMMA PurgeKept ==
  Control /\ CallInv /\ ConnInv /\ Data /\ Counts /\ NumberedInv /\ OneCommand /\ PurgeInv /\ [Next]_vars => PurgeInv'
<1> SUFFICES ASSUME Control, CallInv, ConnInv, Data, Counts, NumberedInv, OneCommand, PurgeInv,
                    [Next]_vars, ~late', call' = "ResetInputBuffer",
                    pc' \in {"await", "pause", "drain"}
             PROVE  /\ pc' = "await" => AfterAck(since, unpurged)'
                    /\ pc' = "pause" \/ (pc' = "await" /\ acks'[Cmd'] = "acked")
                         => UpstreamNewer(since, unpurged)'
                    /\ pc' = "drain" => UpstreamNewer(since, overtaken)'
  BY DEF PurgeInv
<1>0. ~late
  BY Irrevocable
<1>1. call = "ResetInputBuffer" =>
        /\ pc = "await" => AfterAck(since, unpurged)
        /\ pc = "pause" \/ (pc = "await" /\ acks[Cmd] = "acked") => UpstreamNewer(since, unpurged)
        /\ pc = "drain" => UpstreamNewer(since, overtaken)
  BY <1>0 DEF PurgeInv
<1>n. PICK n \in Nat : n = since /\ n <= produced
  BY DEF Counts, NumberedInv
<1>b. PICK bs : bs = unpurged
  OBVIOUS
<1>c. PICK cs : cs = overtaken
  OBVIOUS
<1>2. CASE ServerExecutes
  <2>1. UNCHANGED <<call, step, pc, since, acks>> /\ Cmd' = Cmd /\ pc = "await"
    BY <1>0, <1>2, Executed DEF caller, Cmd
  <2>2. PICK ds : ds = unpurged'
    OBVIOUS
  <2>3. AfterAck(n, ds)' /\ acks[Cmd] # "acked"
    BY <1>0, <1>2, <2>1, <2>2, PurgeExecuted
  <2> QED BY <1>n, <2>1, <2>2, <2>3
<1>3. CASE handleSubneg
  <2>1. UNCHANGED <<call, step, pc, since, unpurged, overtaken>> /\ toClient # <<>>
    BY <1>3 DEF handleSubneg, Received, caller, history
  <2>2. ~ServerExecutes
    BY <1>3 DEF handleSubneg, ServerExecutes, ServerReads, Received, caller, history, server
  <2>3. CASE pc = "await"
    <3>1. AfterAck(n, bs) /\ AfterAck(n, bs)'
      BY <1>1, <1>n, <1>b, <2>1, <2>2, <2>3, AfterAckKept
    <3>2. UpstreamNewer(n, bs)'
      BY <1>3, <3>1, PurgeAcked
    <3> QED BY <1>n, <1>b, <2>1, <2>3, <3>1, <3>2
  <2>4. CASE pc = "pause"
    <3>1. UpstreamNewer(n, bs)'
      BY <1>1, <1>n, <1>b, <2>1, <2>4, UpstreamKept
    <3> QED BY <1>n, <1>b, <2>1, <2>4, <3>1
  <2>5. CASE pc = "drain"
    <3>1. UpstreamNewer(n, cs)'
      BY <1>1, <1>n, <1>c, <2>1, <2>5, UpstreamKept
    <3> QED BY <1>n, <1>c, <2>1, <2>5, <3>1
  <2> QED BY <2>1, <2>3, <2>4, <2>5
<1>4. CASE /\ UNCHANGED <<call, step, pc, since, unpurged, overtaken>> /\ ~ServerExecutes
           /\ pc = "await" => acks'[Cmd] = acks[Cmd]
  <2>1. Cmd' = Cmd
    BY <1>4 DEF Cmd
  <2>2. pc = "await" => AfterAck(n, bs)'
    BY <1>1, <1>4, <1>n, <1>b, AfterAckKept
  <2>3. pc = "pause" \/ (pc = "await" /\ acks[Cmd] = "acked") => UpstreamNewer(n, bs)'
    BY <1>1, <1>4, <1>n, <1>b, UpstreamKept
  <2>4. pc = "drain" => UpstreamNewer(n, cs)'
    BY <1>1, <1>4, <1>n, <1>c, UpstreamKept
  <2> QED BY <1>4, <1>n, <1>b, <1>c, <2>1, <2>2, <2>3, <2>4
<1>5. CASE Acknowledged
  <2>1. /\ pc = "await" /\ acks[Cmd] = "acked" /\ Succeed /\ UNCHANGED <<since, unpurged>>
    BY <1>5 DEF Acknowledged, history
  <2>2. call = "ResetInputBuffer" /\ pc' = "pause"
    <3>1. call' \in {call, "none"} /\ (call' # "none" => pc' \in {"send", "pause"})
      BY <2>1, SucceededCalls
    <3> QED BY <3>1
  <2>3. UpstreamNewer(n, bs)'
    BY <1>1, <1>n, <1>b, <2>1, <2>2, UpstreamKept
  <2> QED BY <1>n, <1>b, <2>1, <2>2, <2>3
<1>6. CASE Written
  <2>1. pc' = "await" /\ Cmd \in Commands /\ UNCHANGED <<call, step, conn, since, unpurged>>
    BY <1>6, WrittenCalls DEF Written, history
  <2>2. conn # "closed"
    BY <1>6 DEF Written, ConnInv
  <2>3. AfterAck(n, bs)' /\ acks'[Cmd'] # "acked"
    BY <1>0, <1>6, <2>1, <2>2, PurgeWritten
  <2> QED BY <1>n, <1>b, <2>1, <2>3
<1>8. CASE EndPause
  <2>1. pc = "pause" /\ pc' = "drain" /\ UNCHANGED <<call, since>>
    BY <1>8 DEF EndPause
  <2>2. PICK ds : ds = overtaken'
    OBVIOUS
  <2>3. UpstreamNewer(n, ds)'
    BY <1>1, <1>8, <1>n, <1>b, <2>1, <2>2, PauseOver
  <2> QED BY <1>n, <2>1, <2>2, <2>3
<1>7. \/ UNCHANGED <<call, step, pc, since, unpurged, overtaken>> /\ (pc = "await" => acks'[Cmd] = acks[Cmd])
      \/ ServerExecutes \/ handleSubneg \/ Acknowledged \/ Written \/ EndPause
  <2> USE DEF caller, history, port, goroutine, server, net
  <2>1. CASE Open
    BY <2>1 DEF Open
  <2>2. CASE \E c \in Senders : Request(c)
    BY <2>2 DEF Request, NewCall
  <2>3. CASE Read
    BY <2>3 DEF Read, NewCall
  <2>4. CASE Close
    BY <2>4 DEF Close
  <2>5. CASE Send
    BY <2>5 DEF Send
  <2>6. CASE Lock
    BY <2>6 DEF Lock
  <2>7. CASE Written
    BY <2>7 DEF Written, writeRaw
  <2>8. CASE WriteFailed
    BY <2>8, FailedCalls DEF WriteFailed
  <2>9. CASE Acknowledged
    BY <2>9 DEF Acknowledged
  <2>10. CASE CommandError
    BY <2>10, FailedCalls DEF CommandError
  <2>11. CASE Timeout
    BY <2>11, FailedCalls DEF Timeout
  <2>31. CASE EndPause
    BY <2>31 DEF EndPause
  <2>12. CASE Drain
    BY <2>12, Returned DEF Drain
  <2>13. CASE ReadData
    BY <2>13, Returned DEF ReadData
  <2>14. CASE PutBack
    BY <2>14, Returned DEF PutBack
  <2>15. CASE ReadNothing
    BY <2>15, Returned DEF ReadNothing
  <2>16. CASE Decode
    BY <2>16 DEF Decode, Received
  <2>17. CASE pushData
    BY <2>17 DEF pushData
  <2>18. CASE handleSubneg
    BY <2>18 DEF handleSubneg, Received
  <2>19. CASE handleNegotiation
    BY <2>19 DEF handleNegotiation, Received
  <2>20. CASE ReaderLock
    BY <2>20 DEF ReaderLock
  <2>21. CASE ReaderWrite
    BY <2>21 DEF ReaderWrite, writeRaw
  <2>22. CASE ReaderEnd
    BY <2>22 DEF ReaderEnd
  <2>23. CASE ServerExecutes
    BY <2>23 DEF ServerExecutes, ServerReads
  <2>24. CASE ServerIgnores
    BY <2>24 DEF ServerIgnores, ServerReads
  <2>25. CASE ServerPasses
    BY <2>25 DEF ServerPasses, ServerReads
  <2>26. CASE ServerNegotiates
    BY <2>26 DEF ServerNegotiates
  <2>27. CASE DeviceSends
    BY <2>27 DEF DeviceSends
  <2>28. CASE ServerForwards
    BY <2>28 DEF ServerForwards
  <2>29. CASE ConnectionLost
    BY <2>29 DEF ConnectionLost
  <2>30. CASE UNCHANGED vars
    BY <2>30 DEF vars
  <2> QED
    BY <2>1, <2>2, <2>3, <2>4, <2>5, <2>6, <2>7, <2>8, <2>9, <2>10, <2>11, <2>12, <2>13,
       <2>14, <2>15, <2>16, <2>17, <2>18, <2>19, <2>20, <2>21, <2>22, <2>23, <2>24,
       <2>25, <2>26, <2>27, <2>28, <2>29, <2>30, <2>31
    DEF Next, Caller, Reader, Server, ResetInputBuffer, ResetOutputBuffer, SetDTR, Break, Write,
        Senders, Calls
<1> QED BY <1>2, <1>3, <1>4, <1>5, <1>6, <1>7, <1>8

\* Every step keeps older bytes out of the queue.
LEMMA StaleKept ==
  Control /\ CallInv /\ ConnInv /\ Data /\ Counts /\ NumberedInv /\ OneCommand /\ PurgeInv /\ NothingStale /\ [Next]_vars => NothingStale'
<1> SUFFICES ASSUME Control, CallInv, ConnInv, Data, Counts, NumberedInv, OneCommand, PurgeInv,
                    NothingStale, [Next]_vars, ~late'
             PROVE  NothingStale'
  BY DEF NothingStale
<1>0. ~late
  BY Irrevocable
<1>1. pc # "drain" => UpstreamNewer(fresh, overtaken) /\ QueueNewer(fresh, overtaken)
  BY <1>0 DEF NothingStale, UpstreamNewer, QueueNewer, Newer
<1>2. CASE pc # "drain" /\ UNCHANGED <<fresh, overtaken>>
  <2>1. PICK n \in Nat : n = fresh /\ n <= produced
    BY DEF Counts, NumberedInv
  <2>2. PICK cs : cs = overtaken
    OBVIOUS
  <2>3. UpstreamNewer(n, cs)' /\ QueueNewer(n, cs)'
    BY <1>1, <1>2, <2>1, <2>2, UpstreamKept, QueueKept
  <2> QED BY <1>2, <2>1, <2>2, <2>3 DEF NothingStale, UpstreamNewer, QueueNewer, Newer
<1>3. CASE Drain /\ queue = <<>> /\ queue' = queue /\ fresh' = since
  <2>1. /\ pc = "drain" /\ call = "ResetInputBuffer" /\ rest = <<>> /\ rest' = rest
        /\ overtaken' = overtaken
    BY <1>3 DEF Drain, CallInv
  <2>2. PICK n \in Nat : n = since /\ n <= produced
    BY DEF Counts, NumberedInv
  <2>3. PICK cs : cs = overtaken
    OBVIOUS
  <2>4. UpstreamNewer(n, cs)'
    BY <1>0, <2>1, <2>2, <2>3, UpstreamKept DEF PurgeInv
  <2>5. QueueNewer(n, cs)'
    BY <1>3, <2>1, NewerEmpty DEF QueueNewer, Newer
  <2> QED BY <1>3, <2>1, <2>2, <2>3, <2>4, <2>5 DEF NothingStale, UpstreamNewer, QueueNewer, Newer
<1>4. \/ pc # "drain" /\ UNCHANGED <<fresh, overtaken>>
      \/ Drain /\ queue = <<>> /\ queue' = queue /\ fresh' = since
      \/ pc' = "drain"
  <2> USE DEF CallInv, caller, history, port, goroutine, server, net
  <2>1. CASE Open
    BY <2>1 DEF Open
  <2>2. CASE \E c \in Senders : Request(c)
    BY <2>2 DEF Request, NewCall
  <2>3. CASE Read
    BY <2>3 DEF Read, NewCall
  <2>4. CASE Close
    BY <2>4 DEF Close
  <2>5. CASE Send
    BY <2>5 DEF Send
  <2>6. CASE Lock
    BY <2>6 DEF Lock
  <2>7. CASE Written
    BY <2>7 DEF Written, writeRaw
  <2>8. CASE WriteFailed
    BY <2>8 DEF WriteFailed
  <2>9. CASE Acknowledged
    BY <2>9 DEF Acknowledged
  <2>10. CASE CommandError
    BY <2>10 DEF CommandError
  <2>11. CASE Timeout
    BY <2>11 DEF Timeout
  <2>31. CASE EndPause
    BY <2>31 DEF EndPause
  <2>12. CASE Drain
    BY <2>12 DEF Drain
  <2>13. CASE ReadData
    BY <2>13 DEF ReadData
  <2>14. CASE PutBack
    BY <2>14 DEF PutBack
  <2>15. CASE ReadNothing
    BY <2>15 DEF ReadNothing
  <2>16. CASE Decode
    BY <2>16 DEF Decode, Received
  <2>17. CASE pushData
    BY <2>17 DEF pushData
  <2>18. CASE handleSubneg
    BY <2>18 DEF handleSubneg, Received
  <2>19. CASE handleNegotiation
    BY <2>19 DEF handleNegotiation, Received
  <2>20. CASE ReaderLock
    BY <2>20 DEF ReaderLock
  <2>21. CASE ReaderWrite
    BY <2>21 DEF ReaderWrite, writeRaw
  <2>22. CASE ReaderEnd
    BY <2>22 DEF ReaderEnd
  <2>23. CASE ServerExecutes
    BY <2>23 DEF ServerExecutes, ServerReads
  <2>24. CASE ServerIgnores
    BY <2>24 DEF ServerIgnores, ServerReads
  <2>25. CASE ServerPasses
    BY <2>25 DEF ServerPasses, ServerReads
  <2>26. CASE ServerNegotiates
    BY <2>26 DEF ServerNegotiates
  <2>27. CASE DeviceSends
    BY <2>27 DEF DeviceSends
  <2>28. CASE ServerForwards
    BY <2>28 DEF ServerForwards
  <2>29. CASE ConnectionLost
    BY <2>29 DEF ConnectionLost
  <2>30. CASE UNCHANGED vars
    BY <2>30 DEF vars
  <2> QED
    BY <2>1, <2>2, <2>3, <2>4, <2>5, <2>6, <2>7, <2>8, <2>9, <2>10, <2>11, <2>12, <2>13,
       <2>14, <2>15, <2>16, <2>17, <2>18, <2>19, <2>20, <2>21, <2>22, <2>23, <2>24,
       <2>25, <2>26, <2>27, <2>28, <2>29, <2>30, <2>31
    DEF Next, Caller, Reader, Server, ResetInputBuffer, ResetOutputBuffer, SetDTR, Break, Write,
        Senders, Calls
<1>5. CASE pc' = "drain"
  BY <1>5 DEF NothingStale
<1> QED BY <1>2, <1>3, <1>4, <1>5

-----------------------------------------------------------------------------
(* Theorems.                                                               *)

\* Initially nothing is on its way.
LEMMA InitTyped == Init => Flags /\ Control /\ CallInv /\ ConnInv /\ Data /\ Counts
<1> SUFFICES ASSUME Init PROVE Flags /\ Control /\ CallInv /\ ConnInv /\ Data /\ Counts
  OBVIOUS
<1>1. Flags
  BY Zenon DEF Init, Flags
<1>2. Control
  BY DEF Init, Control, Labels, Idle
<1>3. CallInv /\ ConnInv
  BY DEF Init, CallInv, ConnInv, Idle, Sending
<1>4. Data
  <2>1. /\ <<>> \in Seq(Bytes) /\ <<>> \in Seq(Seq(Bytes)) /\ <<>> \in Seq(ToServer)
        /\ <<>> \in Seq(ToClient) /\ Len(<<>>) = 0
    OBVIOUS
  <2> QED BY <2>1, SizesAssumption DEF Init, Data
<1>5. Counts
  BY BoundsAssumption DEF Init, Counts
<1> QED BY <1>1, <1>2, <1>3, <1>4, <1>5

\* The invariants about commands and bytes hold initially.
LEMMA InitOrdered ==
  Init => NumberedInv /\ OneCommand /\ ReleasedInv /\ BreakInv /\ PurgeInv /\ NothingStale
<1> SUFFICES ASSUME Init
             PROVE  NumberedInv /\ OneCommand /\ ReleasedInv /\ BreakInv /\ PurgeInv /\ NothingStale
  OBVIOUS
<1>1. NumberedInv /\ OneCommand
  BY DEF Init, NumberedInv, OneCommand
<1>2. ReleasedInv /\ PurgeInv
  BY DEF Init, ReleasedInv, PurgeInv
<1>3. BreakInv
  BY Zenon DEF Init, BreakInv
<1>4. NothingStale
  BY DEF Init, NothingStale
<1> QED BY <1>1, <1>2, <1>3, <1>4

\* All that is known of the port between two steps.
PortInv ==
  Control /\ CallInv /\ ConnInv /\ Data /\ Counts /\ NumberedInv /\ OneCommand

\* It holds from the first state on.
LEMMA PortAlways == Spec => []PortInv
<1>1. Init => PortInv
  BY InitTyped, InitOrdered DEF PortInv
<1>2. PortInv /\ [Next]_vars => PortInv'
  BY ControlKept, CallKept, ConnKept, DataKept, CountsKept, OneKept DEF PortInv
<1> QED BY <1>1, <1>2, PTL DEF Spec

\* The queue and the connection stay within their capacities and every
\* variable within its type, in every call and both goroutines (Port).
THEOREM TypesKept == Spec => []TypeOK
<1>1. Init => Flags
  BY InitTyped
<1>2. PortInv => Control /\ Data /\ Counts
  BY DEF PortInv
<1> QED BY <1>1, <1>2, FlagsKept, PortAlways, PTL DEF Spec, TypeOK

\* After ResetInputBuffer no byte reaches Read that the device had sent before,
\* wherever it was: forwarded by the server, left to come by a purge that is
\* acknowledged too early, held by the reader or in the queue.  Two exceptions:
\* a byte which the purge left and which had not got to the queue when the pause
\* was over, and everything once an acknowledgement has come after its command
\* timed out.
THEOREM ResetsHold == Spec => []NothingStale
<1>1. Init => PurgeInv /\ NothingStale
  BY InitOrdered
<1>2. PortInv /\ PurgeInv /\ [Next]_vars => PurgeInv'
  BY PurgeKept DEF PortInv
<1>3. PortInv /\ PurgeInv /\ NothingStale /\ [Next]_vars => NothingStale'
  BY StaleKept DEF PortInv
<1> QED BY <1>1, <1>2, <1>3, PortAlways, PTL DEF Spec

\* Close has released RTS and purged the server when it disconnects, unless one
\* of its commands failed, or an acknowledgement has come after its command timed
\* out, in Open or in any later call: Close may take that one for its own.
THEOREM CloseReleases == Spec => []ReleasedBeforeDisconnect
<1>1. Init => ReleasedInv
  BY InitOrdered
<1>2. PortInv /\ PortInv' /\ ReleasedInv /\ [Next]_vars => ReleasedInv'
  BY ReleasedKept DEF PortInv
<1>3. ReleasedInv => ReleasedBeforeDisconnect
  BY DEF ReleasedInv, ReleasedBeforeDisconnect
<1> QED BY <1>1, <1>2, <1>3, PortAlways, PTL DEF Spec

\* Break that reports no error has ended what it began, unless an
\* acknowledgement has come after its command timed out, which Break may take
\* for its own.
THEOREM BreaksEnd == Spec => []BreakReleased
<1>1. Init => BreakInv
  BY InitOrdered
<1>2. PortInv /\ BreakInv /\ [Next]_vars => BreakInv'
  BY BreakKept DEF PortInv
<1>3. PortInv /\ BreakInv => BreakReleased
  BY DEF PortInv, BreakInv, BreakReleased, ConnInv, Sending
<1> QED BY <1>1, <1>2, <1>3, PortAlways, PTL DEF Spec
=============================================================================
