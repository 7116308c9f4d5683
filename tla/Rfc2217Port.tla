----------------------------- MODULE Rfc2217Port -----------------------------
(***************************************************************************)
(* Port, the serial port behind an RFC 2217 server: the goroutine that     *)
(* calls it, the reader goroutine that decodes what the connection         *)
(* delivers, the maps, channels and the write mutex between them, and the  *)
(* server with the serial device behind it.                                *)
(*                                                                         *)
(* The Telnet encoding is the concern of TelnetStream: here the connection *)
(* carries whole messages.  Serial bytes are numbered as the device sends  *)
(* them.  A command carries a number too, which the protocol does not      *)
(* have; only the properties look at it.  SET_BAUDRATE stands for the four *)
(* settings with an acknowledgement of their own.  One goroutine calls the *)
(* port, so no command is ever "already pending" and none finds the port   *)
(* closed.                                                                 *)
(***************************************************************************)
EXTENDS Naturals, Sequences, Functions

CONSTANTS
  Cap,        \* capacity of the data channel, 64 in the code
  Buf,        \* bytes the caller of Read has room for, 264 in the code
  MaxChunk,   \* longest run of bytes the decoder hands over, 4096 in the code
  Window,     \* messages the connection holds before a write blocks
  MaxData,    \* bound: bytes the device sends
  MaxCalls,   \* bound: calls between Open and Close
  MaxSilent   \* bound: commands the server ignores, messages of its own

ASSUME SizesAssumption ==
  /\ Cap \in Nat \ {0} /\ Buf \in Nat \ {0}
  /\ MaxChunk \in Nat \ {0} /\ Window \in Nat \ {0}
ASSUME BoundsAssumption == MaxData \in Nat /\ MaxCalls \in Nat /\ MaxSilent \in Nat

Commands == {"SET_BAUDRATE", "SET_CONTROL", "PURGE_DATA"}

\* What a call writes, in order: the command and its value.  Options and data
\* are not acknowledged.
Script(c) ==
  CASE c = "Open" -> <<<<"OPTION", "request">>, <<"SET_BAUDRATE", "9600">>,
                       <<"SET_CONTROL", "NO_FLOW">>, <<"SET_CONTROL", "RTS_ON">>>>
    [] c = "Write" -> <<<<"DATA", "request">>>>
    [] c = "ResetInputBuffer" -> <<<<"PURGE_DATA", "RECEIVE">>>>
    [] c = "ResetOutputBuffer" -> <<<<"PURGE_DATA", "TRANSMIT">>>>
    [] c = "SetDTR" -> <<<<"SET_CONTROL", "DTR_ON">>>>
    [] c = "Break" -> <<<<"SET_CONTROL", "BREAK_ON">>, <<"SET_CONTROL", "BREAK_OFF">>>>
    [] c = "Close" -> <<<<"SET_CONTROL", "RTS_OFF">>, <<"PURGE_DATA", "BOTH">>>>

VARIABLES
  pc, call, step,   \* the caller: where it is, in which call, at which message
  rest,             \* what Read could not return and wants to put back
  reader, held,     \* the reader goroutine and the run of bytes it pushes
  acks,             \* Port.acks: "none", "waiting", or "acked" with a full channel
  queue,            \* Port.data
  errCh, done,      \* Port.errCh (does it hold an error?), Port.done (closed?)
  lock,             \* Port.writeMu: "none", "caller" or "reader"
  conn,             \* the TCP connection: "none", "up", "lost" or "closed"
  toServer, toClient,
  serial, rts, brk, \* what the device has sent and the server has not yet written to the
                    \* connection, the RTS line and the break state
  produced,         \* how many bytes the device has sent
  sent,             \* how many commands the caller has sent
  answered,         \* the number of the command the server executed last
  calls, silent,    \* how many calls were made, how often the server had its way
  since,            \* history: produced when the current or last reset was called
  fresh,            \* history: the same for the last reset that succeeded
  unpurged,         \* history: the bytes that the last purge left to come
  overtaken,        \* history: those of them that the last pause was too short for
  late,             \* history: did a command time out before its acknowledgement came?
  failed            \* history: those of Break and Close in which something has failed

caller == <<pc, call, step, rest, sent, calls>>
history == <<since, fresh, unpurged, overtaken, late, failed>>
port == <<acks, queue, errCh, done, lock>>
goroutine == <<reader, held>>
server == <<serial, rts, brk, produced, answered, silent>>
net == <<conn, toServer, toClient>>
vars == <<caller, history, port, goroutine, server, net>>

Calls == {"Open", "Write", "ResetInputBuffer", "ResetOutputBuffer", "SetDTR", "Break", "Read",
          "Close"}
Idle == {"new", "ready", "closed"}
Labels == Idle \cup {"send", "lock", "write", "await", "pause", "drain", "read", "put back"}
Bytes == 1..MaxData

Values == {"request", "reply", "9600", "NO_FLOW", "RTS_ON", "RTS_OFF", "DTR_ON",
           "BREAK_ON", "BREAK_OFF", "RECEIVE", "TRANSMIT", "BOTH"}

ToServer == [cmd : Commands \cup {"DATA", "OPTION"}, value : Values, id : Nat]
ToClient == [kind : {"data", "ack", "option"}, cmd : Commands \cup {""}, id : Nat,
             bytes : Seq(Bytes)]

Flags == errCh \in BOOLEAN /\ done \in BOOLEAN /\ rts \in BOOLEAN /\ brk \in BOOLEAN /\ late \in BOOLEAN

Control ==
  /\ pc \in Labels /\ call \in Calls \cup {"none"} /\ step \in 1..4
  /\ reader \in {"off", "read", "push", "lock", "write", "ended"}
  /\ acks \in [Commands -> {"none", "waiting", "acked"}]
  /\ lock \in {"none", "caller", "reader"} /\ conn \in {"none", "up", "lost", "closed"}
  /\ failed \in SUBSET {"Break", "Close"}

Data ==
  /\ rest \in Seq(Bytes) /\ held \in Seq(Bytes) /\ serial \in Seq(Bytes)
  /\ queue \in Seq(Seq(Bytes)) /\ Len(queue) <= Cap
  /\ toServer \in Seq(ToServer) /\ Len(toServer) <= Window /\ toClient \in Seq(ToClient)

Counts ==
  /\ produced \in 0..MaxData /\ since \in 0..MaxData /\ fresh \in 0..MaxData
  /\ unpurged \in SUBSET Bytes /\ overtaken \in SUBSET Bytes
  /\ sent \in Nat /\ answered \in 0..sent
  /\ calls \in 0..MaxCalls /\ silent \in 0..MaxSilent

TypeOK == Flags /\ Control /\ Data /\ Counts

Init ==
  /\ pc = "new" /\ call = "none" /\ step = 1 /\ rest = <<>>
  /\ reader = "off" /\ held = <<>>
  /\ acks = [c \in Commands |-> "none"] /\ queue = <<>> /\ errCh = FALSE /\ done = FALSE
  /\ lock = "none" /\ conn = "none" /\ toServer = <<>> /\ toClient = <<>>
  /\ serial = <<>> /\ rts = FALSE /\ brk = FALSE /\ produced = 0 /\ sent = 0 /\ answered = 0
  /\ calls = 0 /\ silent = 0
  /\ since = 0 /\ fresh = 0 /\ unpurged = {} /\ overtaken = {} /\ late = FALSE /\ failed = {}
-----------------------------------------------------------------------------
(* The caller.                                                             *)

Cmd == Script(call)[step][1]
Message == [cmd |-> Cmd, value |-> Script(call)[step][2],
            id |-> IF Cmd \in Commands THEN sent ELSE 0]

\* The end of writeRaw, which blocks while the connection takes no more.
\* Nothing tells that the connection is lost until a write fails; what is
\* written then is gone.
writeRaw(message) ==
  /\ conn = "up" => Len(toServer) < Window
  /\ toServer' = IF conn = "up" THEN Append(toServer, message) ELSE toServer
  /\ lock' = "none"

\* The call returns, or Open, having failed, calls Close.
Leave ==
  /\ pc' = IF call = "Open" THEN "send" ELSE "ready"
  /\ call' = IF call = "Open" THEN "Close" ELSE "none"
  /\ step' = 1

Open ==
  /\ pc = "new"
  /\ pc' = "send" /\ call' = "Open" /\ step' = 1
  /\ conn' = "up" /\ reader' = "read"
  /\ UNCHANGED <<rest, sent, calls, history, port, held, server, toServer, toClient>>

NewCall == pc = "ready" /\ calls < MaxCalls /\ calls' = calls + 1

\* A call that sends: ResetInputBuffer, Write and the calls the daemon leaves alone.
Request(c) ==
  /\ NewCall
  /\ pc' = "send" /\ call' = c /\ step' = 1
  /\ since' = IF c = "ResetInputBuffer" THEN produced ELSE since
  /\ UNCHANGED <<rest, sent, fresh, unpurged, overtaken, late, failed, port, goroutine, server,
                 net>>

ResetInputBuffer == Request("ResetInputBuffer")
ResetOutputBuffer == Request("ResetOutputBuffer")
SetDTR == Request("SetDTR")
Break == Request("Break")
Write == Request("Write")

Read ==
  /\ NewCall
  /\ pc' = "read" /\ call' = "Read"
  /\ UNCHANGED <<step, rest, sent, history, port, goroutine, server, net>>

\* Slip of Close: the connection goes first.
CloseAtOnce ==
  /\ pc = "ready"
  /\ pc' = "closed" /\ call' = "none" /\ step' = 1 /\ done' = TRUE /\ conn' = "closed"
  /\ UNCHANGED <<rest, sent, calls, history, acks, queue, errCh, lock, goroutine, server,
                 toServer, toClient>>

\* closeOnce: Close has no effect when it is called again.
Close ==
  /\ pc = "ready"
  /\ pc' = "send" /\ call' = "Close" /\ step' = 1
  /\ UNCHANGED <<rest, sent, calls, history, port, goroutine, server, net>>

\* The end of Close.
Finish ==
  /\ pc' = "closed" /\ call' = "none" /\ step' = 1
  /\ done' = TRUE /\ conn' = "closed"

LastMessage == step = Len(Script(call))

\* The next message of the call, or what comes after the last: Close closes the
\* connection, ResetInputBuffer pauses, the others return.
Succeed ==
  \/ /\ ~LastMessage
     /\ pc' = "send" /\ step' = step + 1 /\ UNCHANGED <<call, done, conn>>
  \/ /\ LastMessage /\ call = "Close"
     /\ Finish
  \/ /\ LastMessage /\ call # "Close"
     /\ pc' = IF call = "ResetInputBuffer" THEN "pause" ELSE "ready"
     /\ call' = IF call = "ResetInputBuffer" THEN call ELSE "none"
     /\ step' = 1 /\ UNCHANGED <<done, conn>>

\* A failure ends the call, except Close, which does not look.
Failed ==
  /\ failed' = failed \cup ({call} \cap {"Break", "Close"})
  /\ \/ call = "Close" /\ Succeed
     \/ call # "Close" /\ Leave /\ UNCHANGED <<done, conn>>

SetAck(state) == acks' = [c \in Commands |-> IF c = Cmd THEN state ELSE acks[c]]
removeAck == SetAck("none")

\* A command registers its acknowledgement before it is written.
Send ==
  /\ pc = "send" /\ pc' = "lock"
  /\ sent' = IF Cmd \in Commands THEN sent + 1 ELSE sent
  /\ SetAck("waiting")
  /\ UNCHANGED <<call, step, rest, calls, history, queue, errCh, done, lock, goroutine,
                 server, net>>

Lock ==
  /\ pc = "lock" /\ lock = "none"
  /\ pc' = "write" /\ lock' = "caller"
  /\ UNCHANGED <<call, step, rest, sent, calls, history, acks, queue, errCh, done, goroutine,
                 server, net>>

Written ==
  /\ pc = "write" /\ writeRaw(Message)
  /\ \/ Cmd \in Commands /\ pc' = "await" /\ UNCHANGED <<call, step, done, conn>>
     \/ Cmd \notin Commands /\ Succeed
  /\ UNCHANGED <<rest, sent, calls, history, acks, queue, errCh, goroutine, server, toClient>>

WriteFailed ==
  /\ pc = "write" /\ conn # "up" /\ lock' = "none"
  /\ removeAck /\ Failed
  /\ UNCHANGED <<rest, sent, calls, since, fresh, unpurged, overtaken, late, queue, errCh, goroutine, server,
                 toServer, toClient>>

Acknowledged ==
  /\ pc = "await" /\ acks[Cmd] = "acked"
  /\ removeAck /\ Succeed
  /\ UNCHANGED <<rest, sent, calls, history, queue, errCh, lock, goroutine, server, toServer,
                 toClient>>

\* The reader's error, which only one call gets to see.
CommandError ==
  /\ pc = "await" /\ errCh
  /\ errCh' = FALSE /\ removeAck /\ Failed
  /\ UNCHANGED <<rest, sent, calls, since, fresh, unpurged, overtaken, late, queue, lock, goroutine, server,
                 toServer, toClient>>

\* Is the acknowledgement of the current command still to come?
OnItsWay ==
  \/ \E i \in DOMAIN toServer : toServer[i].id = sent
  \/ \E i \in DOMAIN toClient : toClient[i].id = sent

\* Slip of Timeout: a missing acknowledgement is not taken for an error.
TimeoutForgiven ==
  /\ pc = "await"
  /\ removeAck /\ Succeed /\ late' = (late \/ OnItsWay)
  /\ UNCHANGED <<rest, sent, calls, since, fresh, unpurged, overtaken, failed, queue, errCh, lock, goroutine, server,
                 toServer, toClient>>

\* Three seconds have passed.
Timeout ==
  /\ pc = "await"
  /\ removeAck /\ Failed /\ late' = (late \/ OnItsWay)
  /\ UNCHANGED <<rest, sent, calls, since, fresh, unpurged, overtaken, queue, errCh, lock, goroutine, server,
                 toServer, toClient>>

\* Serial bytes on their way to the queue.
Upstream == Range(serial) \cup Range(held) \cup UNION {Range(toClient[i].bytes) : i \in DOMAIN toClient}

\* The 20 ms in which what the purge has left should get to the queue.  They may
\* be too short for some of it.
EndPause ==
  /\ pc = "pause" /\ pc' = "drain"
  /\ overtaken' = {b \in unpurged \cap Upstream : b <= since}
  /\ UNCHANGED <<call, step, rest, sent, calls, since, fresh, unpurged, late, failed, port,
                 goroutine, server, net>>

\* Slip of Drain: the queue is left alone.
DrainNothing ==
  /\ pc = "drain"
  /\ Leave /\ queue' = queue /\ fresh' = since
  /\ UNCHANGED <<rest, sent, calls, since, unpurged, overtaken, late, failed, acks, errCh, done, lock,
                 goroutine, server, net>>

\* After the pause the queue is emptied, one run of bytes after the other.
Drain ==
  /\ pc = "drain"
  /\ \/ queue # <<>> /\ queue' = Tail(queue) /\ UNCHANGED <<pc, call, step, fresh>>
     \/ queue = <<>> /\ queue' = queue /\ Leave /\ fresh' = since
  /\ UNCHANGED <<rest, sent, calls, since, unpurged, overtaken, late, failed, acks, errCh, done, lock,
                 goroutine, server, net>>

\* Read returns as much as there is room for; the rest goes to the queue again.
ReadData ==
  /\ pc = "read" /\ queue # <<>>
  /\ queue' = Tail(queue)
  /\ LET d == Head(queue)
         n == IF Len(d) < Buf THEN Len(d) ELSE Buf
     IN  /\ rest' = SubSeq(d, n + 1, Len(d))
         /\ \/ n = Len(d) /\ Leave
            \/ n # Len(d) /\ pc' = "put back" /\ UNCHANGED <<call, step>>
  /\ UNCHANGED <<sent, calls, history, acks, errCh, done, lock, goroutine, server, net>>

PutBack ==
  /\ pc = "put back" /\ Len(queue) < Cap
  /\ queue' = Append(queue, rest) /\ rest' = <<>> /\ Leave
  /\ UNCHANGED <<sent, calls, history, acks, errCh, done, lock, goroutine, server, net>>

\* Read returns nothing, or the reader's error.
ReadNothing ==
  /\ pc = "read" /\ Leave
  /\ errCh' \in {errCh, FALSE}
  /\ UNCHANGED <<rest, sent, calls, history, acks, queue, done, lock, goroutine, server, net>>

Caller ==
  \/ Send \/ Lock \/ Written \/ WriteFailed \/ Acknowledged \/ CommandError \/ Timeout
  \/ EndPause \/ Drain \/ ReadData \/ PutBack \/ ReadNothing
-----------------------------------------------------------------------------
(* The reader goroutine.                                                   *)

Received ==
  /\ reader = "read" /\ conn \in {"up", "lost"}
  /\ toClient # <<>> /\ toClient' = Tail(toClient)

Decode ==
  /\ Received /\ Head(toClient).kind = "data"
  /\ held' = Head(toClient).bytes /\ reader' = "push"
  /\ UNCHANGED <<caller, history, port, server, conn, toServer>>

\* Slip of pushData: a queue without a limit.
pushDataAlways ==
  /\ reader = "push"
  /\ queue' = Append(queue, held) /\ reader' = "read" /\ held' = <<>>
  /\ UNCHANGED <<caller, history, acks, errCh, done, lock, server, net>>

\* Slip of pushData: it does not look at done.
pushDataForEver ==
  /\ reader = "push" /\ Len(queue) < Cap
  /\ queue' = Append(queue, held) /\ reader' = "read" /\ held' = <<>>
  /\ UNCHANGED <<caller, history, acks, errCh, done, lock, server, net>>

pushData ==
  /\ reader = "push"
  /\ \/ Len(queue) < Cap /\ queue' = Append(queue, held)
     \/ done /\ queue' = queue
  /\ reader' = "read" /\ held' = <<>>
  /\ UNCHANGED <<caller, history, acks, errCh, done, lock, server, net>>

\* An acknowledgement nobody waits for is dropped, and so is a second one.
handleSubneg ==
  /\ Received /\ Head(toClient).kind = "ack"
  /\ LET cmd == Head(toClient).cmd
     IN  acks' = [c \in Commands |-> IF c = cmd /\ acks[c] = "waiting" THEN "acked" ELSE acks[c]]
  /\ UNCHANGED <<caller, history, queue, errCh, done, lock, goroutine, server, conn, toServer>>

\* Every option is answered, under the mutex that the caller's writes take.
handleNegotiation ==
  /\ Received /\ Head(toClient).kind = "option"
  /\ reader' = "lock"
  /\ UNCHANGED <<caller, history, port, held, server, conn, toServer>>

ReaderLock ==
  /\ reader = "lock" /\ lock = "none"
  /\ reader' = IF done THEN "read" ELSE "write"
  /\ lock' = IF done THEN "none" ELSE "reader"
  /\ UNCHANGED <<caller, history, acks, queue, errCh, done, held, server, net>>

\* Slip of ReaderWrite: a write that fails keeps the mutex.
ReaderWriteKeepsLock ==
  /\ reader = "write" /\ reader' = "read"
  /\ conn = "up" => Len(toServer) < Window
  /\ toServer' = IF conn = "up"
                 THEN Append(toServer, [cmd |-> "OPTION", value |-> "reply", id |-> 0])
                 ELSE toServer
  /\ lock' = IF conn = "up" THEN "none" ELSE lock
  /\ UNCHANGED <<caller, history, acks, queue, errCh, done, held, server, conn, toClient>>

\* The reply; its error is ignored.
ReaderWrite ==
  /\ reader = "write" /\ reader' = "read"
  /\ writeRaw([cmd |-> "OPTION", value |-> "reply", id |-> 0])
  /\ UNCHANGED <<caller, history, acks, queue, errCh, done, held, server, conn, toClient>>

\* The connection fails: the error is kept for one caller, and the reader ends.
ReaderEnd ==
  /\ reader = "read"
  /\ conn = "closed" \/ (conn = "lost" /\ toClient = <<>>)
  /\ errCh' = TRUE /\ reader' = "ended"
  /\ UNCHANGED <<caller, history, acks, queue, done, lock, held, server, net>>

Reader ==
  \/ Decode \/ pushData \/ handleSubneg \/ handleNegotiation
  \/ ReaderLock \/ ReaderWrite \/ ReaderEnd
-----------------------------------------------------------------------------
(* The server, the device and the connection.                              *)

ServerReads == conn = "up" /\ toServer # <<>> /\ toServer' = Tail(toServer)

\* What a SET_CONTROL command makes of a line.
Switched(line, value, on, off) == value = on \/ (line /\ value # off)

\* A purge may take away any part of what the device has sent and the server has
\* not written to the connection.  A first part stays, which the server has in
\* its hands, and a last one, which is still on the serial line: these bytes
\* follow the acknowledgement.
Purge ==
  \E i \in 0..Len(serial) : \E j \in i..Len(serial) :
    /\ serial' = SubSeq(serial, 1, i) \o SubSeq(serial, j + 1, Len(serial))
    /\ unpurged' = Range(serial')

ServerExecutes ==
  /\ ServerReads /\ Head(toServer).cmd \in Commands
  /\ LET m == Head(toServer)
     IN  /\ rts' = Switched(rts, m.value, "RTS_ON", "RTS_OFF")
         /\ brk' = Switched(brk, m.value, "BREAK_ON", "BREAK_OFF")
         /\ IF m.value \in {"RECEIVE", "BOTH"} THEN Purge ELSE UNCHANGED <<serial, unpurged>>
         /\ answered' = m.id
         /\ toClient' = Append(toClient, [kind |-> "ack", cmd |-> m.cmd, id |-> m.id, bytes |-> <<>>])
  /\ UNCHANGED <<produced, silent, caller, since, fresh, overtaken, late, failed, port,
                 goroutine, conn>>

ServerIgnores ==
  /\ ServerReads /\ Head(toServer).cmd \in Commands
  /\ silent < MaxSilent /\ silent' = silent + 1
  /\ UNCHANGED <<serial, rts, brk, produced, answered, caller, history, port, goroutine,
                 conn, toClient>>

\* A request for the device or an option.
ServerPasses ==
  /\ ServerReads /\ Head(toServer).cmd \notin Commands
  /\ UNCHANGED <<caller, history, port, goroutine, server, conn, toClient>>

ServerNegotiates ==
  /\ conn = "up" /\ silent < MaxSilent /\ silent' = silent + 1
  /\ toClient' = Append(toClient, [kind |-> "option", cmd |-> "", id |-> 0, bytes |-> <<>>])
  /\ UNCHANGED <<serial, rts, brk, produced, answered, caller, history, port, goroutine,
                 conn, toServer>>

DeviceSends ==
  /\ conn = "up" /\ produced < MaxData
  /\ produced' = produced + 1 /\ serial' = Append(serial, produced + 1)
  /\ UNCHANGED <<rts, brk, answered, silent, caller, history, port, goroutine, net>>

ServerForwards ==
  /\ conn = "up" /\ serial # <<>>
  /\ \E n \in 1..Len(serial) :
       /\ n <= MaxChunk
       /\ toClient' = Append(toClient, [kind |-> "data", cmd |-> "", id |-> 0,
                                        bytes |-> SubSeq(serial, 1, n)])
       /\ serial' = SubSeq(serial, n + 1, Len(serial))
  /\ UNCHANGED <<rts, brk, produced, answered, silent, caller, history, port, goroutine,
                 conn, toServer>>

\* What has not been read yet may still arrive, or is gone.
ConnectionLost ==
  /\ conn = "up"
  /\ conn' = "lost" /\ toServer' = <<>> /\ toClient' \in {toClient, <<>>}
  /\ UNCHANGED <<caller, history, port, goroutine, server>>

Server == ServerExecutes \/ ServerIgnores \/ ServerPasses

Next ==
  \/ Open \/ Read \/ Close
  \/ ResetInputBuffer \/ ResetOutputBuffer \/ SetDTR \/ Break \/ Write
  \/ Caller \/ Reader \/ Server
  \/ ServerNegotiates \/ DeviceSends \/ ServerForwards \/ ConnectionLost

Spec == Init /\ [][Next]_vars

\* Both goroutines run, timers fire, and the server takes what is written to it:
\* a write has no deadline.  Nothing is expected of its answers.
FairSpec == Spec /\ WF_vars(Caller) /\ WF_vars(Reader) /\ WF_vars(Server)
-----------------------------------------------------------------------------
\* After a ResetInputBuffer no byte is left on the way to Read that the device
\* had sent before it was called: what the server had forwarded lies before the
\* acknowledgement, and what the purge has left comes during the pause, so that
\* both are in the queue when it is drained.  Two cases are exempt: bytes that
\* the purge left and that had not got to the queue when the pause was over, and
\* every byte once a command has timed out before its acknowledgement came.
NothingStale ==
  LET Newer(run) == \A i \in DOMAIN run : run[i] > fresh \/ run[i] \in overtaken
  IN  ~late /\ pc # "drain" => /\ Newer(rest) /\ Newer(held) /\ Newer(serial)
                               /\ \A i \in DOMAIN queue : Newer(queue[i])
                               /\ \A i \in DOMAIN toClient : Newer(toClient[i].bytes)

\* Close has the server release RTS and purge its buffers before the connection
\* goes, with two exceptions: one of its two commands failed, which Close does
\* not look at, or a command of this session had timed out before its
\* acknowledgement came.  An Open that gave up RTS_ON, say, leaves an
\* acknowledgement behind that Close takes for the one of RTS_OFF: it then
\* disconnects with RTS asserted and no error anywhere.
ReleasedBeforeDisconnect ==
  conn = "closed" /\ ~late /\ "Close" \notin failed => ~rts /\ answered = sent

\* A call leaves the line in break only if Break has told that it failed, or if
\* a command had timed out before its acknowledgement came: such an
\* acknowledgement lets Break succeed before the server has ended the break.
BreakReleased == pc = "ready" /\ brk /\ ~late => "Break" \in failed

\* Every call returns, whatever the server answers and whenever the connection
\* goes, unless Read wants to put a rest back into a full queue.
CallEnds == pc \notin Idle ~> pc \in Idle \/ (pc = "put back" /\ Len(queue) = Cap)

\* After Close the reader goroutine ends, wherever it was.
ReaderEnds == pc = "closed" ~> reader = "ended"
=============================================================================
