--------------------------- MODULE TelnetDecoder ---------------------------
(***************************************************************************)
(* telnetDecoder of the RFC 2217 transport: a byte machine that separates  *)
(* serial data from Telnet commands in a TCP stream.  feed() is called     *)
(* with whatever one read of the connection returned; Feed is its loop     *)
(* body and EndOfInput its end, so the state survives every possible cut.  *)
(*                                                                         *)
(* The callbacks onData, onNegotiation and onSubnegotiation are a log of   *)
(* events.  A data event carries one byte: how the bytes of a run are      *)
(* grouped into calls does not matter here.                                *)
(***************************************************************************)
EXTENDS Integers, Sequences

IAC == 255
DONT == 254
DO == 253
WONT == 252
WILL == 251
SB == 250
SE == 240

Byte == 0..255
Commands == {WILL, WONT, DO, DONT}

DataEvent(b) == [kind |-> "data", bytes |-> <<b>>]
Negotiation(command, option) == [kind |-> "option", bytes |-> <<command, option>>]
Subnegotiation(v) == [kind |-> "sub", bytes |-> v]
Event == [kind : {"data", "option", "sub"}, bytes : Seq(Byte)]

VARIABLES
  state,    \* telnetData, telnetIAC, ..., without the prefix
  sub,      \* the subnegotiation so far
  data,     \* data bytes of this call that were not handed over yet
  seen      \* history: what the callbacks were given

decoder == <<state, sub, data, seen>>

CommandStates == {"WILL", "WONT", "DO", "DONT"}
States == {"Data", "IAC", "SB", "SBIAC"} \cup CommandStates

stateToCommand(s) ==
  CASE s = "WILL" -> WILL [] s = "WONT" -> WONT [] s = "DO" -> DO [] s = "DONT" -> DONT
    [] OTHER -> 0

DecoderInit == state = "Data" /\ sub = <<>> /\ data = <<>> /\ seen = <<>>

\* The data bytes that await a flush, as events.
Pending == [i \in 1..Len(data) |-> DataEvent(data[i])]

\* Slip of flush: the bytes wait for the end of the input.
NoFlush == data' = data /\ seen' = seen

flush == data' = <<>> /\ seen' = seen \o Pending

InData(b) ==
  /\ state = "Data"
  /\ \/ b = IAC /\ state' = "IAC" /\ flush
     \/ b # IAC /\ state' = state /\ data' = Append(data, b) /\ seen' = seen
  /\ sub' = sub

\* Slip of AfterIAC: a doubled IAC is dropped like any other command.
AfterIACUnescaped(b) ==
  /\ state = "IAC"
  /\ \/ \E s \in CommandStates : b = stateToCommand(s) /\ state' = s /\ UNCHANGED <<sub, data>>
     \/ b = SB /\ state' = "SB" /\ sub' = <<>> /\ data' = data
     \/ b \notin Commands \cup {SB} /\ state' = "Data" /\ UNCHANGED <<sub, data>>
  /\ seen' = seen

\* A literal 0xFF, the start of a longer command, or one that is ignored.
AfterIAC(b) ==
  /\ state = "IAC"
  /\ \/ b = IAC /\ state' = "Data" /\ data' = Append(data, IAC) /\ sub' = sub
     \/ \E s \in CommandStates : b = stateToCommand(s) /\ state' = s /\ UNCHANGED <<sub, data>>
     \/ b = SB /\ state' = "SB" /\ sub' = <<>> /\ data' = data
     \/ b \notin Commands \cup {IAC, SB} /\ state' = "Data" /\ UNCHANGED <<sub, data>>
  /\ seen' = seen

AfterCommand(b) ==
  /\ state \in CommandStates
  /\ seen' = Append(seen, Negotiation(stateToCommand(state), b))
  /\ state' = "Data"
  /\ UNCHANGED <<sub, data>>

InSub(b) ==
  /\ state = "SB"
  /\ \/ b = IAC /\ state' = "SBIAC" /\ sub' = sub
     \/ b # IAC /\ state' = state /\ sub' = Append(sub, b)
  /\ UNCHANGED <<data, seen>>

\* Slip of AfterSubIAC: a malformed subnegotiation goes on.
AfterSubIACForgiving(b) ==
  /\ state = "SBIAC"
  /\ \/ b = IAC /\ state' = "SB" /\ sub' = Append(sub, IAC) /\ seen' = seen
     \/ b = SE /\ state' = "SB" /\ seen' = Append(seen, Subnegotiation(sub)) /\ sub' = sub
     \/ b \notin {IAC, SE} /\ state' = "SB" /\ UNCHANGED <<sub, seen>>
  /\ data' = data

\* A literal 0xFF, the end, or a malformed subnegotiation that is given up.
AfterSubIAC(b) ==
  /\ state = "SBIAC"
  /\ \/ b = IAC /\ state' = "SB" /\ sub' = Append(sub, IAC) /\ seen' = seen
     \/ b = SE /\ state' = "Data" /\ seen' = Append(seen, Subnegotiation(sub)) /\ sub' = sub
     \/ b \notin {IAC, SE} /\ state' = "Data" /\ UNCHANGED <<sub, seen>>
  /\ data' = data

Feed(b) == InData(b) \/ AfterIAC(b) \/ AfterCommand(b) \/ InSub(b) \/ AfterSubIAC(b)

\* feed() returns: the bytes of this call are handed over.
EndOfInput == data # <<>> /\ flush /\ UNCHANGED <<state, sub>>
=============================================================================
