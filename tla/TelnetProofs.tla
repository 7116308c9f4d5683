---------------------------- MODULE TelnetProofs ----------------------------
(***************************************************************************)
(* The Telnet decoder hands over what a well-formed stream means, and is   *)
(* ready for the next item after any stream at all.                        *)
(***************************************************************************)
EXTENDS TelnetStream, TLAPS

\* A sequence of one, two or three elements taken apart.
LEMMA Pieces ==
  ASSUME NEW a, NEW b, NEW c
  PROVE  /\ Head(<<a>>) = a /\ Tail(<<a>>) = <<>> /\ <<a>> # <<>>
         /\ Head(<<a, b>>) = a /\ Tail(<<a, b>>) = <<b>> /\ <<a, b>> # <<>>
         /\ Head(<<a, b, c>>) = a /\ Tail(<<a, b, c>>) = <<b, c>>
         /\ <<a, b, c>> # <<>>
OBVIOUS

\* Appending to the second of two joined sequences.
LEMMA JoinAppend ==
  ASSUME NEW P, NEW e \in P, NEW s \in Seq(P), NEW t \in Seq(P)
  PROVE  s \o Append(t, e) = Append(s \o t, e) /\ s \o t \in Seq(P)
OBVIOUS

\* Appending keeps the type.
LEMMA AppendType ==
  ASSUME NEW P, NEW e \in P, NEW s \in Seq(P)
  PROVE  Append(s, e) \in Seq(P)
OBVIOUS

\* Joining nothing.
LEMMA JoinEmpty ==
  ASSUME NEW P, NEW s \in Seq(P)
  PROVE  s \o <<>> = s
OBVIOUS

\* The pending bytes are events.
LEMMA PendingType == data \in Seq(Byte) => Pending \in Seq(Event)
BY DEF Pending, Event, DataEvent

\* No data bytes, no pending events.
LEMMA PendingNone ==
  /\ data = <<>> => Pending = <<>>
  /\ data' = <<>> => Pending' = <<>>
BY DEF Pending

\* One more data byte is one more pending event.
LEMMA PendingAppend ==
  ASSUME data \in Seq(Byte), NEW b \in Byte, data' = Append(data, b)
  PROVE  Pending' = Append(Pending, DataEvent(b))
BY DEF Pending

\* The pending events depend on the data bytes only.
LEMMA PendingSame == ASSUME data' = data PROVE Pending' = Pending
BY DEF Pending

\* The events the callbacks are given are events.
LEMMA EventTypes ==
  ASSUME NEW a \in Byte, NEW b \in Byte, NEW v \in Seq(Byte)
  PROVE  /\ DataEvent(b) \in Event
         /\ Negotiation(a, b) \in Event
         /\ Subnegotiation(v) \in Event
BY DEF DataEvent, Negotiation, Subnegotiation, Event

\* The commands are four different bytes, none of them IAC or SB.
LEMMA CommandBytes ==
  ASSUME NEW s \in CommandStates
  PROVE  /\ stateToCommand(s) \in Commands
         /\ stateToCommand(s) \in Byte
         /\ stateToCommand(s) # IAC /\ stateToCommand(s) # SB
         /\ \A t \in CommandStates : stateToCommand(s) = stateToCommand(t) => s = t
BY DEF CommandStates, stateToCommand, Commands, Byte, IAC, SB, WILL, WONT, DO, DONT

\* The bytes feed() looks for are bytes, and all different.
LEMMA SpecialBytes ==
  /\ IAC \in Byte /\ SB \in Byte /\ SE \in Byte
  /\ IAC # SB /\ IAC # SE /\ SB # SE
  /\ Commands \subseteq Byte \ {IAC, SB, SE}
BY DEF Byte, Commands, IAC, SB, SE, WILL, WONT, DO, DONT
-----------------------------------------------------------------------------
(* What a byte does to the decoder.                                        *)

After(s, b) ==
  IF s = "Data" THEN IF b = IAC THEN "IAC" ELSE "Data"
  ELSE IF s = "SB" THEN IF b = IAC THEN "SBIAC" ELSE "SB"
  ELSE IF s = "SBIAC" THEN IF b = IAC THEN "SB" ELSE "Data"
  ELSE IF s = "IAC" THEN IF b = WILL THEN "WILL" ELSE IF b = WONT THEN "WONT"
                         ELSE IF b = DO THEN "DO" ELSE IF b = DONT THEN "DONT"
                         ELSE IF b = SB THEN "SB" ELSE "Data"
  ELSE "Data"

Seen == seen \o Pending

\* The next state is a function of the state and the byte.
LEMMA FeedState ==
  ASSUME NEW b \in Byte, state \in States, Feed(b)
  PROVE  state' = After(state, b) /\ state' \in States
BY DEF Feed, InData, AfterIAC, AfterCommand, InSub, AfterSubIAC, After, States,
       CommandStates, Commands, stateToCommand, IAC, WILL, WONT, DO, DONT, SB, SE

\* The types of the decoder's variables after a byte.
LEMMA FeedType ==
  ASSUME NEW b \in Byte, TypeOK, Feed(b)
  PROVE  sub' \in Seq(Byte) /\ data' \in Seq(Byte) /\ seen' \in Seq(Event)
<1>0. sub \in Seq(Byte) /\ data \in Seq(Byte) /\ seen \in Seq(Event)
  BY DEF TypeOK
<1>1. Pending \in Seq(Event) /\ seen \o Pending \in Seq(Event)
  BY <1>0, PendingType DEF TypeOK
<1>2. Append(sub, b) \in Seq(Byte) /\ Append(data, b) \in Seq(Byte)
  BY <1>0, AppendType
<1>3. Append(sub, IAC) \in Seq(Byte) /\ Append(data, IAC) \in Seq(Byte)
  BY <1>0, AppendType, SpecialBytes
<1>4. Append(seen, Subnegotiation(sub)) \in Seq(Event)
  BY <1>0, AppendType, EventTypes
<1>e. <<>> \in Seq(Byte)
  OBVIOUS
<1>5. CASE state \in CommandStates
  <2>1. stateToCommand(state) \in Byte
    BY <1>5, CommandBytes
  <2>2. Negotiation(stateToCommand(state), b) \in Event
    BY <2>1 DEF Negotiation, Event
  <2>3. Append(seen, Negotiation(stateToCommand(state), b)) \in Seq(Event)
    BY <1>0, <2>2, AppendType
  <2> QED
    BY <1>0, <1>5, <2>3 DEF Feed, InData, AfterIAC, AfterCommand, InSub,
                            AfterSubIAC, CommandStates
<1>6. CASE state \notin CommandStates
  BY <1>e, <1>0, <1>1, <1>2, <1>3, <1>4, <1>6
     DEF Feed, InData, AfterIAC, AfterCommand, InSub, AfterSubIAC, flush
<1> QED
  BY <1>5, <1>6
-----------------------------------------------------------------------------
(* Types.                                                                  *)

\* The pieces the server writes are bytes.
LEMMA PieceTypes ==
  ASSUME NEW a \in Byte, NEW b \in Byte, NEW c \in Byte
  PROVE  /\ <<a>> \in Seq(Byte) /\ <<a, b>> \in Seq(Byte) /\ <<a, b, c>> \in Seq(Byte)
         /\ Escape(a) \in Seq(Byte)
BY SpecialBytes DEF Escape

\* What a step of the server leaves in its own variables and on the wire.
LEMMA ServerType ==
  ASSUME TypeOK, Server
  PROVE  /\ UNCHANGED decoder /\ wire = <<>> /\ wire' \in Seq(Byte)
         /\ inside' \in BOOLEAN /\ body' \in Seq(Byte) /\ broken' \in BOOLEAN
         /\ breaks' \in Nat /\ sent' \in Seq(Event)
<1> USE PayloadAssumption, IgnoredAssumption, SpecialBytes DEF Write
<1>0. /\ inside \in BOOLEAN /\ body \in Seq(Byte) /\ broken \in BOOLEAN
      /\ breaks \in Nat /\ sent \in Seq(Event)
  BY DEF TypeOK
<1>1. CASE SendData
  <2>1. PICK b \in Payload : Item(Escape(b), DataEvent(b))
    BY <1>1 DEF SendData
  <2>2. Append(sent, DataEvent(b)) \in Seq(Event) /\ Escape(b) \in Seq(Byte)
    BY <1>0, AppendType, EventTypes, PieceTypes
  <2> QED
    BY <1>0, <2>1, <2>2 DEF Item
<1>2. CASE SendNegotiation
  <2>1. PICK c \in Commands, o \in Payload :
          Item(<<IAC, c, o>>, Negotiation(c, o))
    BY <1>2 DEF SendNegotiation
  <2>2. Append(sent, Negotiation(c, o)) \in Seq(Event) /\ <<IAC, c, o>> \in Seq(Byte)
    BY <1>0, AppendType, EventTypes, PieceTypes
  <2> QED
    BY <1>0, <2>1, <2>2 DEF Item
<1>3. CASE SendIgnored
  <2>1. PICK c \in Ignored : Write(<<IAC, c>>)
    BY <1>3 DEF SendIgnored
  <2>2. <<IAC, c>> \in Seq(Byte)
    BY PieceTypes
  <2> QED
    BY <1>0, <1>3, <2>1, <2>2 DEF SendIgnored, server
<1>4. CASE OpenSub
  <2>1. <<IAC, SB>> \in Seq(Byte) /\ <<>> \in Seq(Byte)
    BY PieceTypes
  <2> QED
    BY <1>0, <1>4, <2>1 DEF OpenSub
<1>5. CASE SendSub
  <2>1. PICK b \in Payload : Write(Escape(b)) /\ body' = Append(body, b)
    BY <1>5 DEF SendSub
  <2>2. Append(body, b) \in Seq(Byte) /\ Escape(b) \in Seq(Byte)
    BY <1>0, AppendType, PieceTypes
  <2> QED
    BY <1>0, <1>5, <2>1, <2>2 DEF SendSub
<1>6. CASE CloseSub
  <2>1. Append(sent, Subnegotiation(body)) \in Seq(Event)
    BY <1>0, AppendType, EventTypes
  <2>2. <<IAC, SE>> \in Seq(Byte) /\ <<>> \in Seq(Byte)
    BY PieceTypes
  <2> QED
    BY <1>0, <1>6, <2>1, <2>2 DEF CloseSub
<1>7. CASE BreakSub
  <2>1. PICK c \in (Commands \cup Ignored \cup {SB}) \ {IAC, SE} : Write(<<IAC, c>>)
    BY <1>7 DEF BreakSub
  <2>2. <<IAC, c>> \in Seq(Byte) /\ breaks + 1 \in Nat
    BY <1>0, PieceTypes
  <2> QED
    BY <1>0, <1>7, <2>1, <2>2 DEF BreakSub
<1> QED
  BY <1>1, <1>2, <1>3, <1>4, <1>5, <1>6, <1>7 DEF Server

\* The decoder and the server keep their types.
THEOREM TelnetTypes == Spec => []TypeOK
<1>1. Init => TypeOK
  <2>1. <<>> \in Seq(Byte) /\ <<>> \in Seq(Event) /\ 0 \in Nat
    OBVIOUS
  <2> QED
    BY <2>1 DEF Init, DecoderInit, TypeOK, States
<1>2. TypeOK /\ [Next]_vars => TypeOK'
  <2> SUFFICES ASSUME TypeOK, [Next]_vars PROVE TypeOK'
    OBVIOUS
  <2>1. CASE Server
    BY <2>1, ServerType DEF TypeOK, decoder
  <2>2. CASE Arrive
    <3>1. Head(wire) \in Byte /\ Tail(wire) \in Seq(Byte)
      BY <2>2 DEF Arrive, TypeOK
    <3>2. state' \in States
      BY <2>2, <3>1, FeedState DEF Arrive, TypeOK
    <3>3. sub' \in Seq(Byte) /\ data' \in Seq(Byte) /\ seen' \in Seq(Event)
      BY <2>2, <3>1, FeedType DEF Arrive
    <3> QED
      BY <2>2, <3>1, <3>2, <3>3 DEF Arrive, TypeOK, server
  <2>3. CASE Cut
    <3>1. Pending \in Seq(Event)
      BY PendingType DEF TypeOK
    <3>2. seen \o Pending \in Seq(Event)
      BY <3>1 DEF TypeOK
    <3> QED
      BY <2>3, <3>2 DEF Cut, EndOfInput, flush, TypeOK, server
  <2>4. CASE UNCHANGED vars
    BY <2>4 DEF vars, decoder, server, TypeOK
  <2> QED
    BY <2>1, <2>2, <2>3, <2>4 DEF Next
<1> QED
  BY <1>1, <1>2, PTL DEF Spec
-----------------------------------------------------------------------------
(* The decoder is ready for the next item.                                 *)

\* The state that the rest of the current piece leads to is no dead end.
Ready(s) == s \in States \ {"SBIAC"} /\ (~inside => s = "Data")

ReadyInv ==
  \/ wire = <<>> /\ Ready(state)
  \/ \E a \in Byte : wire = <<a>> /\ Ready(After(state, a))
  \/ \E a, b \in Byte : wire = <<a, b>> /\ Ready(After(After(state, a), b))
  \/ \E a, b, c \in Byte :
       wire = <<a, b, c>> /\ Ready(After(After(After(state, a), b), c))

\* Where whole pieces lead from a state in which no escape is open.
LEMMA AfterPieces ==
  ASSUME NEW s \in States \ {"SBIAC"}
  PROVE  /\ \A b \in Byte \ {IAC} : After(s, b) \in States \ {"SBIAC"}
         /\ \A b \in Byte : After(After(s, IAC), b) \in States \ {"SBIAC"}
         /\ After(After(s, IAC), SE) = "Data"
BY DEF After, States, CommandStates, Byte, IAC, SE, SB, WILL, WONT, DO, DONT

\* Each item of the stream outside subnegotiations leads from "Data" to "Data".
LEMMA AfterItems ==
  /\ \A b \in Byte \ {IAC} : After("Data", b) = "Data"
  /\ After(After("Data", IAC), IAC) = "Data"
  /\ \A c \in Commands : \A o \in Byte : After(After(After("Data", IAC), c), o) = "Data"
  /\ \A c \in Byte \ (Commands \cup {IAC, SB}) : After(After("Data", IAC), c) = "Data"
BY DEF After, Commands, Byte, IAC, SB, WILL, WONT, DO, DONT

\* Every step of the server starts a piece from a state that is ready.
LEMMA ServerReady ==
  ASSUME TypeOK, ReadyInv, Server
  PROVE  ReadyInv'
<1>0. wire = <<>> /\ state' = state /\ state \in States \ {"SBIAC"}
      /\ (~inside => state = "Data")
  BY ServerType, Pieces DEF ReadyInv, Ready, decoder
<1> USE <1>0, SpecialBytes DEF Write
<1>1. CASE SendData
  <2>1. PICK b \in Payload : Item(Escape(b), DataEvent(b))
    BY <1>1 DEF SendData
  <2>2. b \in Byte /\ state = "Data" /\ ~inside'
    BY <2>1, PayloadAssumption DEF Item
  <2>3. CASE b = IAC
    <3>1. wire' = <<IAC, IAC>> /\ Ready(After(After(state, IAC), IAC))'
      BY <2>1, <2>2, <2>3, AfterItems DEF Item, Escape, Ready, States
    <3> QED
      BY <3>1 DEF ReadyInv
  <2>4. CASE b # IAC
    <3>1. wire' = <<b>> /\ Ready(After(state, b))'
      BY <2>1, <2>2, <2>4, AfterItems DEF Item, Escape, Ready, States
    <3> QED
      BY <2>2, <3>1 DEF ReadyInv
  <2> QED
    BY <2>3, <2>4
<1>2. CASE SendNegotiation
  <2>1. PICK c \in Commands, o \in Payload :
          Item(<<IAC, c, o>>, Negotiation(c, o))
    BY <1>2 DEF SendNegotiation
  <2>2. c \in Byte /\ o \in Byte /\ state = "Data" /\ ~inside'
    BY <2>1, PayloadAssumption DEF Item
  <2>3. wire' = <<IAC, c, o>> /\ Ready(After(After(After(state, IAC), c), o))'
    BY <2>1, <2>2, AfterItems DEF Item, Ready, States
  <2> QED
    BY <2>2, <2>3 DEF ReadyInv
<1>3. CASE SendIgnored
  <2>1. PICK c \in Ignored : wire' = <<IAC, c>>
    BY <1>3 DEF SendIgnored
  <2>2. c \in Byte /\ Ready(After(After(state, IAC), c))'
    BY <1>3, IgnoredAssumption, AfterItems DEF SendIgnored, server, Ready, States
  <2> QED
    BY <2>1, <2>2 DEF ReadyInv
<1>4. CASE OpenSub
  <2>1. wire' = <<IAC, SB>> /\ Ready(After(After(state, IAC), SB))'
    BY <1>4, AfterPieces DEF OpenSub, Ready
  <2> QED
    BY <2>1 DEF ReadyInv
<1>5. CASE SendSub
  <2>1. PICK b \in Payload : wire' = Escape(b)
    BY <1>5 DEF SendSub
  <2>2. b \in Byte /\ inside'
    BY <1>5, PayloadAssumption DEF SendSub
  <2>3. CASE b = IAC
    <3>1. wire' = <<IAC, IAC>> /\ Ready(After(After(state, IAC), IAC))'
      BY <2>1, <2>2, <2>3, AfterPieces DEF Escape, Ready
    <3> QED
      BY <3>1 DEF ReadyInv
  <2>4. CASE b # IAC
    <3>1. wire' = <<b>> /\ Ready(After(state, b))'
      BY <2>1, <2>2, <2>4, AfterPieces DEF Escape, Ready
    <3> QED
      BY <2>2, <3>1 DEF ReadyInv
  <2> QED
    BY <2>3, <2>4
<1>6. CASE CloseSub
  <2>1. wire' = <<IAC, SE>> /\ Ready(After(After(state, IAC), SE))'
    BY <1>6, AfterPieces DEF CloseSub, Ready, States
  <2> QED
    BY <2>1 DEF ReadyInv
<1>7. CASE BreakSub
  <2>1. PICK c \in (Commands \cup Ignored \cup {SB}) \ {IAC, SE} : wire' = <<IAC, c>>
    BY <1>7 DEF BreakSub
  <2>2. c \in Byte /\ Ready(After(After(state, IAC), c))'
    BY <1>7, IgnoredAssumption, AfterPieces DEF BreakSub, Ready
  <2> QED
    BY <2>1, <2>2 DEF ReadyInv
<1> QED
  BY <1>1, <1>2, <1>3, <1>4, <1>5, <1>6, <1>7 DEF Server

\* A byte that arrives leaves the same state ahead.
LEMMA ArriveReady ==
  ASSUME TypeOK, ReadyInv, Arrive
  PROVE  ReadyInv'
<1>0. state \in States /\ inside' = inside
  BY DEF TypeOK, Arrive, server
<1>1. CASE wire = <<>>
  BY <1>1 DEF Arrive
<1>2. ASSUME NEW a \in Byte, wire = <<a>>, Ready(After(state, a))
      PROVE  ReadyInv'
  <2>1. wire' = <<>> /\ Feed(a)
    BY <1>2, Pieces DEF Arrive
  <2>2. state' = After(state, a)
    BY <1>0, <2>1, FeedState
  <2> QED
    BY <1>0, <1>2, <2>1, <2>2 DEF ReadyInv, Ready
<1>3. ASSUME NEW a \in Byte, NEW b \in Byte, wire = <<a, b>>,
             Ready(After(After(state, a), b))
      PROVE  ReadyInv'
  <2>1. wire' = <<b>> /\ Feed(a)
    BY <1>3, Pieces DEF Arrive
  <2>2. state' = After(state, a)
    BY <1>0, <2>1, FeedState
  <2> QED
    BY <1>0, <1>3, <2>1, <2>2 DEF ReadyInv, Ready
<1>4. ASSUME NEW a \in Byte, NEW b \in Byte, NEW c \in Byte, wire = <<a, b, c>>,
             Ready(After(After(After(state, a), b), c))
      PROVE  ReadyInv'
  <2>1. wire' = <<b, c>> /\ Feed(a)
    BY <1>4, Pieces DEF Arrive
  <2>2. state' = After(state, a)
    BY <1>0, <2>1, FeedState
  <2> QED
    BY <1>0, <1>4, <2>1, <2>2 DEF ReadyInv, Ready
<1> QED
  BY <1>1, <1>2, <1>3, <1>4 DEF ReadyInv

\* Between two items the decoder waits for nothing, whatever was malformed.
THEOREM DecoderResynchronises == Spec => []Resynchronised
<1>1. Init => ReadyInv
  BY DEF Init, DecoderInit, ReadyInv, Ready, States
<1>2. TypeOK /\ ReadyInv /\ [Next]_vars => ReadyInv'
  <2> SUFFICES ASSUME TypeOK, ReadyInv, [Next]_vars PROVE ReadyInv'
    OBVIOUS
  <2>1. CASE UNCHANGED <<state, wire, inside>>
    BY <2>1 DEF ReadyInv, Ready
  <2>2. Cut \/ UNCHANGED vars => UNCHANGED <<state, wire, inside>>
    BY DEF Cut, EndOfInput, vars, decoder, server
  <2> QED
    BY <2>1, <2>2, ServerReady, ArriveReady DEF Next
<1>3. ReadyInv => Resynchronised
  BY Pieces DEF ReadyInv, Ready, Resynchronised
<1> QED
  BY <1>1, <1>2, <1>3, TelnetTypes, PTL DEF Spec
-----------------------------------------------------------------------------
(* The decoder hands over what the server means.                           *)

\* The decoder between two bytes: its state, and all it has found so far,
\* whether a call of feed() has handed it over yet or not.
View(s, p, q) == [state |-> s, sub |-> p, out |-> q]
Decoded == View(state, sub, Seen)

SubAfter(d, b) ==
  IF d.state = "IAC" /\ b = SB THEN <<>>
  ELSE IF (d.state = "SB" /\ b # IAC) \/ (d.state = "SBIAC" /\ b = IAC)
  THEN Append(d.sub, b)
  ELSE d.sub

OutAfter(d, b) ==
  IF (d.state = "Data" /\ b # IAC) \/ (d.state = "IAC" /\ b = IAC)
  THEN Append(d.out, DataEvent(b))
  ELSE IF d.state \in CommandStates
  THEN Append(d.out, Negotiation(stateToCommand(d.state), b))
  ELSE IF d.state = "SBIAC" /\ b = SE THEN Append(d.out, Subnegotiation(d.sub))
  ELSE d.out

Step(d, b) == View(After(d.state, b), SubAfter(d, b), OutAfter(d, b))

\* Inside a command no data byte awaits a flush, so events keep their order.
Flushed == state # "Data" => data = <<>>

\* What the decoder should have found when the current piece has arrived.
Faithful(d) ==
  IF inside THEN d = View("SB", body, sent) ELSE \E p : d = View("Data", p, sent)

FaithfulInv ==
  breaks = 0 =>
    /\ ~broken
    /\ \/ wire = <<>> /\ Faithful(Decoded)
       \/ \E a \in Byte : wire = <<a>> /\ Faithful(Step(Decoded, a))
       \/ \E a, b \in Byte : wire = <<a, b>> /\ Faithful(Step(Step(Decoded, a), b))
       \/ \E a, b, c \in Byte :
            wire = <<a, b, c>> /\ Faithful(Step(Step(Step(Decoded, a), b), c))

\* A byte changes the decoder's view as Step says, wherever a read ended.
LEMMA FeedStep ==
  ASSUME NEW b \in Byte, TypeOK, Flushed, Feed(b)
  PROVE  Decoded' = Step(Decoded, b) /\ Flushed'
<1>0. state \in States /\ sub \in Seq(Byte) /\ data \in Seq(Byte) /\ seen \in Seq(Event)
  BY DEF TypeOK
<1>1. state' = After(state, b)
  BY <1>0, FeedState
<1>2. Pending \in Seq(Event) /\ Seen \in Seq(Event)
  BY <1>0, PendingType, JoinAppend DEF Seen
<1>3. sub' = SubAfter(Decoded, b)
  <2>1. Decoded.state = state /\ Decoded.sub = sub
    BY DEF Decoded, View
  <2>2. CASE InData(b) \/ AfterCommand(b) \/ InSub(b)
    BY <2>1, <2>2 DEF SubAfter, InData, AfterCommand, InSub, CommandStates
  <2>3. CASE AfterIAC(b)
    BY <2>1, <2>3, SpecialBytes, CommandBytes DEF SubAfter, AfterIAC
  <2>4. CASE AfterSubIAC(b)
    BY <2>1, <2>4, SpecialBytes DEF SubAfter, AfterSubIAC
  <2> QED
    BY <2>2, <2>3, <2>4 DEF Feed
<1>4. Seen' = OutAfter(Decoded, b) /\ Flushed'
  <2>1. CASE InData(b) /\ b = IAC
    <3>1. data' = <<>> /\ seen' = Seen /\ Pending' = <<>>
      BY <2>1, PendingNone DEF InData, flush, Seen
    <3>2. OutAfter(Decoded, b) = Seen
      BY <2>1 DEF InData, OutAfter, Decoded, View, CommandStates
    <3> QED
      BY <1>2, <3>1, <3>2, JoinEmpty DEF Seen, Flushed
  <2>2. CASE (InData(b) /\ b # IAC) \/ (AfterIAC(b) /\ b = IAC)
    <3>1. data' = Append(data, b) /\ seen' = seen /\ state' = "Data"
      BY <2>2 DEF InData, AfterIAC, stateToCommand, CommandStates, Commands, IAC, SB,
                  WILL, WONT, DO, DONT
    <3>2. Pending' = Append(Pending, DataEvent(b)) /\ DataEvent(b) \in Event
      BY <1>0, <3>1, PendingAppend, EventTypes
    <3>3. Seen' = Append(Seen, DataEvent(b))
      BY <1>0, <1>2, <3>1, <3>2, JoinAppend DEF Seen
    <3>4. OutAfter(Decoded, b) = Append(Seen, DataEvent(b))
      BY <2>2 DEF InData, AfterIAC, OutAfter, Decoded, View
    <3> QED
      BY <3>1, <3>3, <3>4 DEF Flushed
  <2>3. CASE (AfterIAC(b) /\ b # IAC) \/ InSub(b) \/ (AfterSubIAC(b) /\ b # SE)
    <3>1. data' = data /\ seen' = seen /\ data = <<>>
      BY <2>3 DEF AfterIAC, InSub, AfterSubIAC, Flushed
    <3>2. Seen' = Seen
      BY <3>1, PendingSame DEF Seen
    <3>3. OutAfter(Decoded, b) = Seen
      BY <2>3 DEF AfterIAC, InSub, AfterSubIAC, OutAfter, Decoded, View, CommandStates
    <3> QED
      BY <3>1, <3>2, <3>3 DEF Flushed
  <2>4. CASE AfterCommand(b)
    <3>1. data' = <<>> /\ data = <<>>
          /\ seen' = Append(seen, Negotiation(stateToCommand(state), b))
      BY <2>4 DEF AfterCommand, Flushed, CommandStates
    <3>2. seen' \in Seq(Event)
      BY FeedType
    <3>3. Seen' = seen' /\ Seen = seen
      BY <1>0, <3>1, <3>2, PendingNone, JoinEmpty DEF Seen
    <3>4. OutAfter(Decoded, b) = Append(Seen, Negotiation(stateToCommand(state), b))
      BY <2>4 DEF AfterCommand, CommandStates, OutAfter, Decoded, View
    <3> QED
      BY <3>1, <3>3, <3>4 DEF Flushed
  <2>5. CASE AfterSubIAC(b) /\ b = SE
    <3>1. data' = <<>> /\ data = <<>> /\ seen' = Append(seen, Subnegotiation(sub))
      BY <2>5 DEF AfterSubIAC, Flushed, IAC, SE
    <3>2. seen' \in Seq(Event)
      BY FeedType
    <3>3. Seen' = seen' /\ Seen = seen
      BY <1>0, <3>1, <3>2, PendingNone, JoinEmpty DEF Seen
    <3>4. OutAfter(Decoded, b) = Append(Seen, Subnegotiation(sub))
      BY <2>5 DEF AfterSubIAC, CommandStates, OutAfter, Decoded, View
    <3> QED
      BY <3>1, <3>3, <3>4 DEF Flushed
  <2> QED
    BY <2>1, <2>2, <2>3, <2>4, <2>5 DEF Feed
<1> QED
  BY <1>1, <1>3, <1>4 DEF Step, Decoded, View

\* What the pieces of the server do to the view of a decoder that is ready.
LEMMA StepPieces ==
  ASSUME NEW p, NEW q
  PROVE  /\ \A b \in Byte \ {IAC} :
              /\ Step(View("Data", p, q), b) = View("Data", p, Append(q, DataEvent(b)))
              /\ Step(View("SB", p, q), b) = View("SB", Append(p, b), q)
         /\ Step(Step(View("Data", p, q), IAC), IAC)
              = View("Data", p, Append(q, DataEvent(IAC)))
         /\ Step(Step(View("SB", p, q), IAC), IAC) = View("SB", Append(p, IAC), q)
         /\ Step(Step(View("Data", p, q), IAC), SB) = View("SB", <<>>, q)
         /\ Step(Step(View("SB", p, q), IAC), SE)
              = View("Data", p, Append(q, Subnegotiation(p)))
         /\ \A c \in Byte \ (Commands \cup {IAC, SB}) :
              Step(Step(View("Data", p, q), IAC), c) = View("Data", p, q)
         /\ \A c \in Commands, o \in Byte :
              Step(Step(Step(View("Data", p, q), IAC), c), o)
                = View("Data", p, Append(q, Negotiation(c, o)))
<1> USE DEF Step, View, After, SubAfter, OutAfter, CommandStates
<1>1. \A c \in Commands : \E s \in CommandStates :
        /\ c = stateToCommand(s)
        /\ Step(Step(View("Data", p, q), IAC), c) = View(s, p, q)
  BY DEF Commands, stateToCommand, IAC, SB, SE, WILL, WONT, DO, DONT
<1>2. \A s \in CommandStates : \A o \in Byte :
        Step(View(s, p, q), o) = View("Data", p, Append(q, Negotiation(stateToCommand(s), o)))
  OBVIOUS
<1>3. \A c \in Byte \ (Commands \cup {IAC, SB}) :
        Step(Step(View("Data", p, q), IAC), c) = View("Data", p, q)
  BY DEF Commands
<1>4. /\ \A b \in Byte \ {IAC} :
           /\ Step(View("Data", p, q), b) = View("Data", p, Append(q, DataEvent(b)))
           /\ Step(View("SB", p, q), b) = View("SB", Append(p, b), q)
      /\ Step(Step(View("Data", p, q), IAC), IAC)
           = View("Data", p, Append(q, DataEvent(IAC)))
      /\ Step(Step(View("SB", p, q), IAC), IAC) = View("SB", Append(p, IAC), q)
  BY DEF IAC, WILL, WONT, DO, DONT, SB, SE
<1>5. /\ Step(Step(View("Data", p, q), IAC), SB) = View("SB", <<>>, q)
      /\ Step(Step(View("SB", p, q), IAC), SE)
           = View("Data", p, Append(q, Subnegotiation(p)))
  BY DEF IAC, WILL, WONT, DO, DONT, SB, SE
<1> HIDE DEF Step, View, After, SubAfter, OutAfter, CommandStates
<1>6. \A c \in Commands, o \in Byte :
        Step(Step(Step(View("Data", p, q), IAC), c), o)
          = View("Data", p, Append(q, Negotiation(c, o)))
  BY <1>1, <1>2
<1> QED
  BY <1>3, <1>4, <1>5, <1>6

\* A piece the server starts ends with the decoder where the server means it.
LEMMA ServerFaithful ==
  ASSUME TypeOK, FaithfulInv, Server
  PROVE  FaithfulInv'
<1> SUFFICES ASSUME breaks' = 0 PROVE FaithfulInv'
  BY DEF FaithfulInv
<1>0. /\ wire = <<>> /\ state' = state /\ sub' = sub /\ Decoded' = Decoded
      /\ breaks = 0 /\ ~broken
  <2>1. wire = <<>> /\ state' = state /\ sub' = sub /\ Decoded' = Decoded
    <3>1. UNCHANGED <<state, sub, data, seen>> /\ wire = <<>>
      BY ServerType DEF decoder
    <3> QED
      BY <3>1, PendingSame DEF Decoded, Seen, View
  <2>2. breaks' \in {breaks, breaks + 1}
    BY DEF Server, SendData, SendNegotiation, SendIgnored, Item, OpenSub,
           SendSub, CloseSub, BreakSub, server
  <2>3. breaks = 0
    BY <2>2 DEF TypeOK
  <2> QED
    BY <2>1, <2>3 DEF FaithfulInv
<1>1. Faithful(Decoded)
  BY <1>0, Pieces DEF FaithfulInv
<1>2. /\ inside => Decoded = View("SB", body, sent)
      /\ ~inside => \E p : Decoded = View("Data", p, sent)
  BY <1>1 DEF Faithful
<1> USE <1>0, SpecialBytes DEF Write
<1>3. CASE SendData
  <2>1. PICK b \in Payload : Item(Escape(b), DataEvent(b))
    BY <1>3 DEF SendData
  <2>2. PICK p : Decoded = View("Data", p, sent)
    BY <1>2, <2>1 DEF Item
  <2>3. /\ b \in Byte /\ ~inside' /\ ~broken' /\ wire' = Escape(b)
        /\ sent' = Append(sent, DataEvent(b))
    BY <2>1, PayloadAssumption DEF Item
  <2>4. CASE b = IAC
    <3>1. Step(Step(Decoded, IAC), IAC) = View("Data", p, sent')
      BY <2>2, <2>3, <2>4, StepPieces
    <3>2. Faithful(Step(Step(Decoded, IAC), IAC))'
      BY <2>3, <3>1 DEF Faithful
    <3> QED
      BY <2>3, <2>4, <3>2 DEF FaithfulInv, Escape
  <2>5. CASE b # IAC
    <3>1. Step(Decoded, b) = View("Data", p, sent')
      BY <2>2, <2>3, <2>5, StepPieces
    <3>2. Faithful(Step(Decoded, b))'
      BY <2>3, <3>1 DEF Faithful
    <3> QED
      BY <2>3, <2>5, <3>2 DEF FaithfulInv, Escape
  <2> QED
    BY <2>4, <2>5
<1>4. CASE SendNegotiation
  <2>1. PICK c \in Commands, o \in Payload :
          Item(<<IAC, c, o>>, Negotiation(c, o))
    BY <1>4 DEF SendNegotiation
  <2>2. PICK p : Decoded = View("Data", p, sent)
    BY <1>2, <2>1 DEF Item
  <2>3. /\ c \in Byte /\ o \in Byte /\ ~inside' /\ ~broken' /\ wire' = <<IAC, c, o>>
        /\ sent' = Append(sent, Negotiation(c, o))
    BY <2>1, PayloadAssumption DEF Item
  <2>4. Step(Step(Step(Decoded, IAC), c), o) = View("Data", p, sent')
    BY <2>2, <2>3, StepPieces
  <2>5. Faithful(Step(Step(Step(Decoded, IAC), c), o))'
    BY <2>3, <2>4 DEF Faithful
  <2> QED
    BY <2>3, <2>5 DEF FaithfulInv
<1>5. CASE SendIgnored
  <2>1. PICK c \in Ignored : wire' = <<IAC, c>>
    BY <1>5 DEF SendIgnored
  <2>2. PICK p : Decoded = View("Data", p, sent)
    BY <1>2, <1>5 DEF SendIgnored
  <2>3. c \in Byte \ (Commands \cup {IAC, SB}) /\ ~inside' /\ ~broken' /\ sent' = sent
    BY <1>5, IgnoredAssumption DEF SendIgnored, server
  <2>4. Step(Step(Decoded, IAC), c) = View("Data", p, sent')
    BY <2>2, <2>3, StepPieces
  <2>5. Faithful(Step(Step(Decoded, IAC), c))'
    BY <2>3, <2>4 DEF Faithful
  <2> QED
    BY <2>1, <2>3, <2>5 DEF FaithfulInv
<1>6. CASE OpenSub
  <2>1. PICK p : Decoded = View("Data", p, sent)
    BY <1>2, <1>6 DEF OpenSub
  <2>2. inside' /\ ~broken' /\ sent' = sent /\ body' = <<>> /\ wire' = <<IAC, SB>>
    BY <1>6 DEF OpenSub
  <2>3. Step(Step(Decoded, IAC), SB) = View("SB", body', sent')
    BY <2>1, <2>2, StepPieces
  <2>4. Faithful(Step(Step(Decoded, IAC), SB))'
    BY <2>2, <2>3 DEF Faithful
  <2> QED
    BY <2>2, <2>4 DEF FaithfulInv
<1>7. CASE SendSub
  <2>1. PICK b \in Payload : wire' = Escape(b) /\ body' = Append(body, b)
    BY <1>7 DEF SendSub
  <2>2. b \in Byte /\ inside' /\ ~broken' /\ sent' = sent
    BY <1>7, PayloadAssumption DEF SendSub
  <2>3. Decoded = View("SB", body, sent)
    BY <1>2, <1>7 DEF SendSub
  <2>4. CASE b = IAC
    <3>1. Step(Step(Decoded, IAC), IAC) = View("SB", body', sent')
      BY <2>1, <2>2, <2>3, <2>4, StepPieces
    <3>2. Faithful(Step(Step(Decoded, IAC), IAC))'
      BY <2>2, <3>1 DEF Faithful
    <3> QED
      BY <2>1, <2>2, <2>4, <3>2 DEF FaithfulInv, Escape
  <2>5. CASE b # IAC
    <3>1. Step(Decoded, b) = View("SB", body', sent')
      BY <2>1, <2>2, <2>3, <2>5, StepPieces
    <3>2. Faithful(Step(Decoded, b))'
      BY <2>2, <3>1 DEF Faithful
    <3> QED
      BY <2>1, <2>2, <2>5, <3>2 DEF FaithfulInv, Escape
  <2> QED
    BY <2>4, <2>5
<1>8. CASE CloseSub
  <2>1. Decoded = View("SB", body, sent)
    BY <1>2, <1>8 DEF CloseSub
  <2>2. /\ ~inside' /\ ~broken' /\ wire' = <<IAC, SE>>
        /\ sent' = Append(sent, Subnegotiation(body))
    BY <1>8 DEF CloseSub
  <2>3. Step(Step(Decoded, IAC), SE) = View("Data", body, sent')
    BY <2>1, <2>2, StepPieces
  <2>4. Faithful(Step(Step(Decoded, IAC), SE))'
    BY <2>2, <2>3 DEF Faithful
  <2> QED
    BY <2>2, <2>4 DEF FaithfulInv
<1>9. ~BreakSub
  BY DEF BreakSub, TypeOK
<1> QED
  BY <1>3, <1>4, <1>5, <1>6, <1>7, <1>8, <1>9 DEF Server

\* A byte that arrives leaves the same view ahead.
LEMMA ArriveFaithful ==
  ASSUME TypeOK, FaithfulInv, Flushed, Arrive
  PROVE  FaithfulInv'
<1> SUFFICES ASSUME breaks' = 0 PROVE FaithfulInv'
  BY DEF FaithfulInv
<1>0. UNCHANGED <<inside, body, broken, sent>> /\ breaks = 0 /\ ~broken
  BY DEF Arrive, server, FaithfulInv
<1>1. CASE wire = <<>>
  BY <1>1 DEF Arrive
<1>2. ASSUME NEW a \in Byte, wire = <<a>>, Faithful(Step(Decoded, a))
      PROVE  FaithfulInv'
  <2>1. wire' = <<>> /\ Decoded' = Step(Decoded, a)
    BY <1>2, Pieces, FeedStep DEF Arrive
  <2> QED
    BY <1>0, <1>2, <2>1 DEF FaithfulInv, Faithful
<1>3. ASSUME NEW a \in Byte, NEW b \in Byte, wire = <<a, b>>,
             Faithful(Step(Step(Decoded, a), b))
      PROVE  FaithfulInv'
  <2>1. wire' = <<b>> /\ Decoded' = Step(Decoded, a)
    BY <1>3, Pieces, FeedStep DEF Arrive
  <2>2. Faithful(Step(Decoded, b))'
    BY <1>0, <1>3, <2>1 DEF Faithful, Step
  <2> QED
    BY <1>0, <1>3, <2>1, <2>2 DEF FaithfulInv
<1>4. ASSUME NEW a \in Byte, NEW b \in Byte, NEW c \in Byte, wire = <<a, b, c>>,
             Faithful(Step(Step(Step(Decoded, a), b), c))
      PROVE  FaithfulInv'
  <2>1. wire' = <<b, c>> /\ Decoded' = Step(Decoded, a)
    BY <1>4, Pieces, FeedStep DEF Arrive
  <2>2. Faithful(Step(Step(Decoded, b), c))'
    BY <1>0, <1>4, <2>1 DEF Faithful
  <2> QED
    BY <1>0, <1>4, <2>1, <2>2 DEF FaithfulInv
<1> QED
  BY <1>0, <1>1, <1>2, <1>3, <1>4 DEF FaithfulInv

\* The end of a read hands over what was pending: nothing is found or lost.
LEMMA CutFaithful ==
  ASSUME TypeOK, FaithfulInv, Cut
  PROVE  FaithfulInv' /\ Flushed'
<1>1. Pending \in Seq(Event) /\ Pending' = <<>>
  BY PendingType, PendingNone DEF TypeOK, Cut, EndOfInput, flush
<1>2. Seen' = Seen
  <2>1. Seen \in Seq(Event)
    BY <1>1, JoinAppend DEF TypeOK, Seen
  <2> QED
    BY <1>1, <2>1, JoinEmpty DEF Cut, EndOfInput, flush, Seen
<1>3. Decoded' = Decoded /\ UNCHANGED <<wire, inside, body, broken, breaks, sent>>
  BY <1>2 DEF Cut, EndOfInput, server, Decoded, View
<1>4. Flushed'
  BY DEF Cut, EndOfInput, flush, Flushed
<1> QED
  BY <1>3, <1>4 DEF FaithfulInv, Faithful

\* A well-formed stream is handed over exactly, in order, however TCP cuts it.
THEOREM DecoderTransparent == Spec => []Transparent
<1>1. Init => FaithfulInv /\ Flushed
  <2> SUFFICES ASSUME Init PROVE FaithfulInv /\ Flushed
    OBVIOUS
  <2>1. Seen = <<>>
    BY PendingNone, JoinEmpty DEF Init, DecoderInit, Seen
  <2> QED
    BY <2>1 DEF Init, DecoderInit, FaithfulInv, Faithful, Decoded, View, Flushed
<1>2. TypeOK /\ FaithfulInv /\ Flushed /\ [Next]_vars => FaithfulInv' /\ Flushed'
  <2> SUFFICES ASSUME TypeOK, FaithfulInv, Flushed, [Next]_vars
               PROVE  FaithfulInv' /\ Flushed'
    OBVIOUS
  <2>1. CASE Server
    BY <2>1, ServerFaithful, ServerType DEF Flushed, decoder
  <2>2. CASE Arrive
    <3>1. Head(wire) \in Byte
      BY <2>2 DEF Arrive, TypeOK
    <3> QED
      BY <2>2, <3>1, ArriveFaithful, FeedStep DEF Arrive
  <2>3. CASE Cut
    BY <2>3, CutFaithful
  <2>4. CASE UNCHANGED vars
    <3>1. Decoded' = Decoded
      BY <2>4, PendingSame DEF vars, decoder, Decoded, View, Seen
    <3> QED
      BY <2>4, <3>1 DEF vars, decoder, server, FaithfulInv, Faithful, Flushed
  <2> QED
    BY <2>1, <2>2, <2>3, <2>4 DEF Next
<1>3. FaithfulInv => Transparent
  <2> SUFFICES ASSUME FaithfulInv, wire = <<>>, breaks = 0 PROVE Seen = sent
    BY DEF Transparent, Seen
  <2>1. Faithful(Decoded)
    BY Pieces DEF FaithfulInv
  <2>2. Decoded.out = sent
    BY <2>1 DEF Faithful, View
  <2> QED
    BY <2>2 DEF Decoded, View
<1> QED
  BY <1>1, <1>2, <1>3, TelnetTypes, PTL DEF Spec
=============================================================================
