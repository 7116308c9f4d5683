---------------------------- MODULE TelnetStream ----------------------------
(***************************************************************************)
(* An RFC 2217 server writes to the decoder.  It sends serial data, option *)
(* negotiations, one-byte commands and subnegotiations, piece by piece; a  *)
(* piece is one to three bytes, which reach the decoder one at a time and  *)
(* with the end of a TCP read before any of them.  A decoder cannot tell   *)
(* whether a piece was written before or after it took the last one, so    *)
(* the server writes the next piece when the last one has arrived.         *)
(***************************************************************************)
EXTENDS TelnetDecoder

CONSTANTS
  Payload,    \* data, option and subnegotiation bytes the server sends
  Ignored,    \* one-byte commands it may send, e.g. NOP
  MaxBreaks,  \* bound: malformed subnegotiations
  MaxSent,    \* bound: items it sends
  MaxBody     \* bound: bytes of a subnegotiation

ASSUME PayloadAssumption == Payload \subseteq Byte
ASSUME IgnoredAssumption == Ignored \subseteq Byte \ (Commands \cup {IAC, SB})
ASSUME BoundsAssumption == MaxBreaks \in Nat /\ MaxSent \in Nat /\ MaxBody \in Nat

VARIABLES
  wire,     \* the bytes of the current piece that have not arrived
  inside,   \* is the server inside a subnegotiation?
  body,     \* the bytes of that subnegotiation
  broken,   \* is it malformed?
  breaks,   \* how many were
  sent      \* history: what the server meant, as events

server == <<inside, body, broken, breaks, sent>>
vars == <<decoder, wire, server>>

Init ==
  /\ DecoderInit
  /\ wire = <<>> /\ inside = FALSE /\ body = <<>> /\ broken = FALSE /\ breaks = 0
  /\ sent = <<>>

TypeOK ==
  /\ state \in States
  /\ sub \in Seq(Byte) /\ data \in Seq(Byte) /\ seen \in Seq(Event)
  /\ wire \in Seq(Byte) /\ inside \in BOOLEAN /\ body \in Seq(Byte)
  /\ broken \in BOOLEAN /\ breaks \in Nat /\ sent \in Seq(Event)

Escape(b) == IF b = IAC THEN <<IAC, IAC>> ELSE <<b>>

\* The server sends a piece, alone or as a whole item of its own.
Write(piece) == wire = <<>> /\ wire' = piece /\ UNCHANGED decoder

Item(piece, event) ==
  /\ ~inside /\ Len(sent) < MaxSent
  /\ Write(piece)
  /\ sent' = Append(sent, event)
  /\ UNCHANGED <<inside, body, broken, breaks>>

SendData == \E b \in Payload : Item(Escape(b), DataEvent(b))

SendNegotiation ==
  \E c \in Commands, o \in Payload : Item(<<IAC, c, o>>, Negotiation(c, o))

SendIgnored ==
  /\ ~inside
  /\ \E c \in Ignored : Write(<<IAC, c>>)
  /\ UNCHANGED server

OpenSub ==
  /\ ~inside /\ Len(sent) < MaxSent
  /\ Write(<<IAC, SB>>)
  /\ inside' = TRUE /\ body' = <<>> /\ broken' = FALSE
  /\ UNCHANGED <<breaks, sent>>

SendSub ==
  /\ inside /\ Len(body) < MaxBody
  /\ \E b \in Payload : Write(Escape(b)) /\ body' = Append(body, b)
  /\ UNCHANGED <<inside, broken, breaks, sent>>

\* A broken subnegotiation is not meant to arrive.
CloseSub ==
  /\ inside
  /\ Write(<<IAC, SE>>)
  /\ inside' = FALSE /\ body' = <<>> /\ broken' = FALSE
  /\ sent' = IF broken THEN sent ELSE Append(sent, Subnegotiation(body))
  /\ breaks' = breaks

\* A command where only IAC IAC or IAC SE may stand.
BreakSub ==
  /\ inside /\ breaks < MaxBreaks
  /\ \E c \in (Commands \cup Ignored \cup {SB}) \ {IAC, SE} : Write(<<IAC, c>>)
  /\ broken' = TRUE /\ breaks' = breaks + 1
  /\ UNCHANGED <<inside, body, sent>>

Server == SendData \/ SendNegotiation \/ SendIgnored \/ OpenSub \/ SendSub \/ CloseSub \/ BreakSub

Arrive ==
  /\ wire # <<>>
  /\ Feed(Head(wire))
  /\ wire' = Tail(wire)
  /\ UNCHANGED server

Cut == EndOfInput /\ UNCHANGED <<wire, server>>

Next == Server \/ Arrive \/ Cut

Spec == Init /\ [][Next]_vars
-----------------------------------------------------------------------------
\* Wherever TCP cuts the stream, every data byte, negotiation and
\* subnegotiation of a well-formed stream is handed over once, unescaped and
\* in the order in which it was sent (feed).
Transparent == wire = <<>> /\ breaks = 0 => seen \o Pending = sent

\* Between two items the decoder is ready for the next one, even after a
\* malformed subnegotiation: no byte of the stream can leave it waiting for
\* the end of a command that will not come.
Resynchronised == wire = <<>> /\ ~inside => state = "Data"
=============================================================================
