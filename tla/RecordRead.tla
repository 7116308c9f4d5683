----------------------------- MODULE RecordRead -----------------------------
(***************************************************************************)
(* One record on its way from the meter's registers to a row: the active   *)
(* list, the part of it that belongs to the record, the read lists, the    *)
(* answers, their decoding and the store.  Three jobs of the collector do  *)
(* it: an archive record goes through in chunks (readArchiveRecord), the   *)
(* current values in one list (ReadCurrent), and the properties with a     *)
(* list and a format of their own (collectProperties).  What the meter     *)
(* does with exceptions is the business of ArchiveCollector; here every    *)
(* request is answered, perhaps not with the bytes that were asked for.    *)
(***************************************************************************)
EXTENDS ElementCodec

CONSTANTS
  Master,     \* elements a meter may have active, in the order of their addresses
  Types,      \* value types of the run
  Lengths,    \* lengths of a unit's name the meter may report
  Transmit,   \* bytes the meter's transmitter buffer is good for
  Stale       \* may an answer be the previous one?

\* A meter numbers its elements once each, within the widths of a list entry,
\* and a name is no longer than the two bytes in front of it can say.
ASSUME RecordAssumption ==
  /\ Master \in Seq([addr : 0..(Flag - 1), size : 0..(Power[2] - 1)])
  /\ \A i, j \in DOMAIN Master : Master[i].addr = Master[j].addr => i = j
  /\ Lengths \subseteq 0..(Power[2] - 1)
  /\ Transmit \in Nat
  /\ Stale \in BOOLEAN

VARIABLES
  meter,    \* what the meter has: its elements, its values, its properties
  job,      \* "archive", "current" or "properties"
  typ,      \* the value type selected
  pc,       \* the step that comes next
  active,   \* the active list as it was read
  chunks,   \* the read lists still to be written
  list,     \* the read list the meter holds
  data,     \* the bytes of the last answer
  result,   \* the elements decoded so far
  stored    \* the row, empty until the record is saved

progress == <<pc, active, chunks, list, data, result, stored>>
vars     == <<meter, job, typ, progress>>

-----------------------------------------------------------------------------
(* The meter: what its elements mean and how it sends them. *)

\* Four values of an element: the plain ones and those at its limits.
Samples(a, k) ==
  CASE a \in Text     -> << [i \in 1..k |-> (i % 2) + 1],
                            [i \in 1..k |-> IF i % 3 = 0 THEN Radix \div 2 ELSE Radix - 1],
                            [i \in 1..k |-> IF i % 2 = 0 THEN Radix \div 2 ELSE Radix - 1],
                            [i \in 1..k |-> 0] >>
    [] a \in Counters -> << [i \in 1..5 |-> i], [i \in 1..5 |-> Radix],
                            [i \in 1..5 |-> Power[2] - i], [i \in 1..5 |-> 0] >>
    [] a \in Floats   -> LET infinite == Power[4] \div 2 - Power[3] \div 2
                         IN  << 0, MinusZero, infinite - 1, infinite >>
    [] a \in Digits   -> << 0, 1, Radix \div 2, Radix - 1 >>
    [] OTHER          -> << 0, -1, Power[k] \div 2 - 1, -(Power[k] \div 2) >>

Value(e)   == Samples(e.addr, e.size)[((e.addr + meter.turn) % 4) + 1]
Quality(e) == e.addr % Radix
NS(e)      == (e.addr + 1) % Radix

Encoded(e) ==
  CASE ~Decodes(e.addr, e.size) -> [i \in 1..e.size |-> 1]
    [] Decodes(e.addr, e.size) /\ e.addr \in Text -> Value(e)
    [] Decodes(e.addr, e.size) /\ e.addr \in Counters ->
         FlattenSeq([i \in 1..5 |-> PutUint(Value(e)[i], 2)])
    [] OTHER -> PutUint(Value(e), e.size)

Answer(es) == FlattenSeq([i \in DOMAIN es |-> Encoded(es[i]) \o <<Quality(es[i]), NS(es[i])>>])

\* The properties record: the name of each unit behind its length, a digit
\* for each fraction.  meter.units gives the names, meter.digits the digits.
PropertyAnswer ==
  FlattenSeq([i \in 1..16 |->
    IF i <= Units THEN PutUint(Len(meter.units[i]), 2) \o meter.units[i] \o <<1, 0>>
                  ELSE <<meter.digits[i - Units], 0, 1>>])

\* What an answer with d in it may arrive as: cut off where the transmitter
\* buffer ends, or still the answer to the request before.
Arrivals(d) ==
  {d} \cup (IF Len(d) > Transmit THEN {SubSeq(d, 1, Transmit)} ELSE {})
      \cup (IF Stale THEN {data} ELSE {})

-----------------------------------------------------------------------------
Init ==
  /\ \/ /\ job \in {"archive", "current"}
        /\ typ \in {t \in Types : (job = "archive") = (t \in Hourly..Total)}
        /\ \E on \in SUBSET DOMAIN Master, turn \in 0..3 :
             meter = [elements |-> Keep(Master, {Master[i].addr : i \in on}), turn |-> turn]
     \/ /\ job = "properties" /\ typ = 6
        /\ \E i \in 1..Units, n \in Lengths, nul \in BOOLEAN, digit \in {0, Radix - 1} :
             meter = [units  |-> [j \in 1..Units |->
                                    [k \in 1..(IF j = i THEN n ELSE j % 3) |->
                                       IF nul /\ j = i /\ k = n THEN 0 ELSE ((j + k) % 3) + 1]],
                      digits |-> [j \in 1..Units |-> IF j = i THEN digit ELSE j % 4]]
  /\ pc = IF job = "properties" THEN "properties" ELSE "active"
  /\ active = <<>> /\ chunks = <<>> /\ list = <<>>
  /\ data = <<>> /\ result = <<>> /\ stored = <<>>

Fail == pc' = "failed" /\ UNCHANGED <<chunks, result, stored>>

\* ActiveElements: the answer may be a few bytes short.
ReadActive ==
  /\ pc = "active"
  /\ \E lost \in {0, 1, EntryBytes} :
       /\ lost <= Len(Payload(meter.elements))
       /\ LET d == Payload(meter.elements)
          IN  active' = ActiveElements(SubSeq(d, 1, Len(d) - lost))
  /\ IF active' = <<>> THEN Fail
     ELSE pc' = "prepare" /\ UNCHANGED <<chunks, result, stored>>
  /\ UNCHANGED <<list, data>>

\* The whole list is written before the first record of an archive, and it
\* is all there is for the current values, even when it is empty.
Prepare ==
  /\ pc = "prepare"
  /\ LET es == filter(active, typ)
     IN  IF (job = "archive" /\ es = <<>>) \/ ~Writable(es)
         THEN Fail /\ UNCHANGED list
         ELSE /\ list' = es
              /\ chunks' = IF job = "archive" THEN splitArchiveReadList(es) ELSE <<es>>
              /\ pc' = "chunk"
              /\ UNCHANGED <<result, stored>>
  /\ UNCHANGED <<active, data>>

\* One chunk: write its list, read, decode, merge.  The date that is written
\* with it changes nothing here.
SetReadList ==
  /\ pc = "chunk" /\ chunks # <<>>
  /\ IF Writable(Head(chunks))
     THEN list' = Head(chunks) /\ pc' = "read" /\ UNCHANGED <<chunks, result, stored>>
     ELSE Fail /\ UNCHANGED list
  /\ UNCHANGED <<active, data>>

ReadData ==
  /\ pc = "read"
  /\ data' \in Arrivals(Answer(list))
  /\ pc' = "parse"
  /\ UNCHANGED <<active, chunks, list, result, stored>>

\* The elements of a chunk take the place of what the record has of them.
Merged(values) ==
  [a \in DOMAIN values \cup DOMAIN result |->
     IF a \in DOMAIN values THEN values[a] ELSE result[a]]

Merge ==
  /\ pc = "parse"
  /\ LET r == ParseElements(list, data)
     IN  IF r.ok
         THEN /\ result' = Merged(r.out)
              /\ chunks' = Tail(chunks) /\ pc' = "chunk" /\ UNCHANGED stored
         ELSE Fail
  /\ UNCHANGED <<active, list, data>>

\* SaveArchive and SaveCurrent: encode, then one INSERT.
Save ==
  /\ pc = "chunk" /\ chunks = <<>>
  /\ IF \A a \in DOMAIN result : Storable(a, result[a].value)
     THEN /\ stored' = [a \in DOMAIN result |-> encode(a, result[a])]
          /\ pc' = "saved" /\ UNCHANGED <<chunks, result>>
     ELSE Fail
  /\ UNCHANGED <<active, list, data>>

\* collectProperties up to its answer, which may lack bytes or have a few too
\* many.  Its own list of 96 bytes always fits.
ReadProperties ==
  /\ pc = "properties"
  /\ \E lost \in 0..3, more \in 0..2 :
       /\ lost = 0 \/ more = 0
       /\ data' = SubSeq(PropertyAnswer, 1, Len(PropertyAnswer) - lost) \o [i \in 1..more |-> 0]
  /\ pc' = "decode"
  /\ UNCHANGED <<active, chunks, list, result, stored>>

\* ParseProperties and SaveProperties, which is one transaction: a value the
\* column refuses undoes the others.  Code page 866 has a character for every
\* byte, another for each, so a name is as good as its bytes here.
SaveProperties ==
  /\ pc = "decode"
  /\ LET r     == ParseProperties(data)
         names == DOMAIN r.out
     IN  IF /\ r.ok
            /\ \A x \in names : propertyAddress(x) >= 0
            /\ \A x \in names : propertyAddress(x) \in Text => NulFree(r.out[x])
         THEN /\ stored' = [a \in {propertyAddress(x) : x \in names} |->
                              r.out[CHOOSE x \in names : propertyAddress(x) = a]]
              /\ pc' = "saved" /\ UNCHANGED <<chunks, result>>
         ELSE Fail
  /\ UNCHANGED <<active, list, data>>

Next ==
  /\ UNCHANGED <<meter, job, typ>>
  /\ \/ ReadActive \/ Prepare \/ SetReadList \/ ReadData \/ Merge \/ Save
     \/ ReadProperties \/ SaveProperties

Spec == Init /\ [][Next]_vars

-----------------------------------------------------------------------------
(* Properties *)

\* The bytes of an answer reach the decoder whole.
Complete(es) == CostOf(es) <= Transmit

\* A value is as good in JSON as it was, unless it is text whose bytes are not
\* UTF-8 - a letter of code page 866 is not - or the float that is minus zero.
Lossless(a, v) == CASE a \in Text   -> Utf8(v)
                    [] a \in Floats -> v # MinusZero
                    [] OTHER        -> TRUE

\* A row holds, for every element of the list that was read and that belongs
\* to the record's type, the bytes, the quality and the NS the meter has for
\* it, and its value unless JSON cannot keep it, and nothing else: neither the
\* chunks, the offsets, the widths nor the signs of readArchiveRecord and
\* ParseElements mix two elements up, and the column raw has what encode loses.
RecordFaithful ==
  pc = "saved" /\ job # "properties" =>
    LET es == filter(active, typ)
    IN  /\ DOMAIN stored = {es[i].addr : i \in DOMAIN es}
        /\ \A i \in DOMAIN es :
             LET e   == es[i]
                 row == stored[e.addr]
             IN  /\ row.raw = Encoded(e) /\ row.quality = Quality(e) /\ row.ns = NS(e)
                 /\ Lossless(e.addr, Value(e)) => row.value = Value(e)

\* A record is given up only for a reason the meter gave: no usable list, an
\* element whose size is not that of its kind, a value no jsonb can hold, a
\* list too long for one request, or an answer the transmitter cut off.  The
\* last one spares archives: their chunks are short enough, and only an
\* element too long by itself can be cut.
RefusalExplained ==
  pc = "failed" /\ job # "properties" =>
    LET es == filter(active, typ)
    IN  \/ active = <<>>
        \/ es = <<>> /\ job = "archive"
        \/ EntryBytes * Len(es) > PayloadBytes
        \/ \E i \in DOMAIN es : ~Decodes(es[i].addr, es[i].size)
        \/ \E i \in DOMAIN es : Decodes(es[i].addr, es[i].size) /\ ~Storable(es[i].addr, Value(es[i]))
        \/ job = "current" /\ ~Complete(es)
        \/ job = "archive" /\ \E i \in DOMAIN es : ~Complete(<<es[i]>>)

\* The sixteen properties are stored exactly when the answer is an encoding
\* of them, each under the address it was asked for: a length beyond the
\* declared one, a missing byte, an extra byte or a character the column
\* refuses leaves the row as it was.
PropertiesFaithful ==
  job = "properties" /\ pc \in {"saved", "failed"} =>
    /\ pc = "saved" <=> /\ data = PropertyAnswer
                        /\ \A i \in 1..Units : Len(meter.units[i]) <= PropertyList[i][3]
                        /\ \A i \in 1..Units : NulFree(meter.units[i])
    /\ pc = "saved" => stored = [a \in {PropertyList[i][1] : i \in 1..16} |->
                                   LET i == CHOOSE i \in 1..16 : PropertyList[i][1] = a
                                   IN  IF i <= Units THEN meter.units[i]
                                                     ELSE <<meter.digits[i - Units]>>]

\* "ParseElements must consume exactly the data represented by the current
\* read list.  This catches stale/truncated VKT-7 responses": a chunk is
\* accepted only with an answer of its own length.
ConsumesExactly ==
  [][pc = "parse" /\ pc' = "chunk" => Len(data) = CostOf(list)]_vars
=============================================================================
