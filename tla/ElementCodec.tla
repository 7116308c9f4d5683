---------------------------- MODULE ElementCodec ----------------------------
(***************************************************************************)
(* What the collector and the protocol client compute about logical        *)
(* elements: which of them belong to an archive, how a read list is cut    *)
(* into requests the meter can answer, and how the bytes of an answer      *)
(* become values.  A byte has Radix values, so that a run can take fewer   *)
(* than 256 and keep every carry, sign bit and length field where it is.   *)
(***************************************************************************)
EXTENDS Integers, SequencesExt

CONSTANTS
  Radix,        \* values of a byte, 256 in the code
  ChunkBytes,   \* archiveReadChunkBytes, 60 in the code
  PayloadBytes, \* longest read list the length byte can announce, 255
  Multibyte     \* the UTF-8 characters of more than one byte

ASSUME CodecAssumption ==
  /\ Radix \in Nat /\ Radix >= 4 /\ Radix % 2 = 0
  /\ ChunkBytes \in Nat \ {0}
  /\ PayloadBytes \in Nat

\* UTF-8 finds its place again: a byte of a character of more than one byte is
\* none of the lower half, the first byte tells the length and is never a
\* later byte of a character.
ASSUME Utf8Assumption ==
  \A c \in Multibyte :
    /\ c \in Seq((Radix \div 2)..(Radix - 1)) /\ Len(c) >= 2
    /\ \A d \in Multibyte : /\ c[1] = d[1] => Len(c) = Len(d)
                           /\ \A i \in 2..Len(c) : c[i] # d[1]

EntryBytes == 6                  \* address (4 bytes) and size (2 bytes)
WordBytes  == 8                  \* an int64

\* How many values n bytes can have.
Power[n \in 0..WordBytes] == IF n = 0 THEN 1 ELSE Radix * Power[n - 1]

Flag == Power[4] \div 4          \* 0x40000000, set in every read list

Hourly       == 0
Daily        == 1
Monthly      == 2
Total        == 3
Current      == 4
CurrentTotal == 5

-----------------------------------------------------------------------------
(* Numbers *)

\* Sums(n)[i] is the sum of the first i numbers of n.
Sums(n) == LET sum[i \in 0..Len(n)] == IF i = 0 THEN 0 ELSE sum[i - 1] + n[i] IN sum

\* An unsigned number from its bytes, the lowest first.
LittleEndian(b) == Sums([i \in DOMAIN b |-> b[i] * Power[i - 1]])[Len(b)]

\* The n lowest bytes of a number; a negative one in two's complement.
PutUint(x, n) == [i \in 1..n |-> (x \div Power[i - 1]) % Radix]

\* The 64-bit word decodeSignedInt builds: b[Len(b)] holds the sign.
SignExtended(b) ==
  LittleEndian(b) + IF Len(b) < WordBytes /\ 2 * b[Len(b)] >= Radix
                    THEN Power[WordBytes] - Power[Len(b)] ELSE 0

decodeSignedInt(b) ==
  LET x == SignExtended(b)
  IN  IF 2 * x >= Power[WordBytes] THEN x - Power[WordBytes] ELSE x

-----------------------------------------------------------------------------
(* Lists of elements *)

\* The elements of es with an address in A.
Keep(es, A) ==
  LET kept[i \in 0..Len(es)] ==
        IF i = 0 THEN <<>>
        ELSE IF es[i].addr \in A THEN Append(kept[i - 1], es[i]) ELSE kept[i - 1]
  IN  kept[Len(es)]

Totals == (3..8) \cup (11..13) \cup (17..18) \cup (25..30) \cup (33..35)
            \cup (39..40) \cup {81}

\* The addresses that belong to a value type.
meaningful(typ) ==
  CASE typ \in {Hourly, Daily, Monthly} -> (0..18) \cup (22..40) \cup (77..82)
    [] typ \in {Total, CurrentTotal}    -> Totals
    [] typ = Current -> (0..2) \cup (9..10) \cup (14..16) \cup (19..24)
                          \cup (31..32) \cup {36, 77, 78, 81, 82} \cup (41..43)
    [] OTHER -> {}

filter(es, typ) == Keep(es, meaningful(typ))

\* The bytes of one element in an answer: the value, its quality and its NS.
Cost(e)    == e.size + 2
Costs(es)  == [i \in DOMAIN es |-> Cost(es[i])]
CostOf(es) == Sums(Costs(es))[Len(es)]

\* The loop of splitArchiveReadList.  Elements are collected into a chunk
\* while their answer, n bytes for the next one, fits; an element that is too
\* long for any chunk is sent alone.
Fresh(cs) == [chunks |-> cs, current |-> <<>>, bytes |-> 0]
Flush(s)  == IF s.current = <<>> THEN s ELSE Fresh(Append(s.chunks, s.current))
Put(s, e, n) ==
  [chunks |-> s.chunks, current |-> Append(s.current, e), bytes |-> s.bytes + n]
Place(s, e, n) ==
  CASE n > ChunkBytes -> Fresh(Append(Flush(s).chunks, <<e>>))
    [] n <= ChunkBytes /\ s.bytes + n > ChunkBytes  -> Put(Flush(s), e, n)
    [] n <= ChunkBytes /\ s.bytes + n <= ChunkBytes -> Put(s, e, n)
Placed(es, n) ==
  LET placed[i \in 0..Len(es)] ==
        IF i = 0 THEN Fresh(<<>>) ELSE Place(placed[i - 1], es[i], n[i])
  IN  placed

\* Slip: quality and NS are left out of the account.
splitByValue(es) ==
  Flush(Placed(es, [i \in DOMAIN es |-> es[i].size])[Len(es)]).chunks

splitArchiveReadList(es) == Flush(Placed(es, Costs(es))[Len(es)]).chunks

\* The read list as the meter receives it; it is refused when its length
\* does not fit the length byte.
Payload(es)  == FlattenSeq([i \in DOMAIN es |->
                  PutUint(es[i].addr + Flag, 4) \o PutUint(es[i].size, 2)])
Writable(es) == EntryBytes * Len(es) <= PayloadBytes

\* The elements an active-element answer lists; <<>> stands for each of the
\* errors of ActiveElements.
Entries(d) ==
  [i \in 1..(Len(d) \div EntryBytes) |->
     LET at == EntryBytes * (i - 1)
     IN  [addr |-> LittleEndian(SubSeq(d, at + 1, at + 4)) % Flag,
          size |-> LittleEndian(SubSeq(d, at + 5, at + 6))]]

ActiveElements(d) ==
  IF Len(d) % EntryBytes # 0 THEN <<>> ELSE Keep(Entries(d), 0..82)

-----------------------------------------------------------------------------
(* Values *)

Text     == (44..56) \cup {77, 78}
Counters == {79, 80}
Floats   == (19..21) \cup (41..43) \cup {81}
Digits   == 57..76

\* Does decodeElementValue accept a value of this many bytes?
Decodes(a, n) ==
  CASE a \in Text     -> TRUE
    [] a \in Counters -> n = 10
    [] a \in Floats   -> n = 4
    [] a \in Digits   -> n = 1
    [] OTHER          -> n \in 1..WordBytes

\* A float is its bit pattern: math.Float32frombits loses nothing.
decodeElementValue(a, raw) ==
  CASE a \in Text     -> raw
    [] a \in Counters -> [i \in 1..5 |-> LittleEndian(SubSeq(raw, 2 * i - 1, 2 * i))]
    [] a \in Floats   -> LittleEndian(raw)
    [] a \in Digits   -> raw[1]
    [] OTHER          -> decodeSignedInt(raw)

\* The elements of a list taken from d one after the other, each a value, its
\* quality and its NS; the i-th one begins behind the first at[i - 1] bytes.
\* Of two with the same address the later one counts.
Consume(es, d, at) ==
  IF \E i \in DOMAIN es : \/ at[i - 1] + Cost(es[i]) > Len(d)
                          \/ ~Decodes(es[i].addr, es[i].size)
  THEN [ok |-> FALSE]
  ELSE [ok  |-> TRUE,
        out |-> [a \in {es[i].addr : i \in DOMAIN es} |->
                   LET i   == CHOOSE i \in DOMAIN es :
                                /\ es[i].addr = a
                                /\ \A j \in DOMAIN es : es[j].addr = a => j <= i
                       end == at[i - 1] + es[i].size
                       raw == SubSeq(d, at[i - 1] + 1, end)
                   IN  [value   |-> decodeElementValue(a, raw),
                        raw     |-> raw,
                        quality |-> d[end + 1],
                        ns      |-> d[end + 2]]]]

\* Slip: the NS byte is read but not stepped over.
ParseWithoutNS(es, d) == Consume(es, d, Sums([i \in DOMAIN es |-> es[i].size + 1]))

\* What is left of d after the last element is not looked at.
ParseElements(es, d) == Consume(es, d, Sums(Costs(es)))

\* What the store refuses.  A float that is not finite has no JSON form:
\* json.Marshal fails, the error is dropped and NULL meets a column that is
\* NOT NULL.  A JSON string with a NUL byte is no jsonb.
Finite(bits)       == LET b == PutUint(bits, 4)
                      IN  ~(b[4] % (Radix \div 2) = Radix \div 2 - 1 /\ 2 * b[3] >= Radix)
NulFree(bytes)     == \A i \in DOMAIN bytes : bytes[i] # 0
Storable(a, value) == CASE a \in Floats -> Finite(value)
                        [] a \in Text   -> NulFree(value)
                        [] OTHER        -> TRUE

\* json.Marshal takes the bytes of a string for UTF-8 and writes U+FFFD for
\* each byte that is not part of a character; Radix, no byte, stands for it.
Replacement   == Radix
Covered(v, j) ==
  \/ v[j] < Radix \div 2
  \/ \E c \in Multibyte, i \in 1..j : /\ j < i + Len(c) /\ i + Len(c) - 1 <= Len(v)
                                     /\ SubSeq(v, i, i + Len(c) - 1) = c
Utf8(v)       == \A j \in DOMAIN v : Covered(v, j)
JsonText(v)   == [j \in DOMAIN v |-> IF Covered(v, j) THEN v[j] ELSE Replacement]

\* jsonb keeps numbers as numeric, which has one zero.
MinusZero       == Power[4] \div 2
JsonValue(a, v) == CASE a \in Text   -> JsonText(v)
                     [] a \in Floats -> IF v = MinusZero THEN 0 ELSE v
                     [] OTHER        -> v

\* encode: the values as JSON, quality and NS as numbers, the bytes in hex.
encode(a, x) == [x EXCEPT !.value = JsonValue(a, x.value)]

-----------------------------------------------------------------------------
(* The properties record *)

\* The list of collectProperties; the first eight are units.
PropertyList ==
  << <<44, "t_unit", 7>>, <<45, "G_unit", 7>>, <<46, "V_unit", 7>>, <<47, "M_unit", 7>>,
     <<48, "P_unit", 7>>, <<53, "Qo_unit", 7>>, <<55, "BNP_unit", 7>>, <<56, "VOC_unit", 7>>,
     <<57, "t_dec", 1>>, <<59, "V1_dec", 1>>, <<60, "M1_dec", 1>>, <<61, "P1_dec", 1>>,
     <<66, "Qo1_dec", 1>>, <<69, "V2_dec", 1>>, <<70, "M2_dec", 1>>, <<76, "Qo2_dec", 1>> >>
Units == 8

\* Where the store keeps a property; -1 would refuse the whole record.
propertyAddress(name) ==
  CASE name = "t_unit"  -> 44 [] name = "G_unit"   -> 45 [] name = "V_unit"   -> 46
    [] name = "M_unit"  -> 47 [] name = "P_unit"   -> 48 [] name = "Qo_unit"  -> 53
    [] name = "BNP_unit" -> 55 [] name = "VOC_unit" -> 56 [] name = "t_dec"   -> 57
    [] name = "V1_dec"  -> 59 [] name = "M1_dec"   -> 60 [] name = "P1_dec"   -> 61
    [] name = "Qo1_dec" -> 66 [] name = "V2_dec"   -> 69 [] name = "M2_dec"   -> 70
    [] name = "Qo2_dec" -> 76 [] OTHER             -> -1

\* The two shapes of a property: a name behind its length, a single digit.
NameLength(d, off) == LittleEndian(SubSeq(d, off + 1, off + 2))

unit(d, off, size) == /\ off + 2 <= Len(d)
                      /\ NameLength(d, off) <= size
                      /\ off + 2 + NameLength(d, off) + 2 <= Len(d)
frac(d, off)       == off + 3 <= Len(d)

\* The end of each of the sixteen properties in d.
Ends(d) ==
  LET end[i \in 0..16] ==
        IF i = 0 THEN 0
        ELSE end[i - 1] + 2 + IF i <= Units THEN 2 + NameLength(d, end[i - 1]) ELSE 1
  IN  end

\* The sixteen properties taken from d one after the other.
ConsumeProperties(d) ==
  LET end     == Ends(d)
      fits(i) == IF i <= Units THEN unit(d, end[i - 1], PropertyList[i][3])
                               ELSE frac(d, end[i - 1])
      from(i) == end[i - 1] + IF i <= Units THEN 3 ELSE 1
  IN  IF \A i \in 1..16 : fits(i)
      THEN [ok |-> TRUE, off |-> end[16],
            out |-> [x \in {PropertyList[i][2] : i \in 1..16} |->
                       LET i == CHOOSE i \in 1..16 : PropertyList[i][2] = x
                       IN  SubSeq(d, from(i), end[i] - 2)]]
      ELSE [ok |-> FALSE]

ParseProperties(d) ==
  LET r == ConsumeProperties(d) IN IF r.ok /\ r.off = Len(d) THEN r ELSE [ok |-> FALSE]
=============================================================================
