------------------------- MODULE Vkt7ExchangeProofs -------------------------
(***************************************************************************)
(* tx() is the exchange that Vkt7Exchange promises, if the line falls      *)
(* silent in the settling pause: every step of the client, the meter and   *)
(* the line is a step of the exchange or none, for any number of requests  *)
(* and faults.                                                             *)
(***************************************************************************)
EXTENDS Vkt7Proofs, FiniteSetTheorems

(* Counting executions.                                                    *)

CountOf(s, r) == Cardinality({e \in DOMAIN s : s[e] = r})

\* The entries of a sequence that have a given value are finitely many, and one
\* more if that value is appended.
LEMMA CountAppend ==
  ASSUME NEW s \in Seq(Nat), NEW x \in Nat, NEW r
  PROVE  /\ CountOf(s, r) \in Nat
         /\ CountOf(Append(s, x), r) = CountOf(s, r) + (IF x = r THEN 1 ELSE 0)
<1> DEFINE C == {e \in DOMAIN s : s[e] = r}
           D == {e \in DOMAIN Append(s, x) : Append(s, x)[e] = r}
<1>1. Len(s) \in Nat /\ DOMAIN s = 1..Len(s)
  OBVIOUS
<1>2. IsFiniteSet(DOMAIN s)
  BY <1>1, FS_Interval
<1>3. IsFiniteSet(C)
  BY <1>2, FS_Subset
<1>4. Cardinality(C) \in Nat
  BY <1>3, FS_CardinalityType
<1>5. D = IF x = r THEN C \cup {Len(s) + 1} ELSE C
  BY <1>1
<1>6. Len(s) + 1 \notin C
  BY <1>1
<1> HIDE DEF C, D
<1>7. Cardinality(D) = Cardinality(C) + (IF x = r THEN 1 ELSE 0)
  <2>1. CASE x = r
    BY <1>3, <1>5, <1>6, <2>1, FS_AddElement
  <2>2. CASE x # r
    BY <1>4, <1>5, <2>2
  <2> QED
    BY <2>1, <2>2
<1> QED
  BY <1>4, <1>7 DEF CountOf, C, D

\* No entry, no count; an entry, a positive count.
LEMMA CountZero ==
  ASSUME NEW s \in Seq(Nat), NEW r
  PROVE  CountOf(s, r) = 0 <=> \A e \in DOMAIN s : s[e] # r
<1> DEFINE C == {e \in DOMAIN s : s[e] = r}
<1>1. Len(s) \in Nat /\ DOMAIN s = 1..Len(s)
  OBVIOUS
<1>2. IsFiniteSet(DOMAIN s)
  BY <1>1, FS_Interval
<1>3. IsFiniteSet(C)
  BY <1>2, FS_Subset
<1>4. Cardinality(C) = 0 <=> C = {}
  BY <1>3, FS_EmptySet
<1> QED
  BY <1>4 DEF CountOf
-----------------------------------------------------------------------------
(* What the line owes the meter and the client.                            *)

Pending(r) == IF pending = <<r>> THEN 1 ELSE 0

\* Before the silence of the pause, and before the request is written (again).
Waiting == {"purge", "settle"}
Unsent == {"write", "purge after CRC"}

\* How often the request under way was written.
Written ==
  CASE pc \in Waiting -> 0
    [] pc = "write" -> attempt - 1
    [] OTHER -> attempt

\* At most one request is on its way to the meter, and none has been or will be
\* executed more often than it was written.
OwedInv ==
  /\ \A e \in DOMAIN executed : executed[e] \in 1..Request
  /\ pending # <<>> => \E r \in 1..Request : pending = <<r>>
  /\ \A r \in 1..Request : Runs(r) + Pending(r) <= MaxAttempts
  /\ Request > 0 => Runs(Request) + Pending(Request) <= Written
  /\ pc \in Unsent => pending = <<>>
  /\ pc \in Waiting => attempt = 1

\* The byte with which a frame begins.
Begins(bytes) == {i \in DOMAIN bytes : bytes[i].place = 1}

\* Before the first execution of the request nothing is about.  The first byte
\* of its answer comes before the others, so after a CRC error it is gone, and
\* nothing that can be accepted is about before the second execution.
HeadInv ==
  /\ pc = "write" /\ attempt = 1 => Empty
  /\ pc = "read" /\ attempt = 1 =>
       /\ pending # <<>> => Empty
       /\ Begins(input) # {} => Begins(input) = {1} /\ out = <<>>
       /\ Begins(line) # {} => Begins(line) = {1} /\ input = <<>> /\ out = <<>>
  /\ pc = "read" /\ attempt = 2 /\ pending # <<>> =>
       Begins(input) = {} /\ Begins(line) = {} /\ Begins(out) = {}
  /\ pc = "write" /\ attempt = 2 => Begins(input) = {} /\ Begins(line) = {}
  /\ pc = "purge after CRC" => Begins(line) = {}

\* What was answered is over: its request is not on its way once more.
OverInv ==
  /\ \A i \in DOMAIN results : results[i] # 0 => pending # <<i>>
  /\ \A e \in DOMAIN frames : frames[e] # <<>> /\ frames[e][1].place = 1

ExchangeInv == OwedInv /\ HeadInv /\ OverInv

\* The types that the steps below need.
LEMMA StateTypes ==
  ASSUME TypeInv
  PROVE  /\ out \in Seq(FrameByte) /\ input \in Seq(FrameByte) /\ line \in Seq(FrameByte)
         /\ executed \in Seq(Nat) /\ frames \in Seq(Seq(FrameByte)) /\ Len(frames) = Len(executed)
         /\ results \in Seq(Nat) /\ kinds \in Seq(Kinds) /\ Request \in Nat
         /\ attempt \in 1..2 /\ \A r : Runs(r) \in Nat /\ Runs(r) = CountOf(executed, r)
<1>1. /\ out \in Seq(FrameByte) /\ input \in Seq(FrameByte) /\ line \in Seq(FrameByte)
      /\ executed \in Seq(Nat) /\ frames \in Seq(Seq(FrameByte)) /\ Len(frames) = Len(executed)
      /\ results \in Seq(Nat) /\ kinds \in Seq(Kinds) /\ Request \in Nat
      /\ attempt \in 1..2
  <2>1. kinds \in Seq(Kinds)
    BY DEF TypeInv, TypeOK
  <2>2. Request \in Nat
    BY <2>1 DEF Request
  <2>3. out \in Seq(FrameByte) /\ input \in Seq(FrameByte) /\ line \in Seq(FrameByte)
    BY DEF TypeInv, TypeOK
  <2>4. /\ executed \in Seq(Nat) /\ frames \in Seq(Seq(FrameByte))
        /\ Len(frames) = Len(executed) /\ results \in Seq(Nat) /\ attempt \in 1..2
    BY DEF TypeInv, TypeOK, MaxAttempts
  <2> QED
    BY <2>1, <2>2, <2>3, <2>4
<1>2. \A r : Runs(r) = CountOf(executed, r)
  BY DEF Runs, CountOf
<1>3. \A r : CountOf(executed, r) \in Nat
  <2>1. 0 \in Nat
    OBVIOUS
  <2> QED
    BY <1>1, <2>1, CountAppend
<1> QED
  BY <1>1, <1>2, <1>3

\* Unless something is executed the counts stand still.
LEMMA CountsStand ==
  ASSUME UNCHANGED <<executed, kinds>>
  PROVE  Request' = Request /\ \A r : Runs(r)' = Runs(r)
BY DEF Request, Runs

\* Steps within a transaction that execute nothing are none of the exchange.
LEMMA Stutters ==
  ASSUME UNCHANGED <<executed, kinds, results>>, (pc # "idle") <=> (pc' # "idle")
  PROVE  UNCHANGED Exchange!exchange
<1>1. (pc # "idle") = (pc' # "idle")
  OBVIOUS
<1> QED
  BY <1>1, Zenon DEF Exchange!exchange, Runs

\* A sequence that is another one and one more entry.
LEMMA OneMore ==
  ASSUME NEW P, NEW s \in Seq(P), NEW t \in Seq(P), NEW e \in P,
         Len(t) = Len(s) + 1, t[Len(s) + 1] = e, \A i \in 1..Len(s) : t[i] = s[i]
  PROVE  t = Append(s, e)
OBVIOUS

\* The verdicts of the exchange after one more result.
LEMMA VerdictAppend ==
  ASSUME NEW s \in Seq(Nat), NEW x \in Nat, NEW b \in BOOLEAN, b <=> x # 0
  PROVE  [i \in 1..Len(Append(s, x)) |-> Append(s, x)[i] # 0]
           = Append([i \in 1..Len(s) |-> s[i] # 0], b)
<1> DEFINE t == Append(s, x)
           F(q) == [i \in 1..Len(q) |-> q[i] # 0]
<1>1. t \in Seq(Nat) /\ Len(t) = Len(s) + 1 /\ Len(s) \in Nat
  OBVIOUS
<1>2. /\ t[Len(s) + 1] = x
      /\ \A i \in 1..Len(s) : t[i] = s[i]
  OBVIOUS
<1> HIDE DEF t
<1>3. ASSUME NEW q \in Seq(Nat)
      PROVE  /\ F(q) \in Seq(BOOLEAN) /\ Len(F(q)) = Len(q)
             /\ \A i \in 1..Len(q) : F(q)[i] = (q[i] # 0)
  <2>1. Len(q) \in Nat
    OBVIOUS
  <2>2. F(q) \in [1..Len(q) -> BOOLEAN]
    OBVIOUS
  <2>3. \A i \in 1..Len(q) : F(q)[i] = (q[i] # 0)
    BY Zenon
  <2> HIDE DEF F
  <2>4. F(q) \in Seq(BOOLEAN) /\ Len(F(q)) = Len(q)
    BY <2>1, <2>2
  <2> QED
    BY <2>3, <2>4, Zenon
<1> HIDE DEF F
<1>4. \A i \in 1..Len(s) : F(t)[i] = F(s)[i]
  <2> TAKE i \in 1..Len(s)
  <2>1. i \in 1..Len(t)
    BY <1>1
  <2>2. F(t)[i] = (t[i] # 0) /\ F(s)[i] = (s[i] # 0) /\ t[i] = s[i]
    BY <1>1, <1>2, <1>3, <2>1, Zenon
  <2> QED
    BY <2>2, Zenon
<1>5. F(t)[Len(s) + 1] = b
  <2>1. Len(s) + 1 \in 1..Len(t)
    BY <1>1
  <2> QED
    BY <1>1, <1>2, <1>3, <2>1, Zenon
<1>6. /\ F(s) \in Seq(BOOLEAN) /\ F(t) \in Seq(BOOLEAN)
      /\ Len(F(s)) = Len(s) /\ Len(F(t)) = Len(F(s)) + 1
  BY <1>1, <1>3
<1>7. F(t) = Append(F(s), b)
  <2>1. \A i \in 1..Len(F(s)) : F(t)[i] = F(s)[i]
    BY <1>4, <1>6, Zenon
  <2>2. F(t)[Len(F(s)) + 1] = b
    BY <1>5, <1>6, Zenon
  <2> QED
    BY <1>6, <2>1, <2>2, OneMore
<1> QED
  BY <1>7, Zenon DEF F, t

\* A transaction that returns nothing fails.
LEMMA Fails ==
  ASSUME TypeInv, pc # "idle", Return(0), UNCHANGED executed
  PROVE  Exchange!Fail
<1>1. results' = Append(results, 0) /\ pc' = "idle" /\ kinds' = kinds
  BY DEF Return
<1>2. results \in Seq(Nat) /\ 0 \in Nat
  BY StateTypes
<1>3. [i \in 1..Len(results') |-> results'[i] # 0]
        = Append([i \in 1..Len(results) |-> results[i] # 0], FALSE)
  <2>1. FALSE <=> 0 # 0
    OBVIOUS
  <2>2. FALSE \in BOOLEAN
    OBVIOUS
  <2> QED
    BY <1>1, <1>2, <2>1, <2>2, VerdictAppend, Zenon
<1>4. [r \in 1..Len(kinds') |-> Runs(r)'] = [r \in 1..Len(kinds) |-> Runs(r)]
  BY <1>1 DEF Runs
<1>5. (pc # "idle") /\ (pc' # "idle") = FALSE
  BY <1>1
<1> QED
  BY <1>3, <1>4, <1>5, Zenon DEF Exchange!Fail
-----------------------------------------------------------------------------
(* The steps of the client.                                                *)

ExchangeStep == Exchange!Next \/ UNCHANGED Exchange!exchange

\* What is owed while nothing is written, executed or asked for.
LEMMA OwedStays ==
  ASSUME TypeInv, OwedInv, UNCHANGED <<executed, kinds, pending>>,
         NEW a \in Int, NEW b \in Int, Written = a, Written' = b, a <= b,
         pc' \in Unsent => pending = <<>>, pc' \in Waiting => attempt' = 1
  PROVE  OwedInv'
<1>1. Request' = Request /\ \A r : Runs(r)' = Runs(r)
  BY CountsStand
<1>2. \A r : Pending(r)' = Pending(r)
  BY DEF Pending
<1>3. Request \in Nat /\ (\A r : Runs(r) \in Nat) /\ (\A r : Pending(r) \in Nat)
  BY StateTypes DEF Pending
<1>4. Request > 0 => Runs(Request) + Pending(Request) <= b
  <2>1. PICK p \in Nat : p = Runs(Request)
    BY <1>3
  <2>2. PICK q \in Nat : q = Pending(Request)
    BY <1>3
  <2>3. Request > 0 => p + q <= a
    BY <2>1, <2>2 DEF OwedInv
  <2>4. p + q <= a => p + q <= b
    OBVIOUS
  <2> QED
    BY <2>1, <2>2, <2>3, <2>4
<1> QED
  BY <1>1, <1>2, <1>4 DEF OwedInv

\* What is owed after the request under way was written.
LEMMA OwedWrite ==
  ASSUME TypeInv, OwnInv, OwedInv, UNCHANGED <<executed, kinds, attempt>>,
         pc = "write", pc' \in {"read", "idle"}, pending' = Append(pending, Request)
  PROVE  OwedInv' /\ pending' = <<Request>>
<1>1. Request' = Request /\ \A r : Runs(r)' = Runs(r)
  BY CountsStand
<1>2. Request \in Nat /\ (\A r : Runs(r) \in Nat) /\ attempt \in 1..2 /\ results \in Seq(Nat)
  BY StateTypes
<1>3. Request \in 1..Request
  <2>1. Len(results) \in Nat /\ Len(results) = Request - 1
    BY <1>2 DEF OwnInv, Counted
  <2> QED
    BY <1>2, <2>1
<1>4. pending = <<>> /\ pending' = <<Request>>
  BY DEF OwedInv, Unsent
<1>5. \A r : Pending(r) = 0 /\ Pending(r)' = IF r = Request THEN 1 ELSE 0
  <2>1. \A r : <<Request>> = <<r>> <=> r = Request
    OBVIOUS
  <2>2. \A r : <<r>> # <<>>
    OBVIOUS
  <2> QED
    BY <1>4, <2>1, <2>2 DEF Pending
<1>6. Runs(Request) + 1 <= attempt
  BY <1>2, <1>3, <1>5 DEF OwedInv, Written, Waiting
<1>7. \A r \in 1..Request : Runs(r) + Pending(r)' <= 2
  <2> TAKE r \in 1..Request
  <2>1. CASE r = Request
    BY <1>2, <1>5, <1>6, <2>1
  <2>2. CASE r # Request
    BY <1>2, <1>5, <2>2 DEF OwedInv, MaxAttempts
  <2> QED
    BY <2>1, <2>2
<1>8. Written' = attempt
  BY DEF Written, Waiting
<1>9. Runs(Request) + Pending(Request)' <= Written'
  BY <1>2, <1>5, <1>6, <1>8
<1>10. pc' \notin Unsent /\ pc' \notin Waiting
  BY DEF Unsent, Waiting
<1> QED
  BY <1>1, <1>3, <1>4, <1>7, <1>9, <1>10 DEF OwedInv, MaxAttempts

\* Nothing begins in no bytes.
LEMMA BeginsNone == Begins(<<>>) = {}
BY DEF Begins

\* A new request.
LEMMA BeginExchange ==
  ASSUME TypeInv, OwnInv, ExchangeInv, Begin
  PROVE  ExchangeInv' /\ ExchangeStep
<1>1. /\ pc = "idle" /\ pc' = "purge" /\ attempt' = 1
      /\ UNCHANGED <<pending, executed, frames, results>>
  BY DEF Begin, meter
<1>2. PICK k \in Kinds : kinds' = Append(kinds, k)
  BY DEF Begin
<1>3. Request \in Nat /\ (\A r : Runs(r) \in Nat) /\ kinds \in Seq(Kinds)
  BY StateTypes
<1> PICK n \in Nat : n = Request
  BY <1>3
<1>n. Request' = n + 1 /\ Len(kinds) = n
  BY <1>2, <1>3 DEF Request
<1>r. \A r : Runs(r)' = Runs(r)
  BY <1>1 DEF Runs
<1>i. /\ \A e \in DOMAIN executed : executed[e] \in 1..n
      /\ pending # <<>> => \E r \in 1..n : pending = <<r>>
      /\ \A r \in 1..n : Runs(r) + Pending(r) <= MaxAttempts
  BY DEF ExchangeInv, OwedInv
<1>4. Runs(n + 1) = 0
  <2>1. \A e \in DOMAIN executed : executed[e] # n + 1
    BY <1>i
  <2> QED
    BY <2>1, StateTypes, CountZero
<1>5. \A r : Pending(r)' = Pending(r)
  BY <1>1 DEF Pending
<1>6. Pending(n + 1) = 0
  <2>1. \A r \in 1..n : <<r>> # <<n + 1>>
    OBVIOUS
  <2>2. <<n + 1>> # <<>>
    OBVIOUS
  <2> QED
    BY <1>i, <2>1, <2>2 DEF Pending
<1>7. Written' = 0
  BY <1>1 DEF Written, Waiting
<1>8. OwedInv'
  <2>1. \A e \in DOMAIN executed : executed[e] \in 1..(n + 1)
    BY <1>i
  <2>2. pending # <<>> => \E r \in 1..(n + 1) : pending = <<r>>
    BY <1>i
  <2>3. \A r \in 1..(n + 1) : Runs(r) + Pending(r) <= MaxAttempts
    <3> TAKE r \in 1..(n + 1)
    <3>1. r \in 1..n \/ r = n + 1
      OBVIOUS
    <3> QED
      BY <1>4, <1>6, <1>i, <3>1 DEF MaxAttempts
  <2>4. Runs(n + 1) + Pending(n + 1) <= 0
    BY <1>4, <1>6
  <2>5. pc' \notin Unsent /\ attempt' = 1
    BY <1>1 DEF Unsent
  <2> QED
    BY <1>n, <1>r, <1>5, <1>7, <1>1, <2>1, <2>2, <2>3, <2>4, <2>5 DEF OwedInv
<1>9. HeadInv' /\ OverInv'
  BY <1>1 DEF ExchangeInv, HeadInv, OverInv
<1>10. Exchange!Request
  <2>1. [r \in 1..Len(kinds') |-> Runs(r)'] = Append([r \in 1..Len(kinds) |-> Runs(r)], 0)
    <3> DEFINE s == [r \in 1..Len(kinds) |-> Runs(r)]
               t == [r \in 1..Len(kinds') |-> Runs(r)']
    <3>1. Len(kinds) \in Nat /\ Len(kinds') = Len(kinds) + 1
      BY <1>2, <1>3
    <3>2. /\ s \in Seq(Nat) /\ Len(s) = Len(kinds)
          /\ t \in Seq(Nat) /\ Len(t) = Len(kinds) + 1
      BY <1>3, <1>r, <3>1
    <3>3. t[Len(s) + 1] = 0
      BY <1>r, <1>4, <1>n, <3>1, <3>2
    <3>4. \A r \in 1..Len(s) : t[r] = s[r]
      BY <1>r, <3>1, <3>2
    <3> HIDE DEF s, t
    <3>5. t = Append(s, 0)
      BY <3>2, <3>3, <3>4, OneMore
    <3> QED
      BY <3>5 DEF s, t
  <2>2. ~(pc # "idle") /\ (pc' # "idle") = TRUE
    BY <1>1
  <2>3. [i \in 1..Len(results') |-> results'[i] # 0] = [i \in 1..Len(results) |-> results[i] # 0]
    BY <1>1, Zenon
  <2> QED
    BY <2>1, <2>2, <2>3, Zenon DEF Exchange!Request
<1> QED
  BY <1>8, <1>9, <1>10, Zenon DEF ExchangeInv, ExchangeStep, Exchange!Next

\* The buffer is cleared, the pause passes, the request is written, nothing
\* comes in time, the request is sent again.
LEMMA ClientExchange ==
  ASSUME Settles, TypeInv, OwnInv, ExchangeInv,
         Purge \/ PurgeAgain \/ WriteRequest \/ Deadline \/ Retry
  PROVE  ExchangeInv' /\ ExchangeStep
<1>0. attempt \in 1..2 /\ results \in Seq(Nat) /\ Request \in Nat
  BY StateTypes
<1>1. CASE Purge
  <2>1. /\ pc = "purge" /\ pc' = "settle"
        /\ UNCHANGED <<attempt, pending, executed, frames, kinds, results>>
    BY <1>1 DEF Purge, Goto, meter
  <2>2. Written = 0 /\ Written' = 0 /\ pc' \notin Unsent /\ attempt' = 1
    BY <2>1 DEF Written, Waiting, ExchangeInv, OwedInv, Unsent
  <2>3. OwedInv'
    BY <2>1, <2>2, OwedStays DEF ExchangeInv
  <2>4. HeadInv' /\ OverInv'
    BY <2>1 DEF ExchangeInv, HeadInv, OverInv
  <2> QED
    BY <2>1, <2>3, <2>4, Stutters DEF ExchangeInv, ExchangeStep
<1>2. CASE PurgeAgain
  <2>1. /\ pc = "settle" /\ pc' = "write" /\ line = <<>> /\ pending = <<>> /\ input' = <<>>
        /\ UNCHANGED <<attempt, pending, executed, frames, kinds, results, out, line>>
    BY <1>2 DEF PurgeAgain, Goto, meter, Silent
  <2>2. attempt = 1 /\ pc' \notin Waiting
    BY <2>1 DEF ExchangeInv, OwedInv, Waiting
  <2>3. Written = 0 /\ Written' = 0
    BY <2>1, <2>2 DEF Written, Waiting
  <2>4. OwedInv'
    BY <2>1, <2>2, <2>3, OwedStays DEF ExchangeInv
  <2>5. out = <<>>
    BY <2>1 DEF OwnInv
  <2>6. HeadInv' /\ OverInv'
    BY <2>1, <2>2, <2>5 DEF ExchangeInv, HeadInv, OverInv, Empty
  <2> QED
    BY <2>1, <2>4, <2>6, Stutters DEF ExchangeInv, ExchangeStep
<1>3. CASE WriteRequest
  <2>1. /\ pc = "write" /\ pc' = "read" /\ (pending' = pending \/ pending' = Append(pending, Request))
        /\ UNCHANGED <<attempt, executed, frames, kinds, results, out, input, line>>
    BY <1>3 DEF WriteRequest, Goto
  <2>2. OwedInv' /\ (pending' = pending \/ pending' = <<Request>>)
    <3>1. CASE pending' = Append(pending, Request)
      BY <2>1, <3>1, OwedWrite DEF ExchangeInv
    <3>2. CASE pending' = pending
      <4>1. Written = attempt - 1 /\ Written' = attempt /\ pc' \notin Unsent /\ pc' \notin Waiting
        BY <2>1 DEF Written, Waiting, Unsent
      <4>2. attempt - 1 \in Int /\ attempt \in Int /\ attempt - 1 <= attempt
        BY <1>0
      <4> QED
        BY <2>1, <3>2, <4>1, <4>2, OwedStays DEF ExchangeInv
    <3> QED
      BY <2>1, <3>1, <3>2
  <2>3. HeadInv'
    <3>1. attempt = 1 => Empty
      BY <2>1 DEF ExchangeInv, HeadInv
    <3>2. attempt = 2 => Begins(input) = {} /\ Begins(line) = {}
      BY <2>1 DEF ExchangeInv, HeadInv
    <3>3. out = <<>>
      BY <2>1 DEF OwnInv
    <3> QED
      BY <2>1, <3>1, <3>2, <3>3, BeginsNone DEF HeadInv, Empty
  <2>4. OverInv'
    <3>1. Len(results) \in Nat /\ Len(results) = Request - 1 /\ DOMAIN results = 1..Len(results)
      BY <1>0, <2>1 DEF OwnInv, Counted
    <3>2. \A i \in DOMAIN results : <<Request>> # <<i>>
      BY <3>1
    <3> QED
      BY <2>1, <2>2, <3>2 DEF ExchangeInv, OverInv
  <2> QED
    BY <2>1, <2>2, <2>3, <2>4, Stutters DEF ExchangeInv, ExchangeStep
<1>4. CASE Deadline
  <2>1. /\ pc = "read" /\ pc' = "idle" /\ results' = Append(results, 0)
        /\ UNCHANGED <<attempt, pending, executed, frames, kinds>>
    BY <1>4 DEF Deadline, Return, meter
  <2>2. Written = attempt /\ Written' = attempt /\ pc' \notin Unsent /\ pc' \notin Waiting
    BY <2>1 DEF Written, Waiting, Unsent
  <2>3. OwedInv'
    BY <1>0, <2>1, <2>2, OwedStays DEF ExchangeInv
  <2>4. HeadInv'
    BY <2>1 DEF HeadInv
  <2>5. OverInv'
    <3>1. \A i \in DOMAIN results' : results'[i] # 0 => i \in DOMAIN results /\ results[i] # 0
      BY <1>0, <2>1
    <3> QED
      BY <2>1, <3>1 DEF ExchangeInv, OverInv
  <2>6. Exchange!Fail
    BY <1>4, <2>1, Fails DEF Deadline
  <2> QED
    BY <2>3, <2>4, <2>5, <2>6 DEF ExchangeInv, ExchangeStep, Exchange!Next
<1>5. CASE Retry
  <2>1. /\ pc' = "write" /\ attempt' = attempt + 1 /\ input' = <<>>
        /\ UNCHANGED <<pending, executed, frames, kinds, results, line>>
    BY <1>5 DEF Retry, meter
  <2>2. /\ pc \in Unsent /\ pc \notin Waiting /\ pc # "write" /\ pc # "idle"
        /\ attempt < MaxAttempts /\ Begins(line) = {}
    BY <1>5 DEF Retry, Unsent, Waiting, TypeInv, ExchangeInv, HeadInv
  <2>3. attempt = 1 /\ attempt' = 2
    BY <1>0, <2>1, <2>2 DEF MaxAttempts
  <2>4. Written = 1
    BY <2>2, <2>3 DEF Written
  <2>5. Written' = 1 /\ pending = <<>> /\ pc' \notin Waiting
    BY <2>1, <2>2, <2>3 DEF ExchangeInv, OwedInv, Waiting, Written
  <2>6. OwedInv'
    BY <2>1, <2>4, <2>5, OwedStays DEF ExchangeInv
  <2>7. HeadInv'
    <3>1. Begins(line)' = {} /\ Begins(input)' = {}
      BY <2>1, <2>2, BeginsNone DEF Begins
    <3> QED
      BY <2>1, <2>3, <3>1 DEF HeadInv
  <2>8. OverInv'
    BY <2>1 DEF ExchangeInv, OverInv
  <2> QED
    BY <2>1, <2>2, <2>6, <2>7, <2>8, Stutters DEF ExchangeInv, ExchangeStep
<1> QED
  BY <1>1, <1>2, <1>3, <1>4, <1>5

\* A failing call of the port, after which a write may have got through.
LEMMA PortErrorExchange ==
  ASSUME TypeInv, OwnInv, ExchangeInv, PortError
  PROVE  ExchangeInv' /\ ExchangeStep
<1>0. attempt \in 1..2 /\ results \in Seq(Nat) /\ Request \in Nat
  BY StateTypes
<1>1. /\ pc # "idle" /\ pc' = "idle" /\ results' = Append(results, 0)
      /\ pending' = pending \/ (pc = "write" /\ pending' = Append(pending, Request))
      /\ UNCHANGED <<attempt, executed, frames, kinds>>
  BY DEF PortError, Return
<1>2. OwedInv' /\ (pending' = pending \/ pending' = <<Request>>)
  <2>1. CASE pc = "write" /\ pending' = Append(pending, Request)
    BY <1>1, <2>1, OwedWrite DEF ExchangeInv
  <2>2. CASE pending' = pending
    <3>1. Written' = attempt /\ pc' \notin Unsent /\ pc' \notin Waiting
      BY <1>1 DEF Written, Waiting, Unsent
    <3>2. Written \in {0, attempt - 1, attempt}
      BY DEF Written
    <3>3. \A w \in {0, attempt - 1, attempt} : w \in Int /\ w <= attempt
      BY <1>0
    <3> QED
      BY <1>0, <1>1, <2>2, <3>1, <3>2, <3>3, OwedStays DEF ExchangeInv
  <2> QED
    BY <1>1, <2>1, <2>2
<1>3. HeadInv'
  BY <1>1 DEF HeadInv
<1>4. OverInv'
  <2>1. Len(results) \in Nat /\ Len(results) = Request - 1 /\ DOMAIN results = 1..Len(results)
    <3>1. Len(results) = Request - 1
      BY <1>1 DEF OwnInv, Counted
    <3> QED
      BY <1>0, <3>1
  <2>2. \A i \in DOMAIN results : <<Request>> # <<i>>
    BY <2>1
  <2>3. \A i \in DOMAIN results' :
          results'[i] # 0 => i \in DOMAIN results /\ results[i] # 0
    BY <1>0, <1>1
  <2> QED
    BY <1>1, <1>2, <2>2, <2>3 DEF ExchangeInv, OverInv
<1>5. Exchange!Fail
  BY <1>1, Fails DEF PortError
<1> QED
  BY <1>2, <1>3, <1>4, <1>5 DEF ExchangeInv, ExchangeStep, Exchange!Next

\* What a read takes and leaves of the beginnings in the buffer.
LEMMA BeginsParts ==
  ASSUME NEW s \in Seq(FrameByte), NEW t \in Seq(FrameByte), NEW n \in 1..Len(s)
  PROVE  /\ \A i \in Begins(SubSeq(s, n + 1, Len(s))) : n + i \in Begins(s) /\ i \in Nat \ {0}
         /\ Begins(t) = {} /\ Begins(s) = {} => Begins(t \o SubSeq(s, 1, n)) = {}
<1>1. Len(s) \in Nat /\ Len(t) \in Nat
  OBVIOUS
<1>2. ASSUME NEW i \in Begins(SubSeq(s, n + 1, Len(s)))
      PROVE  n + i \in Begins(s) /\ i \in Nat \ {0}
  <2>1. i \in 1..(Len(s) - n) /\ SubSeq(s, n + 1, Len(s))[i] = s[n + i]
    BY <1>1, <1>2 DEF Begins
  <2>2. n + i \in 1..Len(s) /\ i \in Nat \ {0}
    BY <1>1, <2>1
  <2> QED
    BY <1>2, <2>1, <2>2 DEF Begins
<1>3. ASSUME Begins(t) = {}, Begins(s) = {}, NEW i \in Begins(t \o SubSeq(s, 1, n))
      PROVE  FALSE
  <2> DEFINE r == t \o SubSeq(s, 1, n)
  <2>1. SubSeq(s, 1, n) \in Seq(FrameByte) /\ Len(SubSeq(s, 1, n)) = n
    BY <1>1
  <2>2. Len(r) = Len(t) + n /\ DOMAIN r = 1..(Len(t) + n)
    BY <1>1, <2>1
  <2>3. i \in 1..(Len(t) + n) /\ r[i].place = 1
    BY <1>3, <2>2 DEF Begins
  <2>4. CASE i <= Len(t)
    <3>1. r[i] = t[i] /\ i \in DOMAIN t
      BY <1>1, <2>1, <2>3, <2>4
    <3> QED
      BY <1>3, <2>3, <3>1 DEF Begins
  <2>5. CASE i > Len(t)
    <3>1. i - Len(t) \in 1..n
      BY <1>1, <2>3, <2>5
    <3>2. r[i] = SubSeq(s, 1, n)[i - Len(t)]
      BY <1>1, <2>1, <2>3, <2>5
    <3>3. \A j \in 1..n : SubSeq(s, 1, n)[j] = s[j] /\ j \in DOMAIN s
      BY <1>1
    <3>4. r[i] = s[i - Len(t)] /\ i - Len(t) \in DOMAIN s
      BY <3>1, <3>2, <3>3
    <3> QED
      BY <1>3, <2>3, <3>4 DEF Begins
  <2> QED
    BY <1>1, <2>3, <2>4, <2>5
<1> QED
  BY <1>2, <1>3

\* One read: a part of an answer, the answer, a damaged one, or too much.
LEMMA ReadExchange ==
  ASSUME Settles, TypeInv, OwnInv, ExchangeInv, ReadSome
  PROVE  ExchangeInv' /\ ExchangeStep
<1>0. /\ out \in Seq(FrameByte) /\ input \in Seq(FrameByte) /\ line \in Seq(FrameByte)
      /\ results \in Seq(Nat) /\ Request \in Nat /\ attempt \in 1..2
      /\ executed \in Seq(Nat) /\ frames \in Seq(Seq(FrameByte)) /\ Len(frames) = Len(executed)
      /\ \A r : Runs(r) = CountOf(executed, r)
  BY StateTypes
<1>1. PICK n \in 1..Len(input) :
        LET response == out \o SubSeq(input, 1, n)
            verdict == Verdict(kinds[Request], response)
        IN  /\ input' = SubSeq(input, n + 1, Len(input))
            /\ \/ verdict = "partial" /\ out' = response
                  /\ UNCHANGED <<pc, attempt, kinds, results>>
               \/ verdict = "good" /\ Return(CHOOSE e \in DOMAIN frames : frames[e] = response)
               \/ verdict = "crc" /\ attempt < MaxAttempts /\ Goto("purge after CRC")
               \/ verdict = "crc" /\ attempt = MaxAttempts /\ Return(0)
               \/ verdict = "bad" /\ Return(0)
  BY DEF ReadSome
<1> DEFINE response == out \o SubSeq(input, 1, n)
           verdict == Verdict(kinds[Request], response)
           result == CHOOSE e \in DOMAIN frames : frames[e] = response
<1>2. /\ pc = "read" /\ pc \notin Unsent /\ pc \notin Waiting
      /\ UNCHANGED <<pending, executed, frames, line>>
  BY DEF ReadSome, Unsent, Waiting, meter
<1>3. Written = attempt /\ input # <<>> /\ attempt \in Int /\ attempt <= attempt
  <2>1. input # <<>>
    BY <1>0
  <2> QED
    BY <1>0, <1>2, <2>1 DEF Written
<1>4. /\ attempt = 1 => pending = <<>> /\ Begins(line) = {} /\ Begins(input) \subseteq {1}
      /\ attempt = 2 /\ pending # <<>> =>
           Begins(input) = {} /\ Begins(line) = {} /\ Begins(out) = {}
  BY <1>2, <1>3 DEF ExchangeInv, HeadInv, Empty
<1>5. /\ \A i \in Begins(SubSeq(input, n + 1, Len(input))) : n + i \in Begins(input) /\ i \in Nat \ {0}
      /\ Begins(out) = {} /\ Begins(input) = {} => Begins(response) = {}
  BY <1>0, BeginsParts
<1>6. /\ input' = SubSeq(input, n + 1, Len(input))
      /\ \/ out' = response /\ UNCHANGED <<pc, attempt, kinds, results>>
         \/ verdict = "good" /\ Return(result)
         \/ attempt < MaxAttempts /\ Goto("purge after CRC")
         \/ Return(0)
  BY <1>1
<1>7. Begins(input) \subseteq {1} => Begins(input') = {}
  <2> SUFFICES ASSUME Begins(input) \subseteq {1}, NEW i \in Begins(input') PROVE FALSE
    OBVIOUS
  <2>1. n + i = 1 /\ i \in Nat \ {0}
    BY <1>5, <1>6
  <2> QED
    BY <2>1
<1> HIDE DEF response, verdict, result
<1>8. CASE out' = response /\ UNCHANGED <<pc, attempt, kinds, results>>
  <2>1. OwedInv'
    <3>1. Written' = attempt
      BY <1>2, <1>8 DEF Written
    <3> QED
      BY <1>2, <1>3, <1>8, <3>1, OwedStays DEF ExchangeInv
  <2>2. HeadInv'
    <3>1. attempt = 1 => pending = <<>> /\ Begins(line)' = {} /\ Begins(input)' = {}
      BY <1>2, <1>4, <1>7 DEF Begins
    <3>2. attempt = 2 /\ pending # <<>> =>
            Begins(input)' = {} /\ Begins(line)' = {} /\ Begins(out)' = {}
      BY <1>2, <1>4, <1>5, <1>7, <1>8 DEF Begins
    <3>3. pc' = "read" /\ UNCHANGED <<attempt, pending>>
      BY <1>2, <1>8
    <3> QED
      BY <3>1, <3>2, <3>3 DEF HeadInv
  <2>3. OverInv'
    BY <1>2, <1>8 DEF ExchangeInv, OverInv
  <2> QED
    BY <1>2, <1>8, <2>1, <2>2, <2>3, Stutters DEF ExchangeInv, ExchangeStep
<1>9. CASE attempt < MaxAttempts /\ Goto("purge after CRC")
  <2>1. attempt = 1
    <3>1. attempt < MaxAttempts
      BY <1>9, Zenon
    <3> QED
      BY <1>0, <3>1 DEF MaxAttempts
  <2>2. /\ pc' # "idle" /\ pc' # "write" /\ pc' # "read" /\ pc' \notin Waiting
        /\ UNCHANGED <<attempt, out, kinds, results>>
    BY <1>9 DEF Goto, Waiting
  <2>3. OwedInv'
    <3>1. Written' = attempt
      BY <2>2 DEF Written
    <3> QED
      BY <1>2, <1>3, <1>4, <2>1, <2>2, <3>1, OwedStays DEF ExchangeInv
  <2>4. HeadInv'
    <3>1. Begins(line)' = {}
      BY <1>2, <1>4, <2>1 DEF Begins
    <3> QED
      BY <2>2, <3>1 DEF HeadInv
  <2>5. OverInv'
    BY <1>2, <2>2 DEF ExchangeInv, OverInv
  <2> QED
    BY <1>2, <2>2, <2>3, <2>4, <2>5, Stutters DEF ExchangeInv, ExchangeStep
<1>10. ASSUME NEW r \in Nat, Return(r), r # 0 => pending = <<>>
       PROVE  ExchangeInv'
  <2>1. /\ pc' = "idle" /\ results' = Append(results, r) /\ UNCHANGED <<attempt, kinds>>
    BY <1>10 DEF Return
  <2>2. Written' = attempt /\ pc' \notin Unsent /\ pc' \notin Waiting
    BY <2>1 DEF Written, Waiting, Unsent
  <2>3. OwedInv'
    BY <1>2, <1>3, <2>1, <2>2, OwedStays DEF ExchangeInv
  <2>4. HeadInv'
    BY <2>1 DEF HeadInv
  <2>5. OverInv'
    <3>1. \A i : <<i>> # <<>>
      OBVIOUS
    <3>2. \A i \in DOMAIN results' :
            results'[i] # 0 => r # 0 \/ (i \in DOMAIN results /\ results[i] # 0)
      <4> TAKE i \in DOMAIN results'
      <4>1. CASE i \in DOMAIN results
        BY <1>0, <2>1, <4>1
      <4>2. CASE i \notin DOMAIN results
        <5>1. i = Len(results) + 1 /\ results'[i] = r
          BY <1>0, <1>10, <2>1, <4>2
        <5> QED
          BY <5>1
      <4> QED
        BY <4>1, <4>2
    <3> QED
      BY <1>2, <1>10, <3>1, <3>2 DEF ExchangeInv, OverInv
  <2> QED
    BY <2>3, <2>4, <2>5 DEF ExchangeInv
<1>11. CASE Return(0)
  <2>1. Exchange!Fail
    BY <1>2, <1>11, Fails
  <2> QED
    BY <1>10, <1>11, <2>1 DEF ExchangeStep, Exchange!Next
<1>12. CASE verdict = "good" /\ Return(result)
  <2>1. \E e \in DOMAIN frames : frames[e] = response
    BY <1>12 DEF verdict, Verdict, Valid, Range
  <2>2. result \in DOMAIN frames /\ frames[result] = response
    BY <2>1 DEF result
  <2>3. result \in Nat \ {0}
    BY <1>0, <2>2
  <2>4. 1 \in Begins(response)
    <3>1. response # <<>> /\ response[1].place = 1 /\ response \in Seq(FrameByte)
      BY <1>0, <2>2 DEF ExchangeInv, OverInv
    <3> QED
      BY <3>1 DEF Begins
  <2>5. pending = <<>>
    BY <1>0, <1>4, <1>5, <2>4
  <2>6. ExchangeInv'
    BY <1>10, <1>12, <2>3, <2>5
  <2>7. pc' = "idle" /\ results' = Append(results, result) /\ kinds' = kinds
    BY <1>12 DEF Return
  <2>8. OwnInv'
    BY ReadOwn
  <2>9. Len(results) \in Nat /\ Len(results) + 1 = Request
    BY <1>0, <1>2 DEF OwnInv, Counted
  <2>10. executed[result] = Request /\ result \in DOMAIN executed
    <3>1. /\ Len(results) + 1 \in DOMAIN results'
          /\ results'[Len(results) + 1] = result
      BY <1>0, <2>3, <2>7, <2>9
    <3> QED
      BY <1>2, <2>3, <2>8, <2>9, <3>1 DEF OwnInv, ResultsOwn
  <2>11. Runs(Request) > 0
    <3>1. CountOf(executed, Request) # 0
      BY <1>0, <2>10, CountZero
    <3>2. Runs(Request) \in Nat
      BY StateTypes
    <3> QED
      BY <1>0, <3>1, <3>2
  <2> DEFINE runs == [r \in 1..Len(kinds) |-> Runs(r)]
  <2>12. runs[Len(runs)] > 0
    <3>1. Request \in 1..Request /\ Request = Len(kinds)
      BY <1>0, <2>9 DEF Request
    <3>2. Len(runs) = Request
      BY <1>0, <3>1
    <3> QED
      BY <2>11, <3>1, <3>2
  <2>13. [i \in 1..Len(results') |-> results'[i] # 0]
           = Append([i \in 1..Len(results) |-> results[i] # 0], TRUE)
    <3>1. (TRUE <=> result # 0) /\ TRUE \in BOOLEAN /\ result \in Nat
      BY <2>3
    <3>2. results \in Seq(Nat) /\ results' = Append(results, result)
      BY <1>0, <2>7
    <3>3. [i \in 1..Len(Append(results, result)) |-> Append(results, result)[i] # 0]
            = Append([i \in 1..Len(results) |-> results[i] # 0], TRUE)
      BY <3>1, <3>2, VerdictAppend
    <3> QED
      BY <3>2, <3>3, Zenon
  <2>14. [r \in 1..Len(kinds') |-> Runs(r)'] = [r \in 1..Len(kinds) |-> Runs(r)]
    BY <1>2, <2>7 DEF Runs
  <2>15. (pc # "idle") /\ (pc' # "idle") = FALSE
    BY <1>2, <2>7
  <2>16. Exchange!Answer
    BY <2>12, <2>13, <2>14, <2>15, Zenon DEF Exchange!Answer
  <2> QED
    BY <2>6, <2>16, Zenon DEF ExchangeStep, Exchange!Next
<1> QED
  BY <1>6, <1>8, <1>9, <1>11, <1>12
-----------------------------------------------------------------------------
(* The steps of the meter and of the line.                                 *)

\* An answer begins with its first byte and nowhere else.
LEMMA AnswerBegins ==
  ASSUME NEW n \in Nat, NEW k, NEW f \in Answers(n, k)
  PROVE  f \in Seq(FrameByte) /\ f # <<>> /\ f[1].place = 1 /\ Begins(f) = {1}
<1>1. f \in Seq(FrameByte) /\ f # <<>>
  BY AnswerShape
<1>2. \A i \in DOMAIN f : f[i].place = i
  <2> DEFINE Frame(first, second, length) ==
               [i \in 1..length |->
                 [frame |-> n, place |-> i,
                  value |-> IF i = 1 THEN first ELSE IF i = 2 THEN second ELSE 0]]
  <2>1. PICK first \in Values, second \in Values, length \in 1..4 :
          f = Frame(first, second, length)
    BY DEF Answers, Values, Counts, LengthOf, ExceptionSize, WriteSize
  <2>2. \A i \in DOMAIN Frame(first, second, length) :
          Frame(first, second, length)[i].place = i
    OBVIOUS
  <2> QED
    BY <2>1, <2>2
<1>3. 1 \in DOMAIN f
  BY <1>1
<1> QED
  BY <1>1, <1>2, <1>3 DEF Begins

\* One byte moves from the line to the buffer.
LEMMA BeginsMove ==
  ASSUME NEW s \in Seq(FrameByte), NEW t \in Seq(FrameByte), NEW b \in FrameByte, s # <<>>
  PROVE  /\ Begins(s) \subseteq {1} => Begins(Tail(s)) = {}
         /\ Head(s).place = 1 => 1 \in Begins(s)
         /\ b.place # 1 => Begins(Append(t, b)) = Begins(t)
         /\ Begins(Append(<<>>, b)) \subseteq {1}
<1>1. Len(s) \in Nat \ {0} /\ Len(t) \in Nat
  OBVIOUS
<1>2. ASSUME Begins(s) \subseteq {1}, NEW i \in Begins(Tail(s))
      PROVE  FALSE
  <2>1. i \in 1..(Len(s) - 1) /\ Tail(s)[i] = s[i + 1] /\ Tail(s)[i].place = 1
    BY <1>1, <1>2 DEF Begins
  <2>2. i + 1 \in Begins(s)
    BY <1>1, <2>1 DEF Begins
  <2> QED
    BY <1>2, <2>1, <2>2
<1>3. Head(s).place = 1 => 1 \in Begins(s)
  BY <1>1 DEF Begins
<1>4. b.place # 1 => Begins(Append(t, b)) = Begins(t)
  <2>1. /\ DOMAIN Append(t, b) = 1..(Len(t) + 1) /\ DOMAIN t = 1..Len(t)
        /\ Append(t, b)[Len(t) + 1] = b
        /\ \A i \in 1..Len(t) : Append(t, b)[i] = t[i]
    BY <1>1
  <2> QED
    BY <1>1, <2>1 DEF Begins
<1>5. Begins(Append(<<>>, b)) \subseteq {1}
  BY DEF Begins
<1> QED
  BY <1>2, <1>3, <1>4, <1>5

\* The meter executes the request that has reached it.
LEMMA ExecuteExchange ==
  ASSUME TypeInv, OwnInv, ExchangeInv, Execute
  PROVE  ExchangeInv' /\ ExchangeStep
<1>0. /\ executed \in Seq(Nat) /\ frames \in Seq(Seq(FrameByte)) /\ Len(frames) = Len(executed)
      /\ Request \in Nat /\ line \in Seq(FrameByte) /\ results \in Seq(Nat) /\ kinds \in Seq(Kinds)
  BY StateTypes
<1> PICK n \in Nat : n = Request
  BY <1>0
<1>1. /\ pending # <<>> /\ pending' = Tail(pending) /\ executed' = Append(executed, Head(pending))
      /\ UNCHANGED <<pc, attempt, out, kinds, results, input>>
  BY DEF Execute, client
<1>2. PICK h \in 1..n : pending = <<h>>
  BY <1>1 DEF ExchangeInv, OwedInv
<1>3. pending' = <<>> /\ executed' = Append(executed, h) /\ h \in Nat
  BY <1>1, <1>2
<1>4. PICK f \in Answers(Len(executed) + 1, kinds[Head(pending)]) :
        frames' = Append(frames, f) /\ line' = line \o f
  BY DEF Execute
<1>5. f \in Seq(FrameByte) /\ f # <<>> /\ f[1].place = 1 /\ Begins(f) = {1}
  <2>1. Len(executed) + 1 \in Nat
    BY <1>0
  <2> QED
    BY <1>4, <2>1, AnswerBegins
<1>6. Request' = n
  BY <1>1 DEF Request
<1>7. \A r : Runs(r)' = CountOf(executed', r) /\ Runs(r) = CountOf(executed, r)
  BY DEF Runs, CountOf
<1>8. \A r : Runs(r)' = Runs(r) + (IF h = r THEN 1 ELSE 0)
  BY <1>0, <1>3, <1>7, CountAppend
<1>9. \A r : Pending(r) = (IF h = r THEN 1 ELSE 0) /\ Pending(r)' = 0
  <2>1. \A r : <<r>> # <<>> /\ (<<h>> = <<r>> <=> h = r)
    OBVIOUS
  <2> QED
    BY <1>2, <1>3, <2>1 DEF Pending
<1>10. \A r : Runs(r)' + Pending(r)' = Runs(r) + Pending(r)
  <2> TAKE r
  <2>1. Runs(r) \in Nat
    BY StateTypes
  <2> QED
    BY <1>8, <1>9, <2>1
<1>11. OwedInv'
  <2>1. \A e \in DOMAIN executed' : executed'[e] \in 1..n
    <3> TAKE e \in DOMAIN executed'
    <3>1. CASE e \in DOMAIN executed
      BY <1>0, <1>3, <3>1 DEF ExchangeInv, OwedInv
    <3>2. CASE e \notin DOMAIN executed
      BY <1>0, <1>2, <1>3, <3>2
    <3> QED
      BY <3>1, <3>2
  <2>2. Written' = Written
    BY <1>1 DEF Written
  <2>3. /\ \A r \in 1..n : Runs(r)' + Pending(r)' <= MaxAttempts
        /\ n > 0 => Runs(n)' + Pending(n)' <= Written
    BY <1>10 DEF ExchangeInv, OwedInv
  <2>4. pc \in Waiting => attempt = 1
    BY DEF ExchangeInv, OwedInv
  <2> QED
    BY <1>1, <1>3, <1>6, <2>1, <2>2, <2>3, <2>4 DEF OwedInv
<1>12. HeadInv'
  <2>1. pc \notin Unsent
    BY <1>1 DEF ExchangeInv, OwedInv
  <2>2. pc = "read" /\ attempt = 1 => Empty
    BY <1>1 DEF ExchangeInv, HeadInv
  <2>3. pc = "read" /\ attempt = 1 => Begins(line') = {1} /\ Begins(input) = {} /\ input = <<>> /\ out = <<>>
    <3>1. line = <<>> => line' = f
      BY <1>4, <1>5
    <3> QED
      BY <1>5, <2>2, <3>1, BeginsNone DEF Empty
  <2>4. Begins(line)' = Begins(line') /\ Begins(input)' = Begins(input)
    BY <1>1 DEF Begins
  <2> QED
    BY <1>1, <1>3, <2>1, <2>3, <2>4 DEF HeadInv, Unsent
<1>13. OverInv'
  <2>1. ASSUME NEW e \in DOMAIN frames'
        PROVE  frames'[e] # <<>> /\ frames'[e][1].place = 1
    <3>1. CASE e \in DOMAIN frames
      <4>1. frames'[e] = frames[e]
        BY <1>0, <1>4, <3>1
      <4> QED
        BY <3>1, <4>1 DEF ExchangeInv, OverInv
    <3>2. CASE e \notin DOMAIN frames
      <4>1. frames'[e] = f
        BY <1>0, <1>4, <2>1, <3>2
      <4> QED
        BY <1>5, <4>1
    <3> QED
      BY <3>1, <3>2
  <2>2. \A i : <<>> # <<i>>
    OBVIOUS
  <2> QED
    BY <1>3, <2>1, <2>2 DEF OverInv
<1>14. Exchange!Execute
  <2> DEFINE runs == [r \in 1..Len(kinds) |-> Runs(r)]
             verdict == [i \in 1..Len(results) |-> results[i] # 0]
  <2>1. Len(kinds) = n
    BY DEF Request
  <2>2. h \in DOMAIN runs /\ runs[h] < MaxAttempts
    <3>1. Runs(h) \in Nat /\ Pending(h) = 1
      BY <1>9, StateTypes
    <3>2. Runs(h) + Pending(h) <= 2
      BY DEF ExchangeInv, OwedInv, MaxAttempts
    <3> QED
      BY <2>1, <3>1, <3>2 DEF MaxAttempts
  <2>3. h \in DOMAIN verdict => ~verdict[h]
    <3>1. h \in DOMAIN results => results[h] = 0
      BY <1>2 DEF ExchangeInv, OverInv
    <3>2. DOMAIN verdict = DOMAIN results /\ DOMAIN results = 1..Len(results)
      BY <1>0
    <3> QED
      BY <3>1, <3>2, Zenon
  <2>4. [r \in 1..Len(kinds') |-> Runs(r)'] = [runs EXCEPT ![h] = @ + 1]
    <3>1. \A r : Runs(r) \in Nat
      BY StateTypes
    <3>2. kinds' = kinds
      BY <1>1
    <3>3. \A r \in 1..n : Runs(r)' = IF r = h THEN Runs(r) + 1 ELSE Runs(r)
      <4> TAKE r \in 1..n
      <4>1. Runs(r) \in Nat
        BY <3>1
      <4> QED
        BY <1>8, <4>1
    <3> QED
      BY <2>1, <3>2, <3>3
  <2>5. [i \in 1..Len(results') |-> results'[i] # 0] = verdict
    BY <1>1, Zenon
  <2>6. (pc' # "idle") = (pc # "idle")
    BY <1>1, Zenon
  <2> HIDE DEF verdict
  <2> QED
    BY <2>2, <2>3, <2>4, <2>5, <2>6, Zenon DEF Exchange!Execute, verdict
<1> QED
  BY <1>11, <1>12, <1>13, <1>14, Zenon DEF ExchangeInv, ExchangeStep, Exchange!Next

\* A byte arrives, is lost or is damaged.
LEMMA LineExchange ==
  ASSUME TypeInv, OwnInv, ExchangeInv, Arrive \/ LoseByte \/ DamageByte
  PROVE  ExchangeInv' /\ ExchangeStep
<1>0. /\ line \in Seq(FrameByte) /\ input \in Seq(FrameByte) /\ attempt \in 1..2
  BY StateTypes
<1>1. /\ line # <<>> /\ line' = Tail(line)
      /\ UNCHANGED <<pc, attempt, out, kinds, results, pending, executed, frames>>
  BY DEF Arrive, LoseByte, DamageByte, client, meter
<1>2. PICK b \in FrameByte :
        /\ input' \in {input, Append(input, b)}
        /\ b.place = 1 => b = Head(line)
  <2>1. Head(line) \in FrameByte
    BY <1>0, <1>1
  <2>2. \A v \in Values :
          /\ [frame |-> 0, place |-> 0, value |-> v] \in FrameByte
          /\ [frame |-> 0, place |-> 0, value |-> v].place # 1
    BY DEF FrameByte
  <2> QED
    BY <2>1, <2>2 DEF Arrive, LoseByte, DamageByte
<1>3. /\ Begins(line) \subseteq {1} => Begins(line') = {}
      /\ Head(line).place = 1 => 1 \in Begins(line)
      /\ b.place # 1 => Begins(Append(input, b)) = Begins(input)
      /\ Begins(Append(<<>>, b)) \subseteq {1}
  BY <1>0, <1>1, BeginsMove
<1>4. /\ Begins(line) = {} => Begins(line') = {} /\ Begins(input') = Begins(input)
      /\ Begins(line) = {1} /\ input = <<>> =>
           Begins(line') = {} /\ Begins(input') \subseteq {1}
  <2>1. Begins(line) = {} => b.place # 1
    BY <1>2, <1>3
  <2>2. Begins(<<>>) = {}
    BY BeginsNone
  <2> QED
    BY <1>2, <1>3, <2>1, <2>2
<1>5. OwedInv'
  <2>1. Request' = Request /\ \A r : Runs(r)' = Runs(r)
    BY <1>1, CountsStand
  <2>2. (\A r : Pending(r)' = Pending(r)) /\ Written' = Written
    BY <1>1 DEF Pending, Written
  <2> QED
    BY <1>1, <2>1, <2>2 DEF ExchangeInv, OwedInv
<1>6. HeadInv'
  <2>1. ~(pc = "write" /\ attempt = 1) /\ (pc = "read" /\ attempt = 1 => pending = <<>>)
    BY <1>1 DEF ExchangeInv, HeadInv, Empty
  <2>2. /\ Begins(line)' = Begins(line') /\ Begins(input)' = Begins(input')
        /\ Begins(out)' = Begins(out)
    BY <1>1 DEF Begins
  <2>3. ASSUME pc = "read", attempt = 1
        PROVE  /\ Begins(line') = {}
               /\ Begins(input') # {} => Begins(input') = {1} /\ out = <<>>
    <3>1. CASE Begins(line) = {}
      BY <1>4, <2>3, <3>1 DEF ExchangeInv, HeadInv
    <3>2. CASE Begins(line) # {}
      BY <1>4, <2>3, <3>2 DEF ExchangeInv, HeadInv
    <3> QED
      BY <3>1, <3>2
  <2>4. ASSUME pc = "read", attempt = 2, pending # <<>>
        PROVE  Begins(input') = {} /\ Begins(line') = {} /\ Begins(out) = {}
    BY <1>4, <2>4 DEF ExchangeInv, HeadInv
  <2>5. ASSUME pc = "write", attempt = 2
        PROVE  Begins(input') = {} /\ Begins(line') = {}
    BY <1>4, <2>5 DEF ExchangeInv, HeadInv
  <2>6. pc \in Unsent /\ pc # "write" => Begins(line') = {}
    BY <1>4 DEF ExchangeInv, HeadInv, Unsent
  <2>7. pc = "purge after CRC" => pc \in Unsent /\ pc # "write"
    BY DEF Unsent
  <2> QED
    BY <1>1, <2>1, <2>2, <2>3, <2>4, <2>5, <2>6, <2>7 DEF HeadInv
<1>7. OverInv'
  BY <1>1 DEF ExchangeInv, OverInv
<1> QED
  BY <1>1, <1>5, <1>6, <1>7, Stutters DEF ExchangeInv, ExchangeStep
-----------------------------------------------------------------------------
(* The refinement.                                                         *)

\* At first nothing is asked for, executed or answered.
LEMMA InitExchange == Init => ExchangeInv /\ Exchange!Init
<1> SUFFICES ASSUME Init PROVE ExchangeInv /\ Exchange!Init
  OBVIOUS
<1>1. /\ pc = "idle" /\ kinds = <<>> /\ executed = <<>> /\ frames = <<>>
      /\ pending = <<>> /\ results = <<>>
  BY DEF Init
<1>2. Request = 0 /\ 1..Request = {} /\ pc \notin Unsent /\ pc \notin Waiting
  BY <1>1 DEF Request, Unsent, Waiting
<1>3. OwedInv
  BY <1>1, <1>2 DEF OwedInv
<1>4. HeadInv /\ OverInv
  BY <1>1 DEF HeadInv, OverInv
<1>5. /\ [r \in 1..Len(kinds) |-> Runs(r)] = <<>>
      /\ [i \in 1..Len(results) |-> results[i] # 0] = <<>>
  BY <1>1
<1>6. (pc # "idle") = FALSE
  BY <1>1
<1> QED
  BY <1>3, <1>4, <1>5, <1>6, Zenon DEF ExchangeInv, Exchange!Init

\* Every step keeps the invariant and is a step of the exchange or none.
LEMMA StepExchange ==
  ASSUME Settles
  PROVE  TypeInv /\ OwnInv /\ ExchangeInv /\ [Next]_vars
           => ExchangeInv' /\ [Exchange!Next]_(Exchange!exchange)
<1> SUFFICES ASSUME TypeInv, OwnInv, ExchangeInv, [Next]_vars
             PROVE  ExchangeInv' /\ ExchangeStep
  BY Zenon DEF ExchangeStep
<1>1. CASE UNCHANGED vars
  <2>1. UNCHANGED <<pc, attempt, out, input, line, pending, kinds, executed, frames, results>>
    BY <1>1 DEF vars, client, meter
  <2>2. Request' = Request /\ \A r : Runs(r)' = Runs(r)
    BY <2>1, CountsStand
  <2>3. (\A r : Pending(r)' = Pending(r)) /\ Written' = Written
    BY <2>1 DEF Pending, Written
  <2>4. OwedInv'
    BY <2>1, <2>2, <2>3 DEF ExchangeInv, OwedInv
  <2>5. HeadInv' /\ OverInv'
    BY <2>1 DEF ExchangeInv, HeadInv, OverInv, Begins, Empty
  <2> QED
    BY <2>1, <2>4, <2>5, Stutters DEF ExchangeInv, ExchangeStep
<1>2. CASE Next
  <2>1. \/ Begin \/ (Purge \/ PurgeAgain \/ WriteRequest \/ Deadline \/ Retry)
        \/ ReadSome \/ PortError \/ Execute \/ (Arrive \/ LoseByte \/ DamageByte)
    BY <1>2 DEF Next, Client, Meter
  <2> QED
    BY <2>1, BeginExchange, ClientExchange, ReadExchange, PortErrorExchange,
       ExecuteExchange, LineExchange
<1> QED
  BY <1>1, <1>2

\* tx() implements the exchange if the line falls silent in the settling pause:
\* an answer means that the request was executed and will not be once more, a
\* failure means nothing, and no request is executed more than twice.
THEOREM ExchangeImplemented ==
  ASSUME Settles
  PROVE  Spec => ImplementsExchange
<1>1. Init => Exchange!Init
  BY InitExchange
<1>2. Init => TypeInv /\ OwnInv /\ ExchangeInv
  BY InitOwn, InitExchange
<1>3. TypeInv /\ OwnInv /\ ExchangeInv /\ [Next]_vars
        => TypeInv' /\ OwnInv' /\ ExchangeInv'
  BY StepOwn, StepExchange
<1>4. TypeInv /\ OwnInv /\ ExchangeInv /\ [Next]_vars
        => [Exchange!Next]_(Exchange!exchange)
  BY StepExchange
<1> QED
  BY <1>1, <1>2, <1>3, <1>4, PTL DEF Spec, ImplementsExchange, Exchange!Spec
=============================================================================
