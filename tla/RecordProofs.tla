---------------------------- MODULE RecordProofs ----------------------------
(***************************************************************************)
(* Theorems about RecordRead, for every byte width, list of elements,      *)
(* chunk length and transmitter: a saved row is what the meter has, a      *)
(* refusal has a reason, and the properties are stored all or not at all.  *)
(*                                                                         *)
(* The operators of ElementCodec are recursive functions and sums, so the  *)
(* module begins with induction on numbers, the existence of what a        *)
(* recursive function defines, and sums and numbers in base Radix.  Then   *)
(* come the lists, the chunks and the values by themselves, the answer the *)
(* meter makes of them with the place of each piece, and at the end the    *)
(* invariants of a record and of the properties.                           *)
(***************************************************************************)
EXTENDS RecordRead, TLAPS, FiniteSetTheorems

(***************************************************************************)
(* Induction.                                                              *)
(***************************************************************************)

\* A set of numbers that is not empty has a least element: its initial
\* segments are well founded under inclusion.
LEMMA Least ==
  ASSUME NEW T \in SUBSET Nat, T # {}
  PROVE  \E n \in T : \A m \in T : n <= m
<1>1. PICK k \in T : TRUE
  OBVIOUS
<1> DEFINE S == 0..k
           R == StrictSubsetOrdering(S)
           F == {0..j : j \in {i \in T : i <= k}}
<1>2. IsFiniteSet(S)
  BY FS_Interval
<1>3. IsWellFoundedOn(R, SUBSET S)
  BY <1>2, FS_StrictSubsetOrderingWellFounded, FS_FiniteSubsetsOfFinite
<1>4. F \subseteq SUBSET S /\ F # {}
  BY <1>1
<1>5. \A X, Y \in SUBSET S : X \subseteq Y /\ X # Y => <<X, Y>> \in R
  BY DEF StrictSubsetOrdering
<1> HIDE DEF R, F
<1>6. PICK X \in F : \A Y \in F : ~ (<<Y, X>> \in R)
  BY <1>3, <1>4, WFMin
<1>7. PICK n \in T : n <= k /\ X = 0..n
  BY <1>6 DEF F
<1>8. ASSUME NEW m \in T, m < n PROVE FALSE
  <2>1. 0..m \in F
    BY <1>7, <1>8 DEF F
  <2>2. 0..m \subseteq 0..n /\ 0..m # 0..n
    BY <1>7, <1>8
  <2> QED
    BY <1>4, <1>5, <1>6, <1>7, <2>1, <2>2
<1>9. \A m \in T : m \in Nat /\ n \in Nat
  OBVIOUS
<1> QED
  BY <1>8, <1>9

\* A set that holds zero and with each number its successor holds them all.
LEMMA Induction ==
  ASSUME NEW S, 0 \in S, \A n \in Nat : n \in S => n + 1 \in S
  PROVE  Nat \subseteq S
<1> SUFFICES ASSUME Nat \ S # {} PROVE FALSE
  OBVIOUS
<1>1. PICK n \in Nat \ S : \A m \in Nat \ S : n <= m
  BY Least
<1>2. n # 0
  OBVIOUS
<1>3. n - 1 \in Nat /\ n = (n - 1) + 1 /\ n - 1 < n
  BY <1>2
<1>4. n - 1 \in S
  BY <1>1, <1>3
<1> QED
  BY <1>3, <1>4

\* The same from zero up to n.
LEMMA UpTo ==
  ASSUME NEW n \in Nat, NEW S, 0 \in S, \A i \in 1..n : i - 1 \in S => i \in S
  PROVE  0..n \subseteq S
<1> DEFINE T == {i \in Nat : i <= n => i \in S}
<1>1. 0 \in T
  OBVIOUS
<1>2. ASSUME NEW i \in Nat, i \in T PROVE i + 1 \in T
  <2>1. CASE i + 1 <= n
    <3>1. i + 1 \in 1..n /\ (i + 1) - 1 = i /\ i <= n
      BY <2>1
    <3> QED
      BY <1>2, <3>1
  <2>2. CASE ~(i + 1 <= n)
    BY <2>2
  <2> QED
    BY <2>1, <2>2
<1> HIDE DEF T
<1>3. Nat \subseteq T
  BY <1>1, <1>2, Induction
<1> QED
  BY <1>3 DEF T

\* A set of numbers from 1 to n that is not empty has a greatest element.
LEMMA Greatest ==
  ASSUME NEW n \in Nat, NEW T \in SUBSET (1..n), T # {}
  PROVE  \E i \in T : \A j \in T : j <= i
<1> DEFINE S == {n - i : i \in T}
<1>1. S \in SUBSET Nat /\ S # {}
  <2>1. \A i \in 1..n : n - i \in Nat
    OBVIOUS
  <2> QED
    BY <2>1
<1>2. PICK k \in S : \A m \in S : k <= m
  BY <1>1, Least
<1>3. PICK i \in T : k = n - i
  BY <1>2
<1>4. ASSUME NEW j \in T PROVE j <= i
  <2>1. k <= n - j
    BY <1>2
  <2>2. i \in 1..n /\ j \in 1..n
    OBVIOUS
  <2> QED
    BY <1>3, <2>1, <2>2
<1> QED
  BY <1>4

\* f begins with x0 and goes on with what G makes of a value and its place.
Iterates(f, X, x0, G, n) ==
  /\ f \in [0..n -> X]
  /\ f = [i \in 0..n |-> IF i = 0 THEN x0 ELSE G[<<f[i - 1], i>>]]

\* What is defined by a first value and a step from each value to the next
\* exists: there is such a function on 0..n.
LEMMA Recursion ==
  ASSUME NEW X, NEW x0 \in X, NEW n \in Nat, NEW G \in [X \X (1..n) -> X]
  PROVE  \E f : Iterates(f, X, x0, G, n)
<1> DEFINE Holds(f, k) == /\ f[0] = x0
                          /\ \A i \in 1..k : f[i] = G[<<f[i - 1], i>>]
           S == {k \in 0..n : \E f \in [0..k -> X] : Holds(f, k)}
<1>1. 0 \in S
  <2> DEFINE f == [i \in 0..0 |-> x0]
  <2>1. f \in [0..0 -> X] /\ Holds(f, 0)
    OBVIOUS
  <2>2. 0 \in 0..n
    OBVIOUS
  <2> QED
    BY <2>1, <2>2
<1>2. ASSUME NEW k \in 1..n, k - 1 \in S PROVE k \in S
  <2>1. PICK g \in [0..(k - 1) -> X] : Holds(g, k - 1)
    BY <1>2
  <2> DEFINE f == [i \in 0..k |-> IF i = k THEN G[<<g[k - 1], k>>] ELSE g[i]]
  <2>2. k \in Nat /\ k - 1 \in 0..(k - 1) /\ k \in 1..n
    OBVIOUS
  <2>3. G[<<g[k - 1], k>>] \in X
    BY <2>1, <2>2
  <2>4. f \in [0..k -> X]
    BY <2>1, <2>3
  <2>5. f[0] = x0
    BY <2>1
  <2>6. ASSUME NEW i \in 1..k PROVE f[i] = G[<<f[i - 1], i>>]
    <3>1. CASE i = k
      <4>1. i - 1 # k /\ i - 1 \in 0..k /\ i \in 0..k
        BY <3>1
      <4>2. f[i - 1] = g[k - 1]
        BY <3>1, <4>1
      <4> QED
        BY <3>1, <4>1, <4>2
    <3>2. CASE i # k
      <4>1. i \in 1..(k - 1) /\ i \in 0..k /\ i - 1 \in 0..k /\ i - 1 # k
        BY <3>2
      <4>2. f[i - 1] = g[i - 1] /\ f[i] = g[i]
        BY <3>2, <4>1
      <4> QED
        BY <2>1, <4>1, <4>2
    <3> QED
      BY <3>1, <3>2
  <2> HIDE DEF f
  <2>7. Holds(f, k)
    BY <2>5, <2>6
  <2> QED
    BY <2>2, <2>4, <2>7
<1> HIDE DEF S
<1>3. 0..n \subseteq S
  BY <1>1, <1>2, UpTo
<1>4. PICK f \in [0..n -> X] : Holds(f, n)
  <2>1. n \in 0..n
    OBVIOUS
  <2>2. n \in S
    BY <1>3, <2>1
  <2> QED
    BY <2>2 DEF S
<1>5. ASSUME NEW i \in 0..n PROVE f[i] = IF i = 0 THEN x0 ELSE G[<<f[i - 1], i>>]
  <2>1. CASE i = 0
    BY <1>4, <2>1
  <2>2. CASE i # 0
    <3>1. i \in 1..n
      BY <2>2
    <3> QED
      BY <1>4, <2>2, <3>1
  <2> QED
    BY <2>1, <2>2
<1>6. f = [i \in 0..n |-> IF i = 0 THEN x0 ELSE G[<<f[i - 1], i>>]]
  BY <1>4, <1>5
<1> QED
  BY <1>4, <1>6 DEF Iterates

(***************************************************************************)
(* Sums and numbers.                                                       *)
(***************************************************************************)

\* The sums of the first numbers of a sequence grow by one number each.
LEMMA SumsDef ==
  ASSUME NEW n \in Seq(Int)
  PROVE  /\ Sums(n) \in [0..Len(n) -> Int]
         /\ Sums(n)[0] = 0
         /\ \A i \in 1..Len(n) : Sums(n)[i] = Sums(n)[i - 1] + n[i]
<1> DEFINE G == [p \in Int \X (1..Len(n)) |-> p[1] + n[p[2]]]
           Eq(f) == f = [i \in 0..Len(n) |-> IF i = 0 THEN 0 ELSE f[i - 1] + n[i]]
<1>1. Len(n) \in Nat /\ \A i \in 1..Len(n) : n[i] \in Int /\ i - 1 \in 0..Len(n) /\ i # 0
  OBVIOUS
<1>2. G \in [Int \X (1..Len(n)) -> Int]
  BY <1>1
<1>3. PICK f : Iterates(f, Int, 0, G, Len(n))
  <2>1. Len(n) \in Nat /\ 0 \in Int
    BY <1>1
  <2> HIDE DEF G
  <2> QED
    BY <1>2, <2>1, Recursion, Zenon
<1>4. Eq(f)
  <2> SUFFICES ASSUME NEW i \in 0..Len(n)
               PROVE  f[i] = IF i = 0 THEN 0 ELSE f[i - 1] + n[i]
    BY <1>3 DEF Iterates
  <2>1. CASE i = 0
    BY <1>3, <2>1 DEF Iterates
  <2>2. CASE i # 0
    <3>0. i \in 1..Len(n) /\ i - 1 \in 0..Len(n)
      BY <1>1, <2>2
    <3>1. i \in 1..Len(n) /\ f[i - 1] \in Int
      BY <1>3, <3>0 DEF Iterates
    <3>2. G[<<f[i - 1], i>>] = f[i - 1] + n[i]
      BY <3>1
    <3>3. f[i] = G[<<f[i - 1], i>>]
      BY <1>3, <2>2 DEF Iterates
    <3> QED
      BY <2>2, <3>2, <3>3
  <2> QED
    BY <2>1, <2>2
<1>5. Sums(n) = CHOOSE g : Eq(g)
  BY DEF Sums
<1> HIDE DEF Eq
<1>6. Eq(Sums(n))
  BY <1>4, <1>5, Zenon
<1>7. /\ Sums(n) = [i \in 0..Len(n) |-> Sums(n)[i]]
      /\ Sums(n)[0] = 0
      /\ \A i \in 1..Len(n) : Sums(n)[i] = Sums(n)[i - 1] + n[i]
  <2> DEFINE g == Sums(n)
  <2>1. g = [i \in 0..Len(n) |-> IF i = 0 THEN 0 ELSE g[i - 1] + n[i]]
    BY <1>6 DEF Eq
  <2> HIDE DEF g
  <2>2. /\ g = [i \in 0..Len(n) |-> g[i]]
        /\ g[0] = 0
        /\ \A i \in 1..Len(n) : g[i] = g[i - 1] + n[i]
    BY <1>1, <2>1
  <2> QED
    BY <2>2 DEF g
<1> DEFINE S == {i \in 0..Len(n) : Sums(n)[i] \in Int}
<1>8. 0..Len(n) \subseteq S
  <2>1. 0 \in S
    BY <1>1, <1>7
  <2>2. ASSUME NEW i \in 1..Len(n), i - 1 \in S PROVE i \in S
    <3>1. Sums(n)[i - 1] \in Int /\ n[i] \in Int /\ i \in 0..Len(n)
      BY <1>1, <2>2
    <3>2. Sums(n)[i] = Sums(n)[i - 1] + n[i]
      BY <1>7
    <3> QED
      BY <3>1, <3>2
  <2> HIDE DEF S
  <2> QED
    BY <1>1, <2>1, <2>2, UpTo
<1> QED
  BY <1>7, <1>8

\* Adding a number at the end adds it to the sum and leaves the others.
LEMMA SumsAppend ==
  ASSUME NEW n \in Seq(Int), NEW x \in Int
  PROVE  /\ \A i \in 0..Len(n) : Sums(Append(n, x))[i] = Sums(n)[i]
         /\ Sums(Append(n, x))[Len(n) + 1] = Sums(n)[Len(n)] + x
<1> DEFINE m == Append(n, x)
           S == {i \in 0..Len(n) : Sums(m)[i] = Sums(n)[i]}
<1>1. m \in Seq(Int) /\ Len(n) \in Nat /\ Len(m) = Len(n) + 1
  OBVIOUS
<1>2. \A i \in 1..Len(n) : m[i] = n[i] /\ i \in 1..Len(m) /\ i \in 0..Len(n)
  OBVIOUS
<1>3. m[Len(n) + 1] = x /\ Len(n) + 1 \in 1..Len(m) /\ (Len(n) + 1) - 1 = Len(n)
  OBVIOUS
<1> HIDE DEF m
<1>4. 0..Len(n) \subseteq S
  <2>1. 0 \in S
    BY <1>1, SumsDef
  <2>2. ASSUME NEW i \in 1..Len(n), i - 1 \in S PROVE i \in S
    <3>1. Sums(m)[i] = Sums(m)[i - 1] + m[i]
      BY <1>1, <1>2, SumsDef
    <3>2. Sums(n)[i] = Sums(n)[i - 1] + n[i]
      BY SumsDef
    <3> QED
      BY <1>2, <2>2, <3>1, <3>2
  <2> HIDE DEF S
  <2> QED
    BY <1>1, <2>1, <2>2, UpTo
<1>5. Sums(m)[Len(n) + 1] = Sums(m)[Len(n)] + x
  BY <1>1, <1>3, SumsDef
<1>6. Sums(m)[Len(n)] = Sums(n)[Len(n)]
  BY <1>1, <1>4
<1> QED
  BY <1>4, <1>5, <1>6 DEF m

\* The sums of natural numbers never fall.
LEMMA SumsGrow ==
  ASSUME NEW n \in Seq(Nat), NEW j \in 0..Len(n), NEW i \in 0..j
  PROVE  Sums(n)[i] \in Nat /\ Sums(n)[i] <= Sums(n)[j]
<1> DEFINE S == {k \in 0..Len(n) : \A h \in 0..k : Sums(n)[h] \in Nat /\ Sums(n)[h] <= Sums(n)[k]}
<1>1. n \in Seq(Int) /\ Len(n) \in Nat /\ \A k \in 1..Len(n) : n[k] \in Nat
  OBVIOUS
<1>2. 0 \in S
  BY <1>1, SumsDef
<1>3. ASSUME NEW k \in 1..Len(n), k - 1 \in S PROVE k \in S
  <2>1. Sums(n)[k] = Sums(n)[k - 1] + n[k]
    BY <1>1, SumsDef
  <2>2. Sums(n)[k - 1] \in Nat /\ k \in 0..Len(n)
    BY <1>1, <1>3
  <2>3. Sums(n)[k] \in Nat /\ Sums(n)[k - 1] <= Sums(n)[k]
    BY <1>1, <2>1, <2>2
  <2>4. ASSUME NEW h \in 0..k PROVE Sums(n)[h] \in Nat /\ Sums(n)[h] <= Sums(n)[k]
    <3>1. CASE h = k
      BY <2>3, <3>1
    <3>2. CASE h # k
      <4>1. h \in 0..(k - 1)
        BY <3>2
      <4>2. Sums(n)[h] \in Nat /\ Sums(n)[h] <= Sums(n)[k - 1]
        BY <1>3, <4>1
      <4> QED
        BY <2>2, <2>3, <4>2
    <3> QED
      BY <3>1, <3>2
  <2> QED
    BY <2>2, <2>4
<1> HIDE DEF S
<1>4. 0..Len(n) \subseteq S
  BY <1>1, <1>2, <1>3, UpTo
<1> QED
  BY <1>4 DEF S

\* The powers of the radix.
LEMMA PowerDef ==
  /\ Power \in [0..8 -> Nat]
  /\ Power[0] = 1
  /\ \A i \in 1..8 : Power[i] = Radix * Power[i - 1]
  /\ \A i \in 0..8 : Power[i] > 0
<1> DEFINE G == [p \in Nat \X (1..8) |-> Radix * p[1]]
           Eq(f) == f = [i \in 0..8 |-> IF i = 0 THEN 1 ELSE Radix * f[i - 1]]
<1>1. Radix \in Nat /\ Radix > 0
  BY CodecAssumption
<1>2. G \in [Nat \X (1..8) -> Nat]
  BY <1>1
<1>3. PICK f : Iterates(f, Nat, 1, G, 8)
  BY <1>2, Recursion
<1>4. Eq(f)
  <2> SUFFICES ASSUME NEW i \in 0..8
               PROVE  f[i] = IF i = 0 THEN 1 ELSE Radix * f[i - 1]
    BY <1>3 DEF Iterates
  <2>1. CASE i = 0
    BY <1>3, <2>1 DEF Iterates
  <2>2. CASE i # 0
    <3>1. i \in 1..8 /\ f[i - 1] \in Nat
      BY <1>3, <2>2 DEF Iterates
    <3>2. G[<<f[i - 1], i>>] = Radix * f[i - 1]
      BY <3>1
    <3>3. f[i] = G[<<f[i - 1], i>>]
      BY <1>3, <2>2 DEF Iterates
    <3> QED
      BY <2>2, <3>2, <3>3
  <2> QED
    BY <2>1, <2>2
<1>5. Power = CHOOSE g : Eq(g)
  BY DEF Power, WordBytes
<1> HIDE DEF Eq
<1>6. Eq(Power)
  BY <1>4, <1>5, Zenon
<1>7. /\ Power = [i \in 0..8 |-> Power[i]]
      /\ Power[0] = 1
      /\ \A i \in 1..8 : Power[i] = Radix * Power[i - 1]
  <2> DEFINE g == Power
  <2>1. g = [i \in 0..8 |-> IF i = 0 THEN 1 ELSE Radix * g[i - 1]]
    BY <1>6 DEF Eq
  <2> HIDE DEF g
  <2>2. /\ g = [i \in 0..8 |-> g[i]]
        /\ g[0] = 1
        /\ \A i \in 1..8 : g[i] = Radix * g[i - 1]
    BY <2>1
  <2> QED
    BY <2>2 DEF g
<1> DEFINE S == {i \in 0..8 : Power[i] \in Nat /\ Power[i] > 0}
<1>8. 0..8 \subseteq S
  <2>1. 0 \in S
    BY <1>7
  <2>2. ASSUME NEW i \in 1..8, i - 1 \in S PROVE i \in S
    <3>1. Power[i - 1] \in Nat /\ Power[i - 1] > 0 /\ Power[i] = Radix * Power[i - 1]
      BY <1>7, <2>2
    <3>2. \A r, p \in Nat : r > 0 /\ p > 0 => r * p \in Nat /\ r * p > 0
      OBVIOUS
    <3> QED
      BY <1>1, <3>1, <3>2
  <2> HIDE DEF S
  <2> QED
    BY <2>1, <2>2, UpTo
<1> QED
  BY <1>7, <1>8

\* Division with remainder by a product, in two steps.
LEMMA DivProduct ==
  \A m, n \in Nat : \A x \in Int :
    m > 0 /\ n > 0 => (x % (n * m)) = (x % m) + (((x \div m) % n) * m)
OBVIOUS

\* Quotient and remainder are the only ones.
LEMMA DivUnique ==
  \A x, q, r, m \in Int :
    m > 0 /\ x = (q * m) + r /\ 0 <= r /\ r < m => (x % m) = r /\ (x \div m) = q
OBVIOUS

\* The remainder is less than the divisor.
LEMMA Remainder ==
  \A x, m \in Int : m > 0 => x % m \in 0..(m - 1)
OBVIOUS

\* The numbers LittleEndian adds up, and their sums so far.
Terms(b) == [i \in DOMAIN b |-> b[i] * Power[i - 1]]

\* LittleEndian is the last sum over the terms.
LEMMA LittleEndianDef ==
  ASSUME NEW b \in Seq(Int), Len(b) <= 8
  PROVE  /\ Terms(b) \in Seq(Int) /\ Len(Terms(b)) = Len(b)
         /\ \A i \in 1..Len(b) : Terms(b)[i] = b[i] * Power[i - 1]
         /\ LittleEndian(b) = Sums(Terms(b))[Len(b)]
         /\ LittleEndian(b) \in Int
<1>1. Len(b) \in Nat /\ DOMAIN b = 1..Len(b)
  OBVIOUS
<1>2. \A i \in 1..Len(b) : b[i] \in Int /\ Power[i - 1] \in Nat
  <2>1. \A i \in 1..Len(b) : b[i] \in Int /\ i - 1 \in 0..8
    BY <1>1
  <2> QED
    BY <2>1, PowerDef
<1>3. \A i \in 1..Len(b) : b[i] * Power[i - 1] \in Int
  BY <1>2
<1>4. Terms(b) = [i \in 1..Len(b) |-> b[i] * Power[i - 1]]
  BY <1>1 DEF Terms
<1>5. Terms(b) \in Seq(Int) /\ Len(Terms(b)) = Len(b)
  BY <1>1, <1>3, <1>4
<1>6. LittleEndian(b) = Sums(Terms(b))[Len(b)]
  BY DEF LittleEndian, Terms
<1>7. LittleEndian(b) \in Int
  <2>1. Len(b) \in 0..Len(Terms(b))
    BY <1>1, <1>5
  <2>2. Sums(Terms(b)) \in [0..Len(Terms(b)) -> Int]
    BY <1>5, SumsDef
  <2> QED
    BY <1>6, <2>1, <2>2
<1>8. \A i \in 1..Len(b) : Terms(b)[i] = b[i] * Power[i - 1]
  BY <1>4
<1> QED
  BY <1>5, <1>6, <1>7, <1>8

\* The bytes of a number.
LEMMA PutUintDef ==
  ASSUME NEW x \in Int, NEW n \in 0..8
  PROVE  /\ PutUint(x, n) \in Seq(0..(Radix - 1))
         /\ PutUint(x, n) \in Seq(Int)
         /\ Len(PutUint(x, n)) = n
         /\ \A i \in 1..n : PutUint(x, n)[i] = (x \div Power[i - 1]) % Radix
<1>1. \A i \in 1..n : i - 1 \in 0..8 /\ Power[i - 1] \in Nat /\ Power[i - 1] > 0
  BY PowerDef
<1>2. \A y \in Int : y % Radix \in 0..(Radix - 1)
  BY CodecAssumption, Remainder
<1>3. \A i \in 1..n : (x \div Power[i - 1]) % Radix \in 0..(Radix - 1)
  BY <1>1, <1>2
<1>4. PutUint(x, n) = [i \in 1..n |-> (x \div Power[i - 1]) % Radix]
  BY DEF PutUint
<1> QED
  BY <1>3, <1>4, CodecAssumption

\* A number comes back from its bytes, up to what the width loses; so does
\* each of the sums on the way.
LEMMA PutUintValue ==
  ASSUME NEW x \in Int, NEW n \in 0..8
  PROVE  /\ LittleEndian(PutUint(x, n)) = x % Power[n]
         /\ \A i \in 0..n : Sums(Terms(PutUint(x, n)))[i] = x % Power[i]
<1> DEFINE b == PutUint(x, n)
           t == Terms(b)
           S == {i \in 0..n : Sums(t)[i] = x % Power[i]}
<1>1. b \in Seq(Int) /\ Len(b) = n /\ \A i \in 1..n : b[i] = (x \div Power[i - 1]) % Radix
  BY PutUintDef
<1> HIDE DEF b
<1>2. /\ t \in Seq(Int) /\ Len(t) = n
      /\ \A i \in 1..n : t[i] = b[i] * Power[i - 1]
      /\ LittleEndian(b) = Sums(t)[n]
  <2>1. Len(b) <= 8
    BY <1>1
  <2> QED
    BY <1>1, <2>1, LittleEndianDef
<1> HIDE DEF t
<1>3. 0 \in S
  <2>1. x % 1 = 0 /\ 0 \in 0..n
    OBVIOUS
  <2>2. Sums(t)[0] = 0 /\ Power[0] = 1
    BY <1>2, SumsDef, PowerDef
  <2> QED
    BY <2>1, <2>2
<1>4. ASSUME NEW i \in 1..n, i - 1 \in S PROVE i \in S
  <2>1. Sums(t)[i] = (x % Power[i - 1]) + (((x \div Power[i - 1]) % Radix) * Power[i - 1])
    <3>1. Sums(t)[i - 1] = x % Power[i - 1]
      BY <1>4
    <3>2. Sums(t)[i] = Sums(t)[i - 1] + t[i]
      BY <1>2, SumsDef
    <3>3. t[i] = ((x \div Power[i - 1]) % Radix) * Power[i - 1]
      BY <1>1, <1>2, Zenon
    <3> QED
      BY <3>1, <3>2, <3>3, Zenon
  <2>2. /\ Power[i - 1] \in Nat /\ Power[i - 1] > 0 /\ Power[i] = Radix * Power[i - 1]
        /\ Radix \in Nat /\ Radix > 0
    BY PowerDef, CodecAssumption
  <2>3. x % Power[i] = (x % Power[i - 1]) + (((x \div Power[i - 1]) % Radix) * Power[i - 1])
    BY <2>2, DivProduct
  <2>4. i \in 0..n
    OBVIOUS
  <2> QED
    BY <2>1, <2>3, <2>4
<1> HIDE DEF S
<1>5. 0..n \subseteq S
  BY <1>3, <1>4, UpTo
<1>6. \A i \in 0..n : Sums(t)[i] = x % Power[i]
  BY <1>5 DEF S
<1> QED
  BY <1>2, <1>6 DEF t, b

\* A number that fits comes back.
LEMMA PutUintFits ==
  ASSUME NEW n \in 0..8, NEW x \in 0..(Power[n] - 1)
  PROVE  LittleEndian(PutUint(x, n)) = x
<1>1. Power[n] \in Nat /\ Power[n] > 0 /\ x \in Int
  BY PowerDef
<1>2. \A m \in Nat : \A y \in 0..(m - 1) : y % m = y
  OBVIOUS
<1> QED
  BY <1>1, <1>2, PutUintValue

\* Powers grow, and from the first on they are even.
LEMMA PowersGrow ==
  /\ \A n \in 0..8 : Power[n] <= Power[8]
  /\ \A n \in 1..8 : 2 * (Power[n] \div 2) = Power[n] /\ Power[n] >= 4
<1>1. Radix \in Nat /\ Radix >= 4 /\ Radix % 2 = 0
  BY CodecAssumption
<1>2. ASSUME NEW n \in 1..8
      PROVE  Power[n - 1] <= Power[n] /\ 2 * (Power[n] \div 2) = Power[n] /\ Power[n] >= 4
  <2>1. Power[n - 1] \in Nat /\ Power[n - 1] > 0 /\ Power[n] = Radix * Power[n - 1]
    BY PowerDef
  <2>2. \A r, p \in Nat : r >= 4 /\ r % 2 = 0 /\ p > 0 =>
          p <= r * p /\ r * p >= 4 /\ 2 * ((r * p) \div 2) = r * p
    <3> SUFFICES ASSUME NEW r \in Nat, NEW p \in Nat, r >= 4, r % 2 = 0, p > 0
                 PROVE  p <= r * p /\ r * p >= 4 /\ 2 * ((r * p) \div 2) = r * p
      OBVIOUS
    <3>1. PICK h \in Nat : r = 2 * h /\ h >= 2
      <4>1. r = 2 * (r \div 2) /\ r \div 2 \in Nat /\ r \div 2 >= 2
        OBVIOUS
      <4> QED
        BY <4>1
    <3>2. PICK k \in Nat : r * p = 2 * k /\ k >= 2 * p
      <4>1. r * p = 2 * (h * p) /\ h * p \in Nat /\ h * p >= 2 * p
        BY <3>1
      <4> QED
        BY <4>1
    <3>3. (2 * k) \div 2 = k
      OBVIOUS
    <3>4. 2 * ((r * p) \div 2) = r * p
      BY <3>2, <3>3
    <3> QED
      BY <3>2, <3>4
  <2> QED
    BY <1>1, <2>1, <2>2
<1>3. /\ Power[0] <= Power[1] /\ Power[1] <= Power[2] /\ Power[2] <= Power[3]
      /\ Power[3] <= Power[4] /\ Power[4] <= Power[5] /\ Power[5] <= Power[6]
      /\ Power[6] <= Power[7] /\ Power[7] <= Power[8]
  <2>1. \A n \in 1..8 : Power[n - 1] <= Power[n]
    BY <1>2
  <2> QED
    BY <2>1
<1>4. \A n \in 0..8 : Power[n] \in Nat
  BY PowerDef
<1>5. \A n \in 0..8 : Power[n] <= Power[8]
  <2> SUFFICES ASSUME NEW n \in 0..8 PROVE Power[n] <= Power[8]
    OBVIOUS
  <2>1. n \in {0, 1, 2, 3, 4, 5, 6, 7, 8}
    OBVIOUS
  <2> QED
    BY <1>3, <1>4, <2>1
<1> QED
  BY <1>2, <1>5

\* A signed number of one to eight bytes comes back from its bytes.
LEMMA SignedRoundTrip ==
  ASSUME NEW n \in 1..8, NEW x \in Int,
         -(Power[n] \div 2) <= x, x < Power[n] \div 2
  PROVE  decodeSignedInt(PutUint(x, n)) = x
<1> DEFINE b == PutUint(x, n)
           P == Power[n]
           u == LittleEndian(b)
<1>1. b \in Seq(Int) /\ Len(b) = n /\ b[n] = (x \div Power[n - 1]) % Radix
  <2>1. n \in 0..8 /\ n \in 1..n
    OBVIOUS
  <2> QED
    BY <2>1, PutUintDef
<1>2. /\ P \in Nat /\ P > 0 /\ Power[n - 1] \in Nat /\ Power[n - 1] > 0
      /\ P = Radix * Power[n - 1]
      /\ Radix \in Nat /\ Radix >= 4 /\ Radix % 2 = 0
  BY PowerDef, CodecAssumption
<1>3. 2 * (P \div 2) = P /\ P <= Power[8] /\ Power[8] \in Nat /\ P \div 2 \in Int
  <2>1. 2 * (P \div 2) = P /\ P <= Power[8]
    BY PowersGrow
  <2>2. Power[8] \in Nat
    BY PowerDef
  <2>3. P \div 2 \in Int
    <3> HIDE DEF P
    <3> QED
      BY <1>2
  <2> QED
    BY <2>1, <2>2, <2>3
<1>4. u = x % P
  BY PutUintValue
<1>5. u = IF x < 0 THEN x + P ELSE x
  <2>1. -P <= x /\ x < P /\ 2 * x >= -P /\ 2 * x < P
    BY <1>2, <1>3
  <2>2. \A p, y \in Int : p > 0 /\ -p <= y /\ y < p => y % p = IF y < 0 THEN y + p ELSE y
    <3> SUFFICES ASSUME NEW p \in Int, NEW y \in Int, p > 0, -p <= y, y < p
                 PROVE  y % p = IF y < 0 THEN y + p ELSE y
      OBVIOUS
    <3>1. CASE y < 0
      <4>1. -1 \in Int /\ y + p \in Int /\ y = ((-1) * p) + (y + p) /\ 0 <= y + p /\ y + p < p
        BY <3>1
      <4>2. y % p = y + p
        BY <4>1, DivUnique
      <4> QED
        BY <3>1, <4>2
    <3>2. CASE ~(y < 0)
      BY <3>2
    <3> QED
      BY <3>1, <3>2
  <2> HIDE DEF P, u
  <2> QED
    BY <1>2, <1>4, <2>1, <2>2
<1>6. u = (x % Power[n - 1]) + (b[n] * Power[n - 1])
  <2>1. x % (Radix * Power[n - 1]) =
          (x % Power[n - 1]) + (((x \div Power[n - 1]) % Radix) * Power[n - 1])
    <3>1. Radix > 0
      BY <1>2
    <3> QED
      BY <1>2, <3>1, DivProduct, Zenon
  <2> QED
    BY <1>1, <1>2, <1>4, <2>1
<1>7. b[n] \in 0..(Radix - 1) /\ x % Power[n - 1] \in 0..(Power[n - 1] - 1)
  <2>1. \A y, m \in Int : m > 0 => y \div m \in Int
    OBVIOUS
  <2>2. x \div Power[n - 1] \in Int
    BY <1>2, <2>1
  <2>3. x % Power[n - 1] \in 0..(Power[n - 1] - 1)
    <3>1. Power[n - 1] \in Int
      BY <1>2
    <3> QED
      BY <1>2, <3>1, Remainder
  <2>4. (x \div Power[n - 1]) % Radix \in 0..(Radix - 1)
    <3> DEFINE y == x \div Power[n - 1]
    <3>1. y \in Int
      BY <2>2
    <3> HIDE DEF y
    <3>2. y % Radix \in 0..(Radix - 1)
      BY <1>2, <3>1, Remainder
    <3> QED
      BY <3>2 DEF y
  <2> QED
    BY <1>1, <2>3, <2>4
<1>8. 2 * b[n] >= Radix <=> 2 * u >= P
  <2>1. \A r, q, t, l \in Nat : r % 2 = 0 /\ l < q /\ t < r =>
          (2 * t >= r <=> 2 * (l + (t * q)) >= r * q)
    <3> SUFFICES ASSUME NEW r \in Nat, NEW q \in Nat, NEW t \in Nat, NEW l \in Nat,
                        r % 2 = 0, l < q, t < r
                 PROVE  2 * t >= r <=> 2 * (l + (t * q)) >= r * q
      OBVIOUS
    <3>1. PICK h \in Nat : r = 2 * h
      <4>1. r = 2 * (r \div 2) /\ r \div 2 \in Nat
        OBVIOUS
      <4> QED
        BY <4>1
    <3>2. CASE t >= h
      <4>1. t * q >= h * q
        BY <3>2
      <4>2. r * q = 2 * (h * q)
        BY <3>1
      <4> QED
        BY <3>1, <3>2, <4>1, <4>2
    <3>3. CASE t < h
      <4>1. (t + 1) * q <= h * q /\ (t + 1) * q = (t * q) + q
        BY <3>3
      <4>2. r * q = 2 * (h * q)
        BY <3>1
      <4> QED
        BY <3>1, <3>3, <4>1, <4>2
    <3> QED
      BY <3>1, <3>2, <3>3
  <2>2. b[n] \in Nat /\ b[n] < Radix /\ x % Power[n - 1] \in Nat
    BY <1>2, <1>7
  <2> QED
    BY <1>2, <1>6, <1>7, <2>1, <2>2
<1>9. 2 * u >= P <=> x < 0
  BY <1>2, <1>3, <1>5
<1> HIDE DEF b, u, P
<1>10. decodeSignedInt(b) =
         LET v == u + IF n < 8 /\ 2 * b[n] >= Radix THEN Power[8] - P ELSE 0
         IN  IF 2 * v >= Power[8] THEN v - Power[8] ELSE v
  BY <1>1 DEF decodeSignedInt, SignExtended, WordBytes, u, P
<1>11. u \in Int /\ x \in Int
  BY <1>2, <1>5
<1>12. CASE n = 8
  <2>1. P = Power[8]
    BY <1>12 DEF P
  <2> QED
    BY <1>2, <1>3, <1>5, <1>9, <1>10, <1>11, <1>12, <2>1 DEF b
<1>13. CASE n < 8
  BY <1>2, <1>3, <1>5, <1>8, <1>9, <1>10, <1>11, <1>13 DEF b
<1> QED
  BY <1>12, <1>13

(***************************************************************************)
(* Lists of elements.                                                      *)
(***************************************************************************)

Element     == [addr : Nat, size : Nat]
Members(es) == {es[i] : i \in DOMAIN es}

\* The members of a sequence that has grown by one.
LEMMA MembersAppend ==
  ASSUME NEW X, NEW s \in Seq(X), NEW e \in X
  PROVE  Append(s, e) \in Seq(X) /\ Members(Append(s, e)) = Members(s) \cup {e}
<1>1. /\ Append(s, e) \in Seq(X) /\ Len(s) \in Nat /\ DOMAIN s = 1..Len(s)
      /\ DOMAIN Append(s, e) = 1..(Len(s) + 1)
      /\ \A i \in 1..Len(s) : Append(s, e)[i] = s[i]
      /\ Append(s, e)[Len(s) + 1] = e
  OBVIOUS
<1>2. \A i \in 1..(Len(s) + 1) : i \in 1..Len(s) \/ i = Len(s) + 1
  BY <1>1
<1>3. /\ \A i \in 1..Len(s) : i \in 1..(Len(s) + 1)
      /\ Len(s) + 1 \in 1..(Len(s) + 1)
  BY <1>1
<1>4. ASSUME NEW x \in Members(Append(s, e)) PROVE x \in Members(s) \cup {e}
  BY <1>1, <1>2 DEF Members
<1>5. ASSUME NEW x \in Members(s) \cup {e} PROVE x \in Members(Append(s, e))
  BY <1>1, <1>3 DEF Members
<1> QED
  BY <1>1, <1>4, <1>5

\* Keep leaves the members whose address is in A.
LEMMA KeepDef ==
  ASSUME NEW es \in Seq(Element), NEW A
  PROVE  /\ Keep(es, A) \in Seq(Element)
         /\ Members(Keep(es, A)) = {e \in Members(es) : e.addr \in A}
<1> DEFINE n == Len(es)
           G == [p \in Seq(Element) \X (1..n) |->
                   IF es[p[2]].addr \in A THEN Append(p[1], es[p[2]]) ELSE p[1]]
           Step(f, i) == IF i = 0 THEN <<>>
                         ELSE IF es[i].addr \in A THEN Append(f[i - 1], es[i]) ELSE f[i - 1]
           Eq(f) == f = [i \in 0..n |-> Step(f, i)]
<1>1. n \in Nat /\ DOMAIN es = 1..n /\ \A i \in 1..n : es[i] \in Element
  OBVIOUS
<1>2. <<>> \in Seq(Element)
  OBVIOUS
<1>3. G \in [Seq(Element) \X (1..n) -> Seq(Element)]
  BY <1>1
<1>4. PICK f : Iterates(f, Seq(Element), <<>>, G, n)
  <2> HIDE DEF G, n
  <2> QED
    BY <1>1, <1>2, <1>3, Recursion, Zenon
<1>5. Eq(f)
  <2> SUFFICES ASSUME NEW i \in 0..n PROVE f[i] = Step(f, i)
    BY <1>4 DEF Iterates
  <2>1. CASE i = 0
    BY <1>4, <2>1 DEF Iterates
  <2>2. CASE i # 0
    <3>1. i \in 1..n /\ i - 1 \in 0..n /\ i > 0
      BY <1>1, <2>2
    <3>2. f[i - 1] \in Seq(Element)
      BY <1>4, <3>1 DEF Iterates
    <3>3. f[i] = G[<<f[i - 1], i>>]
      BY <1>4, <2>2, Zenon DEF Iterates
    <3>4. G[<<f[i - 1], i>>] = IF es[i].addr \in A THEN Append(f[i - 1], es[i]) ELSE f[i - 1]
      BY <3>1, <3>2
    <3> QED
      BY <2>2, <3>1, <3>3, <3>4
  <2> QED
    BY <2>1, <2>2
<1>6. Keep(es, A) = (CHOOSE g : Eq(g))[n]
  BY DEF Keep
<1> HIDE DEF Eq
<1>7. PICK g : Eq(g) /\ Keep(es, A) = g[n]
  BY <1>5, <1>6, Zenon
<1> DEFINE S == {i \in 0..n : /\ g[i] \in Seq(Element)
                              /\ Members(g[i]) = {e \in {es[j] : j \in 1..i} : e.addr \in A}}
<1>8. 0 \in S
  <2>1. g[0] = <<>>
    BY <1>1, <1>7 DEF Eq
  <2>2. Members(<<>>) = {}
    BY DEF Members
  <2>3. {es[j] : j \in 1..0} = {}
    OBVIOUS
  <2>4. 0 \in 0..n
    BY <1>1
  <2>5. Members(g[0]) = {e \in {es[j] : j \in 1..0} : e.addr \in A}
    BY <2>1, <2>2, <2>3
  <2>6. g[0] \in Seq(Element)
    BY <1>2, <2>1
  <2> QED
    BY <2>4, <2>5, <2>6
<1>9. ASSUME NEW i \in 1..n, i - 1 \in S PROVE i \in S
  <2>1. i # 0 /\ i > 0 /\ i \in 0..n /\ es[i] \in Element
    BY <1>1
  <2>2. g[i] = IF es[i].addr \in A THEN Append(g[i - 1], es[i]) ELSE g[i - 1]
    BY <1>7, <2>1 DEF Eq
  <2>3. {es[j] : j \in 1..i} = {es[j] : j \in 1..(i - 1)} \cup {es[i]}
    <3>1. \A j \in 1..i : j \in 1..(i - 1) \/ j = i
      OBVIOUS
    <3>2. i \in 1..i /\ \A j \in 1..(i - 1) : j \in 1..i
      OBVIOUS
    <3> QED
      BY <3>1, <3>2
  <2>4. CASE es[i].addr \in A
    <3>1. g[i] \in Seq(Element) /\ Members(g[i]) = Members(g[i - 1]) \cup {es[i]}
      BY <1>9, <2>1, <2>2, <2>4, MembersAppend
    <3> QED
      BY <1>9, <2>1, <2>3, <2>4, <3>1
  <2>5. CASE es[i].addr \notin A
    BY <1>9, <2>1, <2>2, <2>3, <2>5
  <2> QED
    BY <2>4, <2>5
<1> HIDE DEF S
<1>10. 0..n \subseteq S
  BY <1>1, <1>8, <1>9, UpTo
<1>11. n \in S
  BY <1>1, <1>10
<1> QED
  BY <1>1, <1>7, <1>11 DEF S, Members

(***************************************************************************)
(* Sequences put together.                                                 *)
(***************************************************************************)

Lens(ss) == [i \in DOMAIN ss |-> Len(ss[i])]

\* Two sequences put together.
LEMMA Joined ==
  ASSUME NEW s \in Seq(Int), NEW t \in Seq(Int)
  PROVE  /\ s \o t \in Seq(Int)
         /\ Len(s) \in Nat /\ Len(t) \in Nat
         /\ Len(s \o t) = Len(s) + Len(t)
         /\ \A i \in 1..Len(s) : (s \o t)[i] = s[i]
         /\ \A i \in 1..Len(t) : (s \o t)[Len(s) + i] = t[i]
         /\ <<>> \o t = t
OBVIOUS

\* Each part of a flattened sequence stands behind the ones before it.
LEMMA FlattenDef ==
  ASSUME NEW ss \in Seq(Seq(Int))
  PROVE  /\ Lens(ss) \in Seq(Nat) /\ Lens(ss) \in Seq(Int) /\ Len(Lens(ss)) = Len(ss)
         /\ FlattenSeq(ss) \in Seq(Int)
         /\ Len(FlattenSeq(ss)) = Sums(Lens(ss))[Len(ss)]
         /\ \A i \in DOMAIN ss : \A j \in 1..Len(ss[i]) :
              FlattenSeq(ss)[Sums(Lens(ss))[i - 1] + j] = ss[i][j]
<1> DEFINE n == Len(ss)
           at == Sums(Lens(ss))
           G == [p \in Seq(Int) \X (1..n) |-> p[1] \o ss[p[2]]]
           Eq(f) == f = [i \in 1..n |-> IF i = 1 THEN ss[i] ELSE f[i - 1] \o ss[i]]
<1>1. n \in Nat /\ DOMAIN ss = 1..n /\ \A i \in 1..n : ss[i] \in Seq(Int) /\ Len(ss[i]) \in Nat
  OBVIOUS
<1>2. <<>> \in Seq(Int)
  OBVIOUS
<1>3. /\ Lens(ss) \in Seq(Nat) /\ Lens(ss) \in Seq(Int) /\ Len(Lens(ss)) = n
      /\ \A i \in 1..n : Lens(ss)[i] = Len(ss[i])
  BY <1>1 DEF Lens
<1>4. /\ at \in [0..n -> Int] /\ at[0] = 0
      /\ \A i \in 1..n : at[i] = at[i - 1] + Len(ss[i])
  BY <1>1, <1>3, SumsDef
<1>5. \A i, j \in 0..n : i <= j => at[i] \in Nat /\ at[i] <= at[j]
  BY <1>1, <1>3, SumsGrow
<1>8. \A i \in 0..n : at[i] \in Nat
  <2>1. \A i \in 0..n : i <= i
    OBVIOUS
  <2> QED
    BY <1>5, <2>1
<1> HIDE DEF at
<1>6. CASE n = 0
  <2>1. ss = <<>> /\ FlattenSeq(ss) = ss
    BY <1>1, <1>6 DEF FlattenSeq
  <2>2. Len(FlattenSeq(ss)) = at[n] /\ FlattenSeq(ss) \in Seq(Int)
    BY <1>2, <1>4, <1>6, <2>1
  <2>3. DOMAIN ss = {}
    BY <1>1, <1>6
  <2> QED
    BY <1>3, <2>2, <2>3 DEF at
<1>7. CASE n # 0
  <2>1. G \in [Seq(Int) \X (1..n) -> Seq(Int)]
    BY <1>1
  <2>2. PICK f : Iterates(f, Seq(Int), <<>>, G, n)
    <3> HIDE DEF G, n
    <3> QED
      BY <1>1, <1>2, <2>1, Recursion, Zenon
  <2> DEFINE h == [i \in 1..n |-> f[i]]
  <2>3. Eq(h)
    <3> SUFFICES ASSUME NEW i \in 1..n
                 PROVE  h[i] = IF i = 1 THEN ss[i] ELSE h[i - 1] \o ss[i]
      OBVIOUS
    <3>1. i \in 0..n /\ i - 1 \in 0..n /\ i # 0
      BY <1>1
    <3>2. f[i - 1] \in Seq(Int)
      BY <2>2, <3>1 DEF Iterates
    <3>3. f[i] = G[<<f[i - 1], i>>]
      BY <2>2, <3>1 DEF Iterates
    <3>4. f[i] = f[i - 1] \o ss[i]
      BY <3>2, <3>3
    <3>5. CASE i = 1
      <4>1. f[0] = <<>>
        BY <1>1, <2>2 DEF Iterates
      <4>2. <<>> \o ss[i] = ss[i]
        BY <1>1, <1>2, Joined
      <4>3. f[i - 1] = <<>>
        BY <3>5, <4>1
      <4>4. h[i] = ss[i]
        BY <3>4, <4>2, <4>3
      <4> QED
        BY <3>5, <4>4
    <3>6. CASE i # 1
      <4>1. i - 1 \in 1..n
        BY <1>1, <3>6
      <4> QED
        BY <3>4, <3>6, <4>1
    <3> QED
      BY <3>5, <3>6
  <2>4. FlattenSeq(ss) = (CHOOSE g : Eq(g))[n]
    BY <1>7 DEF FlattenSeq
  <2> HIDE DEF Eq
  <2>5. PICK g : Eq(g) /\ FlattenSeq(ss) = g[n]
    BY <2>3, <2>4, Zenon
  <2> DEFINE Good(i) == /\ g[i] \in Seq(Int) /\ Len(g[i]) = at[i]
                        /\ \A k \in 1..i : \A j \in 1..Len(ss[k]) :
                             g[i][at[k - 1] + j] = ss[k][j]
             S == {i \in 0..n : i = 0 \/ Good(i)}
  <2>6. 0 \in S
    BY <1>1
  <2>7. ASSUME NEW i \in 1..n, i - 1 \in S PROVE i \in S
    <3>1. i \in 0..n /\ ss[i] \in Seq(Int) /\ Len(ss[i]) \in Nat /\ at[i] = at[i - 1] + Len(ss[i])
      BY <1>1, <1>4
    <3>2. CASE i = 1
      <4>1. g[i] = ss[i]
        BY <1>1, <2>5, <3>2 DEF Eq
      <4>2. at[i - 1] = 0 /\ \A k \in 1..i : k = i
        BY <1>4, <3>2
      <4>3. g[i] \in Seq(Int) /\ Len(g[i]) = at[i]
        BY <3>1, <4>1, <4>2
      <4>4. ASSUME NEW k \in 1..i, NEW j \in 1..Len(ss[k])
            PROVE  g[i][at[k - 1] + j] = ss[k][j]
        <5>1. k = i /\ at[k - 1] = 0
          BY <4>2
        <5>2. j \in Nat /\ 0 + j = j
          BY <3>1, <5>1
        <5> QED
          BY <4>1, <5>1, <5>2
      <4> QED
        BY <3>1, <4>3, <4>4
    <3>3. CASE i # 1
      <4>1. g[i] = g[i - 1] \o ss[i]
        BY <2>5, <3>3 DEF Eq
      <4>2. Good(i - 1) /\ i - 1 \in 1..n
        <5>1. i - 1 # 0 /\ i - 1 \in 1..n
          BY <1>1, <3>3
        <5> QED
          BY <2>7, <5>1
      <4>3. /\ g[i] \in Seq(Int) /\ Len(g[i]) = at[i]
            /\ \A j \in 1..Len(g[i - 1]) : g[i][j] = g[i - 1][j]
            /\ \A j \in 1..Len(ss[i]) : g[i][Len(g[i - 1]) + j] = ss[i][j]
        <5>1. g[i - 1] \in Seq(Int) /\ Len(g[i - 1]) = at[i - 1]
          BY <4>2
        <5> HIDE DEF Good
        <5>2. PICK s \in Seq(Int), t \in Seq(Int) : s = g[i - 1] /\ t = ss[i]
          BY <3>1, <5>1
        <5>3. /\ s \o t \in Seq(Int)
              /\ Len(s \o t) = Len(s) + Len(t)
              /\ \A j \in 1..Len(s) : (s \o t)[j] = s[j]
              /\ \A j \in 1..Len(t) : (s \o t)[Len(s) + j] = t[j]
          BY Joined
        <5>4. g[i] = s \o t
          BY <4>1, <5>2
        <5>5. /\ g[i] \in Seq(Int) /\ Len(g[i]) = Len(g[i - 1]) + Len(ss[i])
              /\ \A j \in 1..Len(g[i - 1]) : g[i][j] = g[i - 1][j]
              /\ \A j \in 1..Len(ss[i]) : g[i][Len(g[i - 1]) + j] = ss[i][j]
          BY <5>2, <5>3, <5>4
        <5> QED
          BY <3>1, <5>1, <5>5
      <4>4. ASSUME NEW k \in 1..i, NEW j \in 1..Len(ss[k])
            PROVE  g[i][at[k - 1] + j] = ss[k][j]
        <5>1. k \in 1..n /\ Len(ss[k]) \in Nat /\ k - 1 \in 0..n /\ at[k - 1] \in Nat
          <6>1. k \in 1..n /\ k - 1 \in 0..n
            BY <1>1
          <6>2. Len(ss[k]) \in Nat
            BY <1>1, <6>1
          <6>3. at[k - 1] \in Nat
            BY <1>8, <6>1
          <6> QED
            BY <6>1, <6>2, <6>3
        <5>2. CASE k = i
          <6>1. at[k - 1] = Len(g[i - 1])
            BY <4>2, <5>2
          <6> QED
            BY <4>3, <5>2, <6>1
        <5>3. CASE k # i
          <6>1. k \in 1..(i - 1) /\ k <= i - 1 /\ k \in 0..n /\ i - 1 \in 0..n
            BY <1>1, <5>3
          <6>2. at[k] = at[k - 1] + Len(ss[k]) /\ at[k] <= at[i - 1]
            BY <1>4, <1>5, <5>1, <6>1
          <6>3. at[k - 1] + j \in 1..Len(g[i - 1])
            <7>1. at[i - 1] \in Nat
              BY <1>8, <6>1
            <7>2. Len(g[i - 1]) = at[i - 1]
              BY <4>2
            <7>3. \A a, b, c, d \in Nat : \A x \in 1..d : b = a + d /\ b <= c => a + x \in 1..c
              OBVIOUS
            <7>4. at[k] \in Nat
              BY <1>8, <6>1
            <7> QED
              BY <5>1, <6>2, <7>1, <7>2, <7>3, <7>4
          <6>4. g[i][at[k - 1] + j] = g[i - 1][at[k - 1] + j]
            BY <4>3, <6>3
          <6> QED
            BY <4>2, <6>1, <6>4
        <5> QED
          BY <5>2, <5>3
      <4> QED
        BY <3>1, <4>3, <4>4
    <3> QED
      BY <3>2, <3>3
  <2> HIDE DEF S
  <2>8. 0..n \subseteq S
    BY <1>1, <2>6, <2>7, UpTo
  <2>9. Good(n)
    BY <1>1, <1>7, <2>8 DEF S
  <2> QED
    BY <1>1, <1>3, <2>5, <2>9 DEF at
<1> QED
  BY <1>6, <1>7

\* The n numbers of s behind its first a.
LEMMA SubSeqDef ==
  ASSUME NEW s \in Seq(Int), NEW a \in Nat, NEW n \in Nat, a + n <= Len(s)
  PROVE  /\ SubSeq(s, a + 1, a + n) \in Seq(Int)
         /\ Len(SubSeq(s, a + 1, a + n)) = n
         /\ \A j \in 1..n : SubSeq(s, a + 1, a + n)[j] = s[a + j]
<1>1. Len(s) \in Nat /\ \A j \in 1..n : a + j \in 1..Len(s)
  OBVIOUS
<1>2. SubSeq(s, a + 1, a + n) = [j \in 1..n |-> s[a + j]]
  OBVIOUS
<1>3. \A j \in 1..n : s[a + j] \in Int
  BY <1>1
<1> QED
  BY <1>2, <1>3

\* The part of s behind its first a numbers, when t stands there.
LEMMA Window ==
  ASSUME NEW s \in Seq(Int), NEW t \in Seq(Int), NEW a \in Nat, a + Len(t) <= Len(s),
         \A j \in 1..Len(t) : s[a + j] = t[j]
  PROVE  SubSeq(s, a + 1, a + Len(t)) = t
<1>1. Len(t) \in Nat /\ Len(s) \in Nat /\ t = [j \in 1..Len(t) |-> t[j]]
  OBVIOUS
<1>2. SubSeq(s, a + 1, a + Len(t)) = [j \in 1..Len(t) |-> s[a + j]]
  <2> PICK n \in Nat : n = Len(t)
    BY <1>1
  <2>1. SubSeq(s, a + 1, a + n) = [j \in 1..n |-> s[a + j]]
    OBVIOUS
  <2> QED
    BY <2>1
<1> QED
  BY <1>1, <1>2

\* Both parts can be cut out again.
LEMMA CutApart ==
  ASSUME NEW s \in Seq(Int), NEW t \in Seq(Int)
  PROVE  /\ SubSeq(s \o t, 1, Len(s)) = s
         /\ SubSeq(s \o t, Len(s) + 1, Len(s) + Len(t)) = t
<1>1. /\ s \o t \in Seq(Int)
      /\ Len(s) \in Nat /\ Len(t) \in Nat
      /\ Len(s \o t) = Len(s) + Len(t)
      /\ \A i \in 1..Len(s) : (s \o t)[i] = s[i]
      /\ \A i \in 1..Len(t) : (s \o t)[Len(s) + i] = t[i]
  BY Joined
<1> PICK u \in Seq(Int) : u = s \o t
  BY <1>1
<1>2. \A i \in 1..Len(s) : u[0 + i] = s[i]
  BY <1>1
<1>3. 0 \in Nat /\ 0 + Len(s) <= Len(u) /\ Len(s) + Len(t) <= Len(u)
  BY <1>1
<1>4. SubSeq(u, 0 + 1, 0 + Len(s)) = s
  BY <1>2, <1>3, Window
<1>5. SubSeq(u, Len(s) + 1, Len(s) + Len(t)) = t
  BY <1>1, <1>3, Window
<1> QED
  BY <1>1, <1>4, <1>5

\* The sums of a constant.
LEMMA SumsConstant ==
  ASSUME NEW n \in Seq(Int), NEW c \in Nat, \A i \in 1..Len(n) : n[i] = c
  PROVE  \A i \in 0..Len(n) : Sums(n)[i] = c * i
<1> DEFINE S == {i \in 0..Len(n) : Sums(n)[i] = c * i}
<1>1. Len(n) \in Nat
  OBVIOUS
<1>2. 0 \in S
  BY <1>1, SumsDef
<1>3. ASSUME NEW i \in 1..Len(n), i - 1 \in S PROVE i \in S
  <2>1. Sums(n)[i] = Sums(n)[i - 1] + c /\ Sums(n)[i - 1] = c * (i - 1) /\ i \in 0..Len(n)
    <3>1. Sums(n)[i - 1] = c * (i - 1)
      BY <1>3, Zenon
    <3>2. Sums(n)[i] = Sums(n)[i - 1] + n[i] /\ n[i] = c
      BY SumsDef, Zenon
    <3>3. i \in 0..Len(n)
      BY <1>1
    <3> QED
      BY <3>1, <3>2, <3>3, Zenon
  <2>2. c * i = c * (i - 1) + c
    OBVIOUS
  <2> QED
    BY <2>1, <2>2
<1> HIDE DEF S
<1>4. 0..Len(n) \subseteq S
  BY <1>1, <1>2, <1>3, UpTo
<1> QED
  BY <1>4 DEF S

(***************************************************************************)
(* The active list.                                                        *)
(***************************************************************************)

\* What a list entry has room for.
Listable == [addr : 0..(Flag - 1), size : 0..(Power[2] - 1)]

\* The flag bit stands above every address.
LEMMA FlagRoom ==
  /\ Flag \in Nat /\ Flag > 0 /\ 2 * Flag <= Power[4]
  /\ \A a \in 0..(Flag - 1) : a + Flag \in 0..(Power[4] - 1) /\ (a + Flag) % Flag = a
  /\ Listable \subseteq Element
<1>1. Power[4] \in Nat /\ Power[4] >= 4
  BY PowerDef, PowersGrow
<1>2. \A p \in Nat : p >= 4 => p \div 4 \in Nat /\ p \div 4 > 0 /\ 2 * (p \div 4) <= p
  OBVIOUS
<1>3. Flag \in Nat /\ Flag > 0 /\ 2 * Flag <= Power[4]
  BY <1>1, <1>2 DEF Flag
<1>4. ASSUME NEW a \in 0..(Flag - 1)
      PROVE  a + Flag \in 0..(Power[4] - 1) /\ (a + Flag) % Flag = a
  <2>1. a + Flag \in 0..(Power[4] - 1)
    BY <1>1, <1>3
  <2>2. a \in Int /\ Flag \in Int /\ a + Flag \in Int /\ a + Flag = (1 * Flag) + a /\ 0 <= a /\ a < Flag
    BY <1>3
  <2>3. (a + Flag) % Flag = a
    BY <1>3, <2>2, DivUnique
  <2> QED
    BY <2>1, <2>3
<1>5. Listable \subseteq Element
  BY <1>3 DEF Listable, Element
<1> QED
  BY <1>3, <1>4, <1>5

\* An element comes back from its six bytes.
LEMMA EntryRoundTrip ==
  ASSUME NEW e \in Listable
  PROVE  LET b == PutUint(e.addr + Flag, 4) \o PutUint(e.size, 2)
         IN  /\ b \in Seq(Int) /\ Len(b) = 6
             /\ LittleEndian(SubSeq(b, 1, 4)) % Flag = e.addr
             /\ LittleEndian(SubSeq(b, 5, 6)) = e.size
<1> DEFINE s == PutUint(e.addr + Flag, 4)
           t == PutUint(e.size, 2)
<1>1. /\ e.addr \in 0..(Flag - 1) /\ e.size \in 0..(Power[2] - 1)
      /\ e.addr + Flag \in 0..(Power[4] - 1) /\ (e.addr + Flag) % Flag = e.addr
  BY FlagRoom DEF Listable
<1>2. 4 \in 0..8 /\ 2 \in 0..8 /\ e.size \in Int /\ e.addr + Flag \in Int
  BY <1>1, FlagRoom, PowerDef
<1>3. s \in Seq(Int) /\ Len(s) = 4 /\ LittleEndian(s) = e.addr + Flag
  BY <1>1, <1>2, PutUintDef, PutUintFits
<1>4. t \in Seq(Int) /\ Len(t) = 2 /\ LittleEndian(t) = e.size
  BY <1>1, <1>2, PutUintDef, PutUintFits
<1> HIDE DEF s, t
<1>5. s \o t \in Seq(Int) /\ Len(s \o t) = 6
  <2>1. s \o t \in Seq(Int) /\ Len(s \o t) = Len(s) + Len(t)
    BY <1>3, <1>4, Joined
  <2> QED
    BY <1>3, <1>4, <2>1
<1>6. SubSeq(s \o t, 1, 4) = s /\ SubSeq(s \o t, 5, 6) = t
  <2>1. SubSeq(s \o t, 1, Len(s)) = s /\ SubSeq(s \o t, Len(s) + 1, Len(s) + Len(t)) = t
    BY <1>3, <1>4, CutApart
  <2>2. Len(s) + 1 = 5 /\ Len(s) + Len(t) = 6
    BY <1>3, <1>4
  <2> QED
    BY <1>3, <2>1, <2>2
<1> QED
  BY <1>1, <1>3, <1>4, <1>5, <1>6 DEF s, t

\* The list the meter sends has six bytes for each element, in their order.
LEMMA PayloadDef ==
  ASSUME NEW es \in Seq(Listable)
  PROVE  /\ Payload(es) \in Seq(Int) /\ Len(Payload(es)) = 6 * Len(es)
         /\ \A i \in 1..Len(es) : \A j \in 1..6 :
              Payload(es)[6 * (i - 1) + j] =
                (PutUint(es[i].addr + Flag, 4) \o PutUint(es[i].size, 2))[j]
<1> PICK n \in Nat : n = Len(es)
  OBVIOUS
<1> DEFINE part(e) == PutUint(e.addr + Flag, 4) \o PutUint(e.size, 2)
           ss == [i \in 1..n |-> part(es[i])]
<1>1. DOMAIN es = 1..n /\ \A i \in 1..n : es[i] \in Listable
  OBVIOUS
<1>2. \A e \in Listable : part(e) \in Seq(Int) /\ Len(part(e)) = 6
  BY EntryRoundTrip
<1>3. Payload(es) = FlattenSeq(ss)
  BY <1>1 DEF Payload
<1> HIDE DEF part
<1>4. /\ ss \in Seq(Seq(Int)) /\ Len(ss) = n /\ DOMAIN ss = 1..n
      /\ \A i \in 1..n : ss[i] = part(es[i]) /\ Len(ss[i]) = 6
  BY <1>1, <1>2
<1> HIDE DEF ss
<1>5. /\ Lens(ss) \in Seq(Int) /\ Len(Lens(ss)) = n
      /\ FlattenSeq(ss) \in Seq(Int) /\ Len(FlattenSeq(ss)) = Sums(Lens(ss))[n]
      /\ \A i \in 1..n : \A j \in 1..Len(ss[i]) :
           FlattenSeq(ss)[Sums(Lens(ss))[i - 1] + j] = ss[i][j]
  <2>1. ss \in Seq(Seq(Int))
    BY <1>4
  <2>2. /\ Lens(ss) \in Seq(Int) /\ Len(Lens(ss)) = Len(ss)
        /\ FlattenSeq(ss) \in Seq(Int) /\ Len(FlattenSeq(ss)) = Sums(Lens(ss))[Len(ss)]
        /\ \A i \in DOMAIN ss : \A j \in 1..Len(ss[i]) :
             FlattenSeq(ss)[Sums(Lens(ss))[i - 1] + j] = ss[i][j]
    BY <2>1, FlattenDef
  <2>3. Len(ss) = n /\ DOMAIN ss = 1..n
    BY <1>4
  <2> QED
    BY <2>2, <2>3, Zenon
<1>6. \A i \in 1..n : Lens(ss)[i] = 6
  BY <1>4 DEF Lens
<1>7. \A i \in 0..n : Sums(Lens(ss))[i] = 6 * i
  <2> PICK L \in Seq(Int) : L = Lens(ss)
    BY <1>5
  <2>1. Len(L) = n /\ \A i \in 1..Len(L) : L[i] = 6
    BY <1>5, <1>6
  <2>2. \A i \in 0..Len(L) : Sums(L)[i] = 6 * i
    BY <2>1, SumsConstant
  <2> QED
    BY <2>1, <2>2
<1>8. ASSUME NEW i \in 1..n, NEW j \in 1..6
      PROVE  FlattenSeq(ss)[6 * (i - 1) + j] = part(es[i])[j]
  <2>1. i - 1 \in 0..n /\ j \in 1..Len(ss[i])
    <3>1. Len(ss[i]) = 6
      BY <1>4
    <3> QED
      BY <3>1
  <2> QED
    BY <1>4, <1>5, <1>7, <2>1
<1>9. Len(FlattenSeq(ss)) = 6 * n
  BY <1>5, <1>7
<1>10. /\ Payload(es) \in Seq(Int) /\ Len(Payload(es)) = 6 * Len(es)
       /\ \A i \in 1..Len(es) : \A j \in 1..6 : Payload(es)[6 * (i - 1) + j] = part(es[i])[j]
  BY <1>3, <1>5, <1>8, <1>9, Zenon
<1> QED
  BY <1>10, Zenon DEF part

\* So the first m of them can be read.
LEMMA EntriesDecoded ==
  ASSUME NEW es \in Seq(Listable), NEW d \in Seq(Int), NEW m \in Nat,
         m <= Len(es), Len(d) = 6 * m,
         \A i \in 1..(6 * m) : d[i] = Payload(es)[i]
  PROVE  Entries(d) \in Seq(Element) /\ Members(Entries(d)) \subseteq Members(es)
<1>1. ASSUME NEW i \in 1..m
      PROVE  [addr |-> LittleEndian(SubSeq(d, 6 * (i - 1) + 1, 6 * (i - 1) + 4)) % Flag,
              size |-> LittleEndian(SubSeq(d, 6 * (i - 1) + 5, 6 * (i - 1) + 6))] = es[i]
  <2> DEFINE b == PutUint(es[i].addr + Flag, 4) \o PutUint(es[i].size, 2)
  <2>1. i \in 1..Len(es) /\ es[i] \in Listable
    OBVIOUS
  <2>2. /\ b \in Seq(Int) /\ Len(b) = 6
        /\ LittleEndian(SubSeq(b, 1, 4)) % Flag = es[i].addr
        /\ LittleEndian(SubSeq(b, 5, 6)) = es[i].size
    BY <2>1, EntryRoundTrip
  <2>3. \A j \in 1..6 : 6 * (i - 1) + j \in 1..(6 * m)
    OBVIOUS
  <2>4. \A j \in 1..6 : d[6 * (i - 1) + j] = b[j]
    BY <2>1, <2>3, PayloadDef
  <2> HIDE DEF b
  <2> PICK at \in Nat : at = 6 * (i - 1) /\ at + 6 <= Len(d)
    OBVIOUS
  <2>5. \A j \in 1..6 : d[at + j] = b[j]
    BY <2>4
  <2> HIDE <2>4
  <2>6. SubSeq(d, at + 1, at + 4) = SubSeq(b, 1, 4)
    <3>1. SubSeq(b, 1, 4) \in Seq(Int) /\ Len(SubSeq(b, 1, 4)) = 4
          /\ \A j \in 1..4 : SubSeq(b, 1, 4)[j] = b[j]
      <4>1. 0 + 4 <= Len(b) /\ 0 \in Nat /\ 4 \in Nat
        BY <2>2
      <4>2. /\ SubSeq(b, 0 + 1, 0 + 4) \in Seq(Int) /\ Len(SubSeq(b, 0 + 1, 0 + 4)) = 4
            /\ \A j \in 1..4 : SubSeq(b, 0 + 1, 0 + 4)[j] = b[0 + j]
        BY <2>2, <4>1, SubSeqDef, Zenon
      <4> QED
        BY <4>2
    <3> PICK s \in Seq(Int) : s = SubSeq(b, 1, 4)
      BY <3>1
    <3>2. Len(s) = 4 /\ \A j \in 1..Len(s) : d[at + j] = s[j]
      <4>1. Len(s) = 4 /\ \A j \in 1..4 : s[j] = b[j] /\ j \in 1..6
        BY <3>1
      <4> QED
        BY <2>5, <4>1
    <3>3. at + Len(s) <= Len(d)
      BY <3>2
    <3>4. SubSeq(d, at + 1, at + Len(s)) = s
      BY <3>2, <3>3, Window
    <3> QED
      BY <3>2, <3>4
  <2>7. SubSeq(d, at + 5, at + 6) = SubSeq(b, 5, 6)
    <3>1. SubSeq(b, 5, 6) \in Seq(Int) /\ Len(SubSeq(b, 5, 6)) = 2
          /\ SubSeq(b, 5, 6)[1] = b[5] /\ SubSeq(b, 5, 6)[2] = b[6]
      <4>1. 4 + 2 <= Len(b) /\ 4 \in Nat /\ 2 \in Nat
        BY <2>2
      <4>2. /\ SubSeq(b, 4 + 1, 4 + 2) \in Seq(Int) /\ Len(SubSeq(b, 4 + 1, 4 + 2)) = 2
            /\ \A j \in 1..2 : SubSeq(b, 4 + 1, 4 + 2)[j] = b[4 + j]
        BY <2>2, <4>1, SubSeqDef, Zenon
      <4> QED
        BY <4>2
    <3> PICK s \in Seq(Int) : s = SubSeq(b, 5, 6)
      BY <3>1
    <3> PICK a \in Nat : a = at + 4
      OBVIOUS
    <3>2. Len(s) = 2 /\ d[a + 1] = s[1] /\ d[a + 2] = s[2]
      BY <2>5, <3>1
    <3>3. a + Len(s) <= Len(d) /\ \A j \in 1..Len(s) : d[a + j] = s[j]
      <4>1. a + Len(s) <= Len(d)
        BY <3>2
      <4>2. ASSUME NEW j \in 1..Len(s) PROVE d[a + j] = s[j]
        <5>1. j = 1 \/ j = 2
          BY <3>2
        <5> QED
          BY <3>2, <5>1
      <4> QED
        BY <4>1, <4>2
    <3>4. SubSeq(d, a + 1, a + Len(s)) = s
      BY <3>3, Window
    <3> QED
      BY <3>2, <3>4
  <2>8. es[i] = [addr |-> es[i].addr, size |-> es[i].size]
    BY <2>1 DEF Listable
  <2> QED
    BY <2>2, <2>6, <2>7, <2>8
<1>2. Len(d) \div 6 = m
  OBVIOUS
<1>3. Entries(d) = [i \in 1..m |-> es[i]]
  BY <1>1, <1>2 DEF Entries, EntryBytes
<1>4. \A i \in 1..m : i \in DOMAIN es /\ es[i] \in Element
  BY FlagRoom
<1> QED
  BY <1>3, <1>4 DEF Members

\* An active list that arrives, whole or short, names elements of the meter.
LEMMA ActiveDecoded ==
  ASSUME NEW es \in Seq(Listable), NEW lost \in {0, 1, EntryBytes},
         lost <= Len(Payload(es))
  PROVE  LET d == SubSeq(Payload(es), 1, Len(Payload(es)) - lost)
         IN  /\ ActiveElements(d) \in Seq(Element)
             /\ Members(ActiveElements(d)) \subseteq Members(es)
<1> PICK n \in Nat : n = Len(es)
  OBVIOUS
<1> PICK p \in Seq(Int) : p = Payload(es) /\ Len(p) = 6 * n
  BY PayloadDef
<1>1. lost \in {0, 1, 6} /\ lost <= 6 * n
  BY DEF EntryBytes
<1>0. 6 * n - lost \in Nat
  BY <1>1
<1> PICK k \in Nat : k = 6 * n - lost
  BY <1>0
<1> PICK d \in Seq(Int) : d = SubSeq(p, 1, k) /\ Len(d) = k /\ \A i \in 1..k : d[i] = p[i]
  <2>1. 0 + k <= Len(p) /\ 0 \in Nat
    BY <1>1
  <2>2. /\ SubSeq(p, 0 + 1, 0 + k) \in Seq(Int) /\ Len(SubSeq(p, 0 + 1, 0 + k)) = k
        /\ \A i \in 1..k : SubSeq(p, 0 + 1, 0 + k)[i] = p[0 + i]
    BY <2>1, SubSeqDef
  <2>3. SubSeq(p, 0 + 1, 0 + k) = SubSeq(p, 1, k)
    OBVIOUS
  <2>4. \A i \in 1..k : SubSeq(p, 1, k)[i] = p[i]
    BY <2>2, <2>3
  <2>5. SubSeq(p, 1, k) \in Seq(Int) /\ Len(SubSeq(p, 1, k)) = k
    BY <2>2, <2>3
  <2>6. PICK s \in Seq(Int) : s = SubSeq(p, 1, k)
    BY <2>5, Zenon
  <2>7. Len(s) = k /\ \A i \in 1..k : s[i] = p[i]
    BY <2>4, <2>5, <2>6, Zenon
  <2> QED
    BY <2>6, <2>7, Zenon
<1>2. ActiveElements(d) \in Seq(Element) /\ Members(ActiveElements(d)) \subseteq Members(es)
  <2>1. CASE lost = 1
    <3>1. k % 6 # 0
      BY <1>1, <2>1
    <3>2. ActiveElements(d) = <<>>
      BY <3>1 DEF ActiveElements, EntryBytes
    <3>3. <<>> \in Seq(Element) /\ Members(<<>>) = {}
      BY DEF Members
    <3> QED
      BY <3>2, <3>3
  <2>2. CASE lost # 1
    <3>1. PICK m \in Nat : k = 6 * m /\ m <= n
      <4>1. CASE lost = 0
        BY <4>1
      <4>2. CASE lost = 6
        <5>1. n - 1 \in Nat /\ k = 6 * (n - 1) /\ n - 1 <= n
          BY <1>1, <4>2
        <5> QED
          BY <5>1
      <4> QED
        BY <1>1, <2>2, <4>1, <4>2
    <3>2. Entries(d) \in Seq(Element) /\ Members(Entries(d)) \subseteq Members(es)
      BY <3>1, EntriesDecoded
    <3>3. Len(d) % 6 = 0
      <4>1. (6 * m) % 6 = 0
        OBVIOUS
      <4> QED
        BY <3>1, <4>1
    <3>4. ActiveElements(d) = Keep(Entries(d), 0..82)
      BY <3>3 DEF ActiveElements, EntryBytes
    <3> QED
      BY <3>2, <3>4, KeepDef
  <2> QED
    BY <2>1, <2>2
<1> QED
  BY <1>2

(***************************************************************************)
(* Chunks.                                                                 *)
(***************************************************************************)

\* What a list costs grows by the cost of the element that is added.
LEMMA CostAppend ==
  /\ CostOf(<<>>) = 0
  /\ \A es \in Seq(Element) : /\ Costs(es) \in Seq(Nat) /\ Costs(es) \in Seq(Int)
                              /\ Len(Costs(es)) = Len(es)
                              /\ \A i \in 1..Len(es) : Costs(es)[i] = es[i].size + 2
                              /\ CostOf(es) \in Nat
  /\ \A es \in Seq(Element) : \A e \in Element : CostOf(Append(es, e)) = CostOf(es) + e.size + 2
  /\ \A e \in Element : CostOf(<<e>>) = e.size + 2
<1>1. ASSUME NEW es \in Seq(Element)
      PROVE  /\ Costs(es) \in Seq(Nat) /\ Costs(es) \in Seq(Int) /\ Len(Costs(es)) = Len(es)
             /\ \A i \in 1..Len(es) : Costs(es)[i] = es[i].size + 2
             /\ CostOf(es) \in Nat
  <2>1. Len(es) \in Nat /\ DOMAIN es = 1..Len(es) /\ \A i \in 1..Len(es) : es[i].size + 2 \in Nat
    <3>1. \A i \in 1..Len(es) : es[i] \in Element
      OBVIOUS
    <3>2. \A e \in Element : e.size + 2 \in Nat
      BY DEF Element
    <3> QED
      BY <3>1, <3>2
  <2>2. Costs(es) = [i \in 1..Len(es) |-> es[i].size + 2]
    BY <2>1 DEF Costs, Cost
  <2>3. Costs(es) \in Seq(Nat) /\ Costs(es) \in Seq(Int) /\ Len(Costs(es)) = Len(es)
    BY <2>1, <2>2
  <2>4. Sums(Costs(es))[Len(es)] \in Nat
    <3>n. PICK n \in Nat : n = Len(es)
      BY <2>1, Zenon
    <3>c. PICK c \in Seq(Nat) : c = Costs(es)
      BY <2>3, Zenon
    <3>1. n \in 0..Len(c) /\ n \in 0..n
      BY <2>3, <3>n, <3>c
    <3>2. Sums(c)[n] \in Nat
      BY <3>1, SumsGrow
    <3> QED
      BY <3>n, <3>c, <3>2, Zenon
  <2> QED
    BY <2>2, <2>3, <2>4 DEF CostOf
<1>2. <<>> \in Seq(Element) /\ Len(<<>>) = 0
  OBVIOUS
<1>3. CostOf(<<>>) = 0
  <2>1. Costs(<<>>) \in Seq(Int)
    BY <1>1, <1>2
  <2>2. Sums(Costs(<<>>))[0] = 0
    BY <2>1, SumsDef
  <2> QED
    BY <1>2, <2>2 DEF CostOf
<1>4. ASSUME NEW es \in Seq(Element), NEW e \in Element
      PROVE  CostOf(Append(es, e)) = CostOf(es) + e.size + 2
  <2>1. e.size + 2 \in Int /\ e.size \in Nat
    BY DEF Element
  <2>2. Costs(Append(es, e)) = Append(Costs(es), e.size + 2)
    <3>1. /\ Append(es, e) \in Seq(Element) /\ Len(Append(es, e)) = Len(es) + 1 /\ Len(es) \in Nat
          /\ \A i \in 1..Len(es) : Append(es, e)[i] = es[i]
          /\ Append(es, e)[Len(es) + 1] = e
      OBVIOUS
    <3> PICK n \in Nat : n = Len(es)
      BY <3>1
    <3> PICK c \in Seq(Int) : c = Costs(es) /\ Len(c) = n
      BY <1>1
    <3>2. /\ Costs(Append(es, e)) \in Seq(Int) /\ Len(Costs(Append(es, e))) = n + 1
          /\ \A i \in 1..(n + 1) : Costs(Append(es, e))[i] = Append(es, e)[i].size + 2
      <4>1. /\ Costs(Append(es, e)) \in Seq(Int)
            /\ Len(Costs(Append(es, e))) = Len(Append(es, e))
            /\ \A i \in 1..Len(Append(es, e)) : Costs(Append(es, e))[i] = Append(es, e)[i].size + 2
        BY <1>1, <3>1, Zenon
      <4>2. Len(Append(es, e)) = n + 1
        BY <3>1
      <4> QED
        BY <4>1, <4>2, Zenon
    <3>3. \A i \in 1..n : c[i] = es[i].size + 2
      BY <1>1
    <3>4. /\ Append(c, e.size + 2) \in Seq(Int) /\ Len(Append(c, e.size + 2)) = n + 1
          /\ \A i \in 1..n : Append(c, e.size + 2)[i] = c[i]
          /\ Append(c, e.size + 2)[n + 1] = e.size + 2
      BY <2>1
    <3>5. ASSUME NEW i \in 1..(n + 1)
          PROVE  Costs(Append(es, e))[i] = Append(c, e.size + 2)[i]
      <4>1. CASE i \in 1..n
        BY <3>1, <3>2, <3>3, <3>4, <4>1
      <4>2. CASE i = n + 1
        BY <3>1, <3>2, <3>4, <4>2
      <4> QED
        BY <4>1, <4>2
    <3> QED
      BY <3>2, <3>4, <3>5
  <2>3. Len(Append(es, e)) = Len(es) + 1 /\ Len(es) \in Nat
    OBVIOUS
  <2> PICK c \in Seq(Int) : c = Costs(es) /\ Len(c) = Len(es)
    BY <1>1
  <2>4. Sums(Append(c, e.size + 2))[Len(c) + 1] = Sums(c)[Len(c)] + (e.size + 2)
    BY <2>1, SumsAppend
  <2>5. CostOf(es) = Sums(c)[Len(c)] /\ CostOf(es) \in Nat
    BY <1>1 DEF CostOf
  <2>6. CostOf(Append(es, e)) = Sums(Append(c, e.size + 2))[Len(c) + 1]
    BY <2>2, <2>3 DEF CostOf
  <2> QED
    BY <2>1, <2>4, <2>5, <2>6
<1>5. ASSUME NEW e \in Element PROVE CostOf(<<e>>) = e.size + 2
  <2>1. Append(<<>>, e) = <<e>>
    OBVIOUS
  <2>2. CostOf(Append(<<>>, e)) = CostOf(<<>>) + e.size + 2
    BY <1>2, <1>4
  <2> QED
    BY <1>3, <2>1, <2>2 DEF Element
<1> QED
  BY <1>1, <1>3, <1>4, <1>5

\* A list of elements of es that can be one read list: no longer than n, and
\* within the limit of an answer unless it is a single element.
Readable(c, es, n) ==
  /\ c \in Seq(Element) /\ Len(c) <= n
  /\ Members(c) \subseteq Members(es)
  /\ CostOf(c) <= ChunkBytes \/ \E e \in Members(es) : c = <<e>>

\* What the loop over es keeps true after n elements; x is held when it is in
\* a chunk or collected.
SplitState     == [chunks : Seq(Seq(Element)), current : Seq(Element), bytes : Nat]
InSome(x, cs)  == \E j \in DOMAIN cs : x \in Members(cs[j])
Held(x, s)     == InSome(x, s.chunks) \/ x \in Members(s.current)

SplitGood(s, es, n) ==
  /\ s \in SplitState
  /\ s.bytes = CostOf(s.current) /\ s.bytes <= ChunkBytes
  /\ Readable(s.current, es, n)
  /\ \A j \in DOMAIN s.chunks : Readable(s.chunks[j], es, n)

\* The limits of a read list hold for a longer prefix too.
LEMMA ReadableLonger ==
  ASSUME NEW c, NEW es, NEW n \in Nat, NEW m \in Nat, n <= m, Readable(c, es, n)
  PROVE  Readable(c, es, m)
<1>1. c \in Seq(Element) /\ Len(c) <= n
  BY DEF Readable
<1>2. Len(c) \in Nat
  BY <1>1
<1>3. Len(c) <= m
  BY <1>1, <1>2
<1> QED
  BY <1>3 DEF Readable

\* A chunk more.
LEMMA ChunkAppend ==
  ASSUME NEW cs \in Seq(Seq(Element)), NEW c \in Seq(Element), NEW es, NEW n,
         \A j \in DOMAIN cs : Readable(cs[j], es, n),
         Readable(c, es, n)
  PROVE  /\ Append(cs, c) \in Seq(Seq(Element))
         /\ \A j \in DOMAIN Append(cs, c) : Readable(Append(cs, c)[j], es, n)
         /\ \A x : InSome(x, Append(cs, c)) <=> InSome(x, cs) \/ x \in Members(c)
<1>1. /\ Append(cs, c) \in Seq(Seq(Element)) /\ Len(cs) \in Nat /\ DOMAIN cs = 1..Len(cs)
      /\ DOMAIN Append(cs, c) = 1..(Len(cs) + 1)
      /\ \A j \in 1..Len(cs) : Append(cs, c)[j] = cs[j]
      /\ Append(cs, c)[Len(cs) + 1] = c
  OBVIOUS
<1>2. \A j \in 1..(Len(cs) + 1) : j \in 1..Len(cs) \/ j = Len(cs) + 1
  BY <1>1
<1>3. Len(cs) + 1 \in 1..(Len(cs) + 1) /\ \A j \in 1..Len(cs) : j \in 1..(Len(cs) + 1)
  BY <1>1
<1>4. \A j \in DOMAIN Append(cs, c) : Readable(Append(cs, c)[j], es, n)
  BY <1>1, <1>2
<1>5. ASSUME NEW x PROVE InSome(x, Append(cs, c)) <=> InSome(x, cs) \/ x \in Members(c)
  BY <1>1, <1>2, <1>3 DEF InSome
<1> QED
  BY <1>1, <1>4, <1>5

\* The state after a flush.
LEMMA FreshGood ==
  ASSUME NEW cs \in Seq(Seq(Element)), NEW es, NEW n \in Nat,
         \A j \in DOMAIN cs : Readable(cs[j], es, n)
  PROVE  /\ SplitGood(Fresh(cs), es, n)
         /\ \A x : Held(x, Fresh(cs)) <=> InSome(x, cs)
         /\ Fresh(cs).bytes = 0 /\ Fresh(cs).chunks = cs
<1> DEFINE f == Fresh(cs)
<1>1. f = [chunks |-> cs, current |-> <<>>, bytes |-> 0]
  BY DEF Fresh
<1> HIDE DEF f
<1>2. <<>> \in Seq(Element) /\ Members(<<>>) = {} /\ Len(<<>>) = 0
  BY DEF Members
<1>3. f \in SplitState /\ f.current = <<>> /\ f.bytes = 0 /\ f.chunks = cs
  BY <1>1, <1>2 DEF SplitState
<1>4. Readable(f.current, es, n) /\ f.bytes = CostOf(f.current) /\ f.bytes <= ChunkBytes
  BY <1>2, <1>3, CostAppend, CodecAssumption DEF Readable
<1>5. \A x : Held(x, f) <=> InSome(x, cs)
  BY <1>2, <1>3 DEF Held
<1>6. SplitGood(f, es, n)
  BY <1>3, <1>4 DEF SplitGood
<1> QED
  BY <1>3, <1>5, <1>6 DEF f

\* Flushing the collected elements into a chunk loses none.
LEMMA FlushGood ==
  ASSUME NEW es, NEW n \in Nat, NEW s, SplitGood(s, es, n)
  PROVE  /\ SplitGood(Flush(s), es, n) /\ Flush(s).bytes = 0
         /\ \A x : Held(x, Flush(s)) <=> Held(x, s)
         /\ \A x : InSome(x, Flush(s).chunks) <=> Held(x, s)
<1>1. s.current \in Seq(Element) /\ s.chunks \in Seq(Seq(Element))
  BY DEF SplitGood, SplitState
<1>2. CASE s.current = <<>>
  <2>1. Flush(s) = s
    BY <1>2 DEF Flush
  <2>2. s.bytes = 0
    BY <1>2, CostAppend DEF SplitGood
  <2>3. \A x : InSome(x, s.chunks) <=> Held(x, s)
    BY <1>2 DEF Held, Members
  <2> QED
    BY <2>1, <2>2, <2>3
<1>3. CASE s.current # <<>>
  <2> DEFINE cs == Append(s.chunks, s.current)
  <2>1. Flush(s) = Fresh(cs)
    BY <1>3 DEF Flush
  <2>2. /\ cs \in Seq(Seq(Element))
        /\ \A j \in DOMAIN cs : Readable(cs[j], es, n)
        /\ \A x : InSome(x, cs) <=> InSome(x, s.chunks) \/ x \in Members(s.current)
    <3>1. Readable(s.current, es, n) /\ \A j \in DOMAIN s.chunks : Readable(s.chunks[j], es, n)
      BY DEF SplitGood
    <3> QED
      BY <1>1, <3>1, ChunkAppend
  <2> HIDE DEF cs
  <2>3. /\ SplitGood(Fresh(cs), es, n) /\ Fresh(cs).bytes = 0 /\ Fresh(cs).chunks = cs
        /\ \A x : Held(x, Fresh(cs)) <=> InSome(x, cs)
    BY <2>2, FreshGood
  <2>4. \A x : InSome(x, cs) <=> Held(x, s)
    BY <2>2 DEF Held
  <2> QED
    BY <2>1, <2>3, <2>4
<1> QED
  BY <1>2, <1>3

\* An element that fits is collected.
LEMMA PutGood ==
  ASSUME NEW es, NEW n \in Nat, NEW s, SplitGood(s, es, n),
         NEW e \in Element, e \in Members(es), s.bytes + (e.size + 2) <= ChunkBytes
  PROVE  /\ SplitGood(Put(s, e, e.size + 2), es, n + 1)
         /\ \A x : Held(x, Put(s, e, e.size + 2)) <=> Held(x, s) \/ x = e
<1> DEFINE p == Put(s, e, e.size + 2)
<1>1. /\ s.current \in Seq(Element) /\ s.bytes \in Nat
      /\ s.chunks \in Seq(Seq(Element)) /\ e.size \in Nat
      /\ s.bytes = CostOf(s.current) /\ Len(s.current) <= n
      /\ Members(s.current) \subseteq Members(es)
      /\ \A j \in DOMAIN s.chunks : Readable(s.chunks[j], es, n)
  BY DEF SplitGood, SplitState, Element, Readable
<1>2. p = [chunks |-> s.chunks, current |-> Append(s.current, e), bytes |-> s.bytes + (e.size + 2)]
  BY DEF Put
<1> HIDE DEF p
<1>3. /\ Append(s.current, e) \in Seq(Element)
      /\ Members(Append(s.current, e)) = Members(s.current) \cup {e}
  BY <1>1, MembersAppend
<1>4. /\ p \in SplitState /\ p.chunks = s.chunks /\ p.current = Append(s.current, e)
      /\ p.bytes = s.bytes + (e.size + 2)
  BY <1>1, <1>2, <1>3 DEF SplitState
<1>5. p.bytes = CostOf(p.current) /\ p.bytes <= ChunkBytes
  BY <1>1, <1>4, CostAppend
<1>6. Len(p.current) <= n + 1
  BY <1>1, <1>4
<1>7. Readable(p.current, es, n + 1)
  BY <1>1, <1>3, <1>4, <1>5, <1>6 DEF Readable
<1>8. \A j \in DOMAIN p.chunks : Readable(p.chunks[j], es, n + 1)
  <2>1. n <= n + 1 /\ n + 1 \in Nat
    OBVIOUS
  <2> QED
    BY <1>1, <1>4, <2>1, ReadableLonger
<1>9. \A x : Held(x, p) <=> Held(x, s) \/ x = e
  BY <1>3, <1>4 DEF Held
<1> QED
  BY <1>4, <1>5, <1>7, <1>8, <1>9 DEF p, SplitGood

\* Every element finds a place.
LEMMA PlaceGood ==
  ASSUME NEW es, NEW n \in Nat, NEW s, SplitGood(s, es, n),
         NEW e \in Element, e \in Members(es)
  PROVE  /\ SplitGood(Place(s, e, e.size + 2), es, n + 1)
         /\ \A x : Held(x, Place(s, e, e.size + 2)) <=> Held(x, s) \/ x = e
<1> PICK c \in Nat : c = e.size + 2
  BY DEF Element
<1>1. s.bytes \in Nat /\ ChunkBytes \in Nat
  BY CodecAssumption DEF SplitGood, SplitState
<1>2. CASE c > ChunkBytes
  <2> DEFINE f  == Flush(s)
             cs == Append(f.chunks, <<e>>)
  <2>1. Place(s, e, c) = Fresh(cs)
    BY <1>1, <1>2 DEF Place
  <2>2. SplitGood(f, es, n) /\ \A x : InSome(x, f.chunks) <=> Held(x, s)
    BY FlushGood
  <2> HIDE DEF f
  <2>3. n <= n + 1 /\ n + 1 \in Nat
    OBVIOUS
  <2>4. f.chunks \in Seq(Seq(Element)) /\ \A j \in DOMAIN f.chunks : Readable(f.chunks[j], es, n + 1)
    BY <2>2, <2>3, ReadableLonger DEF SplitGood, SplitState
  <2>5. <<e>> \in Seq(Element) /\ Members(<<e>>) = {e} /\ Len(<<e>>) = 1
    BY DEF Members
  <2>6. Readable(<<e>>, es, n + 1)
    BY <2>5 DEF Readable
  <2>7. /\ cs \in Seq(Seq(Element))
        /\ \A j \in DOMAIN cs : Readable(cs[j], es, n + 1)
        /\ \A x : InSome(x, cs) <=> InSome(x, f.chunks) \/ x \in Members(<<e>>)
    BY <2>4, <2>5, <2>6, ChunkAppend
  <2> HIDE DEF cs
  <2>8. /\ SplitGood(Fresh(cs), es, n + 1)
        /\ \A x : Held(x, Fresh(cs)) <=> InSome(x, cs)
    BY <2>3, <2>7, FreshGood
  <2> QED
    BY <2>1, <2>2, <2>5, <2>7, <2>8
<1>3. CASE c <= ChunkBytes /\ s.bytes + c > ChunkBytes
  <2>1. Place(s, e, c) = Put(Flush(s), e, c)
    BY <1>1, <1>3 DEF Place
  <2>2. /\ SplitGood(Flush(s), es, n) /\ Flush(s).bytes = 0
        /\ \A x : Held(x, Flush(s)) <=> Held(x, s)
    BY FlushGood
  <2>3. Flush(s).bytes + (e.size + 2) <= ChunkBytes
    BY <1>1, <1>3, <2>2
  <2> QED
    BY <2>1, <2>2, <2>3, PutGood
<1>4. CASE c <= ChunkBytes /\ s.bytes + c <= ChunkBytes
  <2>1. Place(s, e, c) = Put(s, e, c)
    BY <1>1, <1>4 DEF Place
  <2>2. s.bytes + (e.size + 2) <= ChunkBytes
    BY <1>4
  <2> QED
    BY <2>1, <2>2, PutGood
<1> QED
  BY <1>1, <1>2, <1>3, <1>4

\* A step of the loop gives a state again.
LEMMA PlaceType ==
  ASSUME NEW s \in SplitState, NEW e \in Element, NEW n \in Nat
  PROVE  Place(s, e, n) \in SplitState
<1>1. /\ s.current \in Seq(Element) /\ s.bytes \in Nat /\ s.chunks \in Seq(Seq(Element))
      /\ ChunkBytes \in Nat
  BY CodecAssumption DEF SplitState
<1>2. \A cs \in Seq(Seq(Element)) : Fresh(cs) \in SplitState
  BY DEF Fresh, SplitState
<1>3. Flush(s) \in SplitState
  <2>1. Append(s.chunks, s.current) \in Seq(Seq(Element))
    BY <1>1
  <2> QED
    BY <1>2, <2>1 DEF Flush
<1>4. ASSUME NEW t \in SplitState PROVE Put(t, e, n) \in SplitState
  <2>1. t.chunks \in Seq(Seq(Element)) /\ Append(t.current, e) \in Seq(Element) /\ t.bytes + n \in Nat
    BY DEF SplitState
  <2> QED
    BY <2>1 DEF Put, SplitState
<1>5. Append(Flush(s).chunks, <<e>>) \in Seq(Seq(Element))
  <2>1. Flush(s).chunks \in Seq(Seq(Element)) /\ <<e>> \in Seq(Element)
    BY <1>3 DEF SplitState
  <2> QED
    BY <2>1
<1>6. n > ChunkBytes \/ (n <= ChunkBytes /\ s.bytes + n > ChunkBytes)
        \/ (n <= ChunkBytes /\ s.bytes + n <= ChunkBytes)
  BY <1>1
<1>7. Place(s, e, n) \in {Fresh(Append(Flush(s).chunks, <<e>>)), Put(Flush(s), e, n), Put(s, e, n)}
  BY <1>1, <1>6 DEF Place
<1> QED
  BY <1>2, <1>3, <1>4, <1>5, <1>7

\* The chunks of a list hold its elements and no others, and each of them can
\* be one read list.
LEMMA SplitDef ==
  ASSUME NEW es \in Seq(Element)
  PROVE  /\ splitArchiveReadList(es) \in Seq(Seq(Element))
         /\ \A j \in DOMAIN splitArchiveReadList(es) :
              Readable(splitArchiveReadList(es)[j], es, Len(es))
         /\ \A x : InSome(x, splitArchiveReadList(es)) <=> x \in Members(es)
<1> PICK n \in Nat : n = Len(es)
  OBVIOUS
<1> PICK c \in Seq(Nat) : c = Costs(es)
  BY CostAppend
<1>1. /\ DOMAIN es = 1..n /\ Len(c) = n
      /\ \A i \in 1..n : es[i] \in Element /\ c[i] = es[i].size + 2
      /\ \A i \in 1..n : c[i] \in Nat /\ es[i] \in Members(es)
  <2>1. Len(c) = n /\ \A i \in 1..n : c[i] = es[i].size + 2
    BY CostAppend
  <2>2. DOMAIN es = 1..n /\ \A i \in 1..n : es[i] \in Element /\ es[i] \in Members(es)
    BY DEF Members
  <2>3. \A i \in 1..n : c[i] \in Nat
    BY <2>1
  <2> QED
    BY <2>1, <2>2, <2>3
<1> DEFINE G == [p \in SplitState \X (1..n) |-> Place(p[1], es[p[2]], c[p[2]])]
           Eq(f) == f = [i \in 0..n |-> IF i = 0 THEN Fresh(<<>>)
                                        ELSE Place(f[i - 1], es[i], c[i])]
<1>2. /\ <<>> \in Seq(Seq(Element)) /\ DOMAIN <<>> = {}
      /\ SplitGood(Fresh(<<>>), es, 0) /\ Fresh(<<>>) \in SplitState
      /\ \A x : ~Held(x, Fresh(<<>>))
  <2>1. <<>> \in Seq(Seq(Element)) /\ DOMAIN <<>> = {} /\ 0 \in Nat
    OBVIOUS
  <2> PICK cs \in Seq(Seq(Element)) : cs = <<>> /\ DOMAIN cs = {}
    BY <2>1
  <2>2. SplitGood(Fresh(cs), es, 0) /\ \A x : Held(x, Fresh(cs)) <=> InSome(x, cs)
    BY <2>1, FreshGood
  <2> QED
    BY <2>1, <2>2 DEF SplitGood, InSome
<1>3. G \in [SplitState \X (1..n) -> SplitState]
  <2>1. \A s \in SplitState, i \in 1..n : Place(s, es[i], c[i]) \in SplitState
    BY <1>1, PlaceType
  <2>2. \A p \in SplitState \X (1..n) : p[1] \in SplitState /\ p[2] \in 1..n
    OBVIOUS
  <2> QED
    BY <2>1, <2>2
<1>4. PICK f : Iterates(f, SplitState, Fresh(<<>>), G, n)
  <2> HIDE DEF G
  <2> QED
    BY <1>2, <1>3, Recursion, Zenon
<1>5. Eq(f)
  <2> SUFFICES ASSUME NEW i \in 0..n
               PROVE  f[i] = IF i = 0 THEN Fresh(<<>>) ELSE Place(f[i - 1], es[i], c[i])
    BY <1>4 DEF Iterates
  <2>1. CASE i = 0
    BY <1>4, <2>1 DEF Iterates
  <2>2. CASE i # 0
    <3>1. i \in 1..n /\ i - 1 \in 0..n
      BY <2>2
    <3>2. f[i - 1] \in SplitState
      BY <1>4, <3>1 DEF Iterates
    <3>3. f[i] = G[<<f[i - 1], i>>]
      BY <1>4, <2>2, Zenon DEF Iterates
    <3>4. G[<<f[i - 1], i>>] = Place(f[i - 1], es[i], c[i])
      BY <3>1, <3>2
    <3> QED
      BY <2>2, <3>3, <3>4
  <2> QED
    BY <2>1, <2>2
<1>6. Placed(es, c) = CHOOSE g : Eq(g)
  BY DEF Placed
<1> HIDE DEF Eq
<1>7. PICK g : Eq(g) /\ Placed(es, c) = g
  BY <1>5, <1>6, Zenon
<1> DEFINE Good(i) == /\ SplitGood(g[i], es, i)
                      /\ \A x : Held(x, g[i]) <=> \E k \in 1..i : x = es[k]
           S == {i \in 0..n : Good(i)}
<1>8. 0 \in S
  <2>1. 0 \in 0..n /\ 1..0 = {}
    OBVIOUS
  <2>2. g[0] = Fresh(<<>>)
    BY <1>7, <2>1 DEF Eq
  <2> QED
    BY <1>2, <2>1, <2>2
<1>9. ASSUME NEW i \in 1..n, i - 1 \in S PROVE i \in S
  <2>1. i # 0 /\ i \in 0..n /\ i - 1 \in Nat /\ (i - 1) + 1 = i
    OBVIOUS
  <2>2. g[i] = Place(g[i - 1], es[i], es[i].size + 2)
    BY <1>1, <1>7, <2>1 DEF Eq
  <2>3. SplitGood(g[i - 1], es, i - 1) /\ \A x : Held(x, g[i - 1]) <=> \E k \in 1..(i - 1) : x = es[k]
    BY <1>9
  <2>4. SplitGood(g[i], es, i) /\ \A x : Held(x, g[i]) <=> Held(x, g[i - 1]) \/ x = es[i]
    <3>1. /\ SplitGood(Place(g[i - 1], es[i], es[i].size + 2), es, (i - 1) + 1)
          /\ \A x : Held(x, Place(g[i - 1], es[i], es[i].size + 2))
                      <=> Held(x, g[i - 1]) \/ x = es[i]
      BY <1>1, <2>1, <2>3, PlaceGood
    <3> QED
      BY <2>1, <2>2, <3>1
  <2>5. \A k : k \in 1..i <=> k \in 1..(i - 1) \/ k = i
    OBVIOUS
  <2>6. \A x : Held(x, g[i]) <=> \E k \in 1..i : x = es[k]
    BY <2>3, <2>4, <2>5
  <2> QED
    BY <2>1, <2>4, <2>6
<1> HIDE DEF S
<1>10. 0..n \subseteq S
  BY <1>8, <1>9, UpTo
<1>11. Good(n)
  <2>1. n \in 0..n
    BY <1>1
  <2>2. n \in S
    BY <1>10, <2>1
  <2> QED
    BY <2>2 DEF S
<1> DEFINE cs == Flush(g[n]).chunks
<1>12. splitArchiveReadList(es) = cs
  BY <1>7 DEF splitArchiveReadList
<1>13. SplitGood(Flush(g[n]), es, n) /\ \A x : InSome(x, cs) <=> Held(x, g[n])
  BY <1>11, FlushGood
<1>14. \A x : InSome(x, cs) <=> x \in Members(es)
  BY <1>1, <1>11, <1>13 DEF Members
<1>15. cs \in Seq(Seq(Element)) /\ \A j \in DOMAIN cs : Readable(cs[j], es, n)
  BY <1>13 DEF SplitGood, SplitState
<1> QED
  BY <1>12, <1>14, <1>15

(***************************************************************************)
(* Values.                                                                 *)
(***************************************************************************)

\* One of four values.
LEMMA OneOfFour ==
  ASSUME NEW a, NEW b, NEW c, NEW d, NEW k \in 1..4
  PROVE  <<a, b, c, d>>[k] \in {a, b, c, d}
<1>1. k = 1 \/ k = 2 \/ k = 3 \/ k = 4
  OBVIOUS
<1> QED
  BY <1>1

\* The value of an element is one of its samples.
LEMMA ValueIsSample ==
  ASSUME NEW e \in Element, meter.turn \in 0..3
  PROVE  ((e.addr + meter.turn) % 4) + 1 \in 1..4
<1>1. e.addr + meter.turn \in Nat
  BY DEF Element
<1>2. \A n \in Nat : (n % 4) + 1 \in 1..4
  OBVIOUS
<1> QED
  BY <1>1, <1>2

\* The kinds of elements exclude one another.
LEMMA Kinds ==
  /\ Text \cap Counters = {} /\ Text \cap Floats = {} /\ Text \cap Digits = {}
  /\ Counters \cap Floats = {} /\ Counters \cap Digits = {} /\ Floats \cap Digits = {}
BY DEF Text, Counters, Floats, Digits

\* The small numbers among the samples have room.
LEMMA Rooms ==
  /\ Radix \in Nat /\ Radix >= 4
  /\ Power[1] = Radix /\ Power[2] = Radix * Radix
  /\ Power[2] \in Nat /\ Radix < Power[2] /\ 5 < Power[2]
  /\ Power[3] \in Nat /\ Power[4] \in Nat
  /\ Power[4] \div 2 - Power[3] \div 2 \in 1..(Power[4] - 1)
<1>1. Radix \in Nat /\ Radix >= 4
  BY CodecAssumption
<1>2. /\ Power[0] = 1 /\ Power[1] = Radix * Power[0] /\ Power[2] = Radix * Power[1]
      /\ Power[3] = Radix * Power[2] /\ Power[4] = Radix * Power[3]
      /\ Power[2] \in Nat /\ Power[3] \in Nat /\ Power[4] \in Nat /\ Power[3] > 0
  BY PowerDef
<1>3. Power[1] = Radix /\ Power[2] = Radix * Radix
  BY <1>1, <1>2
<1>4. \A r \in Nat : r >= 4 => r < r * r /\ 5 < r * r
  OBVIOUS
<1>5. Power[4] >= 4 * Power[3]
  <2>1. \A r, p \in Nat : r >= 4 => r * p >= 4 * p
    OBVIOUS
  <2> QED
    BY <1>1, <1>2, <2>1
<1>6. \A p, q \in Nat : q > 0 /\ p >= 4 * q => p \div 2 - q \div 2 \in 1..(p - 1)
  OBVIOUS
<1> QED
  BY <1>1, <1>2, <1>3, <1>4, <1>5, <1>6

\* What the meter sends for an element of text comes back.
LEMMA TextRoundTrip ==
  ASSUME NEW e \in Element, meter.turn \in 0..3, e.addr \in Text
  PROVE  /\ Encoded(e) \in Seq(Int) /\ Len(Encoded(e)) = e.size
         /\ decodeElementValue(e.addr, Encoded(e)) = Value(e)
<1> PICK k \in Nat : k = e.size
  BY DEF Element
<1>1. PICK i \in 1..4 : i = ((e.addr + meter.turn) % 4) + 1
  BY ValueIsSample
<1>0. e.addr \in Text /\ e.addr \notin Counters /\ e.addr \notin Floats /\ e.addr \notin Digits
  BY Kinds
<1> DEFINE mixed  == [j \in 1..k |-> IF j % 3 = 0 THEN Radix \div 2 ELSE Radix - 1]
           paired == [j \in 1..k |-> IF j % 2 = 0 THEN Radix \div 2 ELSE Radix - 1]
<1>2. Samples(e.addr, k) = << [j \in 1..k |-> (j % 2) + 1], mixed, paired, [j \in 1..k |-> 0] >>
  BY <1>0 DEF Samples
<1>3. Value(e) \in {[j \in 1..k |-> (j % 2) + 1], mixed, paired, [j \in 1..k |-> 0]}
  BY <1>1, <1>2, OneOfFour DEF Value
<1>4. Value(e) \in Seq(Int) /\ Len(Value(e)) = k
  <2>1. \A j \in 1..k : (j % 2) + 1 \in Int /\ Radix - 1 \in Int /\ Radix \div 2 \in Int
    BY CodecAssumption
  <2>2. \A f : f = [j \in 1..k |-> (j % 2) + 1] => f \in Seq(Int) /\ Len(f) = k
    BY <2>1
  <2>3. \A f : f = mixed => f \in Seq(Int) /\ Len(f) = k
    BY <2>1
  <2>4. \A f : f = paired => f \in Seq(Int) /\ Len(f) = k
    BY <2>1
  <2>5. \A f : f = [j \in 1..k |-> 0] => f \in Seq(Int) /\ Len(f) = k
    OBVIOUS
  <2> QED
    BY <1>3, <2>2, <2>3, <2>4, <2>5, Zenon
<1>5. Decodes(e.addr, e.size)
  BY <1>0 DEF Decodes
<1>6. Encoded(e) = Value(e)
  BY <1>0, <1>5 DEF Encoded
<1>7. decodeElementValue(e.addr, Encoded(e)) = Encoded(e)
  BY <1>0 DEF decodeElementValue
<1> QED
  BY <1>4, <1>6, <1>7

\* Five numbers of two bytes come back.
LEMMA CountersRoundTrip ==
  ASSUME NEW e \in Element, meter.turn \in 0..3, e.addr \in Counters, Decodes(e.addr, e.size)
  PROVE  /\ Encoded(e) \in Seq(Int) /\ Len(Encoded(e)) = e.size
         /\ decodeElementValue(e.addr, Encoded(e)) = Value(e)
<1>1. PICK i \in 1..4 : i = ((e.addr + meter.turn) % 4) + 1
  BY ValueIsSample
<1>0. e.addr \notin Text /\ e.addr \in Counters /\ e.addr \notin Floats /\ e.addr \notin Digits
  BY Kinds
<1>2. e.addr \notin Text /\ e.size = 10
  BY <1>0 DEF Decodes
<1>3. Samples(e.addr, e.size) = << [j \in 1..5 |-> j], [j \in 1..5 |-> Radix],
                                  [j \in 1..5 |-> Power[2] - j], [j \in 1..5 |-> 0] >>
  BY <1>0 DEF Samples
<1>4. Value(e) \in {[j \in 1..5 |-> j], [j \in 1..5 |-> Radix],
                    [j \in 1..5 |-> Power[2] - j], [j \in 1..5 |-> 0]}
  BY <1>1, <1>3, OneOfFour DEF Value
<1>5. Value(e) \in [1..5 -> 0..(Power[2] - 1)]
  <2>1. \A j \in 1..5 : /\ j \in 0..(Power[2] - 1) /\ Radix \in 0..(Power[2] - 1)
                        /\ Power[2] - j \in 0..(Power[2] - 1) /\ 0 \in 0..(Power[2] - 1)
    BY Rooms
  <2> QED
    BY <1>4, <2>1
<1> PICK v \in [1..5 -> 0..(Power[2] - 1)] : v = Value(e)
  BY <1>5
<1> DEFINE ss == [j \in 1..5 |-> PutUint(v[j], 2)]
<1>6. \A j \in 1..5 : /\ PutUint(v[j], 2) \in Seq(Int) /\ Len(PutUint(v[j], 2)) = 2
                      /\ LittleEndian(PutUint(v[j], 2)) = v[j]
  <2> SUFFICES ASSUME NEW j \in 1..5
               PROVE  /\ PutUint(v[j], 2) \in Seq(Int) /\ Len(PutUint(v[j], 2)) = 2
                      /\ LittleEndian(PutUint(v[j], 2)) = v[j]
    OBVIOUS
  <2>1. v[j] \in 0..(Power[2] - 1) /\ v[j] \in Int /\ 2 \in 0..8
    BY Rooms
  <2> QED
    BY <2>1, PutUintDef, PutUintFits
<1>7. Encoded(e) = FlattenSeq(ss)
  BY <1>2 DEF Encoded
<1>8. /\ ss \in Seq(Seq(Int)) /\ Len(ss) = 5 /\ DOMAIN ss = 1..5
      /\ \A j \in 1..5 : ss[j] = PutUint(v[j], 2)
  BY <1>6
<1> HIDE DEF ss
<1>9. /\ Lens(ss) \in Seq(Int) /\ Len(Lens(ss)) = 5
      /\ FlattenSeq(ss) \in Seq(Int) /\ Len(FlattenSeq(ss)) = Sums(Lens(ss))[5]
      /\ \A j \in 1..5 : \A h \in 1..Len(ss[j]) :
           FlattenSeq(ss)[Sums(Lens(ss))[j - 1] + h] = ss[j][h]
  <2>1. ss \in Seq(Seq(Int))
    BY <1>8
  <2>2. /\ Lens(ss) \in Seq(Int) /\ Len(Lens(ss)) = Len(ss)
        /\ FlattenSeq(ss) \in Seq(Int) /\ Len(FlattenSeq(ss)) = Sums(Lens(ss))[Len(ss)]
        /\ \A j \in DOMAIN ss : \A h \in 1..Len(ss[j]) :
             FlattenSeq(ss)[Sums(Lens(ss))[j - 1] + h] = ss[j][h]
    BY <2>1, FlattenDef
  <2>3. Len(ss) = 5 /\ DOMAIN ss = 1..5
    BY <1>8
  <2> QED
    BY <2>2, <2>3, Zenon
<1>10. \A j \in 0..5 : Sums(Lens(ss))[j] = 2 * j
  <2> PICK L \in Seq(Int) : L = Lens(ss) /\ Len(L) = 5
    BY <1>9
  <2>1. \A j \in 1..Len(L) : L[j] = 2
    BY <1>6, <1>8 DEF Lens
  <2>2. \A j \in 0..Len(L) : Sums(L)[j] = 2 * j
    BY <2>1, SumsConstant
  <2> QED
    BY <2>2
<1>14. Encoded(e) \in Seq(Int) /\ Len(Encoded(e)) = 10
  <2>1. Sums(Lens(ss))[5] = 10
    BY <1>10
  <2> QED
    BY <1>7, <1>9, <2>1
<1> PICK raw \in Seq(Int) : raw = Encoded(e) /\ Len(raw) = 10
  BY <1>14
<1>11. ASSUME NEW j \in 1..5
       PROVE  LittleEndian(SubSeq(raw, 2 * j - 1, 2 * j)) = v[j]
  <2> PICK a \in Nat : a = 2 * (j - 1) /\ a + 2 <= 10
    OBVIOUS
  <2> PICK t \in Seq(Int) : t = PutUint(v[j], 2) /\ Len(t) = 2
    BY <1>6
  <2>1. \A h \in 1..Len(t) : raw[a + h] = t[h]
    <3>1. j - 1 \in 0..5 /\ Len(ss[j]) = 2
      BY <1>6, <1>8
    <3>2. Sums(Lens(ss))[j - 1] = a
      BY <1>10, <3>1
    <3>3. \A h \in 1..2 : FlattenSeq(ss)[Sums(Lens(ss))[j - 1] + h] = ss[j][h]
      BY <1>9, <3>1, Zenon
    <3>4. ss[j] = t /\ raw = FlattenSeq(ss) /\ Len(t) = 2
      BY <1>7, <1>8, Zenon
    <3> QED
      BY <3>2, <3>3, <3>4, Zenon
  <2>2. SubSeq(raw, a + 1, a + Len(t)) = t
    BY <2>1, Window
  <2>3. a + 1 = 2 * j - 1 /\ a + 2 = 2 * j
    OBVIOUS
  <2> QED
    BY <1>6, <2>2, <2>3
<1>12. decodeElementValue(e.addr, raw) =
         [j \in 1..5 |-> LittleEndian(SubSeq(raw, 2 * j - 1, 2 * j))]
  BY <1>0 DEF decodeElementValue
<1>13. v = [j \in 1..5 |-> v[j]]
  OBVIOUS
<1> QED
  BY <1>2, <1>11, <1>12, <1>13

\* A float, a digit and a signed number come back.
LEMMA NumberRoundTrip ==
  ASSUME NEW e \in Element, meter.turn \in 0..3,
         e.addr \notin Text, e.addr \notin Counters, Decodes(e.addr, e.size)
  PROVE  /\ Encoded(e) \in Seq(Int) /\ Len(Encoded(e)) = e.size
         /\ decodeElementValue(e.addr, Encoded(e)) = Value(e)
<1> PICK k \in Nat : k = e.size
  BY DEF Element
<1>1. PICK i \in 1..4 : i = ((e.addr + meter.turn) % 4) + 1
  BY ValueIsSample
<1>2. Encoded(e) = PutUint(Value(e), k)
  BY DEF Encoded
<1>3. CASE e.addr \in Floats
  <2> DEFINE infinite == Power[4] \div 2 - Power[3] \div 2
  <2>1. k = 4
    BY <1>3, Kinds DEF Decodes
  <2>2. Samples(e.addr, k) = << 0, MinusZero, infinite - 1, infinite >>
    BY <1>3, Kinds DEF Samples, infinite
  <2>3. Value(e) \in {0, MinusZero, infinite - 1, infinite}
    BY <1>1, <2>2, OneOfFour DEF Value
  <2>4. /\ infinite \in 1..(Power[4] - 1) /\ Power[4] \in Nat
        /\ MinusZero \in 0..(Power[4] - 1)
    <3>1. \A p \in Nat : p > 0 => p \div 2 \in 0..(p - 1)
      OBVIOUS
    <3>2. infinite \in 1..(Power[4] - 1) /\ Power[4] \in Nat /\ Power[4] > 0
      BY Rooms, PowerDef
    <3> HIDE DEF infinite
    <3> QED
      BY <3>1, <3>2 DEF MinusZero
  <2> HIDE DEF infinite
  <2>5. Value(e) \in 0..(Power[4] - 1) /\ Value(e) \in Int
    BY <2>3, <2>4
  <2>6. 4 \in 0..8
    OBVIOUS
  <2>7. decodeElementValue(e.addr, Encoded(e)) = LittleEndian(Encoded(e))
    BY <1>3, Kinds DEF decodeElementValue
  <2>8. PutUint(Value(e), 4) \in Seq(Int) /\ Len(PutUint(Value(e), 4)) = 4
    BY <2>5, <2>6, PutUintDef
  <2>9. LittleEndian(PutUint(Value(e), 4)) = Value(e)
    BY <2>5, <2>6, PutUintFits
  <2> QED
    BY <1>2, <2>1, <2>7, <2>8, <2>9
<1>4. CASE e.addr \in Digits
  <2>1. k = 1
    BY <1>4, Kinds DEF Decodes
  <2>2. Samples(e.addr, k) = << 0, 1, Radix \div 2, Radix - 1 >>
    BY <1>4, Kinds DEF Samples
  <2>3. Value(e) \in {0, 1, Radix \div 2, Radix - 1}
    BY <1>1, <2>2, OneOfFour DEF Value
  <2>4. Value(e) \in 0..(Radix - 1) /\ Value(e) \in Int
    BY <2>3, Rooms
  <2>5. 1 \in 0..8 /\ 1 \in 1..1
    OBVIOUS
  <2>6. /\ PutUint(Value(e), 1) \in Seq(Int) /\ Len(PutUint(Value(e), 1)) = 1
        /\ PutUint(Value(e), 1)[1] = (Value(e) \div Power[1 - 1]) % Radix
    BY <2>4, <2>5, PutUintDef
  <2>7. (Value(e) \div Power[1 - 1]) % Radix = Value(e)
    <3>1. \A x \in Int : x \div 1 = x
      OBVIOUS
    <3>2. \A x, r \in Int : 0 <= x /\ x < r => x % r = x
      OBVIOUS
    <3>3. Power[1 - 1] = 1 /\ Radix \in Int
      BY Rooms, PowerDef
    <3>4. Value(e) \in Int /\ 0 <= Value(e) /\ Value(e) < Radix
      BY <2>4, <3>3
    <3> QED
      BY <3>1, <3>2, <3>3, <3>4
  <2>8. decodeElementValue(e.addr, Encoded(e)) = Encoded(e)[1]
    BY <1>4, Kinds DEF decodeElementValue
  <2> QED
    BY <1>2, <2>1, <2>6, <2>7, <2>8
<1>5. CASE e.addr \notin Floats /\ e.addr \notin Digits
  <2>1. k \in 1..8
    BY <1>5 DEF Decodes, WordBytes
  <2>2. Samples(e.addr, k) = << 0, -1, Power[k] \div 2 - 1, -(Power[k] \div 2) >>
    BY <1>5 DEF Samples
  <2>3. Value(e) \in {0, -1, Power[k] \div 2 - 1, -(Power[k] \div 2)}
    BY <1>1, <2>2, OneOfFour DEF Value
  <2>4. Power[k] \in Nat /\ Power[k] >= 4
    BY <2>1, PowerDef, PowersGrow
  <2>5. \A p \in Nat : p >= 4 => p \div 2 \in Nat /\ p \div 2 >= 2
    OBVIOUS
  <2>6. Value(e) \in Int /\ -(Power[k] \div 2) <= Value(e) /\ Value(e) < Power[k] \div 2
    BY <2>3, <2>4, <2>5
  <2>7. decodeElementValue(e.addr, Encoded(e)) = decodeSignedInt(Encoded(e))
    BY <1>5 DEF decodeElementValue
  <2>8. k \in 0..8
    BY <2>1
  <2>9. PICK x \in Int : x = Value(e)
    BY <2>6
  <2>10. -(Power[k] \div 2) <= x /\ x < Power[k] \div 2
    BY <2>6, <2>9, Zenon
  <2>11. decodeSignedInt(PutUint(x, k)) = x
    BY <2>1, <2>10, SignedRoundTrip
  <2>12. PutUint(x, k) \in Seq(Int) /\ Len(PutUint(x, k)) = k
    BY <2>8, PutUintDef
  <2> QED
    BY <1>2, <2>7, <2>9, <2>11, <2>12, Zenon
<1> QED
  BY <1>3, <1>4, <1>5

\* Whatever the element, its value comes back if its size is that of its kind.
LEMMA ValueRoundTrip ==
  ASSUME NEW e \in Element, meter.turn \in 0..3
  PROVE  /\ Encoded(e) \in Seq(Int) /\ Len(Encoded(e)) = e.size
         /\ Decodes(e.addr, e.size) => decodeElementValue(e.addr, Encoded(e)) = Value(e)
<1>1. CASE ~Decodes(e.addr, e.size)
  <2>1. Encoded(e) = [i \in 1..e.size |-> 1] /\ e.size \in Nat
    BY <1>1 DEF Encoded, Element
  <2> QED
    BY <1>1, <2>1
<1>2. CASE Decodes(e.addr, e.size)
  BY <1>2, TextRoundTrip, CountersRoundTrip, NumberRoundTrip
<1> QED
  BY <1>1, <1>2

\* The JSON form of what the meter has of an element is its value, unless it
\* is one JSON cannot keep.
LEMMA ValueAsJson ==
  ASSUME NEW e \in Element, meter.turn \in 0..3, Decodes(e.addr, e.size),
         Lossless(e.addr, Value(e))
  PROVE  JsonValue(e.addr, Value(e)) = Value(e)
<1>1. CASE e.addr \in Text
  <2>1. decodeElementValue(e.addr, Encoded(e)) = Encoded(e)
    BY <1>1, Kinds DEF decodeElementValue
  <2>2. Value(e) \in Seq(Int)
    BY <2>1, ValueRoundTrip
  <2>3. PICK v \in Seq(Int) : v = Value(e)
    BY <2>2
  <2>4. \A j \in DOMAIN v : Covered(v, j)
    BY <1>1, <2>3, Kinds DEF Lossless, Utf8
  <2>5. JsonText(v) = [j \in DOMAIN v |-> v[j]]
    BY <2>4, Zenon DEF JsonText
  <2>6. [j \in DOMAIN v |-> v[j]] = v
    OBVIOUS
  <2>7. JsonValue(e.addr, v) = JsonText(v)
    BY <1>1, Kinds DEF JsonValue
  <2> QED
    BY <2>3, <2>5, <2>6, <2>7
<1>2. CASE e.addr \in Floats
  BY <1>2, Kinds DEF JsonValue, Lossless
<1>3. CASE e.addr \notin Text /\ e.addr \notin Floats
  BY <1>3 DEF JsonValue
<1> QED
  BY <1>1, <1>2, <1>3

(***************************************************************************)
(* Answers.                                                                *)
(***************************************************************************)

\* The elements of a list, one by one.
LEMMA ElementList ==
  ASSUME NEW es \in Seq(Element)
  PROVE  /\ Len(es) \in Nat /\ DOMAIN es = 1..Len(es)
         /\ \A i \in 1..Len(es) : /\ es[i] \in Element
                                 /\ es[i].size \in Nat /\ es[i].addr \in Nat
<1>1. \A e \in Element : e.size \in Nat /\ e.addr \in Nat
  BY DEF Element
<1>2. Len(es) \in Nat /\ DOMAIN es = 1..Len(es) /\ \A i \in 1..Len(es) : es[i] \in Element
  OBVIOUS
<1> QED
  BY <1>1, <1>2

\* What the meter sends for one element, and for each element of a list.
Piece(e)   == Encoded(e) \o <<Quality(e), NS(e)>>
Pieces(es) == [i \in DOMAIN es |-> Piece(es[i])]

\* A piece is the value, the quality and the NS.
LEMMA PieceDef ==
  ASSUME NEW e \in Element, meter.turn \in 0..3
  PROVE  /\ Piece(e) \in Seq(Int) /\ Len(Piece(e)) = e.size + 2
         /\ \A h \in 1..e.size : Piece(e)[h] = Encoded(e)[h]
         /\ Piece(e)[e.size + 1] = Quality(e) /\ Piece(e)[e.size + 2] = NS(e)
<1>k. PICK k \in Nat : k = e.size
  BY DEF Element
<1>v. PICK v \in Seq(Int) : v = Encoded(e) /\ Len(v) = k
  BY <1>k, ValueRoundTrip
<1>1. Quality(e) \in Int /\ NS(e) \in Int
  <2>1. e.addr \in Int /\ e.addr + 1 \in Int /\ Radix \in Int /\ Radix > 0
    BY CodecAssumption DEF Element
  <2>2. \A x \in Int : x % Radix \in Int
    BY <2>1
  <2> QED
    BY <2>1, <2>2 DEF Quality, NS
<1>q. PICK q \in Int : q = Quality(e)
  BY <1>1
<1>n. PICK n \in Int : n = NS(e)
  BY <1>1
<1>2. Piece(e) = v \o <<q, n>>
  BY <1>v, <1>q, <1>n DEF Piece
<1>3. /\ v \o <<q, n>> \in Seq(Int) /\ Len(v \o <<q, n>>) = k + 2
      /\ \A h \in 1..k : (v \o <<q, n>>)[h] = v[h]
      /\ (v \o <<q, n>>)[k + 1] = q /\ (v \o <<q, n>>)[k + 2] = n
  <2>1. /\ <<q, n>> \in Seq(Int) /\ Len(<<q, n>>) = 2
        /\ <<q, n>>[1] = q /\ <<q, n>>[2] = n /\ 1 \in 1..2 /\ 2 \in 1..2
    BY <1>q, <1>n
  <2>2. PICK t \in Seq(Int) : /\ t = <<q, n>> /\ Len(t) = 2 /\ t[1] = q /\ t[2] = n
                              /\ 1 \in 1..2 /\ 2 \in 1..2
    BY <2>1
  <2>3. /\ v \o t \in Seq(Int) /\ Len(v \o t) = Len(v) + Len(t)
        /\ \A h \in 1..Len(v) : (v \o t)[h] = v[h]
        /\ \A h \in 1..Len(t) : (v \o t)[Len(v) + h] = t[h]
    BY <1>v, <2>2, Joined
  <2> QED
    BY <1>v, <2>2, <2>3, Zenon
<1> QED
  BY <1>k, <1>v, <1>q, <1>n, <1>2, <1>3

\* In an answer each element has the place the sums of the costs give it.
LEMMA AnswerDef ==
  ASSUME NEW es \in Seq(Element), meter.turn \in 0..3
  PROVE  LET at == Sums(Costs(es))
         IN  /\ Answer(es) \in Seq(Int) /\ Len(Answer(es)) = CostOf(es)
             /\ \A i \in 1..Len(es) :
                  /\ at[i - 1] \in Nat /\ at[i] = at[i - 1] + es[i].size + 2
                  /\ at[i] \in Nat /\ at[i] <= CostOf(es)
                  /\ SubSeq(Answer(es), at[i - 1] + 1, at[i - 1] + es[i].size) = Encoded(es[i])
                  /\ Answer(es)[at[i - 1] + es[i].size + 1] = Quality(es[i])
                  /\ Answer(es)[at[i - 1] + es[i].size + 2] = NS(es[i])
<1> PICK n \in Nat : n = Len(es)
  OBVIOUS
<1>1. DOMAIN es = 1..n /\ \A i \in 1..n : es[i] \in Element /\ es[i].size \in Nat
  BY ElementList
<1>2. \A i \in 1..n : /\ Piece(es[i]) \in Seq(Int) /\ Len(Piece(es[i])) = es[i].size + 2
                      /\ \A h \in 1..es[i].size : Piece(es[i])[h] = Encoded(es[i])[h]
                      /\ Piece(es[i])[es[i].size + 1] = Quality(es[i])
                      /\ Piece(es[i])[es[i].size + 2] = NS(es[i])
  BY <1>1, PieceDef
<1>ss. PICK ss \in Seq(Seq(Int)) : /\ ss = Pieces(es) /\ Len(ss) = n /\ DOMAIN ss = 1..n
                                /\ \A i \in 1..n : ss[i] = Piece(es[i])
  <2>1. Pieces(es) = [i \in 1..n |-> Piece(es[i])]
    BY <1>1 DEF Pieces
  <2>2. \A i \in 1..n : Piece(es[i]) \in Seq(Int)
    BY <1>2
  <2>3. PICK f : f = [i \in 1..n |-> Piece(es[i])]
    OBVIOUS
  <2>4. DOMAIN f = 1..n /\ \A i \in 1..n : f[i] = Piece(es[i])
    BY <2>3, Zenon
  <2>5. f \in Seq(Seq(Int)) /\ Len(f) = n
    BY <2>2, <2>3
  <2> QED
    BY <2>1, <2>3, <2>4, <2>5
<1>3. Answer(es) = FlattenSeq(ss)
  BY <1>ss DEF Answer, Pieces, Piece
<1>c. PICK c \in Seq(Nat) : c = Costs(es) /\ Len(c) = n /\ c \in Seq(Int)
                          /\ \A i \in 1..n : c[i] = es[i].size + 2
  BY CostAppend
<1>4. Lens(ss) = c
  <2>1. \A i \in 1..n : Len(ss[i]) = c[i]
    BY <1>2, <1>ss, <1>c
  <2>2. Lens(ss) = [i \in 1..n |-> Len(ss[i])]
    BY <1>ss DEF Lens
  <2>3. c = [i \in 1..n |-> c[i]]
    BY <1>c
  <2> QED
    BY <2>1, <2>2, <2>3
<1>at. PICK at \in [0..n -> Int] : /\ at = Sums(c) /\ at[0] = 0
                                  /\ \A i \in 1..n : at[i] = at[i - 1] + c[i]
  BY <1>c, SumsDef
<1>5. at[n] = CostOf(es)
  BY <1>c, <1>at DEF CostOf
<1>6. /\ FlattenSeq(ss) \in Seq(Int) /\ Len(FlattenSeq(ss)) = at[n]
      /\ \A i \in 1..n : \A j \in 1..Len(ss[i]) : FlattenSeq(ss)[at[i - 1] + j] = ss[i][j]
  <2>1. /\ FlattenSeq(ss) \in Seq(Int)
        /\ Len(FlattenSeq(ss)) = Sums(Lens(ss))[Len(ss)]
        /\ \A i \in DOMAIN ss : \A j \in 1..Len(ss[i]) :
             FlattenSeq(ss)[Sums(Lens(ss))[i - 1] + j] = ss[i][j]
    BY <1>ss, FlattenDef
  <2> QED
    <3>1. Sums(Lens(ss)) = at /\ Len(ss) = n /\ DOMAIN ss = 1..n
      BY <1>4, <1>ss, <1>at
    <3> QED
      BY <2>1, <3>1, Zenon
<1>d. PICK d \in Seq(Int) : d = Answer(es) /\ Len(d) = at[n]
                          /\ \A i \in 1..n : \A j \in 1..Len(ss[i]) : d[at[i - 1] + j] = ss[i][j]
  BY <1>3, <1>6
<1>at0. \A i \in 0..n : at[i] \in Int
  BY <1>at
<1>7. ASSUME NEW i \in 1..n
      PROVE  /\ at[i - 1] \in Nat /\ at[i] = at[i - 1] + es[i].size + 2
             /\ at[i] \in Nat /\ at[i] <= at[n]
             /\ SubSeq(d, at[i - 1] + 1, at[i - 1] + es[i].size) = Encoded(es[i])
             /\ d[at[i - 1] + es[i].size + 1] = Quality(es[i])
             /\ d[at[i - 1] + es[i].size + 2] = NS(es[i])
  <2>1. i - 1 \in 0..n /\ i - 1 \in 0..i /\ i \in 0..n /\ i \in 0..n /\ n \in 0..n /\ i - 1 \in 0..n
    OBVIOUS
  <2>2. at[i - 1] \in Nat /\ at[i] \in Nat /\ at[i] <= at[n]
    BY <1>c, <1>at, <2>1, SumsGrow
  <2>k. PICK k \in Nat : k = es[i].size
    BY <1>1
  <2>a. PICK a \in Nat : a = at[i - 1]
    BY <2>2
  <2>p. PICK p \in Seq(Int) : /\ p = ss[i] /\ Len(p) = k + 2
                              /\ \A h \in 1..k : p[h] = Encoded(es[i])[h]
                              /\ p[k + 1] = Quality(es[i]) /\ p[k + 2] = NS(es[i])
    BY <1>2, <1>ss, <2>k
  <2>3. at[i] = a + k + 2
    <3>1. at[i] = at[i - 1] + c[i] /\ c[i] = es[i].size + 2
      BY <1>at, <1>c
    <3>2. at[i] = a + (k + 2)
      BY <3>1, <2>a, <2>k
    <3>3. \A x, y \in Nat : x + (y + 2) = x + y + 2
      OBVIOUS
    <3> QED
      BY <2>a, <2>k, <3>2, <3>3
  <2>4. \A j \in 1..(k + 2) : d[a + j] = p[j]
    BY <1>d, <2>p, <2>a
  <2>5. k + 1 \in 1..(k + 2) /\ k + 2 \in 1..(k + 2) /\ \A h \in 1..k : h \in 1..(k + 2)
    <3>1. \A m \in Nat : /\ m + 1 \in 1..(m + 2) /\ m + 2 \in 1..(m + 2)
                         /\ \A h \in 1..m : h \in 1..(m + 2)
      OBVIOUS
    <3> QED
      BY <2>k, <3>1, Zenon
  <2>6. d[a + (k + 1)] = Quality(es[i]) /\ d[a + (k + 2)] = NS(es[i])
    BY <2>4, <2>5, <2>p
  <2>7. a + (k + 1) = a + k + 1 /\ a + (k + 2) = a + k + 2
    <3>1. \A x, y \in Nat : x + (y + 1) = x + y + 1 /\ x + (y + 2) = x + y + 2
      OBVIOUS
    <3> QED
      BY <2>a, <2>k, <3>1, Zenon
  <2>v. PICK v \in Seq(Int) : v = Encoded(es[i]) /\ Len(v) = k
    BY <1>1, <2>k, ValueRoundTrip
  <2>8. \A h \in 1..Len(v) : d[a + h] = v[h]
    BY <2>4, <2>5, <2>v, <2>p
  <2>9. SubSeq(d, a + 1, a + Len(v)) = v
    <3>1. a + Len(v) <= Len(d)
      <4>1. a + k + 2 <= Len(d) /\ a \in Nat /\ k \in Nat /\ Len(d) \in Nat
        BY <1>d, <2>2, <2>3, <2>a, <2>k
      <4>2. a + k <= Len(d)
        BY <4>1
      <4> QED
        BY <4>2, <2>v
    <3> QED
      BY <1>d, <2>a, <2>v, <2>8, <3>1, Window
  <2> QED
    BY <2>2, <2>3, <2>6, <2>7, <2>9, <2>a, <2>k, <2>v
<1> QED
  BY <1>5, <1>7, <1>c, <1>at, <1>d, <1>6

\* What the record is to have of an element.
Reading(e) ==
  [value |-> Value(e), raw |-> Encoded(e), quality |-> Quality(e), ns |-> NS(e)]

\* The elements of a list have an address each.
Numbered(es) == \A x, y \in Members(es) : x.addr = y.addr => x = y

\* Each element has a size of its kind.
Decodable(es) == \A x \in Members(es) : Decodes(x.addr, x.size)

\* An answer is decoded when each element has a size of its kind, and then
\* into the readings of its elements.
LEMMA AnswerParsed ==
  ASSUME NEW es \in Seq(Element), meter.turn \in 0..3, Numbered(es)
  PROVE  LET r == ParseElements(es, Answer(es))
         IN  /\ r.ok <=> Decodable(es)
             /\ r.ok => /\ \A a : a \in DOMAIN r.out <=> \E x \in Members(es) : x.addr = a
                        /\ \A x \in Members(es) : r.out[x.addr] = Reading(x)
<1> PICK n \in Nat : n = Len(es)
  OBVIOUS
<1>1. DOMAIN es = 1..n /\ \A i \in 1..n : es[i] \in Element /\ es[i].size \in Nat
  BY ElementList
<1> DEFINE at == Sums(Costs(es))
           d  == Answer(es)
<1>2. /\ d \in Seq(Int) /\ Len(d) = CostOf(es)
      /\ \A i \in 1..n :
           /\ at[i - 1] \in Nat /\ at[i] = at[i - 1] + es[i].size + 2
           /\ at[i] \in Nat /\ at[i] <= CostOf(es)
           /\ SubSeq(d, at[i - 1] + 1, at[i - 1] + es[i].size) = Encoded(es[i])
           /\ d[at[i - 1] + es[i].size + 1] = Quality(es[i])
           /\ d[at[i - 1] + es[i].size + 2] = NS(es[i])
  BY AnswerDef
<1>3. ParseElements(es, d) = Consume(es, d, at)
  BY DEF ParseElements
<1> HIDE DEF at, d
<1>4. \A i \in 1..n : ~(at[i - 1] + Cost(es[i]) > Len(d))
  <2> SUFFICES ASSUME NEW i \in 1..n PROVE ~(at[i - 1] + Cost(es[i]) > Len(d))
    OBVIOUS
  <2>1. CostOf(es) \in Nat /\ at[i - 1] \in Nat /\ es[i].size \in Nat /\ Len(d) = CostOf(es)
    BY <1>1, <1>2, CostAppend
  <2>2. at[i - 1] + es[i].size + 2 <= CostOf(es)
    BY <1>2
  <2>3. \A x, y, z \in Nat : x + y + 2 <= z => ~(x + (y + 2) > z)
    OBVIOUS
  <2>4. ~(at[i - 1] + (es[i].size + 2) > CostOf(es))
    BY <2>1, <2>2, <2>3
  <2> QED
    BY <2>1, <2>4 DEF Cost
<1>5. Decodable(es) <=> \A i \in 1..n : Decodes(es[i].addr, es[i].size)
  BY <1>1 DEF Decodable, Members
<1>6. CASE ~Decodable(es)
  <2>1. Consume(es, d, at) = [ok |-> FALSE]
    BY <1>1, <1>5, <1>6, Zenon DEF Consume
  <2> QED
    BY <1>3, <1>6, <2>1 DEF d
<1>7. CASE Decodable(es)
  <2> DEFINE A    == {es[i].addr : i \in DOMAIN es}
             I(a) == CHOOSE i \in DOMAIN es :
                       /\ es[i].addr = a
                       /\ \A j \in DOMAIN es : es[j].addr = a => j <= i
             R(a) == [value   |-> decodeElementValue(a, SubSeq(d, at[I(a) - 1] + 1,
                                                        at[I(a) - 1] + es[I(a)].size)),
                      raw     |-> SubSeq(d, at[I(a) - 1] + 1, at[I(a) - 1] + es[I(a)].size),
                      quality |-> d[at[I(a) - 1] + es[I(a)].size + 1],
                      ns      |-> d[at[I(a) - 1] + es[I(a)].size + 2]]
  <2>1. Consume(es, d, at) = [ok |-> TRUE, out |-> [a \in A |-> R(a)]]
    BY <1>1, <1>4, <1>5, <1>7, Zenon DEF Consume
  <2>2. ASSUME NEW x \in Members(es)
        PROVE  I(x.addr) \in 1..n /\ es[I(x.addr)] = x
    <3> DEFINE T == {i \in 1..n : es[i].addr = x.addr}
    <3>1. T # {} /\ T \in SUBSET (1..n)
      BY <1>1 DEF Members
    <3>2. \E i \in T : \A j \in T : j <= i
      BY <3>1, Greatest
    <3>3. \E i \in DOMAIN es : /\ es[i].addr = x.addr
                               /\ \A j \in DOMAIN es : es[j].addr = x.addr => j <= i
      BY <1>1, <3>2
    <3>4. I(x.addr) \in 1..n /\ es[I(x.addr)].addr = x.addr
      BY <1>1, <3>3
    <3> HIDE DEF I
    <3> QED
      BY <1>1, <3>4 DEF Numbered, Members
  <2>3. ASSUME NEW x \in Members(es) PROVE x.addr \in A /\ R(x.addr) = Reading(x)
    <3>1. PICK i \in 1..n : i = I(x.addr) /\ es[i] = x
      BY <2>2
    <3>2. x \in Element /\ Decodes(x.addr, x.size)
      BY <1>1, <1>7, <3>1 DEF Decodable
    <3>3. decodeElementValue(x.addr, Encoded(x)) = Value(x)
      BY <3>2, ValueRoundTrip
    <3>4. R(x.addr) = [value   |-> decodeElementValue(x.addr, SubSeq(d, at[i - 1] + 1,
                                                                     at[i - 1] + es[i].size)),
                       raw     |-> SubSeq(d, at[i - 1] + 1, at[i - 1] + es[i].size),
                       quality |-> d[at[i - 1] + es[i].size + 1],
                       ns      |-> d[at[i - 1] + es[i].size + 2]]
      BY <3>1
    <3>5. R(x.addr) = Reading(x)
      BY <1>2, <3>1, <3>3, <3>4 DEF Reading
    <3>6. x.addr \in A
      BY <1>1, <3>1
    <3> QED
      BY <3>5, <3>6, Zenon
  <2>4. \A a : a \in A <=> \E x \in Members(es) : x.addr = a
    BY DEF Members
  <2> HIDE DEF I, R, A
  <2>5. [a \in A |-> R(a)] = [a \in A |-> R(a)] /\ DOMAIN [a \in A |-> R(a)] = A
        /\ \A a \in A : [b \in A |-> R(b)][a] = R(a)
    OBVIOUS
  <2> QED
    BY <1>3, <1>7, <2>1, <2>3, <2>4, <2>5 DEF d
<1> QED
  BY <1>6, <1>7

\* An answer with fewer bytes than the list costs is refused.
LEMMA CutRefused ==
  ASSUME NEW es \in Seq(Element), NEW d \in Seq(Int), Len(d) < CostOf(es)
  PROVE  ParseElements(es, d).ok = FALSE
<1> PICK n \in Nat : n = Len(es)
  OBVIOUS
<1> PICK c \in Seq(Nat) : c = Costs(es) /\ Len(c) = n /\ c \in Seq(Int)
                          /\ \A i \in 1..n : c[i] = es[i].size + 2
  BY CostAppend
<1> PICK at \in [0..n -> Int] : at = Sums(c) /\ at[0] = 0 /\ \A i \in 1..n : at[i] = at[i - 1] + c[i]
  BY SumsDef
<1>1. at[n] = CostOf(es)
  BY DEF CostOf
<1>2. n # 0
  BY <1>1
<1>3. n \in DOMAIN es /\ n \in 1..n
  BY <1>2
<1>4. at[n - 1] + Cost(es[n]) = at[n]
  BY <1>3 DEF Cost
<1>5. at[n - 1] + Cost(es[n]) > Len(d)
  <2>1. at[n] > Len(d)
    <3>1. at[n] \in Int /\ Len(d) \in Int
      BY <1>3
    <3> QED
      BY <1>1, <3>1
  <2> QED
    BY <1>4, <2>1
<1>6. ParseElements(es, d) = Consume(es, d, at)
  BY DEF ParseElements
<1>7. Consume(es, d, at) = [ok |-> FALSE]
  BY <1>3, <1>5, Zenon DEF Consume
<1> QED
  BY <1>6, <1>7

(***************************************************************************)
(* The invariant of a record on its way.                                   *)
(***************************************************************************)

\* The elements of the active list that belong to the record.
Wanted == filter(active, typ)

\* The steps of an archive record or of the current values.
Underway == {"chunk", "read", "parse"}

\* What the meter has does not change; its elements are numbered.
MeterInv ==
  /\ job \in {"archive", "current", "properties"}
  /\ job # "properties" =>
       /\ meter.elements \in Seq(Listable)
       /\ Numbered(meter.elements)
       /\ meter.turn \in 0..3

\* The active list holds elements of the meter.
ActiveInv ==
  job # "properties" =>
    /\ pc \in Underway \cup {"active", "prepare", "saved", "failed"}
    /\ active \in Seq(Element)
    /\ Members(active) \subseteq Members(meter.elements)

\* Every list still to be written can be read, the one that was written
\* first, and what was read is the answer to it, or its beginning.
ChunkInv ==
  job # "properties" /\ pc \in Underway =>
    /\ Writable(Wanted)
    /\ chunks \in Seq(Seq(Element))
    /\ job = "archive" => \A j \in DOMAIN chunks : Readable(chunks[j], Wanted, Len(Wanted))
    /\ job = "current" => \A j \in DOMAIN chunks : chunks[j] = Wanted
    /\ pc \in {"read", "parse"} => chunks # <<>> /\ list = Head(chunks)
    /\ pc = "parse" => \/ data = Answer(list)
                       \/ /\ Len(Answer(list)) > Transmit
                          /\ data = SubSeq(Answer(list), 1, Transmit)

\* The record holds readings of wanted elements only, and each one that it
\* does not hold yet is in a list still to be read.
ResultInv ==
  job # "properties" /\ pc \in Underway \cup {"active", "prepare"} =>
    /\ result = [a \in DOMAIN result |-> result[a]]
    /\ pc \in {"active", "prepare"} => DOMAIN result = {}
    /\ pc \in Underway =>
         /\ \A a \in DOMAIN result : \E x \in Members(Wanted) :
              x.addr = a /\ Decodes(x.addr, x.size) /\ result[a] = Reading(x)
         /\ \A x \in Members(Wanted) : x.addr \in DOMAIN result \/ InSome(x, chunks)

RecordInv ==
  /\ MeterInv /\ ActiveInv /\ ChunkInv /\ ResultInv
  /\ RecordFaithful
  /\ ChunkBytes <= Transmit => RefusalExplained

\* A sequence of elements of a smaller set is one over that set.
LEMMA OverMembers ==
  ASSUME NEW es \in Seq(Element), NEW S, Members(es) \subseteq S
  PROVE  es \in Seq(S)
<1>1. Len(es) \in Nat /\ DOMAIN es = 1..Len(es) /\ \A i \in 1..Len(es) : es[i] \in S
  BY ElementList DEF Members
<1>2. es = [i \in 1..Len(es) |-> es[i]]
  OBVIOUS
<1> QED
  BY <1>1, <1>2

\* What is wanted is a numbered part of what the meter has.
LEMMA WantedDef ==
  ASSUME MeterInv, ActiveInv, job # "properties"
  PROVE  /\ Wanted \in Seq(Element) /\ Numbered(Wanted) /\ meter.turn \in 0..3
         /\ Len(Wanted) \in Nat /\ DOMAIN Wanted = 1..Len(Wanted)
         /\ Members(Wanted) \subseteq Element
<1>1. /\ active \in Seq(Element) /\ Members(active) \subseteq Members(meter.elements)
      /\ Numbered(meter.elements) /\ meter.turn \in 0..3
  BY DEF MeterInv, ActiveInv
<1>2. /\ Keep(active, meaningful(typ)) \in Seq(Element)
      /\ Members(Keep(active, meaningful(typ)))
           = {e \in Members(active) : e.addr \in meaningful(typ)}
  BY <1>1, KeepDef
<1>3. Wanted \in Seq(Element) /\ Members(Wanted) \subseteq Members(active)
  BY <1>2 DEF Wanted, filter
<1>4. Numbered(Wanted)
  BY <1>1, <1>3 DEF Numbered
<1>5. Members(Wanted) \subseteq Element
  BY <1>3, ElementList DEF Members
<1> QED
  BY <1>1, <1>3, <1>4, <1>5, ElementList

\* The jobs begin with it.
LEMMA RecordInit ==
  ASSUME Init
  PROVE  RecordInv
<1>1. CASE job = "properties"
  BY <1>1 DEF RecordInv, MeterInv, ActiveInv, ChunkInv, ResultInv, RecordFaithful, RefusalExplained
<1>2. CASE job # "properties"
  <2>1. /\ job \in {"archive", "current"} /\ pc = "active"
        /\ active = <<>> /\ chunks = <<>> /\ result = <<>>
    BY <1>2 DEF Init
  <2>2. PICK on \in SUBSET DOMAIN Master, turn \in 0..3 :
          meter = [elements |-> Keep(Master, {Master[i].addr : i \in on}), turn |-> turn]
    BY <1>2 DEF Init
  <2>3. PICK A : A = {Master[i].addr : i \in on}
    OBVIOUS
  <2>4. Master \in Seq(Listable)
    BY RecordAssumption DEF Listable
  <2>5. Master \in Seq(Element) /\ Members(Master) \subseteq Listable
    BY <2>4, FlagRoom DEF Members
  <2>6. Keep(Master, A) \in Seq(Element) /\ Members(Keep(Master, A)) \subseteq Members(Master)
    BY <2>5, KeepDef
  <2>7. Keep(Master, A) \in Seq(Listable)
    BY <2>5, <2>6, OverMembers
  <2>8. Numbered(Master)
    BY RecordAssumption DEF Numbered, Members
  <2>9. Numbered(Keep(Master, A))
    BY <2>6, <2>8 DEF Numbered
  <2>10. meter.elements = Keep(Master, A) /\ meter.turn \in 0..3
    BY <2>2, <2>3
  <2>11. MeterInv
    BY <2>1, <2>7, <2>9, <2>10 DEF MeterInv
  <2>12. active \in Seq(Element) /\ Members(active) = {}
    BY <2>1 DEF Members
  <2>13. ActiveInv
    BY <2>1, <2>12 DEF ActiveInv
  <2>14. result = [a \in DOMAIN result |-> result[a]] /\ DOMAIN result = {}
    BY <2>1
  <2>15. ChunkInv /\ ResultInv /\ RecordFaithful /\ RefusalExplained
    BY <2>1, <2>14 DEF ChunkInv, ResultInv, RecordFaithful, RefusalExplained, Underway
  <2> QED
    BY <2>11, <2>13, <2>15 DEF RecordInv
<1> QED
  BY <1>1, <1>2

\* A step that leaves the meter alone keeps what is known of it.
LEMMA MeterStays ==
  ASSUME MeterInv, UNCHANGED <<meter, job, typ>>
  PROVE  MeterInv'
BY DEF MeterInv

\* Readings do not change, nor do the answers.
LEMMA ReadingStays ==
  ASSUME meter' = meter
  PROVE  /\ \A x : Reading(x)' = Reading(x)
         /\ \A x : Value(x)' = Value(x)
<1>1. \A x : Value(x)' = Value(x)
  BY DEF Value
<1>2. \A x : Reading(x)' = Reading(x)
  BY DEF Reading, Encoded, Value, Quality, NS
<1> QED
  BY <1>1, <1>2

\* The answer to a list stays the answer to it.
LEMMA AnswerStays ==
  ASSUME meter' = meter, list' = list
  PROVE  Answer(list)' = Answer(list)
BY DEF Answer, Encoded, Value, Quality, NS

\* The active list is read.
LEMMA ReadActiveKeeps ==
  ASSUME RecordInv, UNCHANGED <<meter, job, typ>>, job # "properties", ReadActive
  PROVE  RecordInv'
<1>1. MeterInv'
  BY MeterStays DEF RecordInv
<1>2. /\ pc = "active" /\ UNCHANGED <<list, data, chunks, result, stored>>
      /\ pc' = IF active' = <<>> THEN "failed" ELSE "prepare"
  BY DEF ReadActive, Fail
<1>3. PICK lost \in {0, 1, EntryBytes} :
        /\ lost <= Len(Payload(meter.elements))
        /\ LET d == Payload(meter.elements)
           IN  active' = ActiveElements(SubSeq(d, 1, Len(d) - lost))
  BY DEF ReadActive
<1>4. meter.elements \in Seq(Listable)
  BY DEF RecordInv, MeterInv
<1>5. active' \in Seq(Element) /\ Members(active') \subseteq Members(meter.elements)
  BY <1>3, <1>4, ActiveDecoded
<1>6. ActiveInv'
  BY <1>2, <1>5 DEF ActiveInv
<1>7. ChunkInv'
  BY <1>2 DEF ChunkInv, Underway
<1>8. ResultInv'
  BY <1>2 DEF RecordInv, ResultInv, Underway
<1>9. RecordFaithful' /\ RefusalExplained'
  BY <1>2 DEF RecordFaithful, RefusalExplained
<1> QED
  BY <1>1, <1>6, <1>7, <1>8, <1>9 DEF RecordInv

\* The list of the record is made and cut into chunks.
LEMMA PrepareKeeps ==
  ASSUME RecordInv, UNCHANGED <<meter, job, typ>>, job # "properties", Prepare
  PROVE  RecordInv'
<1>1. MeterInv'
  BY MeterStays DEF RecordInv
<1>2. pc = "prepare" /\ UNCHANGED <<active, data, result, stored>>
  BY DEF Prepare, Fail
<1>3. Wanted' = Wanted
  BY <1>2 DEF Wanted
<1>4. CASE (job = "archive" /\ Wanted = <<>>) \/ ~Writable(Wanted)
  <2>1. pc' = "failed"
    BY <1>4 DEF Prepare, Fail, Wanted
  <2>2. ActiveInv' /\ ChunkInv' /\ ResultInv' /\ RecordFaithful'
    BY <1>2, <2>1 DEF RecordInv, ActiveInv, ChunkInv, ResultInv, RecordFaithful, Underway
  <2>3. RefusalExplained'
    <3>1. Len(Wanted) \in Nat
      BY WantedDef DEF RecordInv
    <3>2. (job = "archive" /\ Wanted = <<>>) \/ EntryBytes * Len(Wanted) > PayloadBytes
      BY <1>4, <3>1, CodecAssumption DEF Writable, EntryBytes
    <3> QED
      BY <1>3, <3>2 DEF RefusalExplained, Wanted
  <2> QED
    BY <1>1, <2>2, <2>3 DEF RecordInv
<1>5. CASE ~((job = "archive" /\ Wanted = <<>>) \/ ~Writable(Wanted))
  <2>1. /\ pc' = "chunk" /\ list' = Wanted
        /\ chunks' = IF job = "archive" THEN splitArchiveReadList(Wanted) ELSE <<Wanted>>
    BY <1>5 DEF Prepare, Wanted
  <2>2. ActiveInv'
    BY <1>2, <2>1 DEF RecordInv, ActiveInv, Underway
  <2>3. Wanted \in Seq(Element) /\ Writable(Wanted)
    BY <1>5, WantedDef DEF RecordInv
  <2>4. /\ chunks' \in Seq(Seq(Element))
        /\ job = "archive" => \A j \in DOMAIN chunks' : Readable(chunks'[j], Wanted, Len(Wanted))
        /\ job = "current" => \A j \in DOMAIN chunks' : chunks'[j] = Wanted
        /\ \A x \in Members(Wanted) : InSome(x, chunks')
    <3>1. CASE job = "archive"
      <4>1. /\ chunks' = splitArchiveReadList(Wanted)
        BY <2>1, <3>1
      <4> QED
        BY <2>3, <3>1, <4>1, SplitDef
    <3>2. CASE job = "current"
      <4>1. chunks' = <<Wanted>>
        BY <2>1, <3>2
      <4>2. DOMAIN chunks' = {1} /\ chunks'[1] = Wanted /\ chunks' \in Seq(Seq(Element))
        BY <2>3, <4>1
      <4> QED
        BY <3>2, <4>2 DEF InSome
    <3> QED
      BY <3>1, <3>2 DEF RecordInv, MeterInv
  <2>5. ChunkInv'
    BY <1>3, <2>1, <2>3, <2>4 DEF ChunkInv
  <2>6. ResultInv'
    <3>1. DOMAIN result = {} /\ result = [a \in DOMAIN result |-> result[a]]
      BY <1>2 DEF RecordInv, ResultInv
    <3> QED
      BY <1>2, <1>3, <2>1, <2>4, <3>1 DEF ResultInv, Underway
  <2>7. RecordFaithful' /\ RefusalExplained'
    BY <2>1 DEF RecordFaithful, RefusalExplained
  <2> QED
    BY <1>1, <2>2, <2>5, <2>6, <2>7 DEF RecordInv
<1> QED
  BY <1>4, <1>5

\* The first list is written: it is no longer than the whole, which fitted.
LEMMA SetReadListKeeps ==
  ASSUME RecordInv, UNCHANGED <<meter, job, typ>>, job # "properties", SetReadList
  PROVE  RecordInv'
<1>1. MeterInv'
  BY MeterStays DEF RecordInv
<1>2. pc = "chunk" /\ chunks # <<>> /\ UNCHANGED <<active, data, result, stored, chunks>>
  BY DEF SetReadList, Fail
<1>3. Wanted' = Wanted
  BY <1>2 DEF Wanted
<1>4. /\ Writable(Wanted) /\ chunks \in Seq(Seq(Element))
      /\ job = "archive" => \A j \in DOMAIN chunks : Readable(chunks[j], Wanted, Len(Wanted))
      /\ job = "current" => \A j \in DOMAIN chunks : chunks[j] = Wanted
  BY <1>2 DEF RecordInv, ChunkInv, Underway
<1>5. Len(Wanted) \in Nat
  BY WantedDef DEF RecordInv
<1>6. 1 \in DOMAIN chunks /\ Head(chunks) = chunks[1] /\ Head(chunks) \in Seq(Element)
  BY <1>2, <1>4
<1>7. Len(Head(chunks)) \in Nat /\ Len(Head(chunks)) <= Len(Wanted)
  <2>1. CASE job = "archive"
    BY <1>4, <1>6, <2>1 DEF Readable
  <2>2. CASE job = "current"
    BY <1>4, <1>5, <1>6, <2>2
  <2> QED
    BY <2>1, <2>2 DEF RecordInv, MeterInv
<1>8. Writable(Head(chunks))
  <2>1. \A m, n, p \in Nat : m <= n /\ 6 * n <= p => 6 * m <= p
    OBVIOUS
  <2> QED
    BY <1>4, <1>5, <1>7, <2>1, CodecAssumption DEF Writable, EntryBytes
<1>9. list' = Head(chunks) /\ pc' = "read"
  BY <1>8 DEF SetReadList
<1>10. ActiveInv'
  BY <1>2, <1>9 DEF RecordInv, ActiveInv, Underway
<1>11. ChunkInv'
  BY <1>2, <1>3, <1>4, <1>9 DEF ChunkInv
<1>12. ResultInv'
  <2>1. /\ result = [a \in DOMAIN result |-> result[a]]
        /\ \A a \in DOMAIN result : \E x \in Members(Wanted) :
             x.addr = a /\ Decodes(x.addr, x.size) /\ result[a] = Reading(x)
        /\ \A x \in Members(Wanted) : x.addr \in DOMAIN result \/ InSome(x, chunks)
    BY <1>2 DEF RecordInv, ResultInv, Underway
  <2>2. \A x : Reading(x)' = Reading(x)
    BY ReadingStays
  <2> QED
    BY <1>2, <1>3, <1>9, <2>1, <2>2 DEF ResultInv, Underway
<1>13. RecordFaithful' /\ RefusalExplained'
  BY <1>9 DEF RecordFaithful, RefusalExplained
<1> QED
  BY <1>1, <1>10, <1>11, <1>12, <1>13 DEF RecordInv

\* The answer arrives, whole or cut.
LEMMA ReadDataKeeps ==
  ASSUME RecordInv, UNCHANGED <<meter, job, typ>>, job # "properties", ReadData, Stale = FALSE
  PROVE  RecordInv'
<1>1. MeterInv'
  BY MeterStays DEF RecordInv
<1>2. /\ pc = "read" /\ pc' = "parse" /\ data' \in Arrivals(Answer(list))
      /\ UNCHANGED <<active, chunks, list, result, stored>>
  BY DEF ReadData
<1>3. Wanted' = Wanted /\ Answer(list)' = Answer(list)
  BY <1>2, AnswerStays DEF Wanted
<1>4. \/ data' = Answer(list)
      \/ Len(Answer(list)) > Transmit /\ data' = SubSeq(Answer(list), 1, Transmit)
  BY <1>2 DEF Arrivals
<1>5. /\ Writable(Wanted) /\ chunks \in Seq(Seq(Element))
      /\ job = "archive" => \A j \in DOMAIN chunks : Readable(chunks[j], Wanted, Len(Wanted))
      /\ job = "current" => \A j \in DOMAIN chunks : chunks[j] = Wanted
      /\ chunks # <<>> /\ list = Head(chunks)
  BY <1>2 DEF RecordInv, ChunkInv, Underway
<1>6. ActiveInv'
  BY <1>2 DEF RecordInv, ActiveInv, Underway
<1>7. ChunkInv'
  <2>1. PICK d : d = Answer(list) /\ d = Answer(list)'
    BY <1>3
  <2>2. data' = d \/ (Len(d) > Transmit /\ data' = SubSeq(d, 1, Transmit))
    BY <1>4, <2>1
  <2>3. data' = Answer(list)' \/ (Len(Answer(list)') > Transmit /\ data' = SubSeq(Answer(list)', 1, Transmit))
    BY <2>1, <2>2
  <2> QED
    BY <1>2, <1>3, <1>5, <2>3 DEF ChunkInv
<1>8. ResultInv'
  <2>1. /\ result = [a \in DOMAIN result |-> result[a]]
        /\ \A a \in DOMAIN result : \E x \in Members(Wanted) :
             x.addr = a /\ Decodes(x.addr, x.size) /\ result[a] = Reading(x)
        /\ \A x \in Members(Wanted) : x.addr \in DOMAIN result \/ InSome(x, chunks)
    BY <1>2 DEF RecordInv, ResultInv, Underway
  <2>2. \A x : Reading(x)' = Reading(x)
    BY ReadingStays
  <2> QED
    BY <1>2, <1>3, <2>1, <2>2 DEF ResultInv, Underway
<1>9. RecordFaithful' /\ RefusalExplained'
  BY <1>2 DEF RecordFaithful, RefusalExplained
<1> QED
  BY <1>1, <1>6, <1>7, <1>8, <1>9 DEF RecordInv

\* What was read for the first list, and how the decoder takes it: an answer
\* that arrived whole gives the readings of the list, one that was cut gives
\* nothing, and it was cut for a reason.
LEMMA ParsedList ==
  ASSUME RecordInv, job # "properties", pc = "parse"
  PROVE  LET r == ParseElements(list, data)
         IN  /\ list \in Seq(Element) /\ Members(list) \subseteq Members(Wanted)
             /\ r.ok \in BOOLEAN
             /\ r.ok => /\ Decodable(list)
                        /\ \A a : a \in DOMAIN r.out <=> \E x \in Members(list) : x.addr = a
                        /\ \A x \in Members(list) : r.out[x.addr] = Reading(x)
             /\ ~r.ok => \/ ~Decodable(list)
                         \/ job = "current" /\ ~Complete(Wanted)
                         \/ job = "archive" /\ CostOf(list) > Transmit
                              /\ (CostOf(list) <= ChunkBytes \/ \E e \in Members(Wanted) : list = <<e>>)
<1>1. /\ chunks \in Seq(Seq(Element))
      /\ job = "archive" => \A j \in DOMAIN chunks : Readable(chunks[j], Wanted, Len(Wanted))
      /\ job = "current" => \A j \in DOMAIN chunks : chunks[j] = Wanted
      /\ chunks # <<>> /\ list = Head(chunks)
  BY DEF RecordInv, ChunkInv, Underway
<1>2. \/ data = Answer(list)
      \/ Len(Answer(list)) > Transmit /\ data = SubSeq(Answer(list), 1, Transmit)
  BY DEF RecordInv, ChunkInv, Underway
<1>3. 1 \in DOMAIN chunks /\ list = chunks[1] /\ list \in Seq(Element)
  BY <1>1
<1>4. job \in {"archive", "current"}
  BY DEF RecordInv, MeterInv
<1>5. /\ job = "current" => list = Wanted
      /\ job = "archive" => Readable(list, Wanted, Len(Wanted))
  BY <1>1, <1>3
<1>6. Members(list) \subseteq Members(Wanted)
  BY <1>4, <1>5 DEF Readable
<1>7. meter.turn \in 0..3 /\ Numbered(Wanted)
  BY WantedDef DEF RecordInv
<1>8. Numbered(list)
  BY <1>6, <1>7 DEF Numbered
<1>9. Answer(list) \in Seq(Int) /\ Len(Answer(list)) = CostOf(list) /\ CostOf(list) \in Nat
  BY <1>3, <1>7, AnswerDef, CostAppend
<1>10. CASE data = Answer(list)
  <2>1. /\ ParseElements(list, data).ok <=> Decodable(list)
        /\ ParseElements(list, data).ok =>
             /\ \A a : a \in DOMAIN ParseElements(list, data).out <=> \E x \in Members(list) : x.addr = a
             /\ \A x \in Members(list) : ParseElements(list, data).out[x.addr] = Reading(x)
    BY <1>3, <1>7, <1>8, <1>10, AnswerParsed
  <2>2. ParseElements(list, data).ok \in BOOLEAN
    BY DEF ParseElements, Consume
  <2> QED
    BY <1>3, <1>6, <2>1, <2>2
<1>11. CASE CostOf(list) > Transmit /\ data = SubSeq(Answer(list), 1, Transmit)
  <2>1. data \in Seq(Int) /\ Len(data) = Transmit
    <3>1. PICK s \in Seq(Int) : s = Answer(list) /\ Transmit <= Len(s) /\ Transmit \in Nat
      BY <1>9, <1>11, RecordAssumption
    <3>2. SubSeq(s, 1, Transmit) \in Seq(Int) /\ Len(SubSeq(s, 1, Transmit)) = Transmit
      BY <3>1
    <3> QED
      BY <1>11, <3>1, <3>2
  <2>2. Len(data) < CostOf(list)
    BY <1>9, <1>11, <2>1, RecordAssumption
  <2>3. ParseElements(list, data).ok = FALSE
    BY <1>3, <2>1, <2>2, CutRefused
  <2>4. job = "current" => ~Complete(Wanted)
    BY <1>5, <1>9, <1>11, RecordAssumption DEF Complete
  <2>5. job = "archive" => CostOf(list) <= ChunkBytes \/ \E e \in Members(Wanted) : list = <<e>>
    BY <1>5 DEF Readable
  <2> QED
    BY <1>3, <1>4, <1>6, <1>11, <2>3, <2>4, <2>5
<1> QED
  BY <1>2, <1>9, <1>10, <1>11

\* What was decoded joins the record, or the record is given up for a reason.
LEMMA MergeKeeps ==
  ASSUME RecordInv, UNCHANGED <<meter, job, typ>>, job # "properties", Merge
  PROVE  RecordInv'
<1>1. MeterInv'
  BY MeterStays DEF RecordInv
<1>2. pc = "parse" /\ UNCHANGED <<active, list, data, stored>>
  BY DEF Merge, Fail
<1>3. Wanted' = Wanted /\ \A x : Reading(x)' = Reading(x)
  BY <1>2, ReadingStays DEF Wanted
<1>p. PICK r : r = ParseElements(list, data)
  OBVIOUS
<1>4. /\ list \in Seq(Element) /\ Members(list) \subseteq Members(Wanted)
      /\ r.ok \in BOOLEAN
      /\ r.ok => /\ Decodable(list)
                 /\ \A a : a \in DOMAIN r.out <=> \E x \in Members(list) : x.addr = a
                 /\ \A x \in Members(list) : r.out[x.addr] = Reading(x)
      /\ ~r.ok => \/ ~Decodable(list)
                  \/ job = "current" /\ ~Complete(Wanted)
                  \/ job = "archive" /\ CostOf(list) > Transmit
                       /\ (CostOf(list) <= ChunkBytes \/ \E e \in Members(Wanted) : list = <<e>>)
  BY <1>2, <1>p, ParsedList
<1>5. CASE r.ok
  <2>1. result' = Merged(r.out) /\ chunks' = Tail(chunks) /\ pc' = "chunk"
    BY <1>5, <1>p DEF Merge
  <2>2. ActiveInv'
    BY <1>2, <2>1 DEF RecordInv, ActiveInv, Underway
  <2>3. /\ Writable(Wanted) /\ chunks \in Seq(Seq(Element))
        /\ job = "archive" => \A j \in DOMAIN chunks : Readable(chunks[j], Wanted, Len(Wanted))
        /\ job = "current" => \A j \in DOMAIN chunks : chunks[j] = Wanted
        /\ chunks # <<>> /\ list = Head(chunks)
    BY <1>2 DEF RecordInv, ChunkInv, Underway
  <2>4. /\ Tail(chunks) \in Seq(Seq(Element))
        /\ \A j \in DOMAIN Tail(chunks) : j + 1 \in DOMAIN chunks /\ Tail(chunks)[j] = chunks[j + 1]
        /\ \A j \in DOMAIN chunks : j = 1 \/ (j - 1 \in DOMAIN Tail(chunks)
                                              /\ Tail(chunks)[j - 1] = chunks[j])
        /\ list = chunks[1]
    BY <2>3
  <2>5. ChunkInv'
    BY <1>2, <1>3, <2>1, <2>3, <2>4 DEF ChunkInv
  <2>6. /\ result = [a \in DOMAIN result |-> result[a]]
        /\ \A a \in DOMAIN result : \E x \in Members(Wanted) :
             x.addr = a /\ Decodes(x.addr, x.size) /\ result[a] = Reading(x)
        /\ \A x \in Members(Wanted) : x.addr \in DOMAIN result \/ InSome(x, chunks)
    BY <1>2 DEF RecordInv, ResultInv, Underway
  <2>7. /\ Merged(r.out) = [a \in DOMAIN Merged(r.out) |-> Merged(r.out)[a]]
        /\ \A a : a \in DOMAIN Merged(r.out) <=> a \in DOMAIN r.out \/ a \in DOMAIN result
        /\ \A a \in DOMAIN Merged(r.out) :
             Merged(r.out)[a] = IF a \in DOMAIN r.out THEN r.out[a] ELSE result[a]
    BY DEF Merged
  <2>8. ASSUME NEW a \in DOMAIN Merged(r.out)
        PROVE  \E x \in Members(Wanted) :
                 x.addr = a /\ Decodes(x.addr, x.size) /\ Merged(r.out)[a] = Reading(x)
    <3>1. CASE a \in DOMAIN r.out
      <4>1. PICK x \in Members(list) : x.addr = a
        BY <1>4, <1>5, <3>1
      <4>2. Decodes(x.addr, x.size) /\ r.out[a] = Reading(x) /\ x \in Members(Wanted)
        BY <1>4, <1>5, <4>1 DEF Decodable
      <4> QED
        BY <2>7, <3>1, <4>1, <4>2
    <3>2. CASE a \notin DOMAIN r.out
      BY <2>6, <2>7, <3>2
    <3> QED
      BY <3>1, <3>2
  <2>9. ASSUME NEW x \in Members(Wanted)
        PROVE  x.addr \in DOMAIN Merged(r.out) \/ InSome(x, Tail(chunks))
    <3>1. CASE x.addr \in DOMAIN result
      BY <2>7, <3>1
    <3>2. CASE InSome(x, chunks)
      <4>1. PICK j \in DOMAIN chunks : x \in Members(chunks[j])
        BY <3>2 DEF InSome
      <4>2. CASE j = 1
        BY <1>4, <1>5, <2>4, <2>7, <4>1, <4>2
      <4>3. CASE j # 1
        BY <2>4, <4>1, <4>3 DEF InSome
      <4> QED
        BY <4>2, <4>3
    <3> QED
      BY <2>6, <3>1, <3>2
  <2>10. ResultInv'
    BY <1>3, <2>1, <2>7, <2>8, <2>9 DEF ResultInv, Underway
  <2>11. RecordFaithful' /\ RefusalExplained'
    BY <2>1 DEF RecordFaithful, RefusalExplained
  <2> QED
    BY <1>1, <2>2, <2>5, <2>10, <2>11 DEF RecordInv
<1>6. CASE ~r.ok
  <2>1. pc' = "failed"
    BY <1>6, <1>p DEF Merge, Fail
  <2>2. ActiveInv' /\ ChunkInv' /\ ResultInv' /\ RecordFaithful'
    BY <1>2, <2>1 DEF RecordInv, ActiveInv, ChunkInv, ResultInv, RecordFaithful, Underway
  <2>3. Members(Wanted) = {Wanted[i] : i \in DOMAIN Wanted}
    BY DEF Members
  <2>4. ASSUME ChunkBytes <= Transmit
        PROVE  \/ \E i \in DOMAIN Wanted : ~Decodes(Wanted[i].addr, Wanted[i].size)
               \/ job = "current" /\ ~Complete(Wanted)
               \/ job = "archive" /\ \E i \in DOMAIN Wanted : ~Complete(<<Wanted[i]>>)
    <3>1. CASE ~Decodable(list)
      <4>1. PICK x \in Members(list) : ~Decodes(x.addr, x.size)
        BY <3>1 DEF Decodable
      <4> QED
        BY <1>4, <2>3, <4>1
    <3>2. CASE /\ job = "archive" /\ CostOf(list) > Transmit
               /\ (CostOf(list) <= ChunkBytes \/ \E e \in Members(Wanted) : list = <<e>>)
      <4>1. CostOf(list) \in Nat /\ ChunkBytes \in Nat /\ Transmit \in Nat
        BY <1>4, CostAppend, CodecAssumption, RecordAssumption
      <4>2. PICK e \in Members(Wanted) : list = <<e>>
        BY <2>4, <3>2, <4>1
      <4>3. ~Complete(<<e>>)
        BY <3>2, <4>1, <4>2 DEF Complete
      <4> QED
        BY <2>3, <3>2, <4>2, <4>3
    <3> QED
      BY <1>4, <1>6, <3>1, <3>2
  <2>5. ASSUME ChunkBytes <= Transmit PROVE RefusalExplained'
    BY <1>3, <2>4, <2>5 DEF RefusalExplained, Wanted, Complete
  <2> QED
    BY <1>1, <2>2, <2>5 DEF RecordInv
<1> QED
  BY <1>4, <1>5, <1>6

\* The row is the record, and the record is complete.
LEMMA SaveKeeps ==
  ASSUME RecordInv, UNCHANGED <<meter, job, typ>>, job # "properties", Save
  PROVE  RecordInv'
<1>1. MeterInv'
  BY MeterStays DEF RecordInv
<1>2. pc = "chunk" /\ chunks = <<>> /\ UNCHANGED <<active, list, data, chunks, result>>
  BY DEF Save, Fail
<1>3. Wanted' = Wanted /\ \A x : Value(x)' = Value(x)
  BY <1>2, ReadingStays DEF Wanted
<1>4. /\ result = [a \in DOMAIN result |-> result[a]]
      /\ \A a \in DOMAIN result : \E x \in Members(Wanted) :
           x.addr = a /\ Decodes(x.addr, x.size) /\ result[a] = Reading(x)
      /\ \A x \in Members(Wanted) : x.addr \in DOMAIN result \/ InSome(x, chunks)
  BY <1>2 DEF RecordInv, ResultInv, Underway
<1>5. /\ Members(Wanted) = {Wanted[i] : i \in DOMAIN Wanted} /\ Numbered(Wanted)
  BY WantedDef DEF RecordInv, Members
<1>6. pc' \in {"saved", "failed"}
  BY DEF Save, Fail
<1>7. ActiveInv' /\ ChunkInv' /\ ResultInv'
  BY <1>2, <1>6 DEF RecordInv, ActiveInv, ChunkInv, ResultInv, Underway
<1>8. CASE \A a \in DOMAIN result : Storable(a, result[a].value)
  <2>1. stored' = [a \in DOMAIN result |-> encode(a, result[a])] /\ pc' = "saved"
    BY <1>8 DEF Save
  <2> DEFINE A == {Wanted[i].addr : i \in DOMAIN Wanted}
  <2>2. \A x : ~InSome(x, chunks)
    BY <1>2 DEF InSome
  <2>3. DOMAIN result = A
    <3>1. ASSUME NEW a \in DOMAIN result PROVE a \in A
      BY <1>4, <1>5
    <3>2. ASSUME NEW a \in A PROVE a \in DOMAIN result
      <4>1. PICK i \in DOMAIN Wanted : a = Wanted[i].addr
        OBVIOUS
      <4> QED
        BY <1>4, <1>5, <2>2, <4>1
    <3> QED
      BY <3>1, <3>2
  <2>4. ASSUME NEW i \in DOMAIN Wanted
        PROVE  LET e   == Wanted[i]
                   row == stored'[e.addr]
               IN  /\ row.raw = Encoded(e) /\ row.quality = Quality(e) /\ row.ns = NS(e)
                   /\ Lossless(e.addr, Value(e)) => row.value = Value(e)
    <3>1. PICK e : e = Wanted[i] /\ e \in Members(Wanted) /\ e.addr \in DOMAIN result
      BY <1>5, <2>3
    <3>2. PICK x \in Members(Wanted) :
            x.addr = e.addr /\ Decodes(x.addr, x.size) /\ result[e.addr] = Reading(x)
      BY <1>4, <3>1
    <3>3. x = e /\ Decodes(e.addr, e.size) /\ result[e.addr] = Reading(e)
      BY <1>5, <3>1, <3>2 DEF Numbered
    <3>4. e \in Element /\ meter.turn \in 0..3
      BY <3>1, WantedDef DEF RecordInv
    <3>5. stored'[e.addr] = encode(e.addr, Reading(e))
      BY <2>1, <3>1, <3>3
    <3>6. /\ stored'[e.addr].raw = Encoded(e) /\ stored'[e.addr].quality = Quality(e)
          /\ stored'[e.addr].ns = NS(e) /\ stored'[e.addr].value = JsonValue(e.addr, Value(e))
      BY <3>5 DEF encode, Reading
    <3>7. Lossless(e.addr, Value(e)) => JsonValue(e.addr, Value(e)) = Value(e)
      BY <3>3, <3>4, ValueAsJson
    <3> QED
      BY <3>1, <3>6, <3>7
  <2>5. DOMAIN stored' = A
    BY <2>1, <2>3
  <2>6. RecordFaithful'
    <3>1. \A e : /\ Value(e)' = Value(e) /\ Encoded(e)' = Encoded(e)
                 /\ Quality(e)' = Quality(e) /\ NS(e)' = NS(e)
      BY DEF Value, Encoded, Quality, NS
    <3>2. filter(active, typ)' = Wanted
      BY <1>3 DEF Wanted
    <3> QED
      BY <2>4, <2>5, <3>1, <3>2 DEF RecordFaithful
  <2>7. RefusalExplained'
    BY <2>1 DEF RefusalExplained
  <2> QED
    BY <1>1, <1>7, <2>6, <2>7 DEF RecordInv
<1>9. CASE ~ \A a \in DOMAIN result : Storable(a, result[a].value)
  <2>1. pc' = "failed"
    BY <1>9 DEF Save, Fail
  <2>2. PICK a \in DOMAIN result : ~Storable(a, result[a].value)
    BY <1>9
  <2>3. PICK x \in Members(Wanted) : x.addr = a /\ Decodes(x.addr, x.size) /\ result[a] = Reading(x)
    BY <1>4
  <2>4. ~Storable(x.addr, Value(x))
    BY <2>2, <2>3 DEF Reading
  <2>5. \E i \in DOMAIN Wanted : /\ Decodes(Wanted[i].addr, Wanted[i].size)
                                 /\ ~Storable(Wanted[i].addr, Value(Wanted[i]))
    BY <1>5, <2>3, <2>4
  <2>6. RefusalExplained'
    BY <1>3, <2>5 DEF RefusalExplained, Wanted
  <2>7. RecordFaithful'
    BY <2>1 DEF RecordFaithful
  <2> QED
    BY <1>1, <1>7, <2>6, <2>7 DEF RecordInv
<1> QED
  BY <1>8, <1>9

\* No step of an archive record or of the current values breaks the
\* invariant, as long as answers are those to the requests.
LEMMA RecordNext ==
  ASSUME RecordInv, [Next]_vars, Stale = FALSE
  PROVE  RecordInv'
<1>1. CASE UNCHANGED vars
  <2>1. /\ UNCHANGED <<meter, job, typ>>
        /\ UNCHANGED <<pc, active, chunks, list, data, result, stored>>
    BY <1>1 DEF vars, progress
  <2>2. MeterInv'
    BY <2>1, MeterStays DEF RecordInv
  <2>3. Wanted' = Wanted /\ Answer(list)' = Answer(list)
    BY <2>1, AnswerStays DEF Wanted
  <2>4. \A x : Reading(x)' = Reading(x)
    BY <2>1, ReadingStays
  <2>5. \A x : /\ Value(x)' = Value(x) /\ Encoded(x)' = Encoded(x)
               /\ Quality(x)' = Quality(x) /\ NS(x)' = NS(x)
    BY <2>1 DEF Value, Encoded, Quality, NS
  <2>6. ActiveInv'
    BY <2>1 DEF RecordInv, ActiveInv
  <2>7. ChunkInv'
    BY <2>1, <2>3 DEF RecordInv, ChunkInv
  <2>8. ResultInv'
    BY <2>1, <2>3, <2>4 DEF RecordInv, ResultInv
  <2>9. filter(active, typ)' = filter(active, typ)
    BY <2>1
  <2>10. RecordFaithful'
    BY <2>1, <2>5, <2>9 DEF RecordInv, RecordFaithful
  <2>11. ChunkBytes <= Transmit => RefusalExplained'
    <3>1. RefusalExplained => RefusalExplained'
      BY <2>1, <2>5, <2>9 DEF RefusalExplained, Complete
    <3> QED
      BY <3>1 DEF RecordInv
  <2> QED
    BY <2>2, <2>6, <2>7, <2>8, <2>10, <2>11 DEF RecordInv
<1>2. CASE Next /\ job = "properties"
  <2>1. UNCHANGED <<meter, job, typ>> /\ job' = "properties"
    BY <1>2 DEF Next
  <2>2. MeterInv'
    BY <2>1, MeterStays DEF RecordInv
  <2> QED
    BY <2>1, <2>2 DEF RecordInv, ActiveInv, ChunkInv, ResultInv, RecordFaithful, RefusalExplained
<1>3. CASE Next /\ job # "properties"
  <2>1. UNCHANGED <<meter, job, typ>>
    BY <1>3 DEF Next
  <2>2. pc \in Underway \cup {"active", "prepare", "saved", "failed"}
    BY <1>3 DEF RecordInv, ActiveInv
  <2>3. ~ReadProperties /\ ~SaveProperties
    BY <2>2 DEF ReadProperties, SaveProperties, Underway
  <2>4. ReadActive \/ Prepare \/ SetReadList \/ ReadData \/ Merge \/ Save
    BY <1>3, <2>3 DEF Next
  <2> QED
    BY <1>3, <2>1, <2>4, ReadActiveKeeps, PrepareKeeps, SetReadListKeeps, ReadDataKeeps,
       MergeKeeps, SaveKeeps
<1> QED
  BY <1>1, <1>2, <1>3

\* A row of an archive or of the current values holds the bytes, the quality
\* and the NS the meter has for each element of the list that was read and
\* belongs to the record's type, its value unless it is text that is not UTF-8
\* or a minus zero, and nothing else (readArchiveRecord, ReadCurrent,
\* ParseElements, encode), provided that an answer is the one to its request;
\* stale_tail shows what becomes of the row otherwise.
THEOREM RecordsFaithful ==
  ASSUME Stale = FALSE
  PROVE  Spec => []RecordFaithful
<1>1. Init => RecordInv
  BY RecordInit
<1>2. RecordInv /\ [Next]_vars => RecordInv'
  BY RecordNext
<1>3. RecordInv => RecordFaithful
  BY DEF RecordInv
<1> QED
  BY <1>1, <1>2, <1>3, PTL DEF Spec

\* A record is given up only for a reason the meter gave: ParseElements,
\* SetReadList and the store refuse nothing that is complete, of the right
\* sizes and fit for the row, and an archive's chunks are never cut, provided
\* that one of them fits the transmitter's buffer and that an answer is the
\* one to its request.
THEOREM RefusalsExplained ==
  ASSUME Stale = FALSE, ChunkBytes <= Transmit
  PROVE  Spec => []RefusalExplained
<1>1. Init => RecordInv
  BY RecordInit
<1>2. RecordInv /\ [Next]_vars => RecordInv'
  BY RecordNext
<1>3. RecordInv => RefusalExplained
  BY DEF RecordInv
<1> QED
  BY <1>1, <1>2, <1>3, PTL DEF Spec

(***************************************************************************)
(* The properties.                                                         *)
(***************************************************************************)

\* The names and digits of the meter fit the answer that carries them, and
\* what was read is that answer, a few bytes short or a few too long.
PropertyInv ==
  job = "properties" =>
    /\ pc \in {"properties", "decode", "saved", "failed"}
    /\ \A i \in 1..Units : /\ meter.units[i] \in Seq(Int)
                           /\ Len(meter.units[i]) \in 0..(Power[2] - 1)
                           /\ meter.digits[i] \in Int
    /\ pc = "decode" =>
         \E lost \in 0..3, more \in 0..2 :
           /\ lost = 0 \/ more = 0
           /\ data = SubSeq(PropertyAnswer, 1, Len(PropertyAnswer) - lost) \o [i \in 1..more |-> 0]

\* The list of the properties, in the arithmetic the proofs need: a name has
\* the address of its entry, entries have different addresses, and those of
\* the units are the texts.
LEMMA PropertyTable ==
  /\ \A i \in 1..16 : /\ propertyAddress(PropertyList[i][2]) = PropertyList[i][1]
                      /\ PropertyList[i][1] \in Nat
                      /\ PropertyList[i][1] \in Text <=> i <= 8
                      /\ PropertyList[i][3] \in Nat
  /\ \A i, j \in 1..16 : PropertyList[i][1] = PropertyList[j][1] => i = j
<1>1. /\ PropertyList[1] = <<44, "t_unit", 7>>    /\ PropertyList[2] = <<45, "G_unit", 7>>
      /\ PropertyList[3] = <<46, "V_unit", 7>>    /\ PropertyList[4] = <<47, "M_unit", 7>>
      /\ PropertyList[5] = <<48, "P_unit", 7>>    /\ PropertyList[6] = <<53, "Qo_unit", 7>>
      /\ PropertyList[7] = <<55, "BNP_unit", 7>>  /\ PropertyList[8] = <<56, "VOC_unit", 7>>
  BY DEF PropertyList
<1>2. /\ PropertyList[9] = <<57, "t_dec", 1>>     /\ PropertyList[10] = <<59, "V1_dec", 1>>
      /\ PropertyList[11] = <<60, "M1_dec", 1>>   /\ PropertyList[12] = <<61, "P1_dec", 1>>
      /\ PropertyList[13] = <<66, "Qo1_dec", 1>>  /\ PropertyList[14] = <<69, "V2_dec", 1>>
      /\ PropertyList[15] = <<70, "M2_dec", 1>>   /\ PropertyList[16] = <<76, "Qo2_dec", 1>>
  BY DEF PropertyList
<1>3. /\ propertyAddress("t_unit") = 44   /\ propertyAddress("G_unit") = 45
      /\ propertyAddress("V_unit") = 46   /\ propertyAddress("M_unit") = 47
      /\ propertyAddress("P_unit") = 48   /\ propertyAddress("Qo_unit") = 53
      /\ propertyAddress("BNP_unit") = 55 /\ propertyAddress("VOC_unit") = 56
  BY DEF propertyAddress
<1>4. /\ propertyAddress("t_dec") = 57    /\ propertyAddress("V1_dec") = 59
      /\ propertyAddress("M1_dec") = 60   /\ propertyAddress("P1_dec") = 61
      /\ propertyAddress("Qo1_dec") = 66  /\ propertyAddress("V2_dec") = 69
      /\ propertyAddress("M2_dec") = 70   /\ propertyAddress("Qo2_dec") = 76
  BY DEF propertyAddress
<1>5. \A i \in 1..16 : \/ i = 1 \/ i = 2 \/ i = 3 \/ i = 4 \/ i = 5 \/ i = 6 \/ i = 7 \/ i = 8
                       \/ i = 9 \/ i = 10 \/ i = 11 \/ i = 12 \/ i = 13 \/ i = 14 \/ i = 15 \/ i = 16
  OBVIOUS
<1>6. \A i \in 1..16 : propertyAddress(PropertyList[i][2]) = PropertyList[i][1]
  BY <1>1, <1>2, <1>3, <1>4, <1>5
<1>7. /\ PropertyList[1][1] = 44  /\ PropertyList[2][1] = 45  /\ PropertyList[3][1] = 46
      /\ PropertyList[4][1] = 47  /\ PropertyList[5][1] = 48  /\ PropertyList[6][1] = 53
      /\ PropertyList[7][1] = 55  /\ PropertyList[8][1] = 56  /\ PropertyList[9][1] = 57
      /\ PropertyList[10][1] = 59 /\ PropertyList[11][1] = 60 /\ PropertyList[12][1] = 61
      /\ PropertyList[13][1] = 66 /\ PropertyList[14][1] = 69 /\ PropertyList[15][1] = 70
      /\ PropertyList[16][1] = 76
  BY <1>1, <1>2
<1>8. \A i \in 1..16 : PropertyList[i][1] \in Nat /\ (PropertyList[i][1] \in Text <=> i <= 8)
  BY <1>5, <1>7 DEF Text
<1>9. \A i \in 1..16 : PropertyList[i][3] \in Nat
  BY <1>1, <1>2, <1>5
<1>10. \A i \in 1..15 : PropertyList[i][1] < PropertyList[i + 1][1]
  BY <1>5, <1>7
<1>11. \A i, j \in 1..16 : PropertyList[i][1] = PropertyList[j][1] => i = j
  BY <1>5, <1>7
<1> QED
  BY <1>6, <1>8, <1>9, <1>11

\* What the meter sends for one property, for all of them, and where each ends.
Part(i) == IF i <= Units THEN PutUint(Len(meter.units[i]), 2) \o meter.units[i] \o <<1, 0>>
                         ELSE <<meter.digits[i - Units], 0, 1>>
Parts   == [i \in 1..16 |-> Part(i)]
Offsets == Sums(Lens(Parts))

\* The part of a unit is the length of its name, the name and two bytes, that
\* of a fraction a digit and two bytes.
LEMMA PartDef ==
  ASSUME PropertyInv, job = "properties", NEW i \in 1..16
  PROVE  /\ Part(i) \in Seq(Int)
         /\ i <= 8 => /\ Len(Part(i)) = Len(meter.units[i]) + 4
                      /\ \A h \in 1..2 : Part(i)[h] = PutUint(Len(meter.units[i]), 2)[h]
                      /\ \A h \in 1..Len(meter.units[i]) : Part(i)[2 + h] = meter.units[i][h]
         /\ i > 8 => Len(Part(i)) = 3 /\ Part(i)[1] = meter.digits[i - 8]
<1>1. \A j \in 1..8 : /\ meter.units[j] \in Seq(Int)
                      /\ Len(meter.units[j]) \in 0..(Power[2] - 1)
                      /\ meter.digits[j] \in Int
  BY DEF PropertyInv, Units
<1>2. CASE i <= 8
  <2>1. i \in 1..8
    BY <1>2
  <2>2. PICK u \in Seq(Int) : u = meter.units[i]
    BY <1>1, <2>1
  <2>3. Len(u) \in Int /\ 2 \in 0..8
    BY <2>2
  <2>4. PICK b \in Seq(Int) : b = PutUint(Len(u), 2) /\ Len(b) = 2
    BY <2>3, PutUintDef
  <2>5. PICK e \in Seq(Int) : e = <<1, 0>> /\ Len(e) = 2
    <3>1. <<1, 0>> \in Seq(Int) /\ Len(<<1, 0>>) = 2
      OBVIOUS
    <3> QED
      BY <3>1
  <2>6. /\ b \o u \in Seq(Int) /\ Len(b \o u) = 2 + Len(u)
        /\ \A h \in 1..2 : (b \o u)[h] = b[h]
        /\ \A h \in 1..Len(u) : (b \o u)[2 + h] = u[h]
    <3>1. /\ b \o u \in Seq(Int) /\ Len(b \o u) = Len(b) + Len(u)
          /\ \A h \in 1..Len(b) : (b \o u)[h] = b[h]
          /\ \A h \in 1..Len(u) : (b \o u)[Len(b) + h] = u[h]
      BY <2>2, <2>4, Joined
    <3> QED
      BY <2>4, <3>1
  <2>7. PICK c \in Seq(Int) : /\ c = b \o u /\ Len(c) = 2 + Len(u)
                              /\ \A h \in 1..2 : c[h] = b[h]
                              /\ \A h \in 1..Len(u) : c[2 + h] = u[h]
    BY <2>6
  <2>8. /\ c \o e \in Seq(Int) /\ Len(c \o e) = Len(c) + 2
        /\ \A h \in 1..Len(c) : (c \o e)[h] = c[h]
    BY <2>5, <2>7, Joined
  <2>9. Part(i) = c \o e
    <3>1. Part(i) = PutUint(Len(meter.units[i]), 2) \o meter.units[i] \o <<1, 0>>
      BY <1>2 DEF Part, Units
    <3> QED
      BY <2>2, <2>4, <2>5, <2>7, <3>1, Zenon
  <2>10. \A n \in Nat : /\ (2 + n) + 2 = n + 4
                        /\ \A h \in 1..2 : h \in 1..(2 + n)
                        /\ \A h \in 1..n : 2 + h \in 1..(2 + n)
    OBVIOUS
  <2>11. Len(u) \in Nat
    BY <2>2
  <2>12. Len(c \o e) = Len(u) + 4
    BY <2>7, <2>8, <2>10, <2>11
  <2>13. /\ \A h \in 1..2 : (c \o e)[h] = b[h]
         /\ \A h \in 1..Len(u) : (c \o e)[2 + h] = u[h]
    BY <2>7, <2>8, <2>10, <2>11
  <2>14. /\ Part(i) \in Seq(Int) /\ Len(Part(i)) = Len(u) + 4
         /\ \A h \in 1..2 : Part(i)[h] = PutUint(Len(u), 2)[h]
         /\ \A h \in 1..Len(u) : Part(i)[2 + h] = u[h]
    BY <2>4, <2>8, <2>9, <2>12, <2>13
  <2>15. ~(i > 8)
    BY <1>2
  <2> QED
    BY <2>2, <2>14, <2>15, Zenon
<1>3. CASE i > 8
  <2>1. i - 8 \in 1..8
    BY <1>3
  <2>2. PICK g \in Int : g = meter.digits[i - 8]
    BY <1>1, <2>1
  <2>3. ~(i <= Units) /\ i - Units = i - 8 /\ ~(i <= 8)
    BY <1>3 DEF Units
  <2>4. Part(i) = <<g, 0, 1>>
    BY <2>2, <2>3 DEF Part
  <2>5. <<g, 0, 1>> \in Seq(Int) /\ Len(<<g, 0, 1>>) = 3 /\ <<g, 0, 1>>[1] = g
    BY <2>2
  <2> QED
    BY <2>2, <2>3, <2>4, <2>5, Zenon
<1> QED
  BY <1>2, <1>3

\* Where the parts are in the answer.
LEMMA PropertyAnswerDef ==
  ASSUME PropertyInv, job = "properties"
  PROVE  /\ PropertyAnswer \in Seq(Int) /\ Len(PropertyAnswer) = Offsets[16]
         /\ Offsets[0] = 0
         /\ \A i \in 0..16 : Offsets[i] \in Nat
         /\ \A j \in 0..16 : \A i \in 0..j : Offsets[i] <= Offsets[j]
         /\ \A i \in 1..8 : Offsets[i] = Offsets[i - 1] + Len(meter.units[i]) + 4
         /\ \A i \in 9..16 : Offsets[i] = Offsets[i - 1] + 3
         /\ \A i \in 1..8 : \A h \in 1..2 :
              PropertyAnswer[Offsets[i - 1] + h] = PutUint(Len(meter.units[i]), 2)[h]
         /\ \A i \in 1..8 : \A h \in 1..Len(meter.units[i]) :
              PropertyAnswer[Offsets[i - 1] + (2 + h)] = meter.units[i][h]
         /\ \A i \in 9..16 : PropertyAnswer[Offsets[i - 1] + 1] = meter.digits[i - 8]
<1>ss. PICK ss \in Seq(Seq(Int)) : /\ ss = Parts /\ Len(ss) = 16 /\ DOMAIN ss = 1..16
                                  /\ \A i \in 1..16 : ss[i] = Part(i)
  <2>1. \A i \in 1..16 : Part(i) \in Seq(Int)
    BY PartDef
  <2>2. PICK f : f = [i \in 1..16 |-> Part(i)]
    OBVIOUS
  <2>3. DOMAIN f = 1..16 /\ \A i \in 1..16 : f[i] = Part(i)
    BY <2>2, Zenon
  <2>4. f \in Seq(Seq(Int)) /\ Len(f) = 16
    BY <2>1, <2>2
  <2> QED
    BY <2>2, <2>3, <2>4 DEF Parts
<1>1. PropertyAnswer = FlattenSeq(ss)
  <2>1. PropertyAnswer = FlattenSeq(Parts)
    BY DEF PropertyAnswer, Parts, Part
  <2> QED
    BY <1>ss, <2>1, Zenon
<1>2. /\ Lens(ss) \in Seq(Nat) /\ Lens(ss) \in Seq(Int) /\ Len(Lens(ss)) = 16
      /\ FlattenSeq(ss) \in Seq(Int) /\ Len(FlattenSeq(ss)) = Sums(Lens(ss))[Len(ss)]
      /\ \A i \in DOMAIN ss : \A j \in 1..Len(ss[i]) :
           FlattenSeq(ss)[Sums(Lens(ss))[i - 1] + j] = ss[i][j]
  <2>1. /\ Lens(ss) \in Seq(Nat) /\ Lens(ss) \in Seq(Int) /\ Len(Lens(ss)) = Len(ss)
        /\ FlattenSeq(ss) \in Seq(Int) /\ Len(FlattenSeq(ss)) = Sums(Lens(ss))[Len(ss)]
        /\ \A i \in DOMAIN ss : \A j \in 1..Len(ss[i]) :
             FlattenSeq(ss)[Sums(Lens(ss))[i - 1] + j] = ss[i][j]
    BY <1>ss, FlattenDef
  <2> QED
    BY <1>ss, <2>1
<1>c. PICK c \in Seq(Nat) : /\ c = Lens(ss) /\ c \in Seq(Int) /\ Len(c) = 16
                           /\ \A i \in 1..16 : c[i] = Len(ss[i])
  BY <1>ss, <1>2 DEF Lens
<1>at. PICK at : at = Sums(c) /\ at = Offsets
  BY <1>c, <1>ss DEF Offsets
<1>3. at \in [0..16 -> Int] /\ at[0] = 0 /\ \A i \in 1..16 : at[i] = at[i - 1] + c[i]
  BY <1>c, <1>at, SumsDef
<1>4. \A j \in 0..16 : \A i \in 0..j : at[i] \in Nat /\ at[i] <= at[j]
  BY <1>c, <1>at, SumsGrow
<1>5. \A i \in 0..16 : at[i] \in Nat
  <2>1. \A i \in 0..16 : i \in 0..i
    OBVIOUS
  <2> QED
    BY <1>4, <2>1
<1>d. PICK d \in Seq(Int) : /\ d = PropertyAnswer /\ Len(d) = at[16]
                           /\ \A i \in 1..16 : \A j \in 1..Len(ss[i]) : d[at[i - 1] + j] = ss[i][j]
  <2>1. FlattenSeq(ss) \in Seq(Int) /\ Len(FlattenSeq(ss)) = at[16]
    BY <1>2, <1>ss, <1>c, <1>at
  <2>2. \A i \in 1..16 : \A j \in 1..Len(ss[i]) : FlattenSeq(ss)[at[i - 1] + j] = ss[i][j]
    <3>1. DOMAIN ss = 1..16 /\ Sums(Lens(ss)) = at
      BY <1>ss, <1>c, <1>at
    <3>2. \A i \in DOMAIN ss : \A j \in 1..Len(ss[i]) :
            FlattenSeq(ss)[Sums(Lens(ss))[i - 1] + j] = ss[i][j]
      BY <1>2
    <3> QED
      BY <3>1, <3>2, Zenon
  <2> QED
    BY <1>1, <2>1, <2>2
<1>6. ASSUME NEW i \in 1..8
      PROVE  /\ at[i] = at[i - 1] + Len(meter.units[i]) + 4
             /\ \A h \in 1..2 : d[at[i - 1] + h] = PutUint(Len(meter.units[i]), 2)[h]
             /\ \A h \in 1..Len(meter.units[i]) : d[at[i - 1] + (2 + h)] = meter.units[i][h]
  <2>1. i \in 1..16 /\ i <= 8 /\ i - 1 \in 0..16
    OBVIOUS
  <2>2. /\ Len(ss[i]) = Len(meter.units[i]) + 4
        /\ \A h \in 1..2 : ss[i][h] = PutUint(Len(meter.units[i]), 2)[h]
        /\ \A h \in 1..Len(meter.units[i]) : ss[i][2 + h] = meter.units[i][h]
    <3>1. i \in 1..16 /\ ss[i] = Part(i)
      BY <1>ss, <2>1
    <3>2. i \in 1..16 =>
            /\ i <= 8 => /\ Len(Part(i)) = Len(meter.units[i]) + 4
                         /\ \A h \in 1..2 : Part(i)[h] = PutUint(Len(meter.units[i]), 2)[h]
                         /\ \A h \in 1..Len(meter.units[i]) : Part(i)[2 + h] = meter.units[i][h]
            /\ i > 8 => Len(Part(i)) = 3 /\ Part(i)[1] = meter.digits[i - 8]
      BY PartDef, Zenon
    <3> QED
      BY <2>1, <3>1, <3>2, Zenon
  <2>3. PICK n \in Nat : n = Len(meter.units[i])
    <3>1. Len(meter.units[i]) \in 0..(Power[2] - 1)
      BY DEF PropertyInv, Units
    <3>2. Len(meter.units[i]) \in Nat
      BY <3>1
    <3> QED
      BY <3>2
  <2>4. \A h \in 1..2 : h \in 1..(n + 4)
    BY <2>3
  <2>5. \A h \in 1..n : 2 + h \in 1..(n + 4)
    BY <2>3
  <2>6. at[i] = at[i - 1] + (n + 4) /\ at[i - 1] \in Nat
    <3>1. at[i] = at[i - 1] + c[i] /\ at[i - 1] \in Nat
      BY <1>3, <1>5, <2>1
    <3>2. c[i] = n + 4
      BY <1>c, <2>1, <2>2, <2>3
    <3> QED
      BY <3>1, <3>2
  <2>7. \A x, y \in Nat : x + (y + 4) = x + y + 4
    OBVIOUS
  <2>8. at[i] = at[i - 1] + n + 4
    BY <2>3, <2>6, <2>7
  <2>d. \A j \in 1..(n + 4) : d[at[i - 1] + j] = ss[i][j]
    <3>1. Len(ss[i]) = n + 4
      BY <2>2, <2>3
    <3>2. \A j \in 1..Len(ss[i]) : d[at[i - 1] + j] = ss[i][j]
      BY <1>d, <2>1, Zenon
    <3> QED
      BY <3>1, <3>2, Zenon
  <2>9. \A h \in 1..2 : d[at[i - 1] + h] = PutUint(Len(meter.units[i]), 2)[h]
    BY <2>d, <2>2, <2>4, Zenon
  <2>10. \A h \in 1..n : d[at[i - 1] + (2 + h)] = meter.units[i][h]
    <3>1. \A h \in 1..n : ss[i][2 + h] = meter.units[i][h]
      BY <2>2, <2>3, Zenon
    <3> QED
      BY <2>5, <2>d, <3>1, Zenon
  <2> QED
    BY <2>3, <2>8, <2>9, <2>10
<1>7. ASSUME NEW i \in 9..16
      PROVE  at[i] = at[i - 1] + 3 /\ d[at[i - 1] + 1] = meter.digits[i - 8]
  <2>1. i \in 1..16 /\ i > 8
    OBVIOUS
  <2>2. Len(ss[i]) = 3 /\ ss[i][1] = meter.digits[i - 8]
    <3>1. i \in 1..16 /\ ss[i] = Part(i)
      BY <1>ss, <2>1
    <3>2. i \in 1..16 => (i > 8 => Len(Part(i)) = 3 /\ Part(i)[1] = meter.digits[i - 8])
      BY PartDef, Zenon
    <3> QED
      BY <2>1, <3>1, <3>2, Zenon
  <2>3. 1 \in 1..3
    OBVIOUS
  <2>4. at[i] = at[i - 1] + c[i] /\ c[i] = 3
    BY <1>c, <1>3, <2>1, <2>2
  <2>5. d[at[i - 1] + 1] = ss[i][1]
    BY <1>d, <2>1, <2>2, <2>3
  <2> QED
    BY <2>2, <2>4, <2>5
<1> QED
  <2>1. d \in Seq(Int) /\ Len(d) = at[16] /\ at[0] = 0
    BY <1>d, <1>3
  <2>2. d = PropertyAnswer /\ at = Offsets
    BY <1>at, <1>d
  <2> QED
    BY <2>1, <2>2, <1>4, <1>5, <1>6, <1>7, Zenon

\* Data that has the first n bytes of the answer.
Begins(d, n) == n <= Len(d) /\ \A j \in 1..n : d[j] = PropertyAnswer[j]

\* Data that begins like the answer, at least up to its last property, is cut
\* into the same properties: the lengths in front of the names are those the
\* meter wrote.
LEMMA EndsDef ==
  ASSUME PropertyInv, job = "properties", NEW d \in Seq(Int), Begins(d, Offsets[15])
  PROVE  \A i \in 0..16 : Ends(d)[i] = Offsets[i]
<1>0. Offsets[15] <= Len(d) /\ \A j \in 1..Offsets[15] : d[j] = PropertyAnswer[j]
  BY DEF Begins
<1>p. PICK p \in Seq(Int) : p = PropertyAnswer
  BY PropertyAnswerDef, Zenon
<1>1. /\ Offsets[0] = 0 /\ \A i \in 0..16 : Offsets[i] \in Nat
      /\ \A j \in 0..16 : \A i \in 0..j : Offsets[i] <= Offsets[j]
      /\ \A i \in 1..8 : Offsets[i] = Offsets[i - 1] + Len(meter.units[i]) + 4
      /\ \A i \in 9..16 : Offsets[i] = Offsets[i - 1] + 3
      /\ \A i \in 1..8 : \A h \in 1..2 : p[Offsets[i - 1] + h] = PutUint(Len(meter.units[i]), 2)[h]
  BY <1>p, PropertyAnswerDef, Zenon
<1>2. ASSUME NEW i \in 1..8
      PROVE  NameLength(d, Offsets[i - 1]) = Len(meter.units[i])
  <2>1. i - 1 \in 0..16 /\ i \in 0..15 /\ i \in 0..16 /\ 15 \in 0..16
    OBVIOUS
  <2>n. PICK n \in 0..(Power[2] - 1) : n = Len(meter.units[i])
    BY DEF PropertyInv, Units
  <2>2. n \in Int /\ n >= 0 /\ 2 \in 0..8
    BY <2>n
  <2>b. PICK b \in Seq(Int) : b = PutUint(n, 2) /\ Len(b) = 2
    BY <2>2, PutUintDef
  <2>3. LittleEndian(b) = n
    BY <2>n, <2>2, <2>b, PutUintFits
  <2>a. PICK a \in Nat : a = Offsets[i - 1]
    BY <1>1, <2>1
  <2>4. a + 2 <= Offsets[15] /\ Offsets[15] \in Nat
    <3>1. Offsets[i] = a + n + 4 /\ Offsets[i] <= Offsets[15] /\ Offsets[15] \in Nat
      BY <1>1, <2>1, <2>n, <2>a
    <3>2. \A x, y, z \in Nat : x + y + 4 <= z => x + 2 <= z
      OBVIOUS
    <3>3. a \in Nat /\ n \in Nat
      BY <2>2, <2>a
    <3> QED
      BY <3>1, <3>2, <3>3
  <2>5. a + Len(b) <= Len(d)
    <3>1. Len(d) \in Nat /\ Offsets[15] <= Len(d) /\ a \in Nat
      BY <1>0, <2>a
    <3>2. a + 2 <= Len(d)
      BY <2>4, <3>1
    <3> QED
      BY <2>b, <3>2
  <2>6. \A h \in 1..Len(b) : d[a + h] = b[h]
    <3>1. \A h \in 1..2 : a + h \in 1..Offsets[15]
      <4>1. \A x, y \in Nat : x + 2 <= y => x + 1 \in 1..y /\ x + 2 \in 1..y
        OBVIOUS
      <4>2. a + 1 \in 1..Offsets[15] /\ a + 2 \in 1..Offsets[15] /\ a \in Nat
        BY <2>a, <2>4, <4>1
      <4>3. \A h \in 1..2 : h = 1 \/ h = 2
        OBVIOUS
      <4> QED
        BY <4>2, <4>3
    <3>2. \A h \in 1..2 : d[a + h] = p[a + h]
      BY <1>0, <1>p, <3>1
    <3>3. \A h \in 1..2 : p[a + h] = b[h]
      BY <1>1, <2>a, <2>b, <2>n
    <3> QED
      BY <2>b, <3>2, <3>3
  <2>7. SubSeq(d, a + 1, a + Len(b)) = b
    BY <2>a, <2>b, <2>5, <2>6, Window
  <2> QED
    BY <2>n, <2>a, <2>b, <2>3, <2>7 DEF NameLength
<1> DEFINE Step(f, i) == IF i = 0 THEN 0
                         ELSE f[i - 1] + 2 + IF i <= Units THEN 2 + NameLength(d, f[i - 1]) ELSE 1
           Eq(f) == f = [i \in 0..16 |-> Step(f, i)]
<1>3. \E f : Eq(f)
  <2>f. PICK f : f = [i \in 0..16 |-> Offsets[i]]
    OBVIOUS
  <2>1. DOMAIN f = 0..16 /\ \A i \in 0..16 : f[i] = Offsets[i]
    BY <2>f
  <2>2. ASSUME NEW i \in 0..16 PROVE f[i] = Step(f, i)
    <3>1. CASE i = 0
      BY <1>1, <2>1, <3>1
    <3>2. CASE i \in 1..8
      <4>1. i - 1 \in 0..16 /\ i # 0 /\ i <= Units
        BY <3>2 DEF Units
      <4>n. PICK n \in Nat : n = Len(meter.units[i])
        <5>1. Len(meter.units[i]) \in 0..(Power[2] - 1)
          BY <3>2 DEF PropertyInv, Units
        <5>2. Len(meter.units[i]) \in Nat
          BY <5>1
        <5> QED
          BY <5>2
      <4>a. PICK a \in Nat : a = Offsets[i - 1] /\ f[i - 1] = a
        BY <1>1, <2>1, <4>1
      <4>2. f[i] = a + n + 4
        BY <1>1, <2>1, <3>2, <4>n, <4>a
      <4>3. NameLength(d, a) = n
        BY <1>2, <3>2, <4>n, <4>a
      <4>4. Step(f, i) = a + 2 + (2 + n)
        BY <4>1, <4>a, <4>3
      <4>5. \A x, y \in Nat : x + y + 4 = x + 2 + (2 + y)
        OBVIOUS
      <4>6. a \in Nat /\ n \in Nat
        BY <4>a, <4>n
      <4> HIDE DEF Step
      <4> QED
        BY <4>2, <4>4, <4>5, <4>6
    <3>3. CASE i \in 9..16
      <4>1. i - 1 \in 0..16 /\ i # 0 /\ ~(i <= Units)
        BY <3>3 DEF Units
      <4>a. PICK a \in Nat : a = Offsets[i - 1] /\ f[i - 1] = a
        BY <1>1, <2>1, <4>1
      <4>2. f[i] = a + 3
        BY <1>1, <2>1, <3>3, <4>a
      <4>3. Step(f, i) = a + 2 + 1
        BY <4>1, <4>a
      <4> QED
        BY <4>a, <4>2, <4>3
    <3> QED
      BY <3>1, <3>2, <3>3
  <2> HIDE DEF Step
  <2>3. f = [i \in 0..16 |-> Step(f, i)]
    BY <2>f, <2>1, <2>2
  <2> QED
    BY <2>3
<1>4. Ends(d) = CHOOSE f : Eq(f)
  BY DEF Ends
<1> HIDE DEF Eq
<1>g. PICK g : g = Ends(d) /\ Eq(g)
  BY <1>3, <1>4, Zenon
<1>5. \A i \in 0..16 : g[i] = Step(g, i)
  BY <1>g DEF Eq
<1> DEFINE S == {i \in 0..16 : g[i] = Offsets[i]}
<1>6. 0 \in S
  <2>1. 0 \in 0..16
    OBVIOUS
  <2> QED
    BY <1>1, <1>5, <2>1
<1>7. ASSUME NEW i \in 1..16, i - 1 \in S PROVE i \in S
  <2>1. i \in 0..16 /\ i # 0 /\ g[i - 1] = Offsets[i - 1] /\ i - 1 \in 0..16
    BY <1>7
  <2>a. PICK a \in Nat : a = Offsets[i - 1] /\ g[i - 1] = a
    BY <1>1, <2>1
  <2>2. CASE i \in 1..8
    <3>1. i <= Units
      BY <2>2 DEF Units
    <3>n. PICK n \in Nat : n = Len(meter.units[i])
      <4>1. Len(meter.units[i]) \in 0..(Power[2] - 1)
        BY <2>2 DEF PropertyInv, Units
      <4>2. Len(meter.units[i]) \in Nat
        BY <4>1
      <4> QED
        BY <4>2
    <3>2. NameLength(d, a) = n
      BY <1>2, <2>2, <2>a, <3>n
    <3>3. g[i] = a + 2 + (2 + n)
      BY <1>5, <2>1, <2>a, <3>1, <3>2
    <3>4. Offsets[i] = a + n + 4
      BY <1>1, <2>2, <2>a, <3>n
    <3>5. \A x, y \in Nat : x + y + 4 = x + 2 + (2 + y)
      OBVIOUS
    <3>6. a \in Nat /\ n \in Nat
      BY <2>a, <3>n
    <3>7. g[i] = Offsets[i]
      BY <3>3, <3>4, <3>5, <3>6
    <3> QED
      BY <2>1, <3>7
  <2>3. CASE i \in 9..16
    <3>1. ~(i <= Units)
      BY <2>3 DEF Units
    <3>2. g[i] = a + 2 + 1
      BY <1>5, <2>1, <2>a, <3>1
    <3>3. Offsets[i] = a + 3
      BY <1>1, <2>3, <2>a
    <3> QED
      BY <2>1, <2>a, <3>2, <3>3
  <2> QED
    BY <2>2, <2>3
<1> HIDE DEF S
<1>8. 0..16 \subseteq S
  BY <1>6, <1>7, UpTo
<1> QED
  BY <1>g, <1>8 DEF S

\* What is to be stored of the i-th property.
Property(i) == IF i <= Units THEN meter.units[i] ELSE <<meter.digits[i - Units]>>

\* Data that holds the whole answer first is taken apart when no name is
\* longer than it was declared to be, into what the meter has.
LEMMA WholeConsumed ==
  ASSUME PropertyInv, job = "properties", NEW d \in Seq(Int), Begins(d, Offsets[16])
  PROVE  LET r == ConsumeProperties(d)
         IN  /\ r.ok <=> \A i \in 1..8 : Len(meter.units[i]) <= PropertyList[i][3]
             /\ r.ok => /\ r.off = Offsets[16]
                        /\ DOMAIN r.out = {PropertyList[i][2] : i \in 1..16}
                        /\ \A i \in 1..16 : r.out[PropertyList[i][2]] = Property(i)
<1>p. PICK p \in Seq(Int) : p = PropertyAnswer
  BY PropertyAnswerDef, Zenon
<1>1. /\ Offsets[0] = 0 /\ \A i \in 0..16 : Offsets[i] \in Nat
      /\ \A j \in 0..16 : \A i \in 0..j : Offsets[i] <= Offsets[j]
      /\ \A i \in 1..8 : Offsets[i] = Offsets[i - 1] + Len(meter.units[i]) + 4
      /\ \A i \in 9..16 : Offsets[i] = Offsets[i - 1] + 3
      /\ \A i \in 1..8 : \A h \in 1..2 : p[Offsets[i - 1] + h] = PutUint(Len(meter.units[i]), 2)[h]
      /\ \A i \in 1..8 : \A h \in 1..Len(meter.units[i]) :
           p[Offsets[i - 1] + (2 + h)] = meter.units[i][h]
      /\ \A i \in 9..16 : p[Offsets[i - 1] + 1] = meter.digits[i - 8]
  BY <1>p, PropertyAnswerDef, Zenon
<1>0. Offsets[16] <= Len(d) /\ \A j \in 1..Offsets[16] : d[j] = PropertyAnswer[j]
  BY DEF Begins
<1>2. Begins(d, Offsets[15])
  <2>1. Offsets[15] <= Offsets[16] /\ Offsets[15] \in Nat /\ Offsets[16] \in Nat /\ Len(d) \in Nat
    <3>1. 15 \in 0..16 /\ 16 \in 0..16 /\ Len(d) \in Nat
      OBVIOUS
    <3> QED
      BY <1>1, <3>1, Zenon
  <2>2. Offsets[15] <= Len(d)
    BY <1>0, <2>1
  <2>3. \A j \in 1..Offsets[15] : j \in 1..Offsets[16]
    BY <2>1
  <2> QED
    BY <1>0, <2>2, <2>3 DEF Begins
<1>3. \A i \in 0..16 : Ends(d)[i] = Offsets[i]
  BY <1>2, EndsDef
<1>u. \A i \in 1..8 : meter.units[i] \in Seq(Int) /\ Len(meter.units[i]) \in Nat
  <2>1. \A i \in 1..8 : meter.units[i] \in Seq(Int)
    BY DEF PropertyInv, Units
  <2>2. \A s \in Seq(Int) : Len(s) \in Nat
    OBVIOUS
  <2> QED
    BY <2>1, <2>2
<1>4. ASSUME NEW i \in 1..16
      PROVE  /\ i - 1 \in 0..16 /\ i \in 0..16 /\ Offsets[i - 1] \in Nat /\ Offsets[i] \in Nat
             /\ Offsets[i] <= Len(d) /\ Len(d) \in Nat
             /\ \A j \in 1..Offsets[i] : d[j] = p[j]
  <2>1. i - 1 \in 0..16 /\ i \in 0..16 /\ 16 \in 0..16
    OBVIOUS
  <2>2. Offsets[i - 1] \in Nat /\ Offsets[i] \in Nat /\ Offsets[16] \in Nat /\ Offsets[i] <= Offsets[16]
    BY <1>1, <2>1, Zenon
  <2>3. Offsets[i] <= Len(d) /\ Len(d) \in Nat
    BY <1>0, <2>2
  <2>4. \A j \in 1..Offsets[i] : j \in 1..Offsets[16]
    BY <2>2
  <2> QED
    BY <1>0, <1>p, <2>1, <2>2, <2>3, <2>4
<1> DEFINE end     == Ends(d)
           fits(i) == IF i <= Units THEN unit(d, end[i - 1], PropertyList[i][3])
                                    ELSE frac(d, end[i - 1])
           from(i) == end[i - 1] + IF i <= Units THEN 3 ELSE 1
           N       == {PropertyList[i][2] : i \in 1..16}
           I(x)    == CHOOSE i \in 1..16 : PropertyList[i][2] = x
           R(x)    == SubSeq(d, from(I(x)), end[I(x)] - 2)
<1>5. ConsumeProperties(d) = IF \A i \in 1..16 : fits(i)
                             THEN [ok |-> TRUE, off |-> end[16], out |-> [x \in N |-> R(x)]]
                             ELSE [ok |-> FALSE]
  BY DEF ConsumeProperties
<1>6. ASSUME NEW i \in 1..8
      PROVE  fits(i) <=> Len(meter.units[i]) <= PropertyList[i][3]
  <2>1. i \in 1..16 /\ i <= Units
    BY DEF Units
  <2>a. PICK a \in Nat : a = Offsets[i - 1] /\ end[i - 1] = a
    BY <1>3, <1>4, <2>1
  <2>n. PICK n \in Nat : n = Len(meter.units[i])
    BY <1>u
  <2>m. PICK m \in Nat : m = Len(d)
    OBVIOUS
  <2>t. a \in Nat /\ n \in Nat /\ m \in Nat
    BY <2>a, <2>n, <2>m
  <2>o. Offsets[i] = a + n + 4 /\ end[i] = Offsets[i]
    <3>1. Offsets[i] = Offsets[i - 1] + Len(meter.units[i]) + 4
      BY <1>1, Zenon
    <3>2. end[i] = Offsets[i]
      BY <1>3, <1>4, <2>1, Zenon
    <3> QED
      BY <2>a, <2>n, <3>1, <3>2, Zenon
  <2>2. a + n + 4 <= m
    BY <1>4, <2>1, <2>o, <2>m
  <2>3. NameLength(d, a) = n
    <3>n. n \in 0..(Power[2] - 1) /\ n \in Int /\ 2 \in 0..8
      <4>1. n \in 0..(Power[2] - 1)
        BY <2>n DEF PropertyInv, Units
      <4> QED
        BY <4>1
    <3>b. PICK b \in Seq(Int) : b = PutUint(n, 2) /\ Len(b) = 2
      BY <3>n, PutUintDef
    <3>2. LittleEndian(b) = n
      BY <3>n, <3>b, PutUintFits
    <3>3. \A h \in 1..2 : a + h \in 1..Offsets[i]
      <4>1. \A h \in 1..2 : a + h \in 1..(a + n + 4)
        BY <2>t
      <4> QED
        BY <2>o, <4>1
    <3>4. \A h \in 1..2 : d[a + h] = p[a + h]
      BY <1>4, <2>1, <3>3
    <3>5. \A h \in 1..2 : p[a + h] = b[h]
      <4>1. \A h \in 1..2 : p[Offsets[i - 1] + h] = PutUint(Len(meter.units[i]), 2)[h]
        BY <1>1, Zenon
      <4> QED
        BY <2>a, <2>n, <3>b, <4>1, Zenon
    <3>6. \A h \in 1..Len(b) : d[a + h] = b[h]
      BY <3>b, <3>4, <3>5
    <3>7. a + Len(b) <= Len(d)
      <4>1. a + 2 <= m
        BY <2>t, <2>2
      <4> QED
        BY <2>m, <3>b, <4>1
    <3>8. SubSeq(d, a + 1, a + Len(b)) = b
      BY <2>a, <3>b, <3>6, <3>7, Window
    <3> QED
      BY <3>b, <3>2, <3>8 DEF NameLength
  <2>4. fits(i) <=> unit(d, a, PropertyList[i][3])
    BY <2>1, <2>a
  <2>5. a + 2 <= m /\ a + 2 + n + 2 <= m
    BY <2>t, <2>2
  <2> QED
    BY <2>n, <2>m, <2>3, <2>4, <2>5 DEF unit
<1>7. ASSUME NEW i \in 9..16
      PROVE  fits(i)
  <2>1. i \in 1..16 /\ ~(i <= Units)
    BY DEF Units
  <2>a. PICK a \in Nat : a = Offsets[i - 1] /\ end[i - 1] = a
    BY <1>3, <1>4, <2>1
  <2>2. Offsets[i] = a + 3 /\ Offsets[i] <= Len(d)
    <3>1. Offsets[i] = Offsets[i - 1] + 3
      BY <1>1, Zenon
    <3> QED
      BY <1>4, <2>1, <2>a, <3>1, Zenon
  <2> QED
    BY <2>1, <2>2, <2>a DEF frac
<1>8. (\A i \in 1..16 : fits(i)) <=> \A i \in 1..8 : Len(meter.units[i]) <= PropertyList[i][3]
  <2> HIDE DEF fits
  <2>1. \A i \in 1..8 : i \in 1..16
    OBVIOUS
  <2>2. \A i \in 1..16 : i \in 1..8 \/ i \in 9..16
    OBVIOUS
  <2> QED
    BY <1>6, <1>7, <2>1, <2>2
<1>9. ASSUME NEW i \in 1..16
      PROVE  SubSeq(d, from(i), end[i] - 2) = Property(i)
  <2>a. PICK a \in Nat : a = Offsets[i - 1] /\ end[i - 1] = a
    BY <1>3, <1>4
  <2>1. CASE i \in 1..8
    <3>1. i <= Units
      BY <2>1 DEF Units
    <3>t. PICK t \in Seq(Int) : t = meter.units[i] /\ Len(t) \in Nat
      BY <1>u, <2>1
    <3>2. end[i] = a + Len(t) + 4 /\ Offsets[i] = a + Len(t) + 4
      <4>1. Offsets[i] = Offsets[i - 1] + Len(meter.units[i]) + 4
        BY <1>1, <2>1, Zenon
      <4>2. end[i] = Offsets[i]
        BY <1>3, <1>4, Zenon
      <4> QED
        BY <2>a, <3>t, <4>1, <4>2, Zenon
    <3>k. PICK k \in Nat : k = Len(t)
      BY <3>t
    <3>b. PICK b \in Nat : b = a + 2
      BY <2>a
    <3>o. a \in Nat /\ k \in Nat /\ b \in Nat /\ b = a + 2
      BY <2>a, <3>k, <3>b
    <3>3. from(i) = b + 1 /\ end[i] - 2 = b + Len(t)
      <4>1. from(i) = a + 3 /\ end[i] = a + k + 4
        BY <2>a, <3>1, <3>2, <3>k
      <4>2. a + 3 = b + 1 /\ (a + k + 4) - 2 = b + k
        BY <3>o
      <4> HIDE DEF from, end
      <4> QED
        BY <3>k, <4>1, <4>2
    <3>4. \A h \in 1..Len(t) : b + h \in 1..Offsets[i] /\ b + h = a + (2 + h)
      <4>1. \A h \in 1..k : b + h \in 1..(a + k + 4) /\ b + h = a + (2 + h)
        BY <3>o
      <4> QED
        BY <3>2, <3>k, <4>1
    <3>5. \A h \in 1..Len(t) : d[b + h] = t[h]
      <4>1. \A h \in 1..Len(t) : d[b + h] = p[b + h]
        BY <1>4, <3>4
      <4>2. \A h \in 1..Len(t) : p[a + (2 + h)] = t[h]
        <5>1. \A h \in 1..Len(meter.units[i]) : p[Offsets[i - 1] + (2 + h)] = meter.units[i][h]
          BY <1>1, <2>1, Zenon
        <5> QED
          BY <2>a, <3>t, <5>1, Zenon
      <4> QED
        BY <3>4, <4>1, <4>2
    <3>6. b + Len(t) <= Len(d)
      <4>1. a + k + 4 <= Len(d) /\ Len(d) \in Nat
        BY <1>4, <3>2, <3>k
      <4>2. b + k <= Len(d)
        BY <3>o, <4>1
      <4> QED
        BY <3>k, <4>2
    <3>7. SubSeq(d, b + 1, b + Len(t)) = t
      BY <3>b, <3>t, <3>5, <3>6, Window
    <3> QED
      BY <3>1, <3>3, <3>7, <3>t DEF Property
  <2>2. CASE i \in 9..16
    <3>1. ~(i <= Units) /\ i - Units = i - 8 /\ i - 8 \in 1..8
      BY <2>2 DEF Units
    <3>g. PICK g \in Int : g = meter.digits[i - 8]
      BY <3>1 DEF PropertyInv, Units
    <3>t. PICK t \in Seq(Int) : t = <<g>> /\ Len(t) = 1 /\ t[1] = g
      <4>1. <<g>> \in Seq(Int) /\ Len(<<g>>) = 1 /\ <<g>>[1] = g
        BY <3>g
      <4> QED
        BY <4>1
    <3>2. end[i] = a + 3 /\ Offsets[i] = a + 3
      <4>1. Offsets[i] = Offsets[i - 1] + 3
        BY <1>1, <2>2, Zenon
      <4>2. end[i] = Offsets[i]
        BY <1>3, <1>4, Zenon
      <4> QED
        BY <2>a, <4>1, <4>2, Zenon
    <3>3. from(i) = a + 1 /\ end[i] - 2 = a + Len(t)
      BY <2>a, <3>1, <3>t, <3>2
    <3>4. a + 1 \in 1..Offsets[i] /\ a + Len(t) <= Len(d)
      <4>1. a + 3 <= Len(d) /\ Len(d) \in Nat /\ a \in Nat
        BY <1>4, <2>a, <3>2
      <4>2. a + 1 \in 1..(a + 3) /\ a + 1 <= Len(d)
        BY <4>1
      <4> QED
        BY <3>t, <3>2, <4>2
    <3>5. d[a + 1] = g
      <4>1. p[Offsets[i - 1] + 1] = meter.digits[i - 8]
        BY <1>1, <2>2, Zenon
      <4>2. d[a + 1] = p[a + 1]
        BY <1>4, <3>4, Zenon
      <4> QED
        BY <2>a, <3>g, <4>1, <4>2, Zenon
    <3>6. \A h \in 1..Len(t) : d[a + h] = t[h]
      BY <3>t, <3>5
    <3>7. SubSeq(d, a + 1, a + Len(t)) = t
      BY <2>a, <3>t, <3>4, <3>6, Window
    <3> QED
      BY <3>1, <3>3, <3>7, <3>t, <3>g DEF Property
  <2>3. i \in 1..8 \/ i \in 9..16
    OBVIOUS
  <2> QED
    BY <2>1, <2>2, <2>3
<1>10. ASSUME NEW i \in 1..16 PROVE PropertyList[i][2] \in N /\ R(PropertyList[i][2]) = Property(i)
  <2>1. I(PropertyList[i][2]) \in 1..16 /\ PropertyList[I(PropertyList[i][2])][2] = PropertyList[i][2]
    OBVIOUS
  <2>2. I(PropertyList[i][2]) = i
    <3> PICK j \in 1..16 : j = I(PropertyList[i][2]) /\ PropertyList[j][2] = PropertyList[i][2]
      BY <2>1
    <3> HIDE DEF I
    <3>1. PropertyList[j][1] = PropertyList[i][1]
      BY PropertyTable
    <3> QED
      BY <3>1, PropertyTable
  <2> HIDE DEF I, from, end
  <2> QED
    BY <1>9, <2>2
<1> HIDE DEF R
<1>11. DOMAIN [x \in N |-> R(x)] = N /\ \A x \in N : [y \in N |-> R(y)][x] = R(x)
  OBVIOUS
<1>12. end[16] = Offsets[16]
  BY <1>3
<1> HIDE DEF fits, end, N
<1>13. CASE \A i \in 1..16 : fits(i)
  <2>1. ConsumeProperties(d) = [ok |-> TRUE, off |-> end[16], out |-> [x \in N |-> R(x)]]
    BY <1>5, <1>13
  <2>2. /\ ConsumeProperties(d).ok = TRUE /\ ConsumeProperties(d).off = end[16]
        /\ ConsumeProperties(d).out = [x \in N |-> R(x)]
    BY <2>1
  <2> QED
    BY <1>8, <1>10, <1>11, <1>12, <1>13, <2>2, Zenon DEF N
<1>14. CASE ~ \A i \in 1..16 : fits(i)
  <2>1. ConsumeProperties(d).ok = FALSE
    BY <1>5, <1>14
  <2> QED
    BY <1>8, <1>14, <2>1
<1> QED
  BY <1>13, <1>14

\* Data that lacks a byte of the last property is refused.
LEMMA PartRefused ==
  ASSUME PropertyInv, job = "properties", NEW d \in Seq(Int),
         Begins(d, Offsets[15]), Len(d) < Offsets[16]
  PROVE  ConsumeProperties(d).ok = FALSE
<1>1. Ends(d)[15] = Offsets[15]
  <2>1. \A i \in 0..16 : Ends(d)[i] = Offsets[i]
    BY EndsDef
  <2> QED
    BY <2>1
<1>2. Offsets[16] = Offsets[15] + 3 /\ Offsets[15] \in Nat
  <2>1. /\ \A i \in 9..16 : Offsets[i] = Offsets[i - 1] + 3
        /\ \A i \in 0..16 : Offsets[i] \in Nat
    BY PropertyAnswerDef, Zenon
  <2>2. 16 \in 9..16 /\ 16 - 1 = 15 /\ 15 \in 0..16
    OBVIOUS
  <2> QED
    BY <2>1, <2>2
<1>3. ~frac(d, Ends(d)[16 - 1])
  <2>1. 16 - 1 = 15 /\ Len(d) \in Nat
    OBVIOUS
  <2> QED
    BY <1>1, <1>2, <2>1 DEF frac
<1>4. 16 \in 1..16 /\ ~(16 <= Units)
  BY DEF Units
<1>5. ConsumeProperties(d) = [ok |-> FALSE]
  BY <1>3, <1>4 DEF ConsumeProperties
<1> QED
  BY <1>5

\* What the last request brought, and what the decoder makes of it: the
\* sixteen properties exactly when it is the answer and every name has the
\* declared length.
LEMMA PropertiesParsed ==
  ASSUME PropertyInv, job = "properties", pc = "decode"
  PROVE  LET r == ParseProperties(data)
         IN  /\ r.ok <=> /\ data = PropertyAnswer
                         /\ \A i \in 1..8 : Len(meter.units[i]) <= PropertyList[i][3]
             /\ r.ok => /\ DOMAIN r.out = {PropertyList[i][2] : i \in 1..16}
                        /\ \A i \in 1..16 : r.out[PropertyList[i][2]] = Property(i)
<1>p. PICK p \in Seq(Int) : p = PropertyAnswer /\ Len(p) = Offsets[16]
  BY PropertyAnswerDef
<1>o. /\ Offsets[15] \in Nat /\ Offsets[16] \in Nat /\ Offsets[16] = Offsets[15] + 3
      /\ Len(p) = Offsets[16]
  <2>1. /\ \A i \in 9..16 : Offsets[i] = Offsets[i - 1] + 3
        /\ \A i \in 0..16 : Offsets[i] \in Nat
    BY PropertyAnswerDef, Zenon
  <2>2. 16 \in 9..16 /\ 16 - 1 = 15 /\ 15 \in 0..16 /\ 16 \in 0..16
    OBVIOUS
  <2> QED
    BY <1>p, <2>1, <2>2
<1>1. PICK lost \in 0..3, more \in 0..2 :
        /\ lost = 0 \/ more = 0
        /\ data = SubSeq(p, 1, Len(p) - lost) \o [i \in 1..more |-> 0]
  BY <1>p, Zenon DEF PropertyInv
<1>m. more \in Nat /\ lost \in Nat
  BY <1>1
<1>k. PICK k \in Nat : k = Len(p) - lost /\ Offsets[15] <= k /\ k <= Len(p)
  <2>1. Len(p) - lost \in Nat /\ Offsets[15] <= Len(p) - lost /\ Len(p) - lost <= Len(p)
    <3>1. \A x \in Nat : \A y \in 0..3 :
            (x + 3) - y \in Nat /\ x <= (x + 3) - y /\ (x + 3) - y <= x + 3
      OBVIOUS
    <3> QED
      BY <1>o, <3>1, Zenon
  <2> QED
    BY <2>1, Zenon
<1>h. PICK h \in Seq(Int) : h = SubSeq(p, 1, k) /\ Len(h) = k /\ \A j \in 1..k : h[j] = p[j]
  <2>1. 0 + k <= Len(p) /\ 0 \in Nat
    BY <1>k
  <2>2. /\ SubSeq(p, 0 + 1, 0 + k) \in Seq(Int) /\ Len(SubSeq(p, 0 + 1, 0 + k)) = k
        /\ \A i \in 1..k : SubSeq(p, 0 + 1, 0 + k)[i] = p[0 + i]
    BY <2>1, SubSeqDef, Zenon
  <2>3. 0 + 1 = 1 /\ 0 + k = k /\ \A i \in 1..k : 0 + i = i
    BY <1>k
  <2>4. /\ SubSeq(p, 1, k) \in Seq(Int) /\ Len(SubSeq(p, 1, k)) = k
        /\ \A i \in 1..k : SubSeq(p, 1, k)[i] = p[0 + i]
    BY <2>2, <2>3, Zenon
  <2>5. \A i \in 1..k : SubSeq(p, 1, k)[i] = p[i]
    BY <2>3, <2>4, Zenon
  <2> QED
    BY <2>4, <2>5, Zenon
<1>t. PICK t \in Seq(Int) : t = [i \in 1..more |-> 0] /\ Len(t) = more
  <2>1. [i \in 1..more |-> 0] \in Seq(Int) /\ Len([i \in 1..more |-> 0]) = more
    OBVIOUS
  <2> QED
    BY <2>1
<1>d. PICK d \in Seq(Int) : /\ d = data /\ Len(d) = k + more
                           /\ \A j \in 1..k : d[j] = p[j]
  <2>1. data = h \o t
    BY <1>1, <1>k, <1>h, <1>t
  <2>2. /\ h \o t \in Seq(Int) /\ Len(h \o t) = Len(h) + Len(t)
        /\ \A j \in 1..Len(h) : (h \o t)[j] = h[j]
    BY <1>h, <1>t, Joined
  <2> QED
    BY <1>h, <1>t, <2>1, <2>2
<1>2. Offsets[15] <= Len(d) /\ \A j \in 1..Offsets[15] : d[j] = p[j]
  <2>1. k + more \in Nat /\ Offsets[15] <= k + more
    <3>1. \A x, y, z \in Nat : x <= y => y + z \in Nat /\ x <= y + z
      OBVIOUS
    <3> QED
      BY <1>k, <1>o, <1>m, <3>1
  <2>2. \A j \in 1..Offsets[15] : j \in 1..k
    BY <1>k, <1>o
  <2> QED
    BY <1>d, <2>1, <2>2
<1>3. ParseProperties(d) = LET r == ConsumeProperties(d)
                           IN  IF r.ok /\ r.off = Len(d) THEN r ELSE [ok |-> FALSE]
  BY DEF ParseProperties
<1>4. CASE lost > 0
  <2>1. Len(d) < Offsets[16]
    <3>1. more = 0
      BY <1>1, <1>m, <1>4
    <3>2. k < Offsets[16]
      BY <1>k, <1>m, <1>4, <1>o
    <3>3. Len(d) = k
      BY <1>d, <1>k, <3>1
    <3> QED
      BY <3>2, <3>3
  <2>2. ConsumeProperties(d).ok = FALSE
    <3>1. Begins(d, Offsets[15])
      BY <1>p, <1>2 DEF Begins
    <3> QED
      BY <1>d, <2>1, <3>1, PartRefused
  <2>3. ParseProperties(d).ok = FALSE
    BY <1>3, <2>2
  <2>4. d # p
    BY <1>p, <1>o, <1>d, <2>1
  <2> QED
    BY <1>p, <1>d, <2>3, <2>4
<1>5. CASE lost = 0
  <2>1. k = Len(p) /\ Len(d) = Offsets[16] + more /\ Offsets[16] <= Len(d)
    <3>1. \A x \in Nat : x - 0 = x
      OBVIOUS
    <3>2. k = Len(p)
      BY <1>k, <1>o, <1>5, <3>1, Zenon
    <3>3. \A x, y \in Nat : x <= x + y
      OBVIOUS
    <3> QED
      BY <1>o, <1>m, <1>d, <3>2, <3>3, Zenon
  <2>2. \A j \in 1..Offsets[16] : d[j] = PropertyAnswer[j]
    BY <1>p, <1>o, <1>d, <2>1
  <2>3. LET r == ConsumeProperties(d)
        IN  /\ r.ok <=> \A i \in 1..8 : Len(meter.units[i]) <= PropertyList[i][3]
            /\ r.ok => /\ r.off = Offsets[16]
                       /\ DOMAIN r.out = {PropertyList[i][2] : i \in 1..16}
                       /\ \A i \in 1..16 : r.out[PropertyList[i][2]] = Property(i)
    <3>1. Begins(d, Offsets[16])
      BY <2>1, <2>2 DEF Begins
    <3> QED
      BY <1>d, <3>1, WholeConsumed
  <2>r. PICK r : r = ConsumeProperties(d)
    OBVIOUS
  <2>4. /\ r.ok <=> \A i \in 1..8 : Len(meter.units[i]) <= PropertyList[i][3]
        /\ r.ok => /\ r.off = Offsets[16]
                   /\ DOMAIN r.out = {PropertyList[i][2] : i \in 1..16}
                   /\ \A i \in 1..16 : r.out[PropertyList[i][2]] = Property(i)
    BY <2>3, <2>r
  <2>5. ParseProperties(d) = IF r.ok /\ r.off = Len(d) THEN r ELSE [ok |-> FALSE]
    BY <1>3, <2>r
  <2>6. CASE more = 0
    <3>1. Len(d) = Offsets[16]
      BY <2>1, <2>6, <1>o
    <3>2. d = p
      <4>1. Len(d) = Len(p) /\ Len(p) = k /\ \A j \in 1..Len(d) : d[j] = p[j]
        BY <1>d, <1>o, <2>1, <3>1
      <4>2. d = [j \in 1..Len(d) |-> d[j]] /\ p = [j \in 1..Len(p) |-> p[j]]
        BY <1>d, <1>p
      <4> QED
        BY <4>1, <4>2
    <3>3. CASE r.ok
      <4>1. ParseProperties(d) = r
        BY <2>4, <2>5, <3>1, <3>3
      <4> QED
        BY <1>p, <1>d, <2>4, <3>2, <3>3, <4>1
    <3>4. CASE ~r.ok
      <4>1. ParseProperties(d).ok = FALSE
        BY <2>5, <3>4
      <4> QED
        BY <1>d, <2>4, <3>4, <4>1
    <3> QED
      BY <3>3, <3>4
  <2>7. CASE more > 0
    <3>1. Len(d) # Offsets[16]
      BY <2>1, <2>7, <1>o
    <3>2. ParseProperties(d).ok = FALSE
      <4>1. ~(r.ok /\ r.off = Len(d))
        BY <2>4, <3>1
      <4>2. ParseProperties(d) = [ok |-> FALSE]
        BY <2>5, <4>1
      <4> QED
        BY <4>2
    <3>3. d # p
      BY <1>p, <1>o, <3>1
    <3> QED
      BY <1>p, <1>d, <3>2, <3>3
  <2> QED
    <3>1. more = 0 \/ more > 0
      BY <1>m
    <3> QED
      BY <2>6, <2>7, <3>1
<1>6. lost = 0 \/ lost > 0
  BY <1>m
<1> QED
  BY <1>4, <1>5, <1>6

\* The meter begins with names and digits that fit.
LEMMA PropertyInit ==
  ASSUME Init
  PROVE  PropertyInv /\ PropertiesFaithful
<1> SUFFICES ASSUME job = "properties" PROVE PropertyInv /\ PropertiesFaithful
  BY DEF PropertyInv, PropertiesFaithful
<1>1. pc = "properties"
  BY DEF Init
<1>2. PICK i \in 1..Units, n \in Lengths, nul \in BOOLEAN, digit \in {0, Radix - 1} :
        meter = [units  |-> [j \in 1..Units |->
                               [k \in 1..(IF j = i THEN n ELSE j % 3) |->
                                  IF nul /\ j = i /\ k = n THEN 0 ELSE ((j + k) % 3) + 1]],
                 digits |-> [j \in 1..Units |-> IF j = i THEN digit ELSE j % 4]]
  BY DEF Init
<1>3. n \in 0..(Power[2] - 1) /\ n \in Nat
  <2>1. n \in 0..(Power[2] - 1)
    BY RecordAssumption
  <2> QED
    BY <2>1
<1>4. ASSUME NEW j \in 1..Units
      PROVE  /\ meter.units[j] \in Seq(Int)
             /\ Len(meter.units[j]) \in 0..(Power[2] - 1)
             /\ meter.digits[j] \in Int
  <2>1. j \in Nat /\ \A k \in Nat : (IF nul /\ j = i /\ k = n THEN 0 ELSE ((j + k) % 3) + 1) \in Int
    BY DEF Units
  <2>m. PICK m \in 0..(Power[2] - 1) : m = IF j = i THEN n ELSE j % 3
    <3>1. j % 3 \in 0..2 /\ 2 <= Power[2] - 1 /\ Power[2] \in Nat
      BY <2>1, Rooms
    <3>2. j % 3 \in 0..(Power[2] - 1)
      BY <3>1
    <3> QED
      BY <1>3, <3>2
  <2>2. m \in Nat
    BY <2>m
  <2>u. PICK u : u = [k \in 1..m |-> IF nul /\ j = i /\ k = n THEN 0 ELSE ((j + k) % 3) + 1]
    OBVIOUS
  <2>3. u \in Seq(Int) /\ Len(u) = m
    <3>1. \A k \in 1..m : (IF nul /\ j = i /\ k = n THEN 0 ELSE ((j + k) % 3) + 1) \in Int
      BY <2>1
    <3> QED
      BY <2>2, <2>u, <3>1
  <2>4. meter.units[j] = u
    BY <1>2, <2>m, <2>u
  <2>5. meter.digits[j] = IF j = i THEN digit ELSE j % 4
    BY <1>2
  <2>6. digit \in Int /\ j % 4 \in Int
    BY <2>1, CodecAssumption
  <2> QED
    BY <2>m, <2>3, <2>4, <2>5, <2>6
<1> QED
  BY <1>1, <1>4 DEF PropertyInv, PropertiesFaithful

\* The properties are read.
LEMMA ReadPropertiesKeeps ==
  ASSUME PropertyInv, UNCHANGED <<meter, job, typ>>, job = "properties", ReadProperties
  PROVE  PropertyInv' /\ PropertiesFaithful'
<1>1. pc' = "decode"
  BY DEF ReadProperties
<1>2. PropertyAnswer' = PropertyAnswer
  BY DEF PropertyAnswer
<1>3. \E lost \in 0..3, more \in 0..2 :
        /\ lost = 0 \/ more = 0
        /\ data' = SubSeq(PropertyAnswer, 1, Len(PropertyAnswer) - lost) \o [i \in 1..more |-> 0]
  BY DEF ReadProperties
<1>4. PropertyInv'
  BY <1>1, <1>2, <1>3 DEF PropertyInv
<1> QED
  BY <1>1, <1>4 DEF PropertiesFaithful

\* The properties are stored, or the row is left as it was.
LEMMA SavePropertiesKeeps ==
  ASSUME PropertyInv, UNCHANGED <<meter, job, typ>>, job = "properties", SaveProperties
  PROVE  PropertyInv' /\ PropertiesFaithful'
<1>1. pc = "decode" /\ data' = data /\ pc' \in {"saved", "failed"}
  BY DEF SaveProperties, Fail
<1>2. PropertyAnswer' = PropertyAnswer
  BY DEF PropertyAnswer
<1>3. PropertyInv'
  BY <1>1 DEF PropertyInv
<1>r. PICK r : r = ParseProperties(data)
  OBVIOUS
<1>4. /\ r.ok <=> /\ data = PropertyAnswer
                  /\ \A i \in 1..8 : Len(meter.units[i]) <= PropertyList[i][3]
      /\ r.ok => /\ DOMAIN r.out = {PropertyList[i][2] : i \in 1..16}
                 /\ \A i \in 1..16 : r.out[PropertyList[i][2]] = Property(i)
  BY <1>1, <1>r, PropertiesParsed
<1> DEFINE Good == /\ r.ok
                   /\ \A x \in DOMAIN r.out : propertyAddress(x) >= 0
                   /\ \A x \in DOMAIN r.out : propertyAddress(x) \in Text => NulFree(r.out[x])
           Row  == [a \in {propertyAddress(x) : x \in DOMAIN r.out} |->
                      r.out[CHOOSE x \in DOMAIN r.out : propertyAddress(x) = a]]
           Full == /\ data = PropertyAnswer
                   /\ \A i \in 1..Units : Len(meter.units[i]) <= PropertyList[i][3]
                   /\ \A i \in 1..Units : NulFree(meter.units[i])
           All  == [a \in {PropertyList[i][1] : i \in 1..16} |->
                      LET i == CHOOSE i \in 1..16 : PropertyList[i][1] = a
                      IN  IF i <= Units THEN meter.units[i] ELSE <<meter.digits[i - Units]>>]
<1>5. IF Good THEN stored' = Row /\ pc' = "saved" ELSE pc' = "failed"
  BY <1>r DEF SaveProperties, Fail
<1>6. Good <=> Full
  <2>1. CASE r.ok
    <3>1. /\ DOMAIN r.out = {PropertyList[i][2] : i \in 1..16}
          /\ \A i \in 1..16 : r.out[PropertyList[i][2]] = Property(i)
          /\ data = PropertyAnswer
          /\ \A i \in 1..8 : Len(meter.units[i]) <= PropertyList[i][3]
      BY <1>4, <2>1
    <3>a. \A i \in 1..16 : /\ propertyAddress(PropertyList[i][2]) = PropertyList[i][1]
                           /\ PropertyList[i][1] \in Nat
      BY PropertyTable
    <3>2. ASSUME NEW x \in DOMAIN r.out PROVE propertyAddress(x) >= 0
      <4>1. PICK i \in 1..16 : x = PropertyList[i][2]
        BY <3>1
      <4>2. propertyAddress(x) \in Nat
        BY <3>a, <4>1
      <4> QED
        BY <4>2
    <3>3. (\A x \in DOMAIN r.out : propertyAddress(x) \in Text => NulFree(r.out[x]))
            <=> \A i \in 1..16 : PropertyList[i][1] \in Text => NulFree(Property(i))
      <4>1. ASSUME \A x \in DOMAIN r.out : propertyAddress(x) \in Text => NulFree(r.out[x])
            PROVE  \A i \in 1..16 : PropertyList[i][1] \in Text => NulFree(Property(i))
        <5>1. \A i \in 1..16 : PropertyList[i][2] \in DOMAIN r.out
          BY <3>1
        <5> QED
          BY <3>1, <3>a, <4>1, <5>1, Zenon
      <4>2. ASSUME \A i \in 1..16 : PropertyList[i][1] \in Text => NulFree(Property(i)),
                   NEW x \in DOMAIN r.out, propertyAddress(x) \in Text
            PROVE  NulFree(r.out[x])
        <5>1. PICK i \in 1..16 : x = PropertyList[i][2]
          BY <3>1
        <5> QED
          BY <3>1, <3>a, <4>2, <5>1
      <4> QED
        BY <4>1, <4>2
    <3>4. (\A i \in 1..16 : PropertyList[i][1] \in Text => NulFree(Property(i)))
            <=> \A i \in 1..8 : NulFree(meter.units[i])
      <4>1. \A i \in 1..16 : PropertyList[i][1] \in Text <=> i \in 1..8
        <5>1. \A i \in 1..16 : i <= 8 <=> i \in 1..8
          OBVIOUS
        <5> QED
          BY <5>1, PropertyTable
      <4>2. \A i \in 1..8 : i \in 1..16 /\ Property(i) = meter.units[i]
        BY DEF Property, Units
      <4> HIDE DEF Property
      <4> QED
        BY <4>1, <4>2
    <3> QED
      BY <2>1, <3>1, <3>2, <3>3, <3>4 DEF Units
  <2>2. CASE ~r.ok
    BY <1>4, <2>2 DEF Units
  <2> QED
    BY <2>1, <2>2
<1>7. ASSUME r.ok PROVE Row = All
  <2>1. /\ DOMAIN r.out = {PropertyList[i][2] : i \in 1..16}
        /\ \A i \in 1..16 : r.out[PropertyList[i][2]] = Property(i)
    BY <1>4, <1>7
  <2>2. \A a : a \in {propertyAddress(x) : x \in DOMAIN r.out}
                 <=> a \in {PropertyList[i][1] : i \in 1..16}
    BY <2>1, PropertyTable
  <2>3. ASSUME NEW a \in {PropertyList[i][1] : i \in 1..16}
        PROVE  r.out[CHOOSE x \in DOMAIN r.out : propertyAddress(x) = a]
                 = LET i == CHOOSE i \in 1..16 : PropertyList[i][1] = a
                   IN  IF i <= Units THEN meter.units[i] ELSE <<meter.digits[i - Units]>>
    <3>x. PICK x \in DOMAIN r.out : /\ x = CHOOSE y \in DOMAIN r.out : propertyAddress(y) = a
                                    /\ propertyAddress(x) = a
      <4>1. \E y \in DOMAIN r.out : propertyAddress(y) = a
        BY <2>1, PropertyTable
      <4> QED
        BY <4>1
    <3>i. PICK i \in 1..16 : /\ i = CHOOSE j \in 1..16 : PropertyList[j][1] = a
                             /\ PropertyList[i][1] = a
      OBVIOUS
    <3>1. PICK j \in 1..16 : x = PropertyList[j][2]
      BY <2>1, <3>x, Zenon
    <3>2. PropertyList[j][1] = a
      BY <3>1, <3>x, PropertyTable
    <3>3. j = i
      BY <3>2, <3>i, PropertyTable
    <3>4. r.out[x] = Property(i)
      BY <2>1, <3>1, <3>3
    <3> QED
      BY <3>4, <3>x, <3>i DEF Property
  <2>4. {propertyAddress(x) : x \in DOMAIN r.out} = {PropertyList[i][1] : i \in 1..16}
    BY <2>2
  <2> QED
    BY <2>3, <2>4, Zenon
<1> HIDE DEF Row
<1>8. pc' = "saved" <=> Full
  <2>1. "saved" # "failed"
    OBVIOUS
  <2> HIDE DEF Good, Full
  <2> QED
    BY <1>5, <1>6, <2>1
<1>9. pc' = "saved" => stored' = All
  <2>1. Good => r.ok
    OBVIOUS
  <2>2. "saved" # "failed"
    OBVIOUS
  <2> HIDE DEF Good, All
  <2> QED
    BY <1>5, <1>7, <2>1, <2>2
<1>10. PropertiesFaithful'
  BY <1>1, <1>2, <1>8, <1>9 DEF PropertiesFaithful
<1> QED
  BY <1>3, <1>10

\* The sixteen properties are stored exactly when the answer is an encoding of
\* them, each under the address it was asked for (collectProperties,
\* ParseProperties, SaveProperties): no length, missing byte or extra byte
\* shifts one property into the next.
THEOREM PropertiesAreFaithful == Spec => []PropertiesFaithful
<1>1. Init => PropertyInv /\ PropertiesFaithful
  BY PropertyInit
<1>2. ASSUME PropertyInv, PropertiesFaithful, [Next]_vars
      PROVE  PropertyInv' /\ PropertiesFaithful'
  <2>1. UNCHANGED <<meter, job, typ>>
    BY <1>2 DEF Next, vars
  <2>2. CASE job # "properties"
    BY <2>1, <2>2 DEF PropertyInv, PropertiesFaithful
  <2>3. CASE job = "properties" /\ UNCHANGED vars
    <3>1. UNCHANGED <<pc, data, stored>>
      BY <2>3 DEF vars, progress
    <3>2. PropertyAnswer' = PropertyAnswer
      BY <2>1 DEF PropertyAnswer
    <3>3. PropertyInv'
      BY <1>2, <2>1, <3>1, <3>2 DEF PropertyInv
    <3>4. PropertiesFaithful'
      BY <1>2, <2>1, <3>1, <3>2 DEF PropertiesFaithful
    <3> QED
      BY <3>3, <3>4
  <2>4. CASE job = "properties" /\ Next
    <3>1. pc \in {"properties", "decode", "saved", "failed"}
      BY <1>2, <2>4 DEF PropertyInv
    <3>2. ReadProperties \/ SaveProperties
      BY <2>4, <3>1 DEF Next, ReadActive, Prepare, SetReadList, ReadData, Merge, Save
    <3> QED
      BY <1>2, <2>1, <2>4, <3>2, ReadPropertiesKeeps, SavePropertiesKeeps
  <2> QED
    BY <1>2, <2>2, <2>3, <2>4
<1> QED
  BY <1>1, <1>2, PTL DEF Spec
=============================================================================
