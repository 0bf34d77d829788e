------------------------- MODULE ClientInputProofs -------------------------
(***************************************************************************)
(* What is written into one end of a connection is read at the other, for  *)
(* messages of every kind and length, buffers of every size and bytes that *)
(* arrive in parts of any size.                                            *)
(***************************************************************************)
EXTENDS ClientInput, SequenceTheorems, WellFoundedInduction, TLAPS

-----------------------------------------------------------------------------
(* Induction *)

\* A set that contains 0 and with every number the next one contains them all.
LEMMA SetInduction ==
  ASSUME NEW S, 0 \in S, \A n \in Nat : n \in S => n + 1 \in S
  PROVE  Nat \subseteq S
<1> SUFFICES ASSUME Nat \ S # {} PROVE FALSE
  OBVIOUS
<1> DEFINE R == OpToRel(<, Nat)
           T == Nat \ S
<1>1. IsWellFoundedOn(R, Nat)
  BY NatLessThanWellFounded
<1>2. R = {ss \in Nat \X Nat : ss[1] < ss[2]}
  BY DEF OpToRel
<1> HIDE DEF R
<1>3. PICK x \in T : \A y \in T : ~ (<<y, x>> \in R)
  <2>1. T \subseteq Nat /\ T # {}
    OBVIOUS
  <2> HIDE DEF T
  <2> QED BY <1>1, <2>1, WFMin
<1>4. x \in Nat /\ x # 0 /\ x - 1 \in Nat
  OBVIOUS
<1>5. x - 1 \in T
  BY <1>4
<1>6. <<x - 1, x>> \in R
  BY <1>2, <1>4
<1> QED BY <1>3, <1>5, <1>6

-----------------------------------------------------------------------------
(* Numbers and their bytes *)

Byte == 0 .. ByteMod - 1

FieldType == [size : Nat, value : Nat]

\* Without its last byte a number is one digit shorter, and the byte brings it
\* back.
LEMMA LastByte ==
  ASSUME NEW v \in Nat
  PROVE  /\ v \div ByteMod \in Nat /\ v % ByteMod \in Byte
         /\ v = ByteMod * (v \div ByteMod) + (v % ByteMod)
<1>1. ByteMod \in Nat /\ ByteMod > 0
  BY WireAssumption
<1>2. v \div ByteMod \in Nat /\ v % ByteMod \in Byte
  BY <1>1 DEF Byte
<1>3. v % ByteMod = v - ByteMod * (v \div ByteMod)
  BY <1>1
<1>4. v = ByteMod * (v \div ByteMod) + (v % ByteMod)
  BY <1>1, <1>3
<1> QED BY <1>1, <1>2, <1>4

\* g holds what is left of v without its last bytes, up to n of them.
ShiftsOf(g, v, n) ==
  g = [i \in 0 .. n |-> IF i = 0 THEN v ELSE g[i - 1] \div ByteMod]

LEMMA ShiftsExist ==
  ASSUME NEW v
  PROVE  \A n \in Nat : \E g : ShiftsOf(g, v, n)
<1> DEFINE S == {n \in Nat : \E g : ShiftsOf(g, v, n)}
<1>1. 0 \in S
  <2> DEFINE g == [i \in 0 .. 0 |-> v]
  <2>1. ShiftsOf(g, v, 0)
    BY DEF ShiftsOf
  <2> QED BY <2>1
<1>2. ASSUME NEW n \in Nat, n \in S PROVE n + 1 \in S
  <2>1. PICK g : ShiftsOf(g, v, n)
    BY <1>2
  <2> DEFINE f == [i \in 0 .. n + 1 |-> IF i = n + 1 THEN g[n] \div ByteMod ELSE g[i]]
  <2>2. ASSUME NEW i \in 0 .. n + 1
        PROVE  f[i] = IF i = 0 THEN v ELSE f[i - 1] \div ByteMod
    <3>1. CASE i = n + 1
      <4>1. i # 0 /\ i - 1 = n /\ n \in 0 .. n + 1 /\ n # n + 1
        BY <3>1
      <4> QED BY <3>1, <4>1
    <3>2. CASE i # n + 1
      <4>1. i \in 0 .. n /\ (i # 0 => i - 1 \in 0 .. n + 1 /\ i - 1 # n + 1)
        BY <3>2
      <4>2. g[i] = IF i = 0 THEN v ELSE g[i - 1] \div ByteMod
        BY <2>1, <4>1 DEF ShiftsOf
      <4> QED BY <3>2, <4>1, <4>2
    <3> QED BY <3>1, <3>2
  <2>3. f = [i \in 0 .. n + 1 |-> f[i]]
    OBVIOUS
  <2> HIDE DEF f
  <2>4. ShiftsOf(f, v, n + 1)
    BY <2>2, <2>3 DEF ShiftsOf
  <2> QED BY <2>4
<1> HIDE DEF S
<1>3. Nat \subseteq S
  BY <1>1, <1>2, SetInduction
<1> QED BY <1>3 DEF S

LEMMA ShiftedIs ==
  ASSUME NEW f \in FieldType
  PROVE  /\ Shifted(f)[0] = f.value
         /\ \A i \in 1 .. f.size : Shifted(f)[i] = Shifted(f)[i - 1] \div ByteMod
         /\ \A i \in 0 .. f.size : Shifted(f)[i] \in Nat
<1>1. f.size \in Nat /\ f.value \in Nat
  BY DEF FieldType
<1>2. Shifted(f) = CHOOSE g : ShiftsOf(g, f.value, f.size)
  BY DEF Shifted, ShiftsOf
<1>3. ShiftsOf(Shifted(f), f.value, f.size)
  BY <1>1, <1>2, ShiftsExist
<1> DEFINE g == Shifted(f)
<1>4. g = [i \in 0 .. f.size |-> IF i = 0 THEN f.value ELSE g[i - 1] \div ByteMod]
  BY <1>3 DEF ShiftsOf
<1> HIDE DEF g
<1>5. g[0] = f.value /\ \A i \in 1 .. f.size : g[i] = g[i - 1] \div ByteMod
  BY <1>1, <1>4
<1>6. \A i \in 0 .. f.size : g[i] \in Nat
  <2> DEFINE S == {i \in Nat : i <= f.size => g[i] \in Nat}
  <2>1. 0 \in S
    BY <1>1, <1>5
  <2>2. ASSUME NEW i \in Nat, i \in S, i + 1 <= f.size PROVE g[i + 1] \in Nat
    <3>1. i <= f.size /\ i + 1 \in 1 .. f.size /\ i + 1 - 1 = i
      BY <1>1, <2>2
    <3>2. g[i] \in Nat /\ g[i + 1] = g[i] \div ByteMod
      BY <1>5, <2>2, <3>1
    <3> QED BY <3>2, LastByte
  <2>3. \A i \in Nat : i \in S => i + 1 \in S
    BY <2>2
  <2> HIDE DEF S
  <2>4. Nat \subseteq S
    BY <2>1, <2>3, SetInduction
  <2> QED BY <1>1, <2>4 DEF S
<1> QED BY <1>5, <1>6 DEF g

LEMMA MaxIsLast ==
  ASSUME NEW n \in Nat, NEW S \in SUBSET (1 .. n + 1), n + 1 \in S
  PROVE  Max(S) = n + 1
<1>1. n + 1 \in S /\ \A y \in S : n + 1 >= y
  OBVIOUS
<1>2. \A x \in S : (\A y \in S : x >= y) => x = n + 1
  OBVIOUS
<1> QED BY <1>1, <1>2 DEF Max

\* g is what Decode makes of each set of the n bytes.
DecodeFold(g, bytes, n) ==
  g = [s \in SUBSET (1 .. n) |->
         IF s = {} THEN 0 ELSE g[s \ {Max(s)}] * ByteMod + bytes[Max(s)]]

LEMMA DecodeFoldExists ==
  ASSUME NEW bytes
  PROVE  \A n \in Nat : \E g : DecodeFold(g, bytes, n)
<1> DEFINE S == {n \in Nat : \E g : DecodeFold(g, bytes, n)}
<1>1. 0 \in S
  <2> DEFINE g == [s \in SUBSET (1 .. 0) |-> 0]
  <2>1. DecodeFold(g, bytes, 0)
    BY DEF DecodeFold
  <2> QED BY <2>1
<1>2. ASSUME NEW n \in Nat, n \in S PROVE n + 1 \in S
  <2>1. PICK g : DecodeFold(g, bytes, n)
    BY <1>2
  <2> DEFINE f == [s \in SUBSET (1 .. n + 1) |->
                     IF n + 1 \in s THEN g[s \ {n + 1}] * ByteMod + bytes[n + 1] ELSE g[s]]
             F(s) == IF s = {} THEN 0 ELSE f[s \ {Max(s)}] * ByteMod + bytes[Max(s)]
  <2>2. \A s \in SUBSET (1 .. n + 1) : n + 1 \notin s => s \in SUBSET (1 .. n)
    OBVIOUS
  <2>3. \A s \in SUBSET (1 .. n + 1) : n + 1 \notin s => f[s] = g[s]
    OBVIOUS
  <2>4. ASSUME NEW s \in SUBSET (1 .. n + 1) PROVE f[s] = F(s)
    <3>1. CASE n + 1 \in s
      <4>1. Max(s) = n + 1
        BY <3>1, MaxIsLast
      <4>2. f[s \ {n + 1}] = g[s \ {n + 1}]
        BY <2>3
      <4>3. f[s] = g[s \ {n + 1}] * ByteMod + bytes[n + 1]
        BY <3>1
      <4> HIDE DEF f
      <4> QED BY <3>1, <4>1, <4>2, <4>3
    <3>2. CASE n + 1 \notin s
      <4>1. s \in SUBSET (1 .. n) /\ f[s] = g[s]
        BY <2>2, <2>3, <3>2
      <4>2. f[s \ {Max(s)}] = g[s \ {Max(s)}]
        BY <2>3, <3>2
      <4>3. g[s] = IF s = {} THEN 0 ELSE g[s \ {Max(s)}] * ByteMod + bytes[Max(s)]
        BY <2>1, <4>1 DEF DecodeFold
      <4> HIDE DEF f
      <4> QED BY <4>1, <4>2, <4>3
    <3> QED BY <3>1, <3>2
  <2>5. f = [s \in SUBSET (1 .. n + 1) |-> F(s)]
    <3>1. f = [s \in SUBSET (1 .. n + 1) |-> f[s]]
      OBVIOUS
    <3> HIDE DEF f
    <3> QED BY <2>4, <3>1
  <2>6. DecodeFold(f, bytes, n + 1)
    <3> HIDE DEF f
    <3> QED BY <2>5 DEF DecodeFold
  <2> HIDE DEF f
  <2> QED BY <2>6
<1> HIDE DEF S
<1>3. Nat \subseteq S
  BY <1>1, <1>2, SetInduction
<1> QED BY <1>3 DEF S

\* Decode is the last value of any chain that starts with 0 and takes one byte
\* after the other.
LEMMA Decoded ==
  ASSUME NEW bytes, NEW n \in Nat, DOMAIN bytes = 1 .. n, NEW h, h[0] = 0,
         \A k \in 1 .. n : h[k] = h[k - 1] * ByteMod + bytes[k]
  PROVE  Decode(bytes) = h[n]
<1> DEFINE g == CHOOSE g : DecodeFold(g, bytes, n)
<1>1. DecodeFold(g, bytes, n)
  BY DecodeFoldExists
<1>2. Decode(bytes) = g[1 .. n]
  BY DEF Decode, FoldLeft, MapThenFoldSet, DecodeFold
<1> HIDE DEF g
<1> DEFINE S == {k \in Nat : k <= n => g[1 .. k] = h[k]}
<1>3. \A s \in SUBSET (1 .. n) :
        g[s] = IF s = {} THEN 0 ELSE g[s \ {Max(s)}] * ByteMod + bytes[Max(s)]
  BY <1>1 DEF DecodeFold
<1>4. 0 \in S
  <2>1. 1 .. 0 = {}
    OBVIOUS
  <2> QED BY <1>3, <2>1
<1>5. ASSUME NEW k \in Nat, k <= n => g[1 .. k] = h[k], k + 1 <= n
      PROVE  g[1 .. k + 1] = h[k + 1]
  <2>1. k <= n /\ k + 1 \in 1 .. n /\ k + 1 - 1 = k
    BY <1>5
  <2>2. Max(1 .. k + 1) = k + 1
    BY MaxIsLast
  <2>3. (1 .. k + 1) \ {k + 1} = 1 .. k
    OBVIOUS
  <2>4. 1 .. k + 1 \in SUBSET (1 .. n) /\ 1 .. k + 1 # {}
    <3>1. \A x \in 1 .. k + 1 : x \in 1 .. n
      BY <1>5
    <3>2. 1 \in 1 .. k + 1
      OBVIOUS
    <3> QED BY <3>1, <3>2
  <2>5. g[1 .. k] = h[k]
    BY <1>5, <2>1
  <2>6. g[1 .. k + 1] = g[1 .. k] * ByteMod + bytes[k + 1]
    BY <1>3, <2>2, <2>3, <2>4
  <2> QED BY <2>1, <2>5, <2>6
<1>6. \A k \in Nat : k \in S => k + 1 \in S
  BY <1>5
<1> HIDE DEF S
<1>7. n \in S
  BY <1>4, <1>6, SetInduction
<1> QED BY <1>2, <1>7 DEF S

LEMMA EncodeIs ==
  ASSUME NEW f \in FieldType
  PROVE  /\ Encode(f) \in Seq(Byte) /\ Len(Encode(f)) = f.size
         /\ DOMAIN Encode(f) = 1 .. f.size
         /\ \A i \in 1 .. f.size : Encode(f)[i] = Shifted(f)[f.size - i] % ByteMod
<1> DEFINE e == Encode(f)
           n == f.size
<1>1. n \in Nat
  BY DEF FieldType
<1>2. e = [i \in 1 .. n |-> Shifted(f)[n - i] % ByteMod]
  BY DEF Encode
<1> HIDE DEF e
<1>3. \A i \in 1 .. n : Shifted(f)[n - i] % ByteMod \in Byte
  <2> TAKE i \in 1 .. n
  <2>1. n - i \in 0 .. n
    BY <1>1
  <2> QED BY <2>1, ShiftedIs, LastByte
<1> HIDE DEF n
<1>4. e \in [1 .. n -> Byte]
  BY <1>2, <1>3
<1>5. e \in Seq(Byte) /\ DOMAIN e = 1 .. n
  BY <1>1, <1>4
<1>6. Len(e) = n
  BY <1>1, <1>4
<1> QED BY <1>2, <1>5, <1>6 DEF e, n

\* The reader gets back what was written, if the field had room for it.
THEOREM RoundTrip ==
  ASSUME NEW f \in FieldType, Fits(f)
  PROVE  Decode(Encode(f)) = f.value
<1> DEFINE n == f.size
           sh == Shifted(f)
           h == [k \in 0 .. n |-> sh[n - k]]
           bytes == Encode(f)
<1>1. n \in Nat
  BY DEF FieldType
<1>2. /\ sh[0] = f.value /\ sh[n] = 0
      /\ \A i \in 1 .. n : sh[i] = sh[i - 1] \div ByteMod
      /\ \A i \in 0 .. n : sh[i] \in Nat
  BY ShiftedIs DEF Fits
<1>3. DOMAIN bytes = 1 .. n /\ \A i \in 1 .. n : bytes[i] = sh[n - i] % ByteMod
  BY EncodeIs
<1> HIDE DEF n, sh, bytes
<1>4. h[0] = 0 /\ h[n] = f.value
  BY <1>1, <1>2
<1>5. ASSUME NEW k \in 1 .. n PROVE h[k] = h[k - 1] * ByteMod + bytes[k]
  <2> DEFINE v == sh[n - k]
  <2>1. n - k \in 0 .. n /\ n - k + 1 \in 1 .. n /\ n - (k - 1) = n - k + 1 /\ n - k + 1 - 1 = n - k
        /\ k \in 0 .. n /\ k - 1 \in 0 .. n
    BY <1>1
  <2>2. v \in Nat /\ bytes[k] = v % ByteMod /\ h[k] = v
    BY <1>2, <1>3, <2>1
  <2>3. h[k - 1] = v \div ByteMod
    BY <1>2, <2>1
  <2> HIDE DEF h, v
  <2>4. ByteMod \in Nat /\ v \div ByteMod \in Nat /\ v % ByteMod \in Nat
    BY <2>2, LastByte, WireAssumption DEF Byte
  <2>5. ByteMod * (v \div ByteMod) = (v \div ByteMod) * ByteMod
    <3> DEFINE q == v \div ByteMod
    <3>1. q \in Nat
      BY <2>4
    <3> HIDE DEF q
    <3>2. ByteMod * q = q * ByteMod
      BY <2>4, <3>1
    <3> QED BY <3>2 DEF q
  <2> QED BY <2>2, <2>3, <2>5, LastByte
<1> HIDE DEF h
<1>6. Decode(bytes) = h[n]
  BY <1>1, <1>3, <1>4, <1>5, Decoded
<1> QED BY <1>4, <1>6 DEF bytes

-----------------------------------------------------------------------------
(* Sequences of sequences *)

FlattenFold(g, items, n) ==
  g = [i \in 1 .. n |-> IF i = 1 THEN items[i] ELSE g[i - 1] \o items[i]]

LEMMA FlattenFoldExists ==
  ASSUME NEW items
  PROVE  \A n \in Nat : \E g : FlattenFold(g, items, n)
<1> DEFINE S == {n \in Nat : \E g : FlattenFold(g, items, n)}
<1>1. 0 \in S
  <2> DEFINE g == [i \in 1 .. 0 |-> items[i]]
  <2>1. FlattenFold(g, items, 0)
    BY DEF FlattenFold
  <2> QED BY <2>1
<1>2. ASSUME NEW n \in Nat, n \in S PROVE n + 1 \in S
  <2>1. PICK g : FlattenFold(g, items, n)
    BY <1>2
  <2> DEFINE f == [i \in 1 .. n + 1 |->
                     IF i # n + 1 THEN g[i]
                     ELSE IF i = 1 THEN items[i] ELSE g[n] \o items[i]]
  <2>2. ASSUME NEW i \in 1 .. n + 1
        PROVE  f[i] = IF i = 1 THEN items[i] ELSE f[i - 1] \o items[i]
    <3>1. CASE i = n + 1
      <4>1. i # 1 => i - 1 = n /\ n \in 1 .. n + 1 /\ n # n + 1
        BY <3>1
      <4> QED BY <3>1, <4>1
    <3>2. CASE i # n + 1
      <4>1. i \in 1 .. n /\ (i # 1 => i - 1 \in 1 .. n + 1 /\ i - 1 # n + 1)
        BY <3>2
      <4>2. g[i] = IF i = 1 THEN items[i] ELSE g[i - 1] \o items[i]
        BY <2>1, <4>1 DEF FlattenFold
      <4> QED BY <3>2, <4>1, <4>2
    <3> QED BY <3>1, <3>2
  <2>3. f = [i \in 1 .. n + 1 |-> f[i]]
    OBVIOUS
  <2> HIDE DEF f
  <2>4. FlattenFold(f, items, n + 1)
    BY <2>2, <2>3 DEF FlattenFold
  <2> QED BY <2>4
<1> HIDE DEF S
<1>3. Nat \subseteq S
  BY <1>1, <1>2, SetInduction
<1> QED BY <1>3 DEF S

\* FlattenSeq appends one item after the other to nothing.
LEMMA Flattened ==
  ASSUME NEW S, NEW items \in Seq(Seq(S))
  PROVE  \E h : /\ h[0] = <<>> /\ h[Len(items)] = FlattenSeq(items)
                /\ \A k \in 0 .. Len(items) : h[k] \in Seq(S)
                /\ \A k \in 1 .. Len(items) : h[k] = h[k - 1] \o items[k]
<1> DEFINE n == Len(items)
           g == CHOOSE g : FlattenFold(g, items, n)
           h == [k \in 0 .. n |-> IF k = 0 THEN <<>> ELSE g[k]]
<1>1. n \in Nat /\ \A k \in 1 .. n : items[k] \in Seq(S)
  OBVIOUS
<1>2. FlattenFold(g, items, n)
  BY <1>1, FlattenFoldExists
<1>3. FlattenSeq(items) = IF n = 0 THEN items ELSE g[n]
  BY DEF FlattenSeq, FlattenFold
<1>4. n = 0 => items = <<>>
  OBVIOUS
<1> HIDE DEF g, n
<1>5. \A k \in 1 .. n : g[k] = IF k = 1 THEN items[k] ELSE g[k - 1] \o items[k]
  BY <1>2 DEF FlattenFold
<1>6. h[0] = <<>> /\ h[n] = FlattenSeq(items)
  BY <1>1, <1>3, <1>4
<1>9. \A k \in 1 .. n : h[k] = g[k]
  BY <1>1
<1> HIDE DEF h
<1>7. ASSUME NEW k \in 1 .. n PROVE h[k] = h[k - 1] \o items[k]
  <2>1. CASE k = 1
    <3>1. h[k] = items[k] /\ k - 1 = 0
      BY <1>5, <1>9, <2>1
    <3>2. items[k] \in Seq(S) /\ h[k - 1] = <<>>
      BY <1>1, <1>6, <3>1
    <3> QED BY <3>1, <3>2
  <2>2. CASE k # 1
    <3>1. k - 1 \in 1 .. n
      BY <1>1, <2>2
    <3>2. h[k] = g[k - 1] \o items[k] /\ h[k - 1] = g[k - 1]
      BY <1>5, <1>9, <2>2, <3>1
    <3> QED BY <3>2
  <2> QED BY <2>1, <2>2
<1>8. \A k \in 0 .. n : h[k] \in Seq(S)
  <2> DEFINE I == {k \in Nat : k <= n => h[k] \in Seq(S)}
  <2>1. 0 \in I
    <3>1. h[0] \in Seq(S)
      BY <1>6, EmptySeq
    <3> QED BY <3>1
  <2>2. ASSUME NEW k \in Nat, k <= n => h[k] \in Seq(S), k + 1 <= n PROVE h[k + 1] \in Seq(S)
    <3>1. k <= n /\ k + 1 \in 1 .. n /\ k + 1 - 1 = k
      BY <1>1, <2>2
    <3>2. h[k] \in Seq(S) /\ items[k + 1] \in Seq(S)
      BY <1>1, <2>2, <3>1
    <3>3. h[k + 1] = h[k] \o items[k + 1]
      <4> DEFINE j == k + 1
      <4>1. j \in 1 .. n /\ j - 1 = k
        BY <3>1
      <4> HIDE DEF j
      <4>2. h[j] = h[k] \o items[j]
        BY <1>7, <4>1
      <4> QED BY <4>2 DEF j
    <3> QED BY <3>2, <3>3, ConcatProperties
  <2>3. \A k \in Nat : k \in I => k + 1 \in I
    BY <2>2
  <2> HIDE DEF I
  <2>4. Nat \subseteq I
    BY <2>1, <2>3, SetInduction
  <2> QED BY <1>1, <2>4 DEF I
<1> QED BY <1>6, <1>7, <1>8 DEF n

-----------------------------------------------------------------------------
(* What is to be read, and fields that fit it *)

Kinds ==
  {"number", "name", "letters", "message", "command", "direction",
   "players", "scores", "events", "event", "robots", "blocks"}

ReadType == [size : Nat, as : Kinds]

\* Elements that take at least a byte: all but the letters of a name.
Plain(r) ==
  /\ r \in Seq(ReadType)
  /\ \A i \in 1 .. Len(r) : r[i].as # "letters" /\ r[i].size # 0

\* What is to be read at some point: letters only at its head.
Stack(r) ==
  /\ r \in Seq(ReadType)
  /\ r # <<>> => Plain(Tail(r)) /\ (Head(r).as # "letters" => Head(r).size # 0)

\* With the field f of the right size, what is to be read becomes s.
Reads(r, f, s) ==
  /\ r # <<>> /\ f.size = Head(r).size
  /\ s = Follow(Head(r).as, f.value) \o Tail(r)

\* The fields of q, all of them accepted, lead from r to t.
Reading(r, q, t) ==
  /\ q \in Seq(FieldType)
  /\ \E h : /\ h[0] = r /\ h[Len(q)] = t
            /\ \A k \in 0 .. Len(q) : Stack(h[k])
            /\ \A k \in 1 .. Len(q) :
                 Reads(h[k - 1], q[k], h[k]) /\ ~Rejected(Head(h[k - 1]).as, q[k].value)

\* The fields of q are those of r, whatever is to be read after them.
Parses(r, q) == \A t : Plain(t) => Reading(r \o t, q, t)

LEMMA PlainStack ==
  ASSUME NEW r, Plain(r)
  PROVE  Stack(r)
<1> SUFFICES ASSUME r # <<>>
             PROVE  Plain(Tail(r)) /\ (Head(r).as # "letters" => Head(r).size # 0)
  BY DEF Plain, Stack
<1>1. r \in Seq(ReadType) /\ Len(r) \in Nat
  BY DEF Plain
<1>2. /\ Tail(r) \in Seq(ReadType) /\ Len(Tail(r)) = Len(r) - 1
      /\ \A i \in 1 .. Len(Tail(r)) : Tail(r)[i] = r[i + 1]
  BY <1>1, HeadTailProperties
<1>3. Head(r) = r[1] /\ Len(r) \in Nat /\ Len(r) # 0
  BY <1>1
<1>4. Plain(Tail(r))
  <2>1. ASSUME NEW i \in 1 .. Len(Tail(r))
        PROVE  Tail(r)[i].as # "letters" /\ Tail(r)[i].size # 0
    <3>1. i + 1 \in 1 .. Len(r) /\ Tail(r)[i] = r[i + 1]
      BY <1>2, <1>3
    <3> QED BY <3>1 DEF Plain
  <2> QED BY <1>2, <2>1 DEF Plain
<1>5. 1 \in 1 .. Len(r)
  BY <1>3
<1> QED BY <1>3, <1>4, <1>5 DEF Plain

LEMMA PlainConcat ==
  ASSUME NEW r, Plain(r), NEW s, Plain(s)
  PROVE  Plain(r \o s)
<1>1. /\ r \in Seq(ReadType) /\ s \in Seq(ReadType)
      /\ Len(r) \in Nat /\ Len(s) \in Nat
  BY DEF Plain
<1>2. /\ r \o s \in Seq(ReadType) /\ Len(r \o s) = Len(r) + Len(s)
      /\ \A i \in 1 .. Len(r) + Len(s) :
           (r \o s)[i] = IF i <= Len(r) THEN r[i] ELSE s[i - Len(r)]
  BY <1>1, ConcatProperties
<1>3. ASSUME NEW i \in 1 .. Len(r) + Len(s)
      PROVE  (r \o s)[i].as # "letters" /\ (r \o s)[i].size # 0
  <2>1. CASE i <= Len(r)
    <3>1. i \in 1 .. Len(r) /\ (r \o s)[i] = r[i]
      BY <1>1, <1>2, <2>1
    <3> QED BY <3>1 DEF Plain
  <2>2. CASE ~ (i <= Len(r))
    <3>1. i - Len(r) \in 1 .. Len(s) /\ (r \o s)[i] = s[i - Len(r)]
      BY <1>1, <1>2, <2>2
    <3> QED BY <3>1 DEF Plain
  <2> QED BY <2>1, <2>2
<1> QED BY <1>2, <1>3 DEF Plain

LEMMA PlainEmpty == Plain(<<>>)
BY EmptySeq DEF Plain

LEMMA PlainOne ==
  ASSUME NEW size \in Nat, size # 0, NEW as \in Kinds, as # "letters"
  PROVE  Plain(<<Read(size, as)>>)
<1>1. Read(size, as) \in ReadType /\ Read(size, as).size = size /\ Read(size, as).as = as
  BY DEF Read, ReadType
<1> DEFINE r == Read(size, as)
<1>5. r \in ReadType
  BY <1>1
<1> HIDE DEF r
<1>2. <<r>> \in Seq(ReadType) /\ Len(<<r>>) = 1 /\ \A i \in 1 .. 1 : <<r>>[i] = r
  BY <1>5
<1>3. \A i \in 1 .. 1 : <<r>>[i].as # "letters" /\ <<r>>[i].size # 0
  <2>1. r.as # "letters" /\ r.size # 0
    BY <1>1 DEF r
  <2> QED BY <1>2, <2>1
<1>4. Plain(<<r>>)
  BY <1>2, <1>3 DEF Plain
<1> QED BY <1>4 DEF r

-----------------------------------------------------------------------------
(* Readings, one after the other *)

LEMMA ReadingNone ==
  ASSUME NEW r, Stack(r)
  PROVE  Reading(r, <<>>, r)
<1> DEFINE h == [k \in 0 .. 0 |-> r]
<1>1. <<>> \in Seq(FieldType) /\ Len(<<>>) = 0
  BY EmptySeq
<1>2. h[0] = r /\ \A k \in 0 .. 0 : Stack(h[k])
  OBVIOUS
<1> HIDE DEF h
<1> QED BY <1>1, <1>2 DEF Reading

LEMMA ReadingOne ==
  ASSUME NEW r, NEW f \in FieldType, NEW s, Stack(r), Stack(s), Reads(r, f, s),
         ~Rejected(Head(r).as, f.value)
  PROVE  Reading(r, <<f>>, s)
<1> DEFINE h == [k \in 0 .. 1 |-> IF k = 0 THEN r ELSE s]
<1>1. <<f>> \in Seq(FieldType) /\ Len(<<f>>) = 1 /\ <<f>>[1] = f
  OBVIOUS
<1>2. h[0] = r /\ h[1] = s
  OBVIOUS
<1> HIDE DEF h
<1>3. /\ \A k \in 0 .. 1 : k = 0 \/ k = 1
      /\ \A k \in 1 .. 1 : k = 1 /\ k - 1 = 0
  OBVIOUS
<1>4. \A k \in 0 .. 1 : Stack(h[k])
  BY <1>2, <1>3
<1>5. ASSUME NEW k \in 1 .. 1
      PROVE  Reads(h[k - 1], <<f>>[k], h[k]) /\ ~Rejected(Head(h[k - 1]).as, <<f>>[k].value)
  <2>1. h[k - 1] = r /\ h[k] = s /\ <<f>>[k] = f
    BY <1>1, <1>2, <1>3
  <2> QED BY <2>1
<1> QED BY <1>1, <1>2, <1>4, <1>5 DEF Reading

LEMMA ReadingChain ==
  ASSUME NEW r, NEW p, NEW s, NEW q, NEW t, Reading(r, p, s), Reading(s, q, t)
  PROVE  Reading(r, p \o q, t)
<1> DEFINE m == Len(p)
           n == Len(q)
           pq == p \o q
<1>1. /\ p \in Seq(FieldType) /\ q \in Seq(FieldType) /\ m \in Nat /\ n \in Nat
  BY DEF Reading
<1>2. /\ pq \in Seq(FieldType) /\ Len(pq) = m + n
      /\ \A i \in 1 .. m + n : pq[i] = IF i <= m THEN p[i] ELSE q[i - m]
  BY <1>1, ConcatProperties
<1>3. PICK g : /\ g[0] = r /\ g[m] = s
               /\ \A k \in 0 .. m : Stack(g[k])
               /\ \A k \in 1 .. m :
                    Reads(g[k - 1], p[k], g[k]) /\ ~Rejected(Head(g[k - 1]).as, p[k].value)
  BY DEF Reading
<1>4. PICK h : /\ h[0] = s /\ h[n] = t
               /\ \A k \in 0 .. n : Stack(h[k])
               /\ \A k \in 1 .. n :
                    Reads(h[k - 1], q[k], h[k]) /\ ~Rejected(Head(h[k - 1]).as, q[k].value)
  BY DEF Reading
<1> HIDE DEF m, n, pq
<1> DEFINE e == [k \in 0 .. m + n |-> IF k <= m THEN g[k] ELSE h[k - m]]
<1>5. /\ \A k \in 0 .. m : e[k] = g[k]
      /\ \A k \in 0 .. m + n : k > m => e[k] = h[k - m]
  BY <1>1
<1>6. e[m] = g[m]
  BY <1>1, <1>5
<1> HIDE DEF e
<1>7. \A k \in 0 .. n : e[k + m] = h[k]
  <2> TAKE k \in 0 .. n
  <2>1. CASE k = 0
    <3>1. k + m = m
      BY <1>1, <2>1
    <3> QED BY <1>3, <1>4, <1>6, <2>1, <3>1
  <2>2. CASE k # 0
    <3> DEFINE j == k + m
    <3>1. j \in 0 .. m + n /\ j > m /\ j - m = k
      BY <1>1, <2>2
    <3> HIDE DEF j
    <3>2. e[j] = h[k]
      BY <1>5, <3>1
    <3> QED BY <3>2 DEF j
  <2> QED BY <2>1, <2>2
<1>8. e[0] = r /\ e[m + n] = t
  <2>1. e[0] = g[0]
    BY <1>1, <1>5
  <2>2. e[n + m] = h[n] /\ n + m = m + n
    BY <1>1, <1>7
  <2> QED BY <1>3, <1>4, <2>1, <2>2
<1>9. ASSUME NEW k \in 0 .. m + n PROVE Stack(e[k])
  <2>1. CASE k <= m
    BY <1>1, <1>3, <1>5, <2>1
  <2>2. CASE k > m
    <3>1. k - m \in 0 .. n /\ e[k] = h[k - m]
      BY <1>1, <1>5, <2>2
    <3> QED BY <1>4, <3>1
  <2> QED BY <1>1, <2>1, <2>2
<1>10. ASSUME NEW k \in 1 .. m + n
       PROVE  Reads(e[k - 1], pq[k], e[k]) /\ ~Rejected(Head(e[k - 1]).as, pq[k].value)
  <2>1. CASE k <= m
    <3>1. k \in 1 .. m /\ k - 1 \in 0 .. m /\ k \in 0 .. m
      BY <1>1, <2>1
    <3>2. e[k - 1] = g[k - 1] /\ e[k] = g[k] /\ pq[k] = p[k]
      BY <1>2, <1>5, <2>1, <3>1
    <3> QED BY <1>3, <3>1, <3>2
  <2>2. CASE k > m
    <3> DEFINE j == k - m
    <3>1. j \in 1 .. n /\ j - 1 \in 0 .. n /\ j \in 0 .. n /\ k = j + m /\ k - 1 = (j - 1) + m /\ ~(k <= m)
      BY <1>1, <2>2
    <3>2. pq[k] = q[j]
      BY <1>2, <3>1
    <3> HIDE DEF j
    <3> DEFINE i == j - 1
    <3>3. i \in 0 .. n /\ k - 1 = i + m
      BY <3>1
    <3> HIDE DEF i
    <3>4. e[k - 1] = h[i] /\ e[k] = h[j]
      <4>1. e[i + m] = h[i]
        BY <1>7, <3>3
      <4>2. e[j + m] = h[j]
        BY <1>7, <3>1
      <4> QED BY <3>1, <3>3, <4>1, <4>2
    <3>5. Reads(h[i], q[j], h[j]) /\ ~Rejected(Head(h[i]).as, q[j].value)
      BY <1>4, <3>1 DEF i
    <3> QED BY <3>2, <3>4, <3>5
  <2> QED BY <1>1, <2>1, <2>2
<1>11. /\ e[0] = r /\ e[Len(pq)] = t
       /\ \A k \in 0 .. Len(pq) : Stack(e[k])
       /\ \A k \in 1 .. Len(pq) :
            Reads(e[k - 1], pq[k], e[k]) /\ ~Rejected(Head(e[k - 1]).as, pq[k].value)
  BY <1>2, <1>8, <1>9, <1>10
<1>12. Reading(r, pq, t)
  BY <1>2, <1>11 DEF Reading
<1> QED BY <1>12 DEF pq

-----------------------------------------------------------------------------
(* The grammar of the fields *)

LEMMA ParsesNothing == Parses(<<>>, <<>>)
<1> SUFFICES ASSUME NEW t, Plain(t) PROVE Reading(<<>> \o t, <<>>, t)
  BY DEF Parses
<1>1. <<>> \o t = t
  BY ConcatEmptySeq DEF Plain
<1> QED BY <1>1, PlainStack, ReadingNone

LEMMA ParsesConcat ==
  ASSUME NEW r \in Seq(ReadType), NEW p, NEW s, NEW q,
         Parses(r, p), Parses(s, q), Plain(s)
  PROVE  Parses(r \o s, p \o q)
<1> SUFFICES ASSUME NEW t, Plain(t) PROVE Reading((r \o s) \o t, p \o q, t)
  BY DEF Parses
<1>1. (r \o s) \o t = r \o (s \o t)
  BY ConcatAssociative DEF Plain
<1>2. Reading(r \o (s \o t), p, s \o t)
  BY PlainConcat DEF Parses
<1>3. Reading(s \o t, q, t)
  BY DEF Parses
<1> QED BY <1>1, <1>2, <1>3, ReadingChain

\* A field, and the fields its value leads to.
LEMMA ParsesHead ==
  ASSUME NEW f \in FieldType, NEW as \in Kinds, as # "letters" => f.size # 0,
         ~Rejected(as, f.value), Follow(as, f.value) \in Seq(ReadType),
         NEW q, Parses(Follow(as, f.value), q)
  PROVE  Parses(<<Read(f.size, as)>>, <<f>> \o q)
<1> DEFINE a == Read(f.size, as)
           s == Follow(as, f.value)
<1> SUFFICES ASSUME NEW t, Plain(t) PROVE Reading(<<a>> \o t, <<f>> \o q, t)
  BY DEF Parses
<1>1. a.size = f.size /\ a.as = as
  BY DEF Read
<1>2. a \in ReadType
  BY DEF FieldType, Read, ReadType
<1>3. s \in Seq(ReadType) /\ Reading(s \o t, q, t)
  BY DEF Parses
<1>4. ~Rejected(a.as, f.value) /\ s = Follow(a.as, f.value)
  BY <1>1
<1>5. t \in Seq(ReadType)
  BY DEF Plain
<1> HIDE DEF a, s
<1> DEFINE r == <<a>> \o t
<1>6. <<a>> \in Seq(ReadType) /\ Len(<<a>>) = 1 /\ <<a>>[1] = a
  BY <1>2
<1>7. /\ r \in Seq(ReadType) /\ Len(r) = 1 + Len(t) /\ Len(t) \in Nat
      /\ \A i \in 1 .. 1 + Len(t) : r[i] = IF i <= 1 THEN <<a>>[i] ELSE t[i - 1]
  BY <1>5, <1>6, ConcatProperties
<1> HIDE DEF r
<1>8. r # <<>> /\ Head(r) = a
  <2>1. 1 \in 1 .. 1 + Len(t) /\ 1 <= 1
    BY <1>7
  <2>2. r[1] = a
    BY <1>6, <1>7, <2>1
  <2>3. Len(r) # 0
    BY <1>7
  <2> QED BY <1>7, <2>2, <2>3
<1>9. Tail(r) = t
  <2>1. /\ Tail(r) \in Seq(ReadType) /\ Len(Tail(r)) = Len(t)
        /\ \A i \in 1 .. Len(t) : Tail(r)[i] = r[i + 1]
    BY <1>7, <1>8, HeadTailProperties
  <2>2. ASSUME NEW i \in 1 .. Len(t) PROVE Tail(r)[i] = t[i]
    <3> DEFINE j == i + 1
    <3>1. j \in 1 .. 1 + Len(t) /\ ~(j <= 1) /\ j - 1 = i
      BY <1>7
    <3> HIDE DEF j
    <3>2. r[j] = t[i]
      BY <1>7, <3>1
    <3> QED BY <2>1, <3>2 DEF j
  <2>3. DOMAIN Tail(r) = 1 .. Len(t) /\ DOMAIN t = 1 .. Len(t)
    BY <1>5, <2>1, LenProperties
  <2> QED BY <1>5, <2>1, <2>2, SeqEqual
<1>10. Stack(r)
  BY <1>1, <1>7, <1>8, <1>9 DEF Stack
<1>11. Stack(s \o t)
  <2>1. PICK h : h[0] = s \o t /\ \A k \in 0 .. Len(q) : Stack(h[k])
    BY <1>3 DEF Reading
  <2>2. q \in Seq(FieldType)
    BY <1>3 DEF Reading
  <2>3. 0 \in 0 .. Len(q)
    BY <2>2
  <2> QED BY <2>1, <2>3
<1>12. Reads(r, f, s \o t)
  BY <1>1, <1>4, <1>8, <1>9 DEF Reads
<1>13. Reading(r, <<f>>, s \o t)
  BY <1>4, <1>8, <1>10, <1>11, <1>12, ReadingOne
<1> QED BY <1>3, <1>13, ReadingChain DEF r

\* As many items as elements were announced.
LEMMA ParsesList ==
  ASSUME NEW r, Plain(r), NEW items \in Seq(Seq(FieldType)),
         \A i \in 1 .. Len(items) : Parses(r, items[i])
  PROVE  /\ Parses(Times(Len(items), r), FlattenSeq(items))
         /\ Plain(Times(Len(items), r))
<1> DEFINE n == Len(items)
           reads == [i \in 1 .. n |-> r]
<1>1. n \in Nat /\ r \in Seq(ReadType)
  BY DEF Plain
<1>2. reads \in Seq(Seq(ReadType)) /\ Len(reads) = n
  <2> HIDE DEF n
  <2>1. reads \in [1 .. n -> Seq(ReadType)]
    BY <1>1
  <2> HIDE DEF reads
  <2>2. reads \in Seq(Seq(ReadType))
    BY <1>1, <2>1
  <2> QED BY <1>1, <2>1, <2>2
<1>3. Times(n, r) = FlattenSeq(reads) /\ \A k \in 1 .. n : reads[k] = r
  BY DEF Times
<1> HIDE DEF reads
<1>4. PICK g : /\ g[0] = <<>> /\ g[Len(items)] = FlattenSeq(items)
               /\ \A k \in 0 .. Len(items) : g[k] \in Seq(FieldType)
               /\ \A k \in 1 .. Len(items) : g[k] = g[k - 1] \o items[k]
  BY Flattened
<1>5. PICK h : /\ h[0] = <<>> /\ h[Len(reads)] = FlattenSeq(reads)
               /\ \A k \in 0 .. Len(reads) : h[k] \in Seq(ReadType)
               /\ \A k \in 1 .. Len(reads) : h[k] = h[k - 1] \o reads[k]
  BY <1>2, Flattened
<1>6. n = Len(items)
  OBVIOUS
<1> HIDE DEF n
<1> DEFINE S == {k \in Nat : k <= n => Parses(h[k], g[k]) /\ Plain(h[k])}
<1>7. 0 \in S
  BY <1>4, <1>5, ParsesNothing, PlainEmpty
<1>8. ASSUME NEW k \in Nat, k <= n => Parses(h[k], g[k]) /\ Plain(h[k]), k + 1 <= n
      PROVE  Parses(h[k + 1], g[k + 1]) /\ Plain(h[k + 1])
  <2> DEFINE j == k + 1
  <2>1. k <= n /\ j \in 1 .. n /\ j - 1 = k /\ k \in 0 .. n
    BY <1>1, <1>8
  <2> HIDE DEF j
  <2>2. g[j] = g[k] \o items[j] /\ h[j] = h[k] \o r /\ h[k] \in Seq(ReadType)
    BY <1>2, <1>3, <1>4, <1>5, <1>6, <2>1
  <2>3. Parses(h[k], g[k]) /\ Plain(h[k]) /\ Parses(r, items[j])
    BY <1>6, <1>8, <2>1
  <2>4. Parses(h[k] \o r, g[k] \o items[j])
    BY <2>2, <2>3, ParsesConcat
  <2>5. Plain(h[k] \o r)
    BY <2>3, PlainConcat
  <2>6. Parses(h[j], g[j]) /\ Plain(h[j])
    BY <2>2, <2>4, <2>5
  <2> QED BY <2>6 DEF j
<1>9. \A k \in Nat : k \in S => k + 1 \in S
  BY <1>8
<1> HIDE DEF S
<1>10. n \in S
  BY <1>1, <1>7, <1>9, SetInduction
<1>11. Parses(h[n], g[n]) /\ Plain(h[n])
  BY <1>1, <1>10 DEF S
<1> QED BY <1>2, <1>3, <1>4, <1>5, <1>6, <1>11

LEMMA OneField ==
  ASSUME NEW size \in Nat, NEW v \in Nat
  PROVE  Field(size, v) \in FieldType /\ Field(size, v).size = size /\ Field(size, v).value = v
BY DEF Field, FieldType

LEMMA Pair ==
  ASSUME NEW S, NEW a \in S, NEW b \in S
  PROVE  /\ <<a>> \in Seq(S) /\ <<b>> \in Seq(S) /\ <<a, b>> \in Seq(S)
         /\ <<a, b>> = <<a>> \o <<b>>
<1>1. <<a>> \in Seq(S) /\ <<b>> \in Seq(S) /\ <<a, b>> \in Seq(S)
  OBVIOUS
<1>2. <<a, b>> = <<a>> \o <<b>>
  <2> DEFINE p == <<a, b>>
             s == <<a>>
             t == <<b>>
             st == s \o t
  <2>1. p \in Seq(S) /\ Len(p) = 2 /\ p[1] = a /\ p[2] = b
    OBVIOUS
  <2>2. s \in Seq(S) /\ t \in Seq(S) /\ Len(s) = 1 /\ Len(t) = 1 /\ s[1] = a /\ t[1] = b
    OBVIOUS
  <2> HIDE DEF p, s, t
  <2>3. /\ st \in Seq(S) /\ Len(st) = 2
        /\ \A i \in 1 .. 2 : st[i] = IF i <= 1 THEN s[i] ELSE t[i - 1]
    BY <2>2, ConcatProperties, SMTT(40)
  <2> HIDE DEF st
  <2>4. st[1] = a /\ st[2] = b
    BY <2>2, <2>3
  <2>5. \A i \in 1 .. 2 : i = 1 \/ i = 2
    OBVIOUS
  <2>6. \A i \in 1 .. 2 : st[i] = p[i]
    BY <2>1, <2>4, <2>5
  <2>7. p = st
    BY <2>1, <2>3, <2>6, SeqEqual
  <2> QED BY <2>7 DEF p, s, t, st
<1> QED BY <1>1, <1>2

LEMMA PairThen ==
  ASSUME NEW S, NEW a \in S, NEW b \in S, NEW q \in Seq(S)
  PROVE  <<a, b>> \o q = <<a>> \o (<<b>> \o q)
<1>1. <<a>> \in Seq(S) /\ <<b>> \in Seq(S) /\ <<a, b>> = <<a>> \o <<b>>
  BY Pair
<1>2. (<<a>> \o <<b>>) \o q = <<a>> \o (<<b>> \o q)
  BY <1>1, ConcatAssociative
<1> QED BY <1>1, <1>2

\* A field whose value leads to nothing.
LEMMA ParsesLeaf ==
  ASSUME NEW f \in FieldType, NEW as \in Kinds, as # "letters" => f.size # 0,
         ~Rejected(as, f.value), Follow(as, f.value) = <<>>
  PROVE  Parses(<<Read(f.size, as)>>, <<f>>)
<1>1. Parses(Follow(as, f.value), <<>>) /\ Follow(as, f.value) \in Seq(ReadType)
  BY ParsesNothing, EmptySeq
<1>2. Parses(<<Read(f.size, as)>>, <<f>> \o <<>>)
  BY <1>1, ParsesHead
<1>3. <<f>> \in Seq(FieldType)
  OBVIOUS
<1>4. <<f>> \o <<>> = <<f>>
  BY <1>3, ConcatEmptySeq
<1> QED BY <1>2, <1>4

LEMMA ParsesNumber ==
  ASSUME NEW size \in Nat \ {0}, NEW v \in Nat
  PROVE  Parses(<<Number(size)>>, <<Field(size, v)>>) /\ Plain(<<Number(size)>>)
<1>1. Follow("number", v) = <<>> /\ ~Rejected("number", v)
  BY DEF Follow, Rejected
<1>2. "number" \in Kinds
  BY DEF Kinds
<1>3. Parses(<<Read(size, "number")>>, <<Field(size, v)>>)
  BY <1>1, <1>2, OneField, ParsesLeaf
<1> QED BY <1>2, <1>3, PlainOne DEF Number

LEMMA ParsesName ==
  ASSUME NEW n \in NameType
  PROVE  Parses(NameRead, Name(n)) /\ Plain(NameRead) /\ Name(n) \in Seq(FieldType)
<1> DEFINE f == U8(n.len)
           g == Field(n.len, n.letters)
<1>1. n.len \in Nat /\ n.letters \in Nat
  BY DEF NameType
<1>2. /\ f \in FieldType /\ f.size = 1 /\ f.value = n.len
      /\ g \in FieldType /\ g.size = n.len /\ g.value = n.letters
  BY <1>1, OneField DEF U8
<1>3. Name(n) = <<f>> \o <<g>> /\ Name(n) \in Seq(FieldType)
  BY <1>2, Pair DEF Name
<1> HIDE DEF f, g
<1>4. /\ Follow("letters", g.value) = <<>> /\ ~Rejected("letters", g.value)
      /\ Follow("name", f.value) = <<Read(g.size, "letters")>> /\ ~Rejected("name", f.value)
  BY <1>2 DEF Follow, Rejected
<1>5. "letters" \in Kinds /\ "name" \in Kinds
  BY DEF Kinds
<1>6. Parses(<<Read(g.size, "letters")>>, <<g>>)
  BY <1>2, <1>4, <1>5, ParsesLeaf
<1>7. <<Read(g.size, "letters")>> \in Seq(ReadType)
  <2>1. Read(g.size, "letters") \in ReadType
    BY <1>2, <1>5 DEF FieldType, Read, ReadType
  <2> QED BY <2>1
<1>8. Parses(<<Read(f.size, "name")>>, <<f>> \o <<g>>)
  <2>1. Parses(Follow("name", f.value), <<g>>) /\ Follow("name", f.value) \in Seq(ReadType)
    BY <1>4, <1>6, <1>7
  <2>2. "name" # "letters" => f.size # 0
    BY <1>2
  <2> QED BY <1>2, <1>4, <1>5, <2>1, <2>2, ParsesHead
<1>9. Plain(NameRead)
  BY <1>5, PlainOne DEF NameRead
<1> QED BY <1>2, <1>3, <1>8, <1>9 DEF NameRead

LEMMA ParsesPosition ==
  ASSUME NEW p \in PositionType
  PROVE  Parses(PositionRead, Position(p)) /\ Plain(PositionRead) /\ Position(p) \in Seq(FieldType)
<1> DEFINE f == U16(p[1])
           g == U16(p[2])
           a == Number(2)
<1>1. p[1] \in Nat /\ p[2] \in Nat
  BY DEF PositionType
<1>2. f \in FieldType /\ g \in FieldType
  BY <1>1, OneField DEF U16
<1>3. Parses(<<a>>, <<f>>) /\ Parses(<<a>>, <<g>>) /\ Plain(<<a>>)
  BY <1>1, ParsesNumber DEF U16
<1>4. Position(p) = <<f, g>> /\ PositionRead = <<a, a>>
  BY DEF Position, PositionRead
<1>5. a \in ReadType
  BY DEF Number, Read, ReadType, Kinds
<1> HIDE DEF f, g, a
<1>6. Position(p) = <<f>> \o <<g>> /\ Position(p) \in Seq(FieldType)
  BY <1>2, <1>4, Pair
<1>7. PositionRead = <<a>> \o <<a>> /\ <<a>> \in Seq(ReadType)
  BY <1>4, <1>5, Pair
<1>8. Parses(<<a>> \o <<a>>, <<f>> \o <<g>>)
  BY <1>3, <1>7, ParsesConcat
<1> QED BY <1>3, <1>6, <1>7, <1>8, PlainConcat

\* A container whose items are read as r says.
LEMMA ParsesContainer ==
  ASSUME NEW as \in Kinds, as # "letters", NEW r, Plain(r),
         NEW items \in Seq(Seq(FieldType)), \A i \in 1 .. Len(items) : Parses(r, items[i]),
         Follow(as, Len(items)) = Times(Len(items), r), ~Rejected(as, Len(items))
  PROVE  /\ Parses(<<Read(4, as)>>, Listed(items)) /\ Plain(<<Read(4, as)>>)
         /\ Listed(items) \in Seq(FieldType)
<1> DEFINE n == Len(items)
           f == U32(n)
<1>1. n \in Nat
  OBVIOUS
<1>2. f \in FieldType /\ f.size = 4 /\ f.value = n
  BY <1>1, OneField DEF U32
<1>3. Parses(Times(n, r), FlattenSeq(items)) /\ Plain(Times(n, r))
  BY ParsesList
<1>4. Listed(items) = <<f>> \o FlattenSeq(items)
  BY DEF Listed
<1> HIDE DEF n, f
<1>5. Follow(as, f.value) = Times(n, r) /\ ~Rejected(as, f.value)
  BY <1>2 DEF n
<1>6. Parses(<<Read(f.size, as)>>, <<f>> \o FlattenSeq(items))
  <2>1. /\ Parses(Follow(as, f.value), FlattenSeq(items))
        /\ Follow(as, f.value) \in Seq(ReadType)
    BY <1>3, <1>5 DEF Plain
  <2>2. as # "letters" => f.size # 0
    BY <1>2
  <2> QED BY <1>2, <1>5, <2>1, <2>2, ParsesHead
<1>7. Plain(<<Read(4, as)>>)
  <2>1. 4 \in Nat /\ 4 # 0
    OBVIOUS
  <2> QED BY <2>1, PlainOne
<1>8. Listed(items) \in Seq(FieldType)
  <2>1. FlattenSeq(items) \in Seq(FieldType)
    <3>1. PICK h : /\ h[Len(items)] = FlattenSeq(items)
                   /\ \A k \in 0 .. Len(items) : h[k] \in Seq(FieldType)
      BY Flattened
    <3>2. Len(items) \in 0 .. Len(items)
      OBVIOUS
    <3> QED BY <3>1, <3>2
  <2>2. <<f>> \in Seq(FieldType)
    BY <1>2
  <2> QED BY <1>4, <2>1, <2>2
<1> QED BY <1>2, <1>4, <1>6, <1>7, <1>8

LEMMA Triple ==
  ASSUME NEW S, NEW a \in S, NEW b \in S, NEW c \in S
  PROVE  <<a>> \o (<<b>> \o <<c>>) = <<a, b, c>>
<1> DEFINE q == <<b, c>>
           s == <<a>>
           p == <<a, b, c>>
           st == s \o q
<1>1. <<b>> \o <<c>> = q
  BY Pair
<1>2. s \in Seq(S) /\ Len(s) = 1 /\ s[1] = a
  OBVIOUS
<1>3. q \in Seq(S) /\ Len(q) = 2 /\ q[1] = b /\ q[2] = c
  OBVIOUS
<1>4. p \in Seq(S) /\ Len(p) = 3 /\ p[1] = a /\ p[2] = b /\ p[3] = c
  OBVIOUS
<1> HIDE DEF s, q, p
<1>5. /\ st \in Seq(S) /\ Len(st) = 3
      /\ \A i \in 1 .. 3 : st[i] = IF i <= 1 THEN s[i] ELSE q[i - 1]
  <2>1. /\ st \in Seq(S) /\ Len(st) = Len(s) + Len(q)
        /\ \A i \in 1 .. Len(s) + Len(q) : st[i] = IF i <= Len(s) THEN s[i] ELSE q[i - Len(s)]
    BY <1>2, <1>3, ConcatProperties
  <2>2. Len(s) = 1 /\ Len(s) + Len(q) = 3
    BY <1>2, <1>3
  <2> HIDE DEF st
  <2> QED BY <2>1, <2>2
<1> HIDE DEF st
<1>6. st[1] = a /\ st[2] = b /\ st[3] = c
  BY <1>2, <1>3, <1>5
<1>7. \A i \in 1 .. 3 : i = 1 \/ i = 2 \/ i = 3
  OBVIOUS
<1>8. \A i \in 1 .. 3 : st[i] = p[i]
  BY <1>4, <1>6, <1>7
<1>9. st = p
  BY <1>4, <1>5, <1>8, SeqEqual
<1> QED BY <1>1, <1>9 DEF st, s, p

AddressedFields(p) == <<U8(p.id)>> \o Player(p.player)

LEMMA ParsesPlayer ==
  ASSUME NEW p \in AddressedPlayer
  PROVE  /\ Parses(PlayerRead, AddressedFields(p)) /\ Plain(PlayerRead)
         /\ AddressedFields(p) \in Seq(FieldType)
         /\ U8(p.id) \in FieldType /\ Player(p.player) \in Seq(FieldType)
<1> DEFINE a == <<Number(1)>>
           f == <<U8(p.id)>>
           n == Name(p.player.name)
           m == Name(p.player.address)
           r == NameRead
<1>1. p.id \in Nat /\ p.player.name \in NameType /\ p.player.address \in NameType
  BY DEF AddressedPlayer
<1>2. U8(p.id) \in FieldType
  BY <1>1, OneField DEF U8
<1>3. /\ Parses(a, f) /\ Plain(a)
      /\ Parses(r, n) /\ Parses(r, m) /\ Plain(r)
      /\ n \in Seq(FieldType) /\ m \in Seq(FieldType)
  BY <1>1, ParsesNumber, ParsesName DEF U8
<1>4. f \in Seq(FieldType)
  BY <1>2
<1>5. a \in Seq(ReadType) /\ r \in Seq(ReadType)
  BY <1>3 DEF Plain
<1>6. AddressedFields(p) = f \o (n \o m) /\ PlayerRead = (a \o r) \o r
      /\ Player(p.player) = n \o m
  BY DEF AddressedFields, Player, PlayerRead
<1> HIDE DEF a, f, n, m, r
<1>7. Parses(a \o r, f \o n) /\ Plain(a \o r)
  BY <1>3, <1>5, ParsesConcat, PlainConcat
<1>8. a \o r \in Seq(ReadType)
  BY <1>7 DEF Plain
<1>9. Parses((a \o r) \o r, (f \o n) \o m) /\ Plain((a \o r) \o r)
  BY <1>3, <1>7, <1>8, ParsesConcat, PlainConcat
<1>10. (f \o n) \o m = f \o (n \o m)
  BY <1>3, <1>4, ConcatAssociative, SMTT(40)
<1>11. n \o m \in Seq(FieldType) /\ f \o (n \o m) \in Seq(FieldType)
  BY <1>3, <1>4, ConcatProperties
<1> QED BY <1>2, <1>6, <1>9, <1>10, <1>11

\* A number and what follows it.
LEMMA ParsesNumberThen ==
  ASSUME NEW size \in Nat \ {0}, NEW v \in Nat, NEW r, Plain(r), NEW q \in Seq(FieldType),
         Parses(r, q)
  PROVE  /\ Parses(<<Number(size)>> \o r, <<Field(size, v)>> \o q)
         /\ Plain(<<Number(size)>> \o r)
         /\ <<Field(size, v)>> \o q \in Seq(FieldType)
<1>1. Parses(<<Number(size)>>, <<Field(size, v)>>) /\ Plain(<<Number(size)>>)
  BY ParsesNumber
<1>2. <<Number(size)>> \in Seq(ReadType)
  BY <1>1 DEF Plain
<1>3. <<Field(size, v)>> \in Seq(FieldType)
  BY OneField
<1>4. Parses(<<Number(size)>> \o r, <<Field(size, v)>> \o q)
  BY <1>1, <1>2, ParsesConcat
<1> QED BY <1>1, <1>3, <1>4, PlainConcat, ConcatProperties

\* An id, and what it leads to.
LEMMA ParsesId ==
  ASSUME NEW as \in {"message", "event"}, NEW id \in Nat, ~Rejected(as, id),
         NEW r, Plain(r), Follow(as, id) = r, NEW q \in Seq(FieldType), Parses(r, q)
  PROVE  /\ Parses(<<Read(1, as)>>, <<U8(id)>> \o q)
         /\ <<U8(id)>> \o q \in Seq(FieldType)
<1> DEFINE f == U8(id)
<1>1. f \in FieldType /\ f.size = 1 /\ f.value = id
  BY OneField DEF U8
<1> HIDE DEF f
<1>7. f.size # 0
  BY <1>1
<1>2. as \in Kinds /\ (as # "letters" => f.size # 0)
  BY <1>7 DEF Kinds
<1>3. /\ ~Rejected(as, f.value) /\ Follow(as, f.value) \in Seq(ReadType)
      /\ Parses(Follow(as, f.value), q)
  BY <1>1 DEF Plain
<1>4. Parses(<<Read(f.size, as)>>, <<f>> \o q)
  BY <1>1, <1>2, <1>3, ParsesHead
<1>5. <<f>> \in Seq(FieldType)
  BY <1>1
<1>6. <<f>> \o q \in Seq(FieldType)
  BY <1>5, ConcatProperties
<1> QED BY <1>1, <1>4, <1>6 DEF f

LEMMA EventIds == BOMB_PLACED = 0 /\ BOMB_EXPLODED = 1 /\ PLAYER_MOVED = 2 /\ BLOCK_PLACED = 3
BY DEF BOMB_PLACED, BOMB_EXPLODED, PLAYER_MOVED, BLOCK_PLACED

LEMMA EventFollows ==
  ASSUME NEW id \in 0 .. 3
  PROVE  ~Rejected("event", id) /\ Follow("event", id) = EventRead(id)
BY EventIds DEF Rejected, Follow

\* One item for each element.
LEMMA ItemsOf ==
  ASSUME NEW S, NEW s \in Seq(S), NEW items, items = [i \in DOMAIN s |-> items[i]],
         \A i \in 1 .. Len(s) : items[i] \in Seq(FieldType)
  PROVE  items \in Seq(Seq(FieldType)) /\ Len(items) = Len(s)
<1> DEFINE n == Len(s)
<1>1. n \in Nat /\ DOMAIN s = 1 .. n
  OBVIOUS
<1> HIDE DEF n
<1>2. items \in [1 .. n -> Seq(FieldType)]
  BY <1>1 DEF n
<1>3. items \in Seq(Seq(FieldType)) /\ Len(items) = n
  BY <1>1, <1>2
<1> QED BY <1>3 DEF n

LEMMA ListedBytes ==
  ASSUME NEW robots \in Seq(Nat)
  PROVE  LET q == Listed([i \in DOMAIN robots |-> <<U8(robots[i])>>])
             r == <<Read(4, "robots")>>
         IN Parses(r, q) /\ Plain(r) /\ q \in Seq(FieldType)
<1> DEFINE items == [i \in DOMAIN robots |-> <<U8(robots[i])>>]
<1>1. DOMAIN robots = 1 .. Len(robots) /\ \A i \in 1 .. Len(robots) : robots[i] \in Nat
  OBVIOUS
<1>2. ASSUME NEW v \in Nat
      PROVE  <<U8(v)>> \in Seq(FieldType) /\ Parses(<<Number(1)>>, <<U8(v)>>)
  <2>1. U8(v) \in FieldType
    BY OneField DEF U8
  <2>2. Parses(<<Number(1)>>, <<U8(v)>>)
    BY ParsesNumber DEF U8
  <2> QED BY <2>1, <2>2
<1>3. \A i \in 1 .. Len(robots) : items[i] \in Seq(FieldType) /\ Parses(<<Number(1)>>, items[i])
  BY <1>1, <1>2
<1>4. items = [i \in DOMAIN robots |-> items[i]]
  OBVIOUS
<1> HIDE DEF items
<1>5. items \in Seq(Seq(FieldType)) /\ Len(items) = Len(robots)
  BY <1>3, <1>4, ItemsOf
<1>6. "robots" \in Kinds /\ "robots" # "letters"
  BY DEF Kinds
<1>7. /\ Follow("robots", Len(items)) = Times(Len(items), <<Number(1)>>)
      /\ ~Rejected("robots", Len(items))
  BY DEF Follow, Rejected
<1>8. Plain(<<Number(1)>>)
  <2>1. 0 \in Nat /\ 1 \in Nat \ {0}
    OBVIOUS
  <2> QED BY <2>1, ParsesNumber
<1>9. /\ Parses(<<Read(4, "robots")>>, Listed(items)) /\ Plain(<<Read(4, "robots")>>)
      /\ Listed(items) \in Seq(FieldType)
  BY <1>3, <1>5, <1>6, <1>7, <1>8, ParsesContainer
<1> QED BY <1>9 DEF items

LEMMA ListedPositions ==
  ASSUME NEW fields \in Seq(PositionType)
  PROVE  LET q == Listed([i \in DOMAIN fields |-> Position(fields[i])])
             r == <<Read(4, "blocks")>>
         IN Parses(r, q) /\ Plain(r) /\ q \in Seq(FieldType)
<1> DEFINE items == [i \in DOMAIN fields |-> Position(fields[i])]
<1>1. DOMAIN fields = 1 .. Len(fields) /\ \A i \in 1 .. Len(fields) : fields[i] \in PositionType
  OBVIOUS
<1>2. \A i \in 1 .. Len(fields) :
        items[i] \in Seq(FieldType) /\ Parses(PositionRead, items[i])
  BY <1>1, ParsesPosition
<1>3. items = [i \in DOMAIN fields |-> items[i]]
  OBVIOUS
<1> HIDE DEF items
<1>4. items \in Seq(Seq(FieldType)) /\ Len(items) = Len(fields)
  BY <1>2, <1>3, ItemsOf
<1>5. "blocks" \in Kinds /\ "blocks" # "letters"
  BY DEF Kinds
<1>6. /\ Follow("blocks", Len(items)) = Times(Len(items), PositionRead)
      /\ ~Rejected("blocks", Len(items))
  BY DEF Follow, Rejected
<1>7. Plain(PositionRead)
  <2>1. <<0, 0>> \in PositionType
    BY DEF PositionType
  <2> QED BY <2>1, ParsesPosition
<1>8. /\ Parses(<<Read(4, "blocks")>>, Listed(items)) /\ Plain(<<Read(4, "blocks")>>)
      /\ Listed(items) \in Seq(FieldType)
  BY <1>2, <1>4, <1>5, <1>6, <1>7, ParsesContainer
<1> QED BY <1>8 DEF items

LEMMA ParsesExploded ==
  ASSUME NEW id \in Nat, NEW robots \in Seq(Nat), NEW fields \in Seq(PositionType)
  PROVE  LET q == <<U32(id)>> \o Listed([i \in DOMAIN robots |-> <<U8(robots[i])>>])
                    \o Listed([i \in DOMAIN fields |-> Position(fields[i])])
             r == <<Number(4), Read(4, "robots"), Read(4, "blocks")>>
         IN Parses(r, q) /\ Plain(r) /\ q \in Seq(FieldType)
<1> DEFINE x == Listed([i \in DOMAIN robots |-> <<U8(robots[i])>>])
           y == Listed([i \in DOMAIN fields |-> Position(fields[i])])
           a == <<Number(4)>>
           b == <<Read(4, "robots")>>
           c == <<Read(4, "blocks")>>
           f == <<U32(id)>>
<1>3. Parses(b, x) /\ Plain(b) /\ x \in Seq(FieldType)
  BY ListedBytes
<1>4. Parses(c, y) /\ Plain(c) /\ y \in Seq(FieldType)
  BY ListedPositions
<1> HIDE DEF x, y
<1>5. Parses(b \o c, x \o y) /\ Plain(b \o c)
      /\ x \o y \in Seq(FieldType)
  <2>1. b \in Seq(ReadType)
    BY <1>3 DEF Plain
  <2> QED BY <1>3, <1>4, <2>1, ParsesConcat, PlainConcat, ConcatProperties
<1>6. /\ Parses(a \o (b \o c), f \o (x \o y))
      /\ Plain(a \o (b \o c))
      /\ f \o (x \o y) \in Seq(FieldType)
  <2> DEFINE r == b \o c
             q == x \o y
  <2>1. 4 \in Nat \ {0} /\ id \in Nat /\ Plain(r) /\ q \in Seq(FieldType) /\ Parses(r, q)
    BY <1>5
  <2> HIDE DEF r, q
  <2>2. /\ Parses(<<Number(4)>> \o r, <<Field(4, id)>> \o q)
        /\ Plain(<<Number(4)>> \o r)
        /\ <<Field(4, id)>> \o q \in Seq(FieldType)
    BY <2>1, ParsesNumberThen
  <2> QED BY <2>2 DEF U32, r, q
<1>7. f \o (x \o y) = (f \o x) \o y
  <2>1. f \in Seq(FieldType)
    BY OneField DEF U32
  <2> QED BY <1>3, <1>4, <2>1, ConcatAssociative, SMTT(40)
<1>8. a \o (b \o c) = <<Number(4), Read(4, "robots"), Read(4, "blocks")>>
  <2> DEFINE l == Number(4)
             m == Read(4, "robots")
             n == Read(4, "blocks")
  <2>1. l \in ReadType /\ m \in ReadType /\ n \in ReadType
    BY DEF Number, Read, ReadType, Kinds
  <2> HIDE DEF l, m, n
  <2>2. <<l>> \o (<<m>> \o <<n>>) = <<l, m, n>>
    BY <2>1, Triple
  <2> QED BY <2>2 DEF l, m, n
<1> QED BY <1>6, <1>7, <1>8 DEF x, y

LEMMA ParsesPlaced ==
  ASSUME NEW id \in {BOMB_PLACED, PLAYER_MOVED}, NEW size \in Nat \ {0}, NEW v \in Nat,
         NEW p \in PositionType, EventRead(id) = <<Number(size)>> \o PositionRead
  PROVE  /\ Parses(<<Read(1, "event")>>, <<U8(id), Field(size, v)>> \o Position(p))
         /\ <<U8(id), Field(size, v)>> \o Position(p) \in Seq(FieldType)
<1> DEFINE r == <<Number(size)>> \o PositionRead
           q == <<Field(size, v)>> \o Position(p)
<1>1. /\ Parses(PositionRead, Position(p)) /\ Plain(PositionRead)
      /\ Position(p) \in Seq(FieldType)
  BY ParsesPosition
<1>2. Parses(r, q) /\ Plain(r) /\ q \in Seq(FieldType)
  BY <1>1, ParsesNumberThen
<1>3. id \in 0 .. 3 /\ id \in Nat
  BY EventIds
<1>4. ~Rejected("event", id) /\ Follow("event", id) = r
  BY <1>3, EventFollows
<1>5. <<U8(id), Field(size, v)>> \o Position(p) = <<U8(id)>> \o q
  <2> DEFINE x == U8(id)
             y == Field(size, v)
             z == Position(p)
  <2>1. x \in FieldType /\ y \in FieldType /\ z \in Seq(FieldType)
    BY <1>1, <1>3, OneField DEF U8
  <2> HIDE DEF x, y, z
  <2>2. <<x, y>> \o z = <<x>> \o (<<y>> \o z)
    BY <2>1, PairThen, SMTT(40)
  <2> QED BY <2>2 DEF x, y, z
<1> HIDE DEF r, q
<1>6. "event" \in {"message", "event"}
  OBVIOUS
<1>7. Parses(<<Read(1, "event")>>, <<U8(id)>> \o q) /\ <<U8(id)>> \o q \in Seq(FieldType)
  BY <1>2, <1>3, <1>4, <1>6, ParsesId
<1> QED BY <1>5, <1>7

\* What handle_turn reads of an event is what is written of it.
LEMMA ParsesEvent ==
  ASSUME NEW e \in EventType
  PROVE  /\ Parses(<<Read(1, "event")>>, EventFields(e))
         /\ EventFields(e) \in Seq(FieldType)
<1>1. CASE e \in [event : {BOMB_PLACED}, bomb_id : Nat, position : PositionType]
  <2>1. e.event = BOMB_PLACED /\ e.bomb_id \in Nat /\ e.position \in PositionType
    BY <1>1
  <2>2. EventFields(e) = <<U8(BOMB_PLACED), Field(4, e.bomb_id)>> \o Position(e.position)
    BY <2>1, EventIds DEF EventFields, U32
  <2>3. EventRead(BOMB_PLACED) = <<Number(4)>> \o PositionRead
    BY EventIds DEF EventRead
  <2>4. 4 \in Nat \ {0} /\ BOMB_PLACED \in {BOMB_PLACED, PLAYER_MOVED}
    OBVIOUS
  <2> QED BY <2>1, <2>2, <2>3, <2>4, ParsesPlaced
<1>2. CASE e \in [event : {BOMB_EXPLODED}, bomb_id : Nat,
                  robots_destroyed : Seq(Nat), blocks_destroyed : Seq(PositionType)]
  <2> DEFINE f == U32(e.bomb_id)
             x == Listed([i \in DOMAIN e.robots_destroyed |-> <<U8(e.robots_destroyed[i])>>])
             y == Listed([i \in DOMAIN e.blocks_destroyed |-> Position(e.blocks_destroyed[i])])
             r == <<Number(4), Read(4, "robots"), Read(4, "blocks")>>
             q == <<f>> \o x \o y
             g == U8(BOMB_EXPLODED)
  <2>1. /\ e.event = BOMB_EXPLODED /\ e.bomb_id \in Nat
        /\ e.robots_destroyed \in Seq(Nat) /\ e.blocks_destroyed \in Seq(PositionType)
    BY <1>2
  <2>2. Parses(r, q) /\ Plain(r) /\ q \in Seq(FieldType)
    BY <2>1, ParsesExploded
  <2>3. EventFields(e) = <<g, f>> \o x \o y
    BY <2>1, EventIds DEF EventFields
  <2>4. f \in FieldType /\ g \in FieldType /\ BOMB_EXPLODED \in Nat /\ BOMB_EXPLODED \in 0 .. 3
    BY <2>1, EventIds, OneField DEF U8, U32
  <2>5. x \in Seq(FieldType) /\ y \in Seq(FieldType)
    BY <2>1, ListedBytes, ListedPositions
  <2>6. ~Rejected("event", BOMB_EXPLODED) /\ Follow("event", BOMB_EXPLODED) = r
    BY <2>4, EventFollows, EventIds DEF EventRead
  <2> HIDE DEF f, x, y, r
  <2>7. <<g, f>> \o x \o y = <<g>> \o q
    <3>1. <<f>> \in Seq(FieldType) /\ <<g>> \in Seq(FieldType)
      BY <2>4
    <3>2. <<g, f>> \o x = <<g>> \o (<<f>> \o x)
      BY <2>4, <2>5, PairThen, SMTT(40)
    <3>3. <<f>> \o x \in Seq(FieldType)
      BY <2>5, <3>1, ConcatProperties
    <3>4. (<<g>> \o (<<f>> \o x)) \o y = <<g>> \o ((<<f>> \o x) \o y)
      BY <2>5, <3>1, <3>3, ConcatAssociative
    <3> QED BY <3>2, <3>4
  <2> HIDE DEF q
  <2>8. Parses(<<Read(1, "event")>>, <<g>> \o q) /\ <<g>> \o q \in Seq(FieldType)
    <3>1. "event" \in {"message", "event"}
      OBVIOUS
    <3> QED BY <2>2, <2>4, <2>6, <3>1, ParsesId
  <2> QED BY <2>3, <2>7, <2>8
<1>3. CASE e \in [event : {PLAYER_MOVED}, player_id : Nat, position : PositionType]
  <2>1. e.event = PLAYER_MOVED /\ e.player_id \in Nat /\ e.position \in PositionType
    BY <1>3
  <2>2. EventFields(e) = <<U8(PLAYER_MOVED), Field(1, e.player_id)>> \o Position(e.position)
    <3>1. EventFields(e) = <<U8(PLAYER_MOVED), U8(e.player_id)>> \o Position(e.position)
      BY <2>1, EventIds DEF EventFields
    <3>2. U8(e.player_id) = Field(1, e.player_id)
      BY DEF U8
    <3> QED BY <3>1, <3>2
  <2>3. EventRead(PLAYER_MOVED) = <<Number(1)>> \o PositionRead
    BY EventIds DEF EventRead
  <2>4. 1 \in Nat \ {0} /\ PLAYER_MOVED \in {BOMB_PLACED, PLAYER_MOVED}
    OBVIOUS
  <2> QED BY <2>1, <2>2, <2>3, <2>4, ParsesPlaced
<1>4. CASE e \in [event : {BLOCK_PLACED}, position : PositionType]
  <2>1. e.event = BLOCK_PLACED /\ e.position \in PositionType
    BY <1>4
  <2>2. EventFields(e) = <<U8(BLOCK_PLACED)>> \o Position(e.position)
    BY <2>1, EventIds DEF EventFields
  <2>3. BLOCK_PLACED \in 0 .. 3 /\ BLOCK_PLACED \in Nat
    BY EventIds
  <2>4. ~Rejected("event", BLOCK_PLACED) /\ Follow("event", BLOCK_PLACED) = PositionRead
    BY <2>3, EventFollows, EventIds DEF EventRead
  <2>5. /\ Parses(PositionRead, Position(e.position)) /\ Plain(PositionRead)
        /\ Position(e.position) \in Seq(FieldType)
    BY <2>1, ParsesPosition
  <2>6. "event" \in {"message", "event"}
    OBVIOUS
  <2>7. /\ Parses(<<Read(1, "event")>>, <<U8(BLOCK_PLACED)>> \o Position(e.position))
        /\ <<U8(BLOCK_PLACED)>> \o Position(e.position) \in Seq(FieldType)
    BY <2>3, <2>4, <2>5, <2>6, ParsesId
  <2> QED BY <2>2, <2>7
<1> QED BY <1>1, <1>2, <1>3, <1>4 DEF EventType

LEMMA MessageIds ==
  /\ SC_HELLO = 0 /\ SC_ACCEPTED_PLAYER = 1 /\ SC_GAME_STARTED = 2
  /\ SC_TURN = 3 /\ SC_GAME_ENDED = 4
BY DEF SC_HELLO, SC_ACCEPTED_PLAYER, SC_GAME_STARTED, SC_TURN, SC_GAME_ENDED

LEMMA MessageFollows ==
  ASSUME NEW id \in 1 .. 4
  PROVE  id \in Nat /\ ~Rejected("message", id) /\ Follow("message", id) = MessageRead(id)
BY MessageIds DEF Rejected, Follow

LEMMA ListedPlayers ==
  ASSUME NEW ps \in Seq(AddressedPlayer)
  PROVE  LET q == Listed([i \in DOMAIN ps |-> <<U8(ps[i].id)>> \o Player(ps[i].player)])
             r == <<Read(4, "players")>>
         IN Parses(r, q) /\ Plain(r) /\ q \in Seq(FieldType)
<1> DEFINE items == [i \in DOMAIN ps |-> <<U8(ps[i].id)>> \o Player(ps[i].player)]
<1>1. DOMAIN ps = 1 .. Len(ps) /\ \A i \in 1 .. Len(ps) : ps[i] \in AddressedPlayer
  OBVIOUS
<1>2. \A i \in 1 .. Len(ps) : items[i] \in Seq(FieldType) /\ Parses(PlayerRead, items[i])
  <2> TAKE i \in 1 .. Len(ps)
  <2>1. items[i] = AddressedFields(ps[i])
    BY <1>1 DEF AddressedFields
  <2> HIDE DEF items
  <2> QED BY <1>1, <2>1, ParsesPlayer
<1>3. items = [i \in DOMAIN ps |-> items[i]]
  OBVIOUS
<1> HIDE DEF items
<1>4. items \in Seq(Seq(FieldType)) /\ Len(items) = Len(ps)
  BY <1>2, <1>3, ItemsOf
<1>5. "players" \in Kinds /\ "players" # "letters"
  BY DEF Kinds
<1>6. /\ Follow("players", Len(items)) = Times(Len(items), PlayerRead)
      /\ ~Rejected("players", Len(items))
  BY DEF Follow, Rejected
<1>7. Plain(PlayerRead)
  <2> DEFINE n == [len |-> 0, letters |-> 0]
             p == [id |-> 0, player |-> [name |-> n, address |-> n]]
  <2>1. p \in AddressedPlayer
    BY DEF AddressedPlayer, NameType
  <2> HIDE DEF p
  <2> QED BY <2>1, ParsesPlayer
<1>8. /\ Parses(<<Read(4, "players")>>, Listed(items)) /\ Plain(<<Read(4, "players")>>)
      /\ Listed(items) \in Seq(FieldType)
  BY <1>2, <1>4, <1>5, <1>6, <1>7, ParsesContainer
<1> QED BY <1>8 DEF items

LEMMA ListedEvents ==
  ASSUME NEW es \in Seq(EventType)
  PROVE  LET q == Listed([i \in DOMAIN es |-> EventFields(es[i])])
             r == <<Read(4, "events")>>
         IN Parses(r, q) /\ Plain(r) /\ q \in Seq(FieldType)
<1> DEFINE items == [i \in DOMAIN es |-> EventFields(es[i])]
           r == <<Read(1, "event")>>
<1>1. DOMAIN es = 1 .. Len(es) /\ \A i \in 1 .. Len(es) : es[i] \in EventType
  OBVIOUS
<1>2. \A i \in 1 .. Len(es) : items[i] \in Seq(FieldType) /\ Parses(r, items[i])
  BY <1>1, ParsesEvent
<1>3. items = [i \in DOMAIN es |-> items[i]]
  OBVIOUS
<1> HIDE DEF items
<1>4. items \in Seq(Seq(FieldType)) /\ Len(items) = Len(es)
  BY <1>2, <1>3, ItemsOf
<1>5. "events" \in Kinds /\ "events" # "letters" /\ "event" \in Kinds /\ "event" # "letters"
  BY DEF Kinds
<1>6. Follow("events", Len(items)) = Times(Len(items), r) /\ ~Rejected("events", Len(items))
  BY DEF Follow, Rejected
<1>7. Plain(r)
  <2>1. 1 \in Nat /\ 1 # 0
    OBVIOUS
  <2> QED BY <1>5, <2>1, PlainOne
<1> HIDE DEF r
<1>8. /\ Parses(<<Read(4, "events")>>, Listed(items)) /\ Plain(<<Read(4, "events")>>)
      /\ Listed(items) \in Seq(FieldType)
  BY <1>2, <1>4, <1>5, <1>6, <1>7, ParsesContainer
<1> QED BY <1>8 DEF items

LEMMA ParsesScore ==
  ASSUME NEW id \in Nat, NEW score \in Nat
  PROVE  LET q == <<U8(id), U32(score)>>
             r == <<Number(1), Number(4)>>
         IN Parses(r, q) /\ Plain(r) /\ q \in Seq(FieldType)
<1> DEFINE f == U8(id)
           g == U32(score)
           a == Number(1)
           b == Number(4)
<1>1. f \in FieldType /\ g \in FieldType
  BY OneField DEF U8, U32
<1>2. Parses(<<a>>, <<f>>) /\ Plain(<<a>>)
  <2>1. 1 \in Nat \ {0}
    OBVIOUS
  <2> QED BY <2>1, ParsesNumber DEF U8
<1>3. Parses(<<b>>, <<g>>) /\ Plain(<<b>>)
  <2>1. 4 \in Nat \ {0}
    OBVIOUS
  <2> QED BY <2>1, ParsesNumber DEF U32
<1>4. a \in ReadType /\ b \in ReadType
  BY DEF Number, Read, ReadType, Kinds
<1> HIDE DEF f, g, a, b
<1>5. <<f, g>> = <<f>> \o <<g>> /\ <<f, g>> \in Seq(FieldType)
  BY <1>1, Pair
<1>6. <<a, b>> = <<a>> \o <<b>> /\ <<a>> \in Seq(ReadType)
  BY <1>4, Pair
<1>7. Parses(<<a, b>>, <<f, g>>) /\ Plain(<<a, b>>)
  BY <1>2, <1>3, <1>5, <1>6, ParsesConcat, PlainConcat
<1> QED BY <1>5, <1>7 DEF f, g, a, b

LEMMA ListedScores ==
  ASSUME NEW ss \in Seq([id : Nat, score : Nat])
  PROVE  LET q == Listed([i \in DOMAIN ss |-> <<U8(ss[i].id), U32(ss[i].score)>>])
             r == <<Read(4, "scores")>>
         IN Parses(r, q) /\ Plain(r) /\ q \in Seq(FieldType)
<1> DEFINE items == [i \in DOMAIN ss |-> <<U8(ss[i].id), U32(ss[i].score)>>]
           r == <<Number(1), Number(4)>>
<1>1. DOMAIN ss = 1 .. Len(ss)
      /\ \A i \in 1 .. Len(ss) : ss[i].id \in Nat /\ ss[i].score \in Nat
  <2> DEFINE S == [id : Nat, score : Nat]
  <2>1. \A x \in S : x.id \in Nat /\ x.score \in Nat
    OBVIOUS
  <2>2. ss \in Seq(S)
    OBVIOUS
  <2> HIDE DEF S
  <2>3. DOMAIN ss = 1 .. Len(ss) /\ \A i \in 1 .. Len(ss) : ss[i] \in S
    BY <2>2
  <2> QED BY <2>1, <2>3
<1>2. \A i \in 1 .. Len(ss) : items[i] \in Seq(FieldType) /\ Parses(r, items[i])
  BY <1>1, ParsesScore
<1>3. items = [i \in DOMAIN ss |-> items[i]]
  OBVIOUS
<1> HIDE DEF items
<1>4. items \in Seq(Seq(FieldType)) /\ Len(items) = Len(ss)
  BY <1>2, <1>3, ItemsOf
<1>5. "scores" \in Kinds /\ "scores" # "letters"
  BY DEF Kinds
<1>6. Follow("scores", Len(items)) = Times(Len(items), r) /\ ~Rejected("scores", Len(items))
  BY DEF Follow, Rejected
<1>7. Plain(r)
  <2>1. 0 \in Nat
    OBVIOUS
  <2> QED BY <2>1, ParsesScore
<1> HIDE DEF r
<1>8. /\ Parses(<<Read(4, "scores")>>, Listed(items)) /\ Plain(<<Read(4, "scores")>>)
      /\ Listed(items) \in Seq(FieldType)
  BY <1>2, <1>4, <1>5, <1>6, <1>7, ParsesContainer
<1> QED BY <1>8 DEF items

\* What from_server_to_gui reads of a message is what send_to_client writes of it.
LEMMA ParsesMessage ==
  ASSUME NEW m \in MessageType
  PROVE  Parses(<<Read(1, "message")>>, Layout(m)) /\ Layout(m) \in Seq(FieldType)
<1>1. "message" \in {"message", "event"}
  OBVIOUS
<1>2. CASE m \in [id : {SC_ACCEPTED_PLAYER}, player : AddressedPlayer]
  <2> DEFINE p == m.player
             q == AddressedFields(p)
             f == U8(SC_ACCEPTED_PLAYER)
             g == U8(p.id)
             n == Player(p.player)
  <2>1. m.id = SC_ACCEPTED_PLAYER /\ p \in AddressedPlayer
    BY <1>2
  <2>2. Layout(m) = <<f, g>> \o n
    BY <2>1, MessageIds DEF Layout, send_accepted_player
  <2>3. SC_ACCEPTED_PLAYER \in 1 .. 4
    BY MessageIds
  <2>4. /\ SC_ACCEPTED_PLAYER \in Nat /\ ~Rejected("message", SC_ACCEPTED_PLAYER)
        /\ Follow("message", SC_ACCEPTED_PLAYER) = PlayerRead
    BY <2>3, MessageFollows, MessageIds DEF MessageRead
  <2>5. /\ Parses(PlayerRead, q) /\ Plain(PlayerRead) /\ q \in Seq(FieldType)
        /\ g \in FieldType /\ n \in Seq(FieldType)
    BY <2>1, ParsesPlayer
  <2>6. f \in FieldType
    BY <2>4, OneField DEF U8
  <2>7. q = <<g>> \o n
    BY DEF AddressedFields
  <2> HIDE DEF p, q, g, n
  <2>8. Parses(<<Read(1, "message")>>, <<f>> \o q) /\ <<f>> \o q \in Seq(FieldType)
    BY <1>1, <2>4, <2>5, ParsesId
  <2> HIDE DEF f
  <2>9. <<f, g>> \o n = <<f>> \o q
    BY <2>5, <2>6, <2>7, PairThen, SMTT(40)
  <2> QED BY <2>2, <2>8, <2>9
<1>3. CASE m \in [id : {SC_GAME_STARTED}, players : Seq(AddressedPlayer)]
  <2> DEFINE q == Listed([i \in DOMAIN m.players |->
                            <<U8(m.players[i].id)>> \o Player(m.players[i].player)])
             r == <<Read(4, "players")>>
  <2>1. m.id = SC_GAME_STARTED /\ m.players \in Seq(AddressedPlayer)
    BY <1>3
  <2>2. Layout(m) = <<U8(SC_GAME_STARTED)>> \o q
    BY <2>1, MessageIds DEF Layout, send_game_started
  <2>3. SC_GAME_STARTED \in 1 .. 4
    BY MessageIds
  <2>4. /\ SC_GAME_STARTED \in Nat /\ ~Rejected("message", SC_GAME_STARTED)
        /\ Follow("message", SC_GAME_STARTED) = r
    BY <2>3, MessageFollows, MessageIds DEF MessageRead
  <2>5. Parses(r, q) /\ Plain(r) /\ q \in Seq(FieldType)
    BY <2>1, ListedPlayers
  <2> HIDE DEF q, r
  <2>6. /\ Parses(<<Read(1, "message")>>, <<U8(SC_GAME_STARTED)>> \o q)
        /\ <<U8(SC_GAME_STARTED)>> \o q \in Seq(FieldType)
    BY <1>1, <2>4, <2>5, ParsesId
  <2> QED BY <2>2, <2>6
<1>4. CASE m \in [id : {SC_TURN}, turn : Nat, events : Seq(EventType)]
  <2> DEFINE x == Listed([i \in DOMAIN m.events |-> EventFields(m.events[i])])
             a == Number(2)
             b == Read(4, "events")
             f == U8(SC_TURN)
             g == U16(m.turn)
             q == <<g>> \o x
             r == <<a>> \o <<b>>
  <2>1. m.id = SC_TURN /\ m.turn \in Nat /\ m.events \in Seq(EventType)
    BY <1>4
  <2>2. Layout(m) = <<f, g>> \o x
    BY <2>1, MessageIds DEF Layout, send_turn
  <2>3. SC_TURN \in 1 .. 4
    BY MessageIds
  <2>4. /\ SC_TURN \in Nat /\ ~Rejected("message", SC_TURN)
        /\ Follow("message", SC_TURN) = <<a, b>>
    BY <2>3, MessageFollows, MessageIds DEF MessageRead
  <2>5. a \in ReadType /\ b \in ReadType
    BY DEF Number, Read, ReadType, Kinds
  <2>6. Parses(<<b>>, x) /\ Plain(<<b>>) /\ x \in Seq(FieldType)
    BY <2>1, ListedEvents
  <2>7. Parses(r, q) /\ Plain(r) /\ q \in Seq(FieldType)
    <3> HIDE DEF x, b
    <3>1. 2 \in Nat \ {0}
      OBVIOUS
    <3> QED BY <2>1, <2>6, <3>1, ParsesNumberThen DEF U16
  <2>8. f \in FieldType /\ g \in FieldType
    BY <2>1, <2>4, OneField DEF U8, U16
  <2> HIDE DEF a, b, x, g, q
  <2>9. <<a, b>> = r
    BY <2>5, Pair
  <2> HIDE DEF r
  <2>10. Follow("message", SC_TURN) = r
    BY <2>4, <2>9
  <2>11. Parses(<<Read(1, "message")>>, <<f>> \o q) /\ <<f>> \o q \in Seq(FieldType)
    BY <1>1, <2>4, <2>7, <2>10, ParsesId
  <2> HIDE DEF f
  <2>12. <<f, g>> \o x = <<f>> \o q
    BY <2>6, <2>8, PairThen DEF q
  <2> QED BY <2>2, <2>11, <2>12
<1>5. CASE m \in [id : {SC_GAME_ENDED}, scores : Seq([id : Nat, score : Nat])]
  <2> DEFINE q == Listed([i \in DOMAIN m.scores |->
                            <<U8(m.scores[i].id), U32(m.scores[i].score)>>])
             r == <<Read(4, "scores")>>
  <2>1. m.id = SC_GAME_ENDED /\ m.scores \in Seq([id : Nat, score : Nat])
    BY <1>5
  <2>2. Layout(m) = <<U8(SC_GAME_ENDED)>> \o q
    BY <2>1, MessageIds DEF Layout, send_game_ended
  <2>3. SC_GAME_ENDED \in 1 .. 4
    BY MessageIds
  <2>4. /\ SC_GAME_ENDED \in Nat /\ ~Rejected("message", SC_GAME_ENDED)
        /\ Follow("message", SC_GAME_ENDED) = r
    BY <2>3, MessageFollows, MessageIds DEF MessageRead
  <2>5. Parses(r, q) /\ Plain(r) /\ q \in Seq(FieldType)
    BY <2>1, ListedScores
  <2> HIDE DEF q, r
  <2>6. /\ Parses(<<Read(1, "message")>>, <<U8(SC_GAME_ENDED)>> \o q)
        /\ <<U8(SC_GAME_ENDED)>> \o q \in Seq(FieldType)
    BY <1>1, <2>4, <2>5, ParsesId
  <2> QED BY <2>2, <2>6
<1> QED BY <1>2, <1>3, <1>4, <1>5 DEF MessageType

LEMMA Singles ==
  ASSUME NEW S, NEW x \in Seq(S)
  PROVE  /\ [i \in 1 .. Len(x) |-> <<x[i]>>] \in Seq(Seq(S))
         /\ FlattenSeq([i \in 1 .. Len(x) |-> <<x[i]>>]) = x
<1> DEFINE n == Len(x)
           items == [i \in 1 .. n |-> <<x[i]>>]
<1>1. n \in Nat /\ x \in Seq(S) /\ n = Len(x) /\ \A i \in 1 .. n : x[i] \in S
  OBVIOUS
<1> HIDE DEF n
<1>2. items \in [1 .. n -> Seq(S)] /\ \A i \in 1 .. n : items[i] = <<x[i]>>
  <2>1. \A i \in 1 .. n : <<x[i]>> \in Seq(S)
    BY <1>1
  <2> QED BY <2>1
<1> HIDE DEF items
<1>3. items \in Seq(Seq(S)) /\ Len(items) = n
  BY <1>1, <1>2
<1>4. PICK h : /\ h[0] = <<>> /\ h[Len(items)] = FlattenSeq(items)
               /\ \A k \in 1 .. Len(items) : h[k] = h[k - 1] \o items[k]
  BY <1>3, Flattened, ZenonT(40)
<1> DEFINE I == {k \in Nat : k <= n => h[k] = SubSeq(x, 1, k)}
<1>5. 0 \in I
  <2>1. SubSeq(x, 1, 0) = <<>>
    BY SubSeqEmpty
  <2> QED BY <1>4, <2>1
<1>6. ASSUME NEW k \in Nat, k <= n => h[k] = SubSeq(x, 1, k), k + 1 <= n
      PROVE  h[k + 1] = SubSeq(x, 1, k + 1)
  <2> DEFINE j == k + 1
  <2>1. k <= n /\ j \in 1 .. n /\ j - 1 = k /\ 1 \in 1 .. n
    BY <1>1, <1>6
  <2> HIDE DEF j
  <2>2. h[j] = SubSeq(x, 1, k) \o <<x[j]>>
    BY <1>2, <1>3, <1>4, <1>6, <2>1
  <2>3. SubSeq(x, 1, j) = SubSeq(x, 1, j - 1) \o <<x[j]>>
    <3>1. 1 \in 1 .. Len(x) /\ j \in 1 .. Len(x)
      BY <1>1, <2>1
    <3> QED BY <1>1, <3>1, SubSeqRecursiveSecond
  <2>4. h[j] = SubSeq(x, 1, j)
    BY <2>1, <2>2, <2>3
  <2> QED BY <2>4 DEF j
<1>7. \A k \in Nat : k \in I => k + 1 \in I
  BY <1>6
<1> HIDE DEF I
<1>8. n \in I
  BY <1>1, <1>5, <1>7, SetInduction
<1>9. h[n] = SubSeq(x, 1, n)
  BY <1>1, <1>8 DEF I
<1>10. FlattenSeq(items) = x
  BY <1>1, <1>3, <1>4, <1>9, SubSeqFull
<1> QED BY <1>3, <1>10 DEF items, n

\* As many numbers of two bytes.
LEMMA ParsesWords ==
  ASSUME NEW x \in Seq(FieldType), \A i \in 1 .. Len(x) : x[i].size = 2
  PROVE  /\ Parses(Times(Len(x), <<Number(2)>>), x)
         /\ Plain(Times(Len(x), <<Number(2)>>))
<1> DEFINE n == Len(x)
           items == [i \in 1 .. n |-> <<x[i]>>]
           r == <<Number(2)>>
<1>1. n \in Nat /\ \A i \in 1 .. n : x[i] \in FieldType /\ x[i].size = 2
  OBVIOUS
<1>2. items \in Seq(Seq(FieldType)) /\ FlattenSeq(items) = x
  BY Singles
<1>3. \A i \in 1 .. n : items[i] = <<x[i]>>
  OBVIOUS
<1>4. Len(items) = n
  BY <1>1
<1> HIDE DEF items, n
<1>5. Plain(r)
  <2>1. 0 \in Nat /\ 2 \in Nat \ {0}
    OBVIOUS
  <2> QED BY <2>1, ParsesNumber
<1>6. ASSUME NEW i \in 1 .. n PROVE Parses(r, items[i])
  <2> DEFINE v == x[i].value
  <2>1. v \in Nat /\ x[i] = Field(2, v)
    BY <1>1 DEF FieldType, Field
  <2> HIDE DEF v
  <2>2. 2 \in Nat \ {0}
    OBVIOUS
  <2>3. Parses(r, <<Field(2, v)>>)
    BY <2>1, <2>2, ParsesNumber
  <2> QED BY <1>3, <2>1, <2>3
<1> HIDE DEF r
<1>7. Parses(Times(Len(items), r), FlattenSeq(items)) /\ Plain(Times(Len(items), r))
  BY <1>2, <1>4, <1>5, <1>6, ParsesList
<1> QED BY <1>2, <1>4, <1>7 DEF n, r

\* The last six numbers of a HELLO, one and five.
LEMMA HelloNumbers ==
  ASSUME NEW m \in HelloType
  PROVE  LET g == U8(m.players_count)
             x == <<U16(m.size_x), U16(m.size_y), U16(m.game_length),
                    U16(m.explosion_radius), U16(m.bomb_timer)>>
             y == <<g, U16(m.size_x), U16(m.size_y), U16(m.game_length),
                    U16(m.explosion_radius), U16(m.bomb_timer)>>
         IN /\ x \in Seq(FieldType) /\ Len(x) = 5 /\ \A i \in 1 .. 5 : x[i].size = 2
            /\ y = <<g>> \o x
<1> DEFINE g == U8(m.players_count)
           a == U16(m.size_x)
           b == U16(m.size_y)
           c == U16(m.game_length)
           d == U16(m.explosion_radius)
           e == U16(m.bomb_timer)
<1>1. /\ m.players_count \in Nat /\ m.size_x \in Nat /\ m.size_y \in Nat
      /\ m.game_length \in Nat /\ m.explosion_radius \in Nat /\ m.bomb_timer \in Nat
  BY DEF HelloType
<1>2. /\ g \in FieldType /\ a \in FieldType /\ b \in FieldType /\ c \in FieldType
      /\ d \in FieldType /\ e \in FieldType
      /\ a.size = 2 /\ b.size = 2 /\ c.size = 2 /\ d.size = 2 /\ e.size = 2
  <2>1. 1 \in Nat /\ 2 \in Nat
    OBVIOUS
  <2> QED BY <1>1, <2>1, OneField DEF U8, U16
<1> HIDE DEF g, a, b, c, d, e
<1>3. <<a, b, c, d, e>> \in Seq(FieldType) /\ Len(<<a, b, c, d, e>>) = 5
  BY <1>2
<1>4. \A i \in 1 .. 5 : <<a, b, c, d, e>>[i].size = 2
  <2>1. \A i \in 1 .. 5 : i = 1 \/ i = 2 \/ i = 3 \/ i = 4 \/ i = 5
    OBVIOUS
  <2> QED BY <1>2, <2>1
<1>5. <<g, a, b, c, d, e>> = <<g>> \o <<a, b, c, d, e>>
  <2> DEFINE p == <<g, a, b, c, d, e>>
             s == <<g>>
             q == <<a, b, c, d, e>>
             st == s \o q
  <2>1. s \in Seq(FieldType) /\ Len(s) = 1 /\ s[1] = g
    BY <1>2
  <2>2. q \in Seq(FieldType) /\ Len(q) = 5 /\ q[1] = a /\ q[2] = b /\ q[3] = c /\ q[4] = d /\ q[5] = e
    BY <1>2
  <2>3. /\ p \in Seq(FieldType) /\ Len(p) = 6
        /\ p[1] = g /\ p[2] = a /\ p[3] = b /\ p[4] = c /\ p[5] = d /\ p[6] = e
    BY <1>2
  <2> HIDE DEF p, s, q
  <2>4. /\ st \in Seq(FieldType) /\ Len(st) = Len(s) + Len(q)
        /\ \A i \in 1 .. Len(s) + Len(q) : st[i] = IF i <= Len(s) THEN s[i] ELSE q[i - Len(s)]
    BY <2>1, <2>2, ConcatProperties
  <2> HIDE DEF st
  <2>5. Len(st) = 6 /\ \A i \in 1 .. 6 : st[i] = IF i <= 1 THEN s[i] ELSE q[i - 1]
    BY <2>1, <2>2, <2>4
  <2>6. st[1] = g /\ st[2] = a /\ st[3] = b /\ st[4] = c /\ st[5] = d /\ st[6] = e
    BY <2>1, <2>2, <2>5
  <2>7. \A i \in 1 .. 6 : i = 1 \/ i = 2 \/ i = 3 \/ i = 4 \/ i = 5 \/ i = 6
    OBVIOUS
  <2>8. \A i \in 1 .. 6 : st[i] = p[i]
    BY <2>3, <2>6, <2>7
  <2>9. st = p
    BY <2>3, <2>4, <2>5, <2>8, SeqEqual
  <2> QED BY <2>9 DEF st, s, q, p
<1> QED BY <1>3, <1>4, <1>5 DEF g, a, b, c, d, e

\* What handle_hello reads is what send_hello writes.
LEMMA ParsesHello ==
  ASSUME NEW m \in HelloType
  PROVE  /\ Parses(HelloRead, Layout(m)) /\ Plain(HelloRead)
         /\ Layout(m) \in Seq(FieldType) /\ Layout(m) # <<>>
<1> DEFINE a == <<Number(1)>>
           r == NameRead
           w == Times(5, <<Number(2)>>)
           f == <<U8(SC_HELLO)>>
           n == Name(m.server_name)
           g == U8(m.players_count)
           x == <<U16(m.size_x), U16(m.size_y), U16(m.game_length),
                  U16(m.explosion_radius), U16(m.bomb_timer)>>
           y == <<g, U16(m.size_x), U16(m.size_y), U16(m.game_length),
                  U16(m.explosion_radius), U16(m.bomb_timer)>>
<1>1. /\ m.id = SC_HELLO /\ m.server_name \in NameType /\ m.players_count \in Nat
      /\ m.size_x \in Nat /\ m.size_y \in Nat /\ m.game_length \in Nat
      /\ m.explosion_radius \in Nat /\ m.bomb_timer \in Nat
  BY DEF HelloType
<1>2. Layout(m) = (f \o n) \o y
  <2>1. Layout(m) = send_hello(m)
    BY <1>1, MessageIds DEF Layout
  <2>2. send_hello(m) = (f \o n) \o y
    BY DEF send_hello
  <2> QED BY <2>1, <2>2
<1>3. HelloRead = ((a \o r) \o a) \o w
  BY DEF HelloRead
<1>4. \A v \in Nat : /\ U16(v) \in FieldType /\ U16(v).size = 2 /\ U8(v) \in FieldType
                     /\ Parses(a, <<U8(v)>>) /\ Plain(a)
  <2>1. 1 \in Nat \ {0} /\ 1 \in Nat /\ 2 \in Nat
    OBVIOUS
  <2> QED BY <2>1, OneField, ParsesNumber DEF U8, U16
<1>5. Parses(r, n) /\ Plain(r) /\ n \in Seq(FieldType)
  BY <1>1, ParsesName
<1>6. /\ x \in Seq(FieldType) /\ Len(x) = 5 /\ \A i \in 1 .. 5 : x[i].size = 2
      /\ y = <<g>> \o x
  BY HelloNumbers
<1>7. g \in FieldType /\ Parses(a, <<g>>) /\ Plain(a)
  BY <1>1, <1>4
<1>8. f \in Seq(FieldType) /\ Parses(a, f)
  <2>1. SC_HELLO \in Nat
    BY MessageIds
  <2> QED BY <1>4, <2>1
<1> HIDE DEF x, y, g
<1>9. Parses(w, x) /\ Plain(w)
  BY <1>6, ParsesWords
<1>10. a \in Seq(ReadType) /\ r \in Seq(ReadType)
  BY <1>5, <1>7 DEF Plain
<1> HIDE DEF a, r, w, f, n
<1>11. Parses(a \o r, f \o n) /\ Plain(a \o r)
  BY <1>5, <1>7, <1>8, <1>10, ParsesConcat, PlainConcat
<1>12. a \o r \in Seq(ReadType)
  BY <1>11 DEF Plain
<1>13. Parses((a \o r) \o a, (f \o n) \o <<g>>) /\ Plain((a \o r) \o a)
  BY <1>7, <1>11, <1>12, ParsesConcat, PlainConcat
<1>14. (a \o r) \o a \in Seq(ReadType)
  BY <1>13 DEF Plain
<1>15. Parses(((a \o r) \o a) \o w, ((f \o n) \o <<g>>) \o x) /\ Plain(((a \o r) \o a) \o w)
  BY <1>9, <1>13, <1>14, ParsesConcat, PlainConcat
<1>16. f \o n \in Seq(FieldType) /\ <<g>> \in Seq(FieldType)
  BY <1>5, <1>7, <1>8, ConcatProperties
<1>17. ((f \o n) \o <<g>>) \o x = (f \o n) \o y
  BY <1>6, <1>16, ConcatAssociative
<1>18. y \in Seq(FieldType) /\ Len(y) = 1 + Len(x)
  <2>1. Len(<<g>>) = 1
    OBVIOUS
  <2> QED BY <1>6, <1>16, <2>1, ConcatProperties
<1>19. (f \o n) \o y \in Seq(FieldType) /\ Len((f \o n) \o y) # 0
  <2>1. /\ (f \o n) \o y \in Seq(FieldType)
        /\ Len((f \o n) \o y) = Len(f \o n) + Len(y)
    BY <1>16, <1>18, ConcatProperties
  <2>2. Len(f \o n) \in Nat /\ Len(y) = 6
    BY <1>6, <1>16, <1>18
  <2> QED BY <2>1, <2>2
<1>20. (f \o n) \o y # <<>>
  BY <1>19, EmptySeq
<1> QED BY <1>2, <1>3, <1>15, <1>17, <1>19, <1>20

-----------------------------------------------------------------------------
(* The whole of a connection *)

Command ==
  {<<"place bomb">>, <<"place block">>} \cup
  {<<"move", v>> : v \in Nat} \cup {<<"join", v>> : v \in Nat}

\* The loop of the program that reads, and where it begins.
Loop(who) == <<Read(1, IF who = "client" THEN "message" ELSE "command")>>
Start(who) == IF who = "client" THEN HelloRead ELSE Loop(who)
Refilled(who, r) == IF r = <<>> THEN Loop(who) ELSE r

\* What a field makes the server's receiver push.
Given(who, as, v) == IF who = "server" THEN Pushed(as, v) ELSE <<>>

\* With the field f what is to be read becomes s; only a negative direction is
\* rejected.
Step(who, r, f, s) ==
  /\ f.size = Head(r).size
  /\ s = Refilled(who, Follow(Head(r).as, f.value) \o Tail(r))
  /\ Rejected(Head(r).as, f.value) =>
       who = "server" /\ Head(r).as = "direction" /\ SignedByte(f.value) < 0

\* The fields of q lead from r to t through the stacks h, and what was pushed
\* from a to c through p.
Chain(who, r, a, q, t, c, h, p) ==
  /\ h[0] = r /\ h[Len(q)] = t /\ p[0] = a /\ p[Len(q)] = c
  /\ \A k \in 0 .. Len(q) : Stack(h[k]) /\ h[k] # <<>> /\ p[k] \in Seq(Command)
  /\ \A k \in 1 .. Len(q) :
       /\ Step(who, h[k - 1], q[k], h[k])
       /\ p[k] = p[k - 1] \o Given(who, Head(h[k - 1]).as, q[k].value)

LEMMA LoopIs ==
  ASSUME NEW who
  PROVE  Plain(Loop(who)) /\ Stack(Loop(who)) /\ Loop(who) # <<>>
<1> DEFINE as == IF who = "client" THEN "message" ELSE "command"
<1>1. as \in Kinds /\ as # "letters" /\ 1 \in Nat /\ 1 # 0
  BY DEF Kinds
<1>2. Loop(who) = <<Read(1, as)>>
  BY DEF Loop
<1> HIDE DEF as
<1>3. Plain(Loop(who))
  BY <1>1, <1>2, PlainOne
<1>4. Loop(who) # <<>>
  BY <1>2
<1> QED BY <1>3, <1>4, PlainStack

LEMMA PushedType ==
  ASSUME NEW as, NEW v \in Nat
  PROVE  Pushed(as, v) \in Seq(Command)
<1>1. /\ <<"place bomb">> \in Command /\ <<"place block">> \in Command
      /\ <<"move", v>> \in Command /\ <<"join", v>> \in Command
  BY DEF Command
<1> DEFINE a == <<"place bomb">>
           b == <<"place block">>
           c == <<"move", v>>
           d == <<"join", v>>
<1>2. \/ Pushed(as, v) = <<a>> \/ Pushed(as, v) = <<b>>
      \/ Pushed(as, v) = <<c>> \/ Pushed(as, v) = <<d>> \/ Pushed(as, v) = <<>>
  <2>1. CASE as = "command"
    <3>1. as # "direction" /\ as # "letters" /\ CS_PLACE_BOMB # CS_PLACE_BLOCK
      BY <2>1 DEF CS_PLACE_BOMB, CS_PLACE_BLOCK
    <3>2. CASE v = CS_PLACE_BOMB
      BY <2>1, <3>1, <3>2 DEF Pushed
    <3>3. CASE v = CS_PLACE_BLOCK
      BY <2>1, <3>1, <3>3 DEF Pushed
    <3>4. CASE v # CS_PLACE_BOMB /\ v # CS_PLACE_BLOCK
      BY <2>1, <3>1, <3>4 DEF Pushed
    <3> QED BY <3>2, <3>3, <3>4
  <2>2. CASE as = "direction"
    <3>1. as # "command" /\ as # "letters"
      BY <2>2
    <3> QED BY <2>2, <3>1 DEF Pushed
  <2>3. CASE as = "letters"
    <3>1. as # "command" /\ as # "direction"
      BY <2>3
    <3> QED BY <2>3, <3>1 DEF Pushed
  <2>4. CASE as # "command" /\ as # "direction" /\ as # "letters"
    BY <2>4 DEF Pushed
  <2> QED BY <2>1, <2>2, <2>3, <2>4
<1>3. a \in Command /\ b \in Command /\ c \in Command /\ d \in Command
  BY <1>1
<1> HIDE DEF a, b, c, d
<1>4. /\ <<a>> \in Seq(Command) /\ <<b>> \in Seq(Command)
      /\ <<c>> \in Seq(Command) /\ <<d>> \in Seq(Command) /\ <<>> \in Seq(Command)
  BY <1>3, EmptySeq
<1> QED BY <1>2, <1>4

LEMMA GivenType ==
  ASSUME NEW who, NEW as, NEW v \in Nat
  PROVE  Given(who, as, v) \in Seq(Command)
BY PushedType, EmptySeq DEF Given

\* A chain over q that goes on as h1 and p1 over q1.
Continues(who, r, a, q, t, c, q1, h1, p1) ==
  \E h, p : /\ Chain(who, r, a, q, t, c, h, p)
            /\ \A k \in 0 .. Len(q1) : h[k] = h1[k] /\ p[k] = p1[k]

\* One chain after the other.
LEMMA ChainConcat ==
  ASSUME NEW who, NEW r, NEW a, NEW q1 \in Seq(FieldType), NEW s, NEW b, NEW h1, NEW p1,
         NEW q2 \in Seq(FieldType), NEW t, NEW c, NEW h2, NEW p2,
         Chain(who, r, a, q1, s, b, h1, p1), Chain(who, s, b, q2, t, c, h2, p2)
  PROVE  Continues(who, r, a, q1 \o q2, t, c, q1, h1, p1)
<1> DEFINE m == Len(q1)
           n == Len(q2)
           q == q1 \o q2
           h == [k \in 0 .. m + n |-> IF k <= m THEN h1[k] ELSE h2[k - m]]
           p == [k \in 0 .. m + n |-> IF k <= m THEN p1[k] ELSE p2[k - m]]
<1>1. m \in Nat /\ n \in Nat
  OBVIOUS
<1>2. /\ q \in Seq(FieldType) /\ Len(q) = m + n
      /\ \A i \in 1 .. m + n : q[i] = IF i <= m THEN q1[i] ELSE q2[i - m]
  BY ConcatProperties
<1>3. /\ h1[0] = r /\ h1[m] = s /\ p1[0] = a /\ p1[m] = b
      /\ \A k \in 0 .. m : Stack(h1[k]) /\ h1[k] # <<>> /\ p1[k] \in Seq(Command)
      /\ \A k \in 1 .. m :
           /\ Step(who, h1[k - 1], q1[k], h1[k])
           /\ p1[k] = p1[k - 1] \o Given(who, Head(h1[k - 1]).as, q1[k].value)
  BY DEF Chain
<1>4. /\ h2[0] = s /\ h2[n] = t /\ p2[0] = b /\ p2[n] = c
      /\ \A k \in 0 .. n : Stack(h2[k]) /\ h2[k] # <<>> /\ p2[k] \in Seq(Command)
      /\ \A k \in 1 .. n :
           /\ Step(who, h2[k - 1], q2[k], h2[k])
           /\ p2[k] = p2[k - 1] \o Given(who, Head(h2[k - 1]).as, q2[k].value)
  BY DEF Chain
<1> HIDE DEF m, n, q
<1>5. /\ \A k \in 0 .. m : h[k] = h1[k] /\ p[k] = p1[k]
      /\ \A k \in 0 .. m + n : k > m => h[k] = h2[k - m] /\ p[k] = p2[k - m]
  BY <1>1
<1> HIDE DEF h, p
<1>6. \A k \in 0 .. n : h[k + m] = h2[k] /\ p[k + m] = p2[k]
  <2> TAKE k \in 0 .. n
  <2>1. CASE k = 0
    <3>1. k + m = m /\ m \in 0 .. m
      BY <1>1, <2>1
    <3> QED BY <1>3, <1>4, <1>5, <2>1, <3>1
  <2>2. CASE k # 0
    <3> DEFINE j == k + m
    <3>1. j \in 0 .. m + n /\ j > m /\ j - m = k
      BY <1>1, <2>2
    <3> HIDE DEF j
    <3>2. h[j] = h2[k] /\ p[j] = p2[k]
      BY <1>5, <3>1
    <3> QED BY <3>2 DEF j
  <2> QED BY <2>1, <2>2
<1>7. h[0] = r /\ p[0] = a /\ h[m + n] = t /\ p[m + n] = c
  <2>1. h[0] = h1[0] /\ p[0] = p1[0]
    BY <1>1, <1>5
  <2>2. h[n + m] = h2[n] /\ p[n + m] = p2[n] /\ n + m = m + n
    BY <1>1, <1>6
  <2> QED BY <1>3, <1>4, <2>1, <2>2
<1>8. ASSUME NEW k \in 0 .. m + n PROVE Stack(h[k]) /\ h[k] # <<>> /\ p[k] \in Seq(Command)
  <2>1. CASE k <= m
    <3>1. k \in 0 .. m
      BY <1>1, <2>1
    <3> QED BY <1>3, <1>5, <3>1
  <2>2. CASE k > m
    <3>1. k - m \in 0 .. n /\ h[k] = h2[k - m] /\ p[k] = p2[k - m]
      BY <1>1, <1>5, <2>2
    <3> QED BY <1>4, <3>1
  <2> QED BY <1>1, <2>1, <2>2
<1>9. ASSUME NEW k \in 1 .. m + n
      PROVE  /\ Step(who, h[k - 1], q[k], h[k])
             /\ p[k] = p[k - 1] \o Given(who, Head(h[k - 1]).as, q[k].value)
  <2>1. CASE k <= m
    <3>1. k \in 1 .. m /\ k - 1 \in 0 .. m /\ k \in 0 .. m
      BY <1>1, <2>1
    <3>2. h[k - 1] = h1[k - 1] /\ h[k] = h1[k] /\ p[k - 1] = p1[k - 1] /\ p[k] = p1[k]
      BY <1>5, <3>1
    <3>3. q[k] = q1[k]
      BY <1>2, <2>1
    <3> QED BY <1>3, <3>1, <3>2, <3>3
  <2>2. CASE k > m
    <3> DEFINE j == k - m
    <3>1. j \in 1 .. n /\ j \in 0 .. n /\ k = j + m /\ ~(k <= m)
      BY <1>1, <2>2
    <3>2. q[k] = q2[j]
      BY <1>2, <3>1
    <3> DEFINE i == j - 1
    <3>3. i \in 0 .. n /\ k - 1 = i + m
      BY <1>1, <3>1
    <3> HIDE DEF j
    <3>4. h2[j - 1] = h2[i] /\ p2[j - 1] = p2[i]
      OBVIOUS
    <3> HIDE DEF i
    <3>5. h[k - 1] = h2[i] /\ p[k - 1] = p2[i]
      <4>1. h[i + m] = h2[i] /\ p[i + m] = p2[i]
        BY <1>6, <3>3
      <4> QED BY <3>3, <4>1
    <3>6. h[k] = h2[j] /\ p[k] = p2[j]
      <4>1. h[j + m] = h2[j] /\ p[j + m] = p2[j]
        BY <1>6, <3>1
      <4> QED BY <3>1, <4>1
    <3>7. /\ Step(who, h2[i], q2[j], h2[j])
          /\ p2[j] = p2[i] \o Given(who, Head(h2[i]).as, q2[j].value)
      BY <1>4, <3>1, <3>4
    <3> QED BY <3>2, <3>5, <3>6, <3>7
  <2>3. k <= m \/ k > m
    BY <1>1
  <2> QED BY <2>1, <2>2, <2>3
<1>10. Chain(who, r, a, q, t, c, h, p)
  BY <1>2, <1>7, <1>8, <1>9 DEF Chain
<1> QED BY <1>5, <1>10 DEF Continues, q, m

\* A chain of one field.
LEMMA ChainOne ==
  ASSUME NEW who, NEW r, NEW a \in Seq(Command), NEW f \in FieldType, NEW t,
         Stack(r), r # <<>>, Stack(t), t # <<>>, Step(who, r, f, t)
  PROVE  \E h, p :
           Chain(who, r, a, <<f>>, t, a \o Given(who, Head(r).as, f.value), h, p)
<1> DEFINE q == <<f>>
           c == a \o Given(who, Head(r).as, f.value)
           h == [k \in 0 .. 1 |-> IF k = 0 THEN r ELSE t]
           p == [k \in 0 .. 1 |-> IF k = 0 THEN a ELSE c]
<1>1. Len(q) = 1 /\ q[1] = f
  OBVIOUS
<1>2. h[0] = r /\ h[1] = t /\ p[0] = a /\ p[1] = c
  OBVIOUS
<1>3. c \in Seq(Command)
  <2>1. f.value \in Nat
    BY DEF FieldType
  <2> QED BY <2>1, GivenType, ConcatProperties
<1>4. c = a \o Given(who, Head(r).as, f.value)
  OBVIOUS
<1> HIDE DEF q, c, h, p
<1>5. (\A k \in 0 .. 1 : k = 0 \/ k = 1) /\ (\A k \in 1 .. 1 : k = 1 /\ k - 1 = 0)
  OBVIOUS
<1>6. \A k \in 0 .. 1 : Stack(h[k]) /\ h[k] # <<>> /\ p[k] \in Seq(Command)
  BY <1>2, <1>3, <1>5
<1>7. ASSUME NEW k \in 1 .. 1
      PROVE  /\ Step(who, h[k - 1], q[k], h[k])
             /\ p[k] = p[k - 1] \o Given(who, Head(h[k - 1]).as, q[k].value)
  <2>1. h[k - 1] = r /\ h[k] = t /\ q[k] = f /\ p[k - 1] = a /\ p[k] = c
    BY <1>1, <1>2, <1>5
  <2> QED BY <1>4, <2>1
<1>8. Chain(who, r, a, q, t, c, h, p)
  BY <1>1, <1>2, <1>6, <1>7 DEF Chain
<1> QED BY <1>8 DEF q, c

\* What is read of a whole message ends where the next one begins.
LEMMA ClientChain ==
  ASSUME NEW r, NEW q, r # <<>>, q # <<>>, Reading(r, q, <<>>)
  PROVE  \E h, p : Chain("client", r, <<>>, q, Loop("client"), <<>>, h, p)
<1> DEFINE n == Len(q)
<1>1. PICK g : /\ g[0] = r /\ g[n] = <<>>
               /\ \A k \in 0 .. n : Stack(g[k])
               /\ \A k \in 1 .. n :
                    Reads(g[k - 1], q[k], g[k]) /\ ~Rejected(Head(g[k - 1]).as, q[k].value)
  BY DEF Reading
<1>2. n \in Nat /\ n # 0
  <2>1. q \in Seq(FieldType)
    BY DEF Reading
  <2> QED BY <2>1, EmptySeq
<1> HIDE DEF n
<1> DEFINE h == [k \in 0 .. n |-> Refilled("client", g[k])]
           p == [k \in 0 .. n |-> <<>>]
<1>3. \A k \in 0 .. n : h[k] = Refilled("client", g[k]) /\ p[k] = <<>>
  OBVIOUS
<1> HIDE DEF h, p
<1>4. \A k \in 0 .. n : k # n => g[k] # <<>>
  <2> TAKE k \in 0 .. n
  <2> DEFINE j == k + 1
  <2>1. k # n => j \in 1 .. n /\ j - 1 = k
    BY <1>2
  <2> HIDE DEF j
  <2>2. k # n => Reads(g[k], q[j], g[j])
    BY <1>1, <2>1
  <2> QED BY <2>2 DEF Reads
<1>5. \A k \in 0 .. n : k # n => h[k] = g[k]
  BY <1>3, <1>4 DEF Refilled
<1>6. /\ 0 \in 0 .. n /\ n \in 0 .. n /\ 0 # n
  BY <1>2
<1>7. h[0] = r /\ h[n] = Loop("client") /\ p[0] = <<>> /\ p[n] = <<>>
  <2>1. h[0] = r
    BY <1>1, <1>5, <1>6
  <2>2. h[n] = Loop("client")
    BY <1>1, <1>3, <1>6 DEF Refilled
  <2> QED BY <1>3, <1>6, <2>1, <2>2
<1>8. \A k \in 0 .. n : Stack(h[k]) /\ h[k] # <<>> /\ p[k] \in Seq(Command)
  <2> TAKE k \in 0 .. n
  <2>1. p[k] \in Seq(Command)
    BY <1>3, EmptySeq
  <2>2. CASE k = n
    BY <1>7, <2>1, <2>2, LoopIs
  <2>3. CASE k # n
    BY <1>1, <1>4, <1>5, <2>1, <2>3
  <2> QED BY <2>2, <2>3
<1>9. ASSUME NEW k \in 1 .. n
      PROVE  /\ Step("client", h[k - 1], q[k], h[k])
             /\ p[k] = p[k - 1] \o Given("client", Head(h[k - 1]).as, q[k].value)
  <2>1. k - 1 \in 0 .. n /\ k - 1 # n /\ k \in 0 .. n
    BY <1>2
  <2>2. h[k - 1] = g[k - 1] /\ h[k] = Refilled("client", g[k]) /\ p[k - 1] = <<>> /\ p[k] = <<>>
    BY <1>3, <1>5, <2>1
  <2>3. Reads(g[k - 1], q[k], g[k]) /\ ~Rejected(Head(g[k - 1]).as, q[k].value)
    BY <1>1
  <2>4. Step("client", h[k - 1], q[k], h[k])
    BY <2>2, <2>3 DEF Reads, Step
  <2>5. Given("client", Head(h[k - 1]).as, q[k].value) = <<>>
    BY DEF Given
  <2>6. <<>> \o <<>> = <<>>
    <3>1. <<>> \in Seq(Command)
      BY EmptySeq
    <3> QED BY <3>1, ConcatEmptySeq
  <2> QED BY <2>2, <2>4, <2>5, <2>6
<1>10. Chain("client", r, <<>>, q, Loop("client"), <<>>, h, p)
  BY <1>7, <1>8, <1>9 DEF Chain, n
<1> QED BY <1>10

LEMMA OneRead ==
  ASSUME NEW size \in Nat, NEW as \in Kinds, as # "letters" => size # 0
  PROVE  LET r == <<Read(size, as)>>
         IN Stack(r) /\ r # <<>> /\ Head(r).size = size /\ Head(r).as = as /\ Tail(r) = <<>>
<1> DEFINE x == Read(size, as)
           r == <<x>>
<1>1. x \in ReadType /\ x.size = size /\ x.as = as
  BY DEF Read, ReadType
<1> HIDE DEF x
<1>2. r \in Seq(ReadType) /\ Len(r) = 1 /\ r # <<>> /\ Head(r) = x
  BY <1>1
<1> HIDE DEF r
<1>3. Tail(r) \in Seq(ReadType) /\ Len(Tail(r)) = 0
  BY <1>2, HeadTailProperties
<1>4. Tail(r) = <<>>
  BY <1>3, EmptySeq
<1>5. Stack(r)
  BY <1>1, <1>2, <1>4, PlainEmpty DEF Stack
<1> QED BY <1>1, <1>2, <1>4, <1>5 DEF r, x

\* The server reads one field, which leads to s or, if that is nothing, to its
\* loop.
LEMMA ServerOne ==
  ASSUME NEW a \in Seq(Command), NEW f \in FieldType, NEW as \in Kinds,
         as # "letters" => f.size # 0, NEW s, Stack(s), s # <<>>,
         Follow(as, f.value) = s \/ (Follow(as, f.value) = <<>> /\ s = Loop("server")),
         s \in Seq(ReadType),
         Rejected(as, f.value) => as = "direction" /\ SignedByte(f.value) < 0
  PROVE  \E h, p : Chain("server", <<Read(f.size, as)>>, a, <<f>>, s,
                         a \o Pushed(as, f.value), h, p)
<1> DEFINE r == <<Read(f.size, as)>>
<1>1. f.size \in Nat /\ f.value \in Nat
  BY DEF FieldType
<1>2. Stack(r) /\ r # <<>> /\ Head(r).size = f.size /\ Head(r).as = as /\ Tail(r) = <<>>
  BY <1>1, OneRead
<1> HIDE DEF r
<1>3. Follow(as, f.value) \in Seq(ReadType)
  BY EmptySeq
<1>4. Follow(as, f.value) \o Tail(r) = Follow(as, f.value)
  BY <1>2, <1>3, ConcatEmptySeq
<1>5. s = Refilled("server", Follow(as, f.value))
  <2> DEFINE x == Follow(as, f.value)
  <2>1. (x = s /\ x # <<>>) \/ (x = <<>> /\ s = Loop("server"))
    OBVIOUS
  <2> HIDE DEF x
  <2>2. s = Refilled("server", x)
    BY <2>1 DEF Refilled
  <2> QED BY <2>2 DEF x
<1>6. Step("server", r, f, s)
  BY <1>2, <1>4, <1>5 DEF Step
<1>7. Given("server", Head(r).as, f.value) = Pushed(as, f.value)
  BY <1>2 DEF Given
<1>8. \E h, p : Chain("server", r, a, <<f>>, s, a \o Given("server", Head(r).as, f.value), h, p)
  BY <1>2, <1>6, ChainOne
<1>9. \E h, p : Chain("server", r, a, <<f>>, s, a \o Pushed(as, f.value), h, p)
  BY <1>7, <1>8
<1> QED BY <1>9 DEF r

\* Two of them.
LEMMA ServerTwo ==
  ASSUME NEW r, NEW a, NEW f \in FieldType, NEW s, NEW b, NEW q \in Seq(FieldType), NEW t, NEW c,
         \E h, p : Chain("server", r, a, <<f>>, s, b, h, p),
         \E h, p : Chain("server", s, b, q, t, c, h, p)
  PROVE  \E h, p : Chain("server", r, a, <<f>> \o q, t, c, h, p)
<1>1. <<f>> \in Seq(FieldType)
  OBVIOUS
<1>2. PICK h1, p1 : Chain("server", r, a, <<f>>, s, b, h1, p1)
  OBVIOUS
<1>3. PICK h2, p2 : Chain("server", s, b, q, t, c, h2, p2)
  OBVIOUS
<1>4. Continues("server", r, a, <<f>> \o q, t, c, <<f>>, h1, p1)
  BY <1>1, <1>2, <1>3, ChainConcat
<1> QED BY <1>4 DEF Continues

LEMMA CommandIds ==
  /\ CS_JOIN = 0 /\ CS_PLACE_BOMB = 1 /\ CS_PLACE_BLOCK = 2 /\ CS_MOVE = 3
  /\ MAX_DIRECTION = 3 /\ GC_PLACE_BOMB = 0 /\ GC_PLACE_BLOCK = 1 /\ GC_MOVE = 2
BY DEF CS_JOIN, CS_PLACE_BOMB, CS_PLACE_BLOCK, CS_MOVE, MAX_DIRECTION,
       GC_PLACE_BOMB, GC_PLACE_BLOCK, GC_MOVE

LEMMA CommandFollows ==
  ASSUME NEW id \in 0 .. 3
  PROVE  ~Rejected("command", id) /\ Follow("command", id) = CommandRead(id)
BY CommandIds DEF Rejected, Follow

\* A bomb or a block.
LEMMA PlaceChain ==
  ASSUME NEW a \in Seq(Command), NEW id \in {CS_PLACE_BOMB, CS_PLACE_BLOCK}
  PROVE  \E h, p : Chain("server", Loop("server"), a, <<U8(id)>>, Loop("server"),
                         Append(a, IF id = CS_PLACE_BOMB THEN <<"place bomb">>
                                   ELSE <<"place block">>), h, p)
<1> DEFINE f == U8(id)
           c == IF id = CS_PLACE_BOMB THEN <<"place bomb">> ELSE <<"place block">>
<1>1. id \in 0 .. 3 /\ id \in Nat /\ id # CS_JOIN /\ id # CS_MOVE
  BY CommandIds
<1>2. f \in FieldType /\ f.size = 1 /\ f.value = id
  BY <1>1, OneField DEF U8
<1>3. Follow("command", id) = <<>> /\ ~Rejected("command", id)
  BY <1>1, CommandFollows DEF CommandRead
<1>4. Loop("server") = <<Read(1, "command")>>
  BY DEF Loop
<1>5. Pushed("command", id) = <<c>>
  <2>1. CS_PLACE_BOMB # CS_PLACE_BLOCK
    BY CommandIds
  <2>2. CASE id = CS_PLACE_BOMB
    BY <2>1, <2>2 DEF Pushed
  <2>3. CASE id = CS_PLACE_BLOCK
    BY <2>1, <2>3 DEF Pushed
  <2> QED BY <2>2, <2>3
<1>6. c \in Command
  BY DEF Command
<1> HIDE DEF c, f
<1>7. a \o <<c>> = Append(a, c)
  BY <1>6, AppendIsConcat
<1>8. "command" \in Kinds /\ "command" # "letters" /\ f.size # 0
  BY <1>2 DEF Kinds
<1>9. /\ Stack(Loop("server")) /\ Loop("server") # <<>> /\ Loop("server") \in Seq(ReadType)
  BY LoopIs DEF Plain
<1>10. \E h, p : Chain("server", <<Read(f.size, "command")>>, a, <<f>>, Loop("server"),
                       a \o Pushed("command", f.value), h, p)
  BY <1>2, <1>3, <1>8, <1>9, ServerOne
<1>11. \E h, p : Chain("server", Loop("server"), a, <<f>>, Loop("server"), Append(a, c), h, p)
  BY <1>2, <1>4, <1>5, <1>7, <1>10
<1> QED BY <1>11 DEF c, f

LEMMA Directions ==
  ASSUME NEW v \in Byte, SignedByte(v) <= MAX_DIRECTION
  PROVE  v \in Nat /\ (Rejected("direction", v) => SignedByte(v) < 0)
<1>1. ByteMod \in Nat /\ ByteMod > 4 /\ v \in Nat /\ v < ByteMod /\ ByteMod \div 2 \in Nat
  BY WireAssumption DEF Byte
<1>2. Rejected("direction", v) => v > MAX_DIRECTION
  BY DEF Rejected
<1>3. CASE v < ByteMod \div 2
  <2>1. SignedByte(v) = v
    BY <1>3 DEF SignedByte
  <2> QED BY <1>1, <1>2, <2>1, CommandIds
<1>4. CASE ~(v < ByteMod \div 2)
  <2>1. SignedByte(v) = v - ByteMod
    BY <1>4 DEF SignedByte
  <2> QED BY <1>1, <2>1
<1> QED BY <1>1, <1>3, <1>4

\* A move, whose direction may be one the server rejects.
LEMMA MoveChain ==
  ASSUME NEW a \in Seq(Command), NEW v \in Byte, SignedByte(v) <= MAX_DIRECTION
  PROVE  \E h, p : Chain("server", Loop("server"), a, <<U8(CS_MOVE)>> \o <<U8(v)>>,
                         Loop("server"), Append(a, <<"move", v>>), h, p)
<1> DEFINE f == U8(CS_MOVE)
           g == U8(v)
           c == <<"move", v>>
           s == <<Read(1, "direction")>>
<1>1. CS_MOVE \in 0 .. 3 /\ CS_MOVE \in Nat /\ v \in Nat /\ 1 \in Nat
  BY CommandIds, Directions
<1>2. /\ f \in FieldType /\ f.size = 1 /\ f.value = CS_MOVE
      /\ g \in FieldType /\ g.size = 1 /\ g.value = v
  BY <1>1, OneField DEF U8
<1>3. ~Rejected("command", CS_MOVE) /\ Follow("command", CS_MOVE) = s
  <2>1. CS_MOVE # CS_JOIN
    BY CommandIds
  <2> QED BY <1>1, <2>1, CommandFollows DEF CommandRead
<1>4. Pushed("command", CS_MOVE) = <<>>
  BY CommandIds DEF Pushed
<1>5. Follow("direction", v) = <<>> /\ Pushed("direction", v) = <<c>>
  BY DEF Follow, Pushed
<1>6. Loop("server") = <<Read(1, "command")>>
  BY DEF Loop
<1>7. c \in Command
  BY <1>1 DEF Command
<1> HIDE DEF c, f, g
<1>8. a \o <<c>> = Append(a, c) /\ a \o <<>> = a
  BY <1>7, AppendIsConcat, ConcatEmptySeq
<1>9. /\ "command" \in Kinds /\ "command" # "letters" /\ f.size # 0 /\ g.size # 0
      /\ "direction" \in Kinds /\ "direction" # "letters"
  BY <1>2 DEF Kinds
<1>10. Stack(Loop("server")) /\ Loop("server") # <<>> /\ Loop("server") \in Seq(ReadType)
  BY LoopIs DEF Plain
<1>11. Stack(s) /\ s # <<>> /\ s \in Seq(ReadType)
  <2>1. Plain(s)
    BY <1>9, <1>1, PlainOne
  <2> QED BY <2>1, PlainStack DEF Plain
<1>12. \E h, p : Chain("server", Loop("server"), a, <<f>>, s, a, h, p)
  <2> HIDE DEF s
  <2>1. \E h, p : Chain("server", <<Read(f.size, "command")>>, a, <<f>>, s,
                        a \o Pushed("command", f.value), h, p)
    BY <1>2, <1>3, <1>9, <1>11, ServerOne
  <2> QED BY <1>2, <1>4, <1>6, <1>8, <2>1
<1>13. \E h, p : Chain("server", s, a, <<g>>, Loop("server"), Append(a, c), h, p)
  <2>1. Rejected("direction", g.value) => SignedByte(g.value) < 0
    BY <1>2, Directions
  <2>2. \E h, p : Chain("server", <<Read(g.size, "direction")>>, a, <<g>>, Loop("server"),
                        a \o Pushed("direction", g.value), h, p)
    BY <1>2, <1>5, <1>9, <1>10, <2>1, ServerOne
  <2> QED BY <1>2, <1>5, <1>8, <2>2
<1>14. <<g>> \in Seq(FieldType)
  BY <1>2
<1> HIDE DEF s
<1>15. \E h, p : Chain("server", Loop("server"), a, <<f>> \o <<g>>, Loop("server"),
                       Append(a, c), h, p)
  BY <1>2, <1>12, <1>13, <1>14, ServerTwo
<1> QED BY <1>15 DEF c, f, g

\* A name whose length fits into its byte.
LEMMA JoinChain ==
  ASSUME NEW a \in Seq(Command), NEW n \in NameType, n.len < ByteMod
  PROVE  \E h, p : Chain("server", Loop("server"), a,
                         <<U8(CS_JOIN)>> \o
                           (<<U8(n.len % ByteMod)>> \o <<Field(n.len, n.letters)>>),
                         Loop("server"), Append(a, <<"join", n.letters>>), h, p)
<1> DEFINE f == U8(CS_JOIN)
           g == U8(n.len % ByteMod)
           e == Field(n.len, n.letters)
           c == <<"join", n.letters>>
           s == NameRead
           t == <<Read(n.len, "letters")>>
<1>1. /\ CS_JOIN \in 0 .. 3 /\ CS_JOIN \in Nat /\ n.len \in Nat /\ n.letters \in Nat /\ 1 \in Nat
      /\ n.len % ByteMod = n.len
  BY CommandIds, WireAssumption DEF NameType
<1>2. /\ f \in FieldType /\ f.size = 1 /\ f.value = CS_JOIN
      /\ g \in FieldType /\ g.size = 1 /\ g.value = n.len
      /\ e \in FieldType /\ e.size = n.len /\ e.value = n.letters
  BY <1>1, OneField DEF U8
<1>3. ~Rejected("command", CS_JOIN) /\ Follow("command", CS_JOIN) = s
  <2>1. CS_MOVE # CS_JOIN
    BY CommandIds
  <2> QED BY <1>1, <2>1, CommandFollows DEF CommandRead
<1>4. Pushed("command", CS_JOIN) = <<>> /\ Pushed("name", n.len) = <<>>
  BY CommandIds DEF Pushed
<1>5. /\ Follow("name", n.len) = t /\ ~Rejected("name", n.len)
      /\ Follow("letters", n.letters) = <<>> /\ ~Rejected("letters", n.letters)
      /\ Pushed("letters", n.letters) = <<c>>
  BY DEF Follow, Pushed, Rejected
<1>6. Loop("server") = <<Read(1, "command")>> /\ s = <<Read(1, "name")>>
  BY DEF Loop, NameRead
<1>7. c \in Command
  BY <1>1 DEF Command
<1> HIDE DEF c, f, g, e
<1>8. a \o <<c>> = Append(a, c) /\ a \o <<>> = a
  BY <1>7, AppendIsConcat, ConcatEmptySeq
<1>9. /\ "command" \in Kinds /\ "command" # "letters" /\ f.size # 0 /\ g.size # 0
      /\ "name" \in Kinds /\ "name" # "letters" /\ "letters" \in Kinds
      /\ "letters" # "direction" /\ "name" # "direction"
  BY <1>2 DEF Kinds
<1>10. Stack(Loop("server")) /\ Loop("server") # <<>> /\ Loop("server") \in Seq(ReadType)
  BY LoopIs DEF Plain
<1>11. Stack(s) /\ s # <<>> /\ s \in Seq(ReadType)
  <2>1. Plain(s)
    BY <1>1, <1>6, <1>9, PlainOne
  <2> QED BY <1>6, <2>1, PlainStack DEF Plain
<1>12. Stack(t) /\ t # <<>> /\ t \in Seq(ReadType)
  <2>1. Stack(t) /\ t # <<>>
    BY <1>1, <1>9, OneRead
  <2> QED BY <2>1 DEF Stack
<1>13. \E h, p : Chain("server", Loop("server"), a, <<f>>, s, a, h, p)
  <2> HIDE DEF s
  <2>1. \E h, p : Chain("server", <<Read(f.size, "command")>>, a, <<f>>, s,
                        a \o Pushed("command", f.value), h, p)
    BY <1>2, <1>3, <1>9, <1>11, ServerOne
  <2> QED BY <1>2, <1>4, <1>6, <1>8, <2>1
<1>14. \E h, p : Chain("server", s, a, <<g>>, t, a, h, p)
  <2> HIDE DEF s, t
  <2>1. \E h, p : Chain("server", <<Read(g.size, "name")>>, a, <<g>>, t,
                        a \o Pushed("name", g.value), h, p)
    BY <1>2, <1>5, <1>9, <1>12, ServerOne
  <2> QED BY <1>2, <1>4, <1>6, <1>8, <2>1
<1>15. \E h, p : Chain("server", t, a, <<e>>, Loop("server"), Append(a, c), h, p)
  <2>1. \E h, p : Chain("server", <<Read(e.size, "letters")>>, a, <<e>>, Loop("server"),
                        a \o Pushed("letters", e.value), h, p)
    BY <1>2, <1>5, <1>9, <1>10, ServerOne
  <2> QED BY <1>2, <1>5, <1>8, <2>1
<1> HIDE DEF s, t
<1>16. <<e>> \in Seq(FieldType) /\ <<g>> \in Seq(FieldType)
  BY <1>2
<1>17. \E h, p : Chain("server", s, a, <<g>> \o <<e>>, Loop("server"), Append(a, c), h, p)
  BY <1>2, <1>14, <1>15, <1>16, ServerTwo
<1>18. <<g>> \o <<e>> \in Seq(FieldType)
  BY <1>16, ConcatProperties
<1>19. \E h, p : Chain("server", Loop("server"), a, <<f>> \o (<<g>> \o <<e>>), Loop("server"),
                       Append(a, c), h, p)
  BY <1>2, <1>13, <1>17, <1>18, ServerTwo
<1> QED BY <1>19 DEF c, f, g, e

\* A field without bytes is never the first one and never follows another.
Zeros(q) == \A k \in 1 .. Len(q) : q[k].size = 0 => k # 1 /\ q[k - 1].size # 0

LEMMA ChainZeros ==
  ASSUME NEW who, NEW r, NEW a, NEW q \in Seq(FieldType), NEW t, NEW c, NEW h, NEW p,
         Chain(who, r, a, q, t, c, h, p), Plain(r)
  PROVE  Zeros(q)
<1>1. /\ h[0] = r
      /\ \A k \in 0 .. Len(q) : Stack(h[k]) /\ h[k] # <<>>
      /\ \A k \in 1 .. Len(q) : Step(who, h[k - 1], q[k], h[k])
  BY DEF Chain
<1>2. Len(q) \in Nat
  OBVIOUS
<1>3. \A k \in 1 .. Len(q) : k - 1 \in 0 .. Len(q)
  BY <1>2
<1>4. ASSUME NEW k \in 1 .. Len(q), q[k].size = 0 PROVE Head(h[k - 1]).as = "letters"
  <2>1. Stack(h[k - 1]) /\ h[k - 1] # <<>> /\ q[k].size = Head(h[k - 1]).size
    BY <1>1, <1>3 DEF Step
  <2> QED BY <1>4, <2>1 DEF Stack
<1>5. ASSUME NEW x, Plain(x), x # <<>> PROVE Head(x).as # "letters"
  <2>1. x \in Seq(ReadType)
    BY <1>5 DEF Plain
  <2>2. 1 \in 1 .. Len(x) /\ Head(x) = x[1]
    BY <1>5, <2>1, EmptySeq
  <2> QED BY <1>5, <2>2 DEF Plain
<1>6. ASSUME NEW k \in 1 .. Len(q), q[k].size = 0 PROVE k # 1 /\ q[k - 1].size # 0
  <2>1. Head(h[k - 1]).as = "letters"
    BY <1>4, <1>6
  <2>2. h[k - 1] # <<>>
    BY <1>1, <1>3
  <2>3. k # 1
    <3>1. ASSUME k = 1 PROVE FALSE
      <4>1. k - 1 = 0
        BY <3>1
      <4>2. h[k - 1] = r
        BY <1>1, <4>1
      <4> QED BY <1>5, <2>1, <2>2, <4>2
    <3> QED BY <3>1
  <2> DEFINE j == k - 1
  <2>4. j \in 1 .. Len(q) /\ j \in 0 .. Len(q)
    BY <1>2, <2>3
  <2>5. Head(h[j]).as = "letters" /\ h[j] # <<>>
    BY <2>1, <2>2
  <2> HIDE DEF j
  <2>6. ASSUME q[j].size = 0 PROVE FALSE
    <3> DEFINE x == h[j - 1]
    <3>1. Head(x).as = "letters"
      BY <1>4, <2>4, <2>6
    <3>2. Stack(x) /\ x # <<>>
      BY <1>1, <1>3, <2>4
    <3>3. h[j] = Refilled(who, Follow(Head(x).as, q[j].value) \o Tail(x))
      BY <1>1, <2>4 DEF Step
    <3> HIDE DEF x
    <3>4. Follow(Head(x).as, q[j].value) = <<>>
      BY <3>1 DEF Follow
    <3>5. Plain(Tail(x)) /\ Tail(x) \in Seq(ReadType)
      BY <3>2 DEF Stack, Plain
    <3>6. <<>> \o Tail(x) = Tail(x)
      BY <3>5, ConcatEmptySeq
    <3>7. Plain(h[j])
      <4>1. h[j] = Refilled(who, Tail(x))
        BY <3>3, <3>4, <3>6
      <4> QED BY <3>5, <4>1, LoopIs DEF Refilled
    <3> QED BY <1>5, <2>5, <3>7
  <2> QED BY <2>3, <2>6 DEF j
<1> QED BY <1>6 DEF Zeros

LEMMA PushedLater ==
  ASSUME NEW x \in Seq(Command), NEW d \in Seq(Command), NEW g \in Seq(Command)
  PROVE  (x \o d) \o g = x \o (d \o g)
BY ConcatAssociative, SMTT(40)

\* What was pushed at any field of q is a beginning of c.
Begins(p, q, c) == \A i \in 0 .. Len(q) : \E d \in Seq(Command) : c = p[i] \o d

\* What was pushed along a chain is a prefix of what is in the end.
LEMMA ChainPrefix ==
  ASSUME NEW who, NEW r, NEW a, NEW q \in Seq(FieldType), NEW t, NEW c, NEW h, NEW p,
         Chain(who, r, a, q, t, c, h, p)
  PROVE  Begins(p, q, c)
<1> SUFFICES ASSUME NEW i \in 0 .. Len(q)
             PROVE  \E d \in Seq(Command) : c = p[i] \o d
  BY DEF Begins
<1> DEFINE n == Len(q)
           From(j) == \E d \in Seq(Command) : p[j] = p[i] \o d
           S == {j \in Nat : i <= j /\ j <= n => From(j)}
<1>1. n \in Nat /\ i \in Nat /\ i <= n /\ i \in 0 .. n
  OBVIOUS
<1>2. /\ p[n] = c
      /\ \A k \in 0 .. n : p[k] \in Seq(Command)
      /\ \A k \in 1 .. n : p[k] = p[k - 1] \o Given(who, Head(h[k - 1]).as, q[k].value)
  BY DEF Chain
<1>3. \A k \in 1 .. n : q[k].value \in Nat
  <2>1. \A k \in 1 .. n : q[k] \in FieldType
    OBVIOUS
  <2> QED BY <2>1 DEF FieldType
<1> HIDE DEF n
<1>4. From(i)
  <2>1. <<>> \in Seq(Command) /\ p[i] \in Seq(Command)
    BY <1>1, <1>2, EmptySeq
  <2>2. p[i] = p[i] \o <<>>
    BY <2>1, ConcatEmptySeq
  <2> QED BY <2>1, <2>2
<1>5. ASSUME NEW k \in 1 .. n, i <= k - 1, From(k - 1) PROVE From(k)
  <2>1. PICK d \in Seq(Command) : p[k - 1] = p[i] \o d
    BY <1>5
  <2> DEFINE g == Given(who, Head(h[k - 1]).as, q[k].value)
  <2>2. g \in Seq(Command)
    BY <1>3, GivenType
  <2>3. p[k] = p[k - 1] \o g
    BY <1>2
  <2> HIDE DEF g
  <2>4. p[i] \in Seq(Command)
    BY <1>1, <1>2
  <2>5. (p[i] \o d) \o g = p[i] \o (d \o g)
    BY <2>1, <2>2, <2>4, PushedLater
  <2>6. d \o g \in Seq(Command)
    BY <2>1, <2>2, ConcatProperties
  <2> QED BY <2>1, <2>3, <2>5, <2>6
<1> HIDE DEF From
<1>6. ASSUME NEW j \in Nat, j \in S PROVE j + 1 \in S
  <2> DEFINE k == j + 1
  <2>1. k \in Nat /\ k - 1 = j
    OBVIOUS
  <2> HIDE DEF k
  <2>2. ASSUME i <= k, k <= n PROVE From(k)
    <3>1. CASE k = i
      BY <1>4, <3>1
    <3>2. CASE k # i
      <4>1. i <= k - 1 /\ k \in 1 .. n /\ k - 1 <= n
        BY <1>1, <2>1, <2>2, <3>2
      <4>2. From(k - 1)
        BY <1>6, <2>1, <4>1
      <4> QED BY <1>5, <4>1, <4>2
    <3> QED BY <3>1, <3>2
  <2> QED BY <2>1, <2>2 DEF k
<1>7. 0 \in S
  BY <1>1, <1>4
<1> HIDE DEF S
<1>8. n \in S
  <2>1. Nat \subseteq S
    BY <1>6, <1>7, SetInduction
  <2> QED BY <1>1, <2>1
<1>9. From(n)
  BY <1>1, <1>8 DEF S
<1> QED BY <1>2, <1>9 DEF From

LEMMA PrefixOf ==
  ASSUME NEW S, NEW s \in Seq(S), NEW t \in Seq(S), Len(s) <= Len(t),
         \A k \in 1 .. Len(s) : s[k] = t[k]
  PROVE  IsPrefix(s, t)
<1> DEFINE n == Len(s)
           u == SubSeq(s, 1, n)
           v == SubSeq(t, 1, n)
<1>1. n \in Nat /\ Len(t) \in Nat /\ \A i \in 1 .. n : s[i] \in S /\ t[i] \in S
  OBVIOUS
<1> HIDE DEF n
<1>2. /\ u \in Seq(S) /\ Len(u) = (IF 1 <= n THEN n - 1 + 1 ELSE 0)
      /\ \A i \in 1 .. n - 1 + 1 : u[i] = s[1 + i - 1]
  BY <1>1, SubSeqProperties
<1>3. /\ v \in Seq(S) /\ Len(v) = (IF 1 <= n THEN n - 1 + 1 ELSE 0)
      /\ \A i \in 1 .. n - 1 + 1 : v[i] = t[1 + i - 1]
  BY <1>1, SubSeqProperties
<1> HIDE DEF u, v
<1>4. Len(u) = n /\ Len(v) = n /\ \A i \in 1 .. n : u[i] = v[i]
  <2>1. Len(u) = n /\ Len(v) = n
    BY <1>1, <1>2, <1>3
  <2>2. ASSUME NEW i \in 1 .. n PROVE u[i] = v[i]
    <3>1. i \in 1 .. n - 1 + 1 /\ 1 + i - 1 = i
      BY <1>1
    <3>2. u[i] = s[i] /\ v[i] = t[i]
      BY <1>2, <1>3, <3>1
    <3>3. s[i] = t[i]
      BY DEF n
    <3> QED BY <3>2, <3>3
  <2> QED BY <2>1, <2>2
<1>5. u = v
  BY <1>2, <1>3, <1>4, SeqEqual
<1>6. Len(s) <= Len(t) /\ SubSeq(s, 1, Len(s)) = SubSeq(t, 1, Len(s))
  BY <1>5 DEF u, v, n
<1> QED BY <1>6 DEF IsPrefix

LEMMA PrefixConcat ==
  ASSUME NEW S, NEW s \in Seq(S), NEW d \in Seq(S)
  PROVE  IsPrefix(s, s \o d)
<1> DEFINE t == s \o d
<1>1. /\ t \in Seq(S) /\ Len(t) = Len(s) + Len(d) /\ Len(s) \in Nat /\ Len(d) \in Nat
      /\ \A i \in 1 .. Len(s) + Len(d) : t[i] = IF i <= Len(s) THEN s[i] ELSE d[i - Len(s)]
  BY ConcatProperties
<1> HIDE DEF t
<1>2. Len(s) <= Len(t) /\ \A k \in 1 .. Len(s) : s[k] = t[k]
  BY <1>1
<1>3. IsPrefix(s, t)
  BY <1>1, <1>2, PrefixOf
<1> QED BY <1>3 DEF t

-----------------------------------------------------------------------------
(* The bytes between the two programs *)

\* Of the fields of q, those after the i-th are on their way as bytes: r holds
\* what remains after each.
Coded(q, i, bytes, r) ==
  /\ r[i] = bytes /\ r[Len(q)] = <<>>
  /\ \A k \in 0 .. Len(q) : r[k] \in Seq(Byte)
  /\ \A k \in 1 .. Len(q) : r[k - 1] = Encode(q[k]) \o r[k]

LEMMA CodedAppend ==
  ASSUME NEW q \in Seq(FieldType), NEW i \in 0 .. Len(q), NEW bytes, NEW r,
         Coded(q, i, bytes, r), NEW f \in FieldType
  PROVE  \E s : Coded(Append(q, f), i, bytes \o Encode(f), s)
<1> DEFINE n == Len(q)
           e == Encode(f)
           w == Append(q, f)
           s == [k \in 0 .. n + 1 |-> IF k = n + 1 THEN <<>> ELSE r[k] \o e]
<1>1. n \in Nat /\ i \in 0 .. n
  OBVIOUS
<1>2. /\ r[i] = bytes /\ r[n] = <<>>
      /\ \A k \in 0 .. n : r[k] \in Seq(Byte)
      /\ \A k \in 1 .. n : r[k - 1] = Encode(q[k]) \o r[k]
  BY DEF Coded
<1>3. e \in Seq(Byte)
  BY EncodeIs
<1>4. w \in Seq(FieldType) /\ Len(w) = n + 1 /\ w[n + 1] = f /\ \A k \in 1 .. n : w[k] = q[k]
  BY AppendProperties
<1>5. \A k \in 1 .. n : Encode(q[k]) \in Seq(Byte)
  <2>1. \A k \in 1 .. n : q[k] \in FieldType
    OBVIOUS
  <2> QED BY <2>1, EncodeIs
<1>6. e = Encode(f)
  OBVIOUS
<1> HIDE DEF n, e, w
<1>7. s[n + 1] = <<>> /\ \A k \in 0 .. n : s[k] = r[k] \o e
  BY <1>1
<1> HIDE DEF s
<1>8. s[i] = bytes \o e
  BY <1>1, <1>2, <1>7
<1>9. \A k \in 0 .. n + 1 : s[k] \in Seq(Byte)
  <2> TAKE k \in 0 .. n + 1
  <2>1. CASE k = n + 1
    BY <1>7, <2>1, EmptySeq
  <2>2. CASE k # n + 1
    <3>1. k \in 0 .. n
      BY <1>1, <2>2
    <3>2. s[k] = r[k] \o e /\ r[k] \in Seq(Byte)
      BY <1>2, <1>7, <3>1
    <3> QED BY <1>3, <3>2, ConcatProperties
  <2> QED BY <2>1, <2>2
<1>10. ASSUME NEW k \in 1 .. n + 1 PROVE s[k - 1] = Encode(w[k]) \o s[k]
  <2>1. CASE k = n + 1
    <3>1. k - 1 = n /\ n \in 0 .. n
      BY <1>1, <2>1
    <3>2. s[k - 1] = <<>> \o e /\ s[k] = <<>> /\ w[k] = f
      BY <1>2, <1>4, <1>7, <2>1, <3>1
    <3>3. <<>> \o e = e /\ e \o <<>> = e
      BY <1>3, ConcatEmptySeq
    <3> QED BY <1>6, <3>2, <3>3
  <2>2. CASE k # n + 1
    <3>1. k \in 1 .. n /\ k - 1 \in 0 .. n /\ k \in 0 .. n
      BY <1>1, <2>2
    <3> DEFINE x == Encode(q[k])
               y == r[k]
    <3>2. s[k - 1] = (x \o y) \o e /\ s[k] = y \o e /\ Encode(w[k]) = x
      BY <1>2, <1>4, <1>7, <3>1
    <3>3. x \in Seq(Byte) /\ y \in Seq(Byte)
      BY <1>2, <1>5, <3>1
    <3> HIDE DEF x, y
    <3>4. (x \o y) \o e = x \o (y \o e)
      BY <1>3, <3>3, ConcatAssociative, SMTT(40)
    <3> QED BY <3>2, <3>4
  <2> QED BY <2>1, <2>2
<1>11. Coded(w, i, bytes \o e, s)
  BY <1>4, <1>8, <1>7, <1>9, <1>10 DEF Coded
<1> QED BY <1>11 DEF w, e

\* A byte is a field of its own.
LEMMA ByteField ==
  ASSUME NEW x \in Byte
  PROVE  U8(x) \in FieldType /\ Fits(U8(x)) /\ Encode(U8(x)) = <<x>>
<1> DEFINE f == U8(x)
<1>1. x \in Nat /\ x < ByteMod /\ ByteMod \in Nat /\ 1 \in Nat
  BY WireAssumption DEF Byte
<1>2. f \in FieldType /\ f.size = 1 /\ f.value = x
  BY <1>1, OneField DEF U8
<1> HIDE DEF f
<1>3. Shifted(f)[0] = x /\ Shifted(f)[1] = x \div ByteMod
  <2>1. 1 \in 1 .. f.size /\ 1 - 1 = 0
    BY <1>2
  <2>2. Shifted(f)[0] = x
    BY <1>2, ShiftedIs
  <2>3. Shifted(f)[1] = Shifted(f)[1 - 1] \div ByteMod
    BY <1>2, <2>1, ShiftedIs
  <2> QED BY <2>1, <2>2, <2>3
<1>4. x \div ByteMod = 0 /\ x % ByteMod = x
  BY <1>1
<1>5. Fits(f)
  BY <1>2, <1>3, <1>4 DEF Fits
<1>6. Encode(f) = <<x>>
  <2> DEFINE e == Encode(f)
             y == <<x>>
  <2>1. e \in Seq(Byte) /\ Len(e) = 1 /\ \A i \in 1 .. 1 : e[i] = Shifted(f)[1 - i] % ByteMod
    BY <1>2, EncodeIs
  <2>2. y \in Seq(Byte) /\ Len(y) = 1 /\ y[1] = x
    OBVIOUS
  <2> HIDE DEF e, y
  <2>3. e[1] = x
    <3>1. 1 \in 1 .. 1 /\ 1 - 1 = 0
      OBVIOUS
    <3>2. e[1] = Shifted(f)[0] % ByteMod
      BY <2>1, <3>1
    <3> QED BY <1>3, <1>4, <3>2
  <2>4. \A i \in 1 .. 1 : e[i] = y[i]
    BY <2>2, <2>3
  <2>5. e = y
    BY <2>1, <2>2, <2>4, SeqEqual
  <2> QED BY <2>5 DEF e, y
<1> QED BY <1>2, <1>5, <1>6 DEF f

\* Of two ways to part the same bytes, those with equally long first parts agree.
LEMMA SameParts ==
  ASSUME NEW a \in Seq(Byte), NEW b \in Seq(Byte), NEW c \in Seq(Byte), NEW d \in Seq(Byte),
         a \o b = c \o d, Len(a) = Len(c)
  PROVE  a = c /\ b = d
<1> DEFINE s == a \o b
           t == c \o d
<1>1. Len(a) \in Nat /\ Len(b) \in Nat /\ Len(d) \in Nat
  OBVIOUS
<1>2. \A i \in 1 .. Len(a) + Len(b) : s[i] = IF i <= Len(a) THEN a[i] ELSE b[i - Len(a)]
  BY ConcatProperties
<1>3. \A i \in 1 .. Len(c) + Len(d) : t[i] = IF i <= Len(c) THEN c[i] ELSE d[i - Len(c)]
  BY ConcatProperties
<1>4. Len(s) = Len(a) + Len(b) /\ Len(t) = Len(c) + Len(d)
  BY ConcatProperties
<1>5. s = t
  OBVIOUS
<1> HIDE DEF s, t
<1>6. Len(b) = Len(d)
  BY <1>1, <1>4, <1>5
<1>7. \A i \in 1 .. Len(a) : a[i] = c[i]
  <2> TAKE i \in 1 .. Len(a)
  <2>1. i \in 1 .. Len(a) + Len(b) /\ i <= Len(a)
    BY <1>1
  <2>2. s[i] = a[i]
    BY <1>2, <2>1
  <2>3. t[i] = c[i]
    BY <1>3, <1>6, <2>1
  <2> QED BY <1>5, <2>2, <2>3
<1>8. a = c
  BY <1>7, SeqEqual
<1>9. ASSUME NEW i \in 1 .. Len(b) PROVE b[i] = d[i]
  <2> DEFINE j == i + Len(a)
  <2>1. j \in 1 .. Len(a) + Len(b) /\ ~(j <= Len(a)) /\ j - Len(a) = i
    BY <1>1
  <2> HIDE DEF j
  <2>2. s[j] = b[i]
    BY <1>2, <2>1
  <2>3. t[j] = d[i]
    BY <1>3, <1>6, <2>1
  <2> QED BY <1>5, <2>2, <2>3
<1>10. b = d
  BY <1>6, <1>9, SeqEqual
<1> QED BY <1>8, <1>10

LEMMA Parts ==
  ASSUME NEW s \in Seq(Byte), NEW n \in 0 .. Len(s)
  PROVE  /\ SubSeq(s, 1, n) \in Seq(Byte) /\ SubSeq(s, n + 1, Len(s)) \in Seq(Byte)
         /\ Len(SubSeq(s, 1, n)) = n
         /\ SubSeq(s, 1, n) \o SubSeq(s, n + 1, Len(s)) = s
<1>1. Len(s) \in Nat /\ n \in Nat /\ n <= Len(s) /\ \A i \in 1 .. Len(s) : s[i] \in Byte
  OBVIOUS
<1>2. SubSeq(s, 1, n) \in Seq(Byte) /\ Len(SubSeq(s, 1, n)) = IF 1 <= n THEN n - 1 + 1 ELSE 0
  <2>1. \A i \in 1 .. n : s[i] \in Byte
    BY <1>1
  <2> QED BY <1>1, <2>1, SubSeqProperties
<1>3. SubSeq(s, n + 1, Len(s)) \in Seq(Byte)
  <2>1. \A i \in n + 1 .. Len(s) : s[i] \in Byte
    BY <1>1
  <2>2. n + 1 \in Int
    BY <1>1
  <2> QED BY <1>1, <2>1, <2>2, SubSeqProperties
<1>4. SubSeq(s, 1, n) \o SubSeq(s, n + 1, Len(s)) = s
  <2>1. 1 \in 1 .. Len(s) + 1 /\ n \in 1 - 1 .. Len(s) /\ Len(s) \in n .. Len(s)
    BY <1>1
  <2>2. SubSeq(s, 1, n) \o SubSeq(s, n + 1, Len(s)) = SubSeq(s, 1, Len(s))
    BY <2>1, ConcatAdjacentSubSeq
  <2> QED BY <2>2, SubSeqFull
<1>5. Len(SubSeq(s, 1, n)) = n
  BY <1>1, <1>2
<1> QED BY <1>2, <1>3, <1>4, <1>5

-----------------------------------------------------------------------------
(* The invariant *)

\* All fields of the messages begun so far, and the bytes not yet read of those
\* that are written.
Line == written \o unwritten
InFlight == field \o (buf \o (stream \o (IF open THEN data ELSE <<>>)))

\* What the reader expects once it has read them all.
Goal(who, q) == IF q = <<>> THEN Start(who) ELSE Loop(who)

StateType ==
  /\ reader \in {"client", "server"} /\ open \in BOOLEAN /\ thrown \in BOOLEAN
  /\ unwritten \in Seq(FieldType) /\ written \in Seq(FieldType) /\ received \in Seq(FieldType)
  /\ data \in Seq(Byte) /\ stream \in Seq(Byte) /\ buf \in Seq(Byte) /\ field \in Seq(Byte)
  /\ asked \in Seq(Command) /\ pushed \in Seq(Command)

\* The writer: it has room for every field, and one without bytes always
\* follows others in its buffer.
WriterInv ==
  /\ ~open => unwritten = <<>>
  /\ \A k \in 1 .. Len(Line) : Fits(Line[k])
  /\ \A k \in 1 .. Len(unwritten) :
       unwritten[k].size = 0 =>
         IF k = 1 THEN data # <<>> ELSE unwritten[k - 1].size # 0

\* The reader: it has read the first fields, and of the next no more bytes than
\* that has.
ReaderInv ==
  /\ Len(received) <= Len(written)
  /\ \A k \in 1 .. Len(received) : received[k] = written[k]
  /\ ~thrown => Len(field) <= Head(expected).size
  /\ reader = "client" => asked = <<>> /\ pushed = <<>>

BytesInv == \E r : Coded(written, Len(received), InFlight, r)

\* Where a chain over all fields stands.
Stands(h, p) ==
  /\ ~thrown => expected = h[Len(received)] /\ pushed = p[Len(received)]
  /\ thrown =>
       /\ Len(received) # 0 /\ pushed = p[Len(received) - 1]
       /\ Rejected(Head(h[Len(received) - 1]).as, Line[Len(received)].value)

ParseInv ==
  \E h, p : /\ Chain(reader, Start(reader), <<>>, Line, Goal(reader, Line), asked, h, p)
            /\ Stands(h, p)

WireInv == StateType /\ WriterInv /\ ReaderInv /\ BytesInv /\ ParseInv

LEMMA LoopReadIs == LoopRead = Loop(reader)
BY DEF LoopRead, Loop

LEMMA ReadingFrom ==
  ASSUME NEW r, NEW q, q # <<>>, NEW t, Reading(r, q, t)
  PROVE  r # <<>>
<1>1. q \in Seq(FieldType)
  BY DEF Reading
<1>2. 1 \in 1 .. Len(q) /\ 1 - 1 = 0
  BY <1>1, EmptySeq
<1>3. PICK h : h[0] = r /\ \A k \in 1 .. Len(q) : Reads(h[k - 1], q[k], h[k])
  BY DEF Reading
<1> QED BY <1>2, <1>3 DEF Reads

LEMMA HelloPlain == Plain(HelloRead) /\ HelloRead # <<>>
<1>1. Plain(HelloRead) /\ Parses(HelloRead, Layout(Hello)) /\ Layout(Hello) # <<>>
  BY MessageAssumption, ParsesHello
<1>2. HelloRead \in Seq(ReadType) /\ HelloRead \o <<>> = HelloRead
  BY <1>1, ConcatEmptySeq DEF Plain
<1>3. Reading(HelloRead, Layout(Hello), <<>>)
  BY <1>1, <1>2, PlainEmpty DEF Parses
<1> QED BY <1>1, <1>3, ReadingFrom

LEMMA StartIs ==
  ASSUME NEW who, NEW q
  PROVE  /\ Plain(Start(who)) /\ Start(who) # <<>> /\ Stack(Start(who))
         /\ Plain(Goal(who, q)) /\ Goal(who, q) # <<>>
<1>1. Plain(Start(who)) /\ Start(who) # <<>>
  BY HelloPlain, LoopIs DEF Start
<1>2. Plain(Goal(who, q)) /\ Goal(who, q) # <<>>
  BY <1>1, LoopIs DEF Goal
<1> QED BY <1>1, <1>2, PlainStack

LEMMA ReadingSome ==
  ASSUME NEW r, r # <<>>, NEW q, Reading(r, q, <<>>)
  PROVE  q # <<>>
<1> SUFFICES ASSUME q = <<>> PROVE FALSE
  OBVIOUS
<1>1. Len(q) = 0
  OBVIOUS
<1>2. PICK h : h[0] = r /\ h[Len(q)] = <<>>
  BY DEF Reading
<1> QED BY <1>1, <1>2

LEMMA CodedNothing ==
  ASSUME NEW q, Len(q) = 0
  PROVE  \E r : Coded(q, 0, <<>>, r)
<1> DEFINE r == [k \in 0 .. 0 |-> <<>>]
<1>1. r[0] = <<>> /\ \A k \in 0 .. 0 : r[k] = <<>>
  OBVIOUS
<1> HIDE DEF r
<1>2. \A k \in 0 .. 0 : r[k] \in Seq(Byte)
  BY <1>1, EmptySeq
<1>3. \A k \in 1 .. 0 : FALSE
  OBVIOUS
<1>4. \A k \in 1 .. Len(q) : r[k - 1] = Encode(q[k]) \o r[k]
  BY <1>3
<1>5. Coded(q, 0, <<>>, r)
  BY <1>1, <1>2, <1>4 DEF Coded
<1> QED BY <1>5

LEMMA ChainNothing ==
  ASSUME NEW who, NEW s, Stack(s), s # <<>>, NEW a \in Seq(Command), NEW q, Len(q) = 0
  PROVE  \E h, p : Chain(who, s, a, q, s, a, h, p)
<1> DEFINE h == [k \in 0 .. 0 |-> s]
           p == [k \in 0 .. 0 |-> a]
<1>1. h[0] = s /\ p[0] = a /\ \A k \in 0 .. 0 : h[k] = s /\ p[k] = a
  OBVIOUS
<1> HIDE DEF h, p
<1>2. \A k \in 0 .. 0 : Stack(h[k]) /\ h[k] # <<>> /\ p[k] \in Seq(Command)
  BY <1>1
<1>3. \A k \in 1 .. 0 : FALSE
  OBVIOUS
<1>4. \A k \in 1 .. Len(q) :
        /\ Step(who, h[k - 1], q[k], h[k])
        /\ p[k] = p[k - 1] \o Given(who, Head(h[k - 1]).as, q[k].value)
  BY <1>3
<1>5. Chain(who, s, a, q, s, a, h, p)
  BY <1>1, <1>2, <1>4 DEF Chain
<1> QED BY <1>5

LEMMA InitWire == Init => WireInv
<1> SUFFICES ASSUME Init PROVE WireInv
  OBVIOUS
<1>1. /\ reader \in {"client", "server"}
      /\ unwritten = <<>> /\ open = FALSE /\ data = <<>> /\ stream = <<>> /\ buf = <<>>
      /\ field = <<>> /\ written = <<>> /\ received = <<>> /\ thrown = FALSE
      /\ asked = <<>> /\ pushed = <<>>
      /\ expected = IF reader = "client" THEN HelloRead ELSE LoopRead
  BY DEF Init
<1>2. /\ <<>> \in Seq(FieldType) /\ <<>> \in Seq(Byte) /\ <<>> \in Seq(Command) /\ Len(<<>>) = 0
      /\ <<>> \o <<>> = <<>>
  <2>1. <<>> \in Seq(FieldType) /\ <<>> \in Seq(Byte) /\ <<>> \in Seq(Command) /\ Len(<<>>) = 0
    BY EmptySeq
  <2> QED BY <2>1, ConcatEmptySeq
<1>3. StateType
  BY <1>1, <1>2 DEF StateType
<1>4. Line = <<>> /\ InFlight = <<>>
  BY <1>1, <1>2 DEF Line, InFlight
<1>5. WriterInv
  <2>1. \A k \in 1 .. 0 : FALSE
    OBVIOUS
  <2> QED BY <1>1, <1>2, <1>4, <2>1 DEF WriterInv
<1>6. expected = Start(reader)
  BY <1>1, LoopReadIs DEF Start
<1>7. ReaderInv
  <2>1. \A k \in 1 .. 0 : FALSE
    OBVIOUS
  <2>2. 0 <= Head(expected).size
    <3> DEFINE x == Start(reader)
    <3>1. x \in Seq(ReadType) /\ x # <<>>
      BY StartIs DEF Plain
    <3> HIDE DEF x
    <3>2. Head(x) \in ReadType
      BY <3>1, HeadTailProperties
    <3>3. Head(x).size \in Nat
      BY <3>2 DEF ReadType
    <3> QED BY <1>6, <3>3 DEF x
  <2> QED BY <1>1, <1>2, <2>1, <2>2 DEF ReaderInv
<1>8. BytesInv
  <2>1. \E r : Coded(written, Len(received), InFlight, r)
    BY <1>1, <1>2, <1>4, CodedNothing
  <2> QED BY <2>1 DEF BytesInv
<1>9. ParseInv
  <2> DEFINE s == Start(reader)
  <2>1. Stack(s) /\ s # <<>>
    BY StartIs
  <2>2. Goal(reader, Line) = s
    BY <1>4 DEF Goal
  <2> HIDE DEF s
  <2>3. PICK h, p : Chain(reader, s, <<>>, Line, s, <<>>, h, p)
    BY <1>2, <1>4, <2>1, ChainNothing
  <2>4. Chain(reader, s, <<>>, Line, Goal(reader, Line), asked, h, p)
    BY <1>1, <2>2, <2>3
  <2>5. h[0] = s /\ p[0] = <<>>
    BY <2>3 DEF Chain
  <2>6. Stands(h, p)
    BY <1>1, <1>2, <1>6, <2>5 DEF Stands, s
  <2> QED BY <2>4, <2>6 DEF ParseInv, s
<1> QED BY <1>3, <1>5, <1>7, <1>8, <1>9 DEF WireInv

-----------------------------------------------------------------------------
(* Messages that are begun *)

LEMMA LineIs ==
  ASSUME StateType
  PROVE  /\ Line \in Seq(FieldType) /\ Len(Line) = Len(written) + Len(unwritten)
         /\ Len(written) \in Nat /\ Len(unwritten) \in Nat
         /\ \A k \in 1 .. Len(written) : Line[k] = written[k]
         /\ \A k \in 1 .. Len(unwritten) : Line[Len(written) + k] = unwritten[k]
<1> DEFINE m == Len(written)
           n == Len(unwritten)
           l == Line
<1>1. written \in Seq(FieldType) /\ unwritten \in Seq(FieldType) /\ m \in Nat /\ n \in Nat
  BY DEF StateType
<1>2. /\ l \in Seq(FieldType) /\ Len(l) = m + n
      /\ \A i \in 1 .. m + n : l[i] = IF i <= m THEN written[i] ELSE unwritten[i - m]
  BY <1>1, ConcatProperties DEF Line
<1> HIDE DEF m, n, l
<1>3. \A k \in 1 .. m : l[k] = written[k]
  BY <1>1, <1>2
<1>4. ASSUME NEW k \in 1 .. n PROVE l[m + k] = unwritten[k]
  <2> DEFINE j == m + k
  <2>1. j \in 1 .. m + n /\ ~(j <= m) /\ j - m = k
    BY <1>1
  <2> HIDE DEF j
  <2>2. l[j] = unwritten[k]
    BY <1>2, <2>1
  <2> QED BY <2>2 DEF j
<1> QED BY <1>1, <1>2, <1>3, <1>4 DEF l, m, n

\* What a new message leads to continues the chain.
LEMMA LineGrows ==
  ASSUME StateType, ReaderInv, ParseInv,
         UNCHANGED <<reader, received, expected, thrown, pushed>>,
         NEW q \in Seq(FieldType), q # <<>>, Line' = Line \o q,
         \E h, p : Chain(reader, Goal(reader, Line), asked, q, Loop(reader), asked', h, p)
  PROVE  ParseInv' /\ asked' \in Seq(Command)
<1>1. PICK h1, p1 :
        /\ Chain(reader, Start(reader), <<>>, Line, Goal(reader, Line), asked, h1, p1)
        /\ Stands(h1, p1)
  BY DEF ParseInv
<1>2. PICK h2, p2 : Chain(reader, Goal(reader, Line), asked, q, Loop(reader), asked', h2, p2)
  OBVIOUS
<1>3. /\ Line \in Seq(FieldType) /\ Len(Line) \in Nat /\ Len(written) <= Len(Line)
      /\ Len(received) \in Nat /\ Len(received) <= Len(written)
  BY LineIs DEF ReaderInv, StateType
<1>4. PICK h, p : /\ Chain(reader, Start(reader), <<>>, Line \o q, Loop(reader), asked', h, p)
                  /\ \A k \in 0 .. Len(Line) : h[k] = h1[k] /\ p[k] = p1[k]
  <2> DEFINE who == reader
             l == Line
             s == Start(reader)
             g == Goal(reader, Line)
             t == Loop(reader)
             a == asked
             b == asked'
             e == <<>>
  <2>1. Chain(who, s, e, l, g, a, h1, p1) /\ Chain(who, g, a, q, t, b, h2, p2)
    BY <1>1, <1>2
  <2>2. l \in Seq(FieldType)
    BY <1>3
  <2> HIDE DEF who, l, s, g, t, a, b, e
  <2>3. Continues(who, s, e, l \o q, t, b, l, h1, p1)
    BY <2>1, <2>2, ChainConcat
  <2> QED BY <2>3 DEF Continues, who, l, s, t, b, e
<1>5. /\ Line \o q \in Seq(FieldType) /\ Len(Line \o q) = Len(Line) + Len(q)
      /\ \A i \in 1 .. Len(Line) + Len(q) :
           (Line \o q)[i] = IF i <= Len(Line) THEN Line[i] ELSE q[i - Len(Line)]
  BY <1>3, ConcatProperties
<1>6. Line' # <<>> /\ Len(q) \in Nat
  <2>1. Len(q) \in Nat \ {0}
    BY EmptySeq
  <2>2. Len(Line \o q) # 0
    BY <1>3, <1>5, <2>1
  <2> QED BY <1>5, <2>1, <2>2, EmptySeq
<1>7. Goal(reader, Line') = Loop(reader)
  BY <1>6 DEF Goal
<1>8. Chain(reader', Start(reader'), <<>>, Line', Goal(reader', Line'), asked', h, p)
  BY <1>4, <1>7
<1> DEFINE n == Len(received)
<1>9. /\ n \in 0 .. Len(Line) /\ h[n] = h1[n] /\ p[n] = p1[n]
      /\ n # 0 => /\ h[n - 1] = h1[n - 1] /\ p[n - 1] = p1[n - 1]
                  /\ Line'[n] = Line[n]
  <2>1. n \in 0 .. Len(Line) /\ (n # 0 => n - 1 \in 0 .. Len(Line) /\ n \in 1 .. Len(Line) + Len(q))
    BY <1>3, <1>6
  <2>2. n # 0 => (Line \o q)[n] = Line[n]
    BY <1>3, <1>5, <2>1
  <2> QED BY <1>4, <2>1, <2>2
<1>10. Len(received)' = n
  OBVIOUS
<1> HIDE DEF n
<1>11. /\ ~thrown => expected = h1[n] /\ pushed = p1[n]
       /\ thrown => n # 0 /\ pushed = p1[n - 1] /\ Rejected(Head(h1[n - 1]).as, Line[n].value)
  BY <1>1 DEF Stands, n
<1>12. /\ ~thrown' => expected' = h[n] /\ pushed' = p[n]
       /\ thrown' => n # 0 /\ pushed' = p[n - 1] /\ Rejected(Head(h[n - 1]).as, Line'[n].value)
  <2>1. thrown' = thrown /\ expected' = expected /\ pushed' = pushed
    OBVIOUS
  <2> QED BY <1>9, <1>11, <2>1
<1>13. Stands(h, p)'
  BY <1>10, <1>12 DEF Stands
<1>14. asked' \in Seq(Command)
  <2>1. Len(q) \in 0 .. Len(q)
    BY <1>6
  <2> QED BY <1>2, <2>1 DEF Chain
<1> QED BY <1>8, <1>13, <1>14 DEF ParseInv

LEMMA BeginStep ==
  ASSUME WireInv, NEW q \in Seq(FieldType), q # <<>>, \A k \in 1 .. Len(q) : Fits(q[k]),
         Begin(q), pushed' = pushed, reader = "client" => asked' = asked,
         \E h, p : Chain(reader, Goal(reader, Line), asked, q, Loop(reader), asked', h, p)
  PROVE  WireInv'
<1>1. /\ ~open /\ open' = TRUE /\ unwritten' = q /\ data' = <<>>
      /\ UNCHANGED <<reader, written, stream, buf, field, expected, received, thrown>>
  BY DEF Begin, readerVars
<1>2. StateType /\ WriterInv /\ ReaderInv /\ BytesInv /\ ParseInv
  BY DEF WireInv
<1>3. unwritten = <<>> /\ Line = written /\ Line' = Line \o q
  <2>1. unwritten = <<>>
    BY <1>1, <1>2 DEF WriterInv
  <2>2. Line = written
    BY <1>2, <2>1, ConcatEmptySeq DEF Line, StateType
  <2>3. Line' = written \o q
    BY <1>1 DEF Line
  <2> QED BY <2>1, <2>2, <2>3
<1>4. ParseInv' /\ asked' \in Seq(Command)
  BY <1>1, <1>2, <1>3, LineGrows
<1>5. StateType'
  <2>1. <<>> \in Seq(Byte)
    BY EmptySeq
  <2> QED BY <1>1, <1>2, <1>4, <2>1 DEF StateType
<1>6. WriterInv'
  <2>1. PICK h, p : Chain(reader, Goal(reader, Line), asked, q, Loop(reader), asked', h, p)
    OBVIOUS
  <2>2. Zeros(q)
    BY <2>1, StartIs, ChainZeros
  <2>3. /\ Line' = written' \o q /\ unwritten' = q /\ open' = TRUE
    BY <1>1, <1>3
  <2>4. \A k \in 1 .. Len(unwritten') :
          unwritten'[k].size = 0 =>
            IF k = 1 THEN data' # <<>> ELSE unwritten'[k - 1].size # 0
    BY <2>2, <2>3 DEF Zeros
  <2>5. ASSUME NEW k \in 1 .. Len(Line') PROVE Fits(Line'[k])
    <3>1. /\ Line \in Seq(FieldType) /\ Len(Line) \in Nat /\ Len(q) \in Nat
          /\ Len(Line') = Len(Line) + Len(q)
          /\ \A i \in 1 .. Len(Line) + Len(q) :
               Line'[i] = IF i <= Len(Line) THEN Line[i] ELSE q[i - Len(Line)]
      BY <1>2, <1>3, LineIs, ConcatProperties
    <3>2. CASE k <= Len(Line)
      <4>1. k \in 1 .. Len(Line) /\ Line'[k] = Line[k]
        BY <3>1, <3>2
      <4> QED BY <1>2, <4>1 DEF WriterInv
    <3>3. CASE ~(k <= Len(Line))
      <4>1. k - Len(Line) \in 1 .. Len(q) /\ Line'[k] = q[k - Len(Line)]
        BY <3>1, <3>3
      <4> QED BY <4>1
    <3> QED BY <3>2, <3>3
  <2> QED BY <2>3, <2>4, <2>5 DEF WriterInv
<1>7. ReaderInv'
  BY <1>1, <1>2 DEF ReaderInv
<1>8. BytesInv'
  <2>1. InFlight' = InFlight
    BY <1>1 DEF InFlight
  <2> QED BY <1>1, <1>2, <2>1 DEF BytesInv
<1> QED BY <1>4, <1>5, <1>6, <1>7, <1>8 DEF WireInv

LEMMA InFlightType ==
  ASSUME StateType
  PROVE  InFlight \in Seq(Byte)
<1> DEFINE d == IF open THEN data ELSE <<>>
<1>1. field \in Seq(Byte) /\ buf \in Seq(Byte) /\ stream \in Seq(Byte) /\ d \in Seq(Byte)
  BY EmptySeq DEF StateType
<1> HIDE DEF d
<1>2. stream \o d \in Seq(Byte)
  BY <1>1, ConcatProperties
<1>3. buf \o (stream \o d) \in Seq(Byte)
  BY <1>1, <1>2, ConcatProperties
<1>4. field \o (buf \o (stream \o d)) \in Seq(Byte)
  BY <1>1, <1>3, ConcatProperties
<1> QED BY <1>4 DEF InFlight, d

LEMMA BytesConcat ==
  ASSUME NEW a \in Seq(Byte), NEW b \in Seq(Byte), NEW c \in Seq(Byte)
  PROVE  (a \o b) \o c = a \o (b \o c)
BY ConcatAssociative, SMTT(40)

\* Bytes that join those in flight at their end.
LEMMA FlightGrows ==
  ASSUME StateType, NEW e \in Seq(Byte)
  PROVE  field \o (buf \o (stream \o e)) = (field \o (buf \o stream)) \o e
<1>1. field \in Seq(Byte) /\ buf \in Seq(Byte) /\ stream \in Seq(Byte)
  BY DEF StateType
<1>2. buf \o (stream \o e) = (buf \o stream) \o e
  BY <1>1, BytesConcat, ZenonT(40)
<1>3. buf \o stream \in Seq(Byte)
  BY <1>1, ConcatProperties
<1>4. field \o ((buf \o stream) \o e) = (field \o (buf \o stream)) \o e
  BY <1>1, <1>3, BytesConcat, ZenonT(40)
<1> QED BY <1>2, <1>4

\* A message that is sent as it is.
LEMMA ForwardStep ==
  ASSUME WireInv, ~open, NEW q \in Seq(FieldType), q # <<>>,
         \A k \in 1 .. Len(q) : Fits(q[k]), NEW e \in Seq(Byte),
         stream' = stream \o e, written' = written \o q,
         UNCHANGED <<reader, unwritten, open, data, readerVars, pushed>>,
         \E r : Coded(written \o q, Len(received), InFlight \o e, r),
         reader = "server",
         \E h, p : Chain(reader, Goal(reader, Line), asked, q, Loop(reader), asked', h, p)
  PROVE  WireInv'
<1>1. /\ UNCHANGED <<reader, unwritten, open, data>>
      /\ UNCHANGED <<buf, field, expected, received, thrown, pushed>>
  BY DEF readerVars
<1>2. StateType /\ WriterInv /\ ReaderInv /\ BytesInv /\ ParseInv
  BY DEF WireInv
<1>3. /\ written \in Seq(FieldType) /\ written \o q \in Seq(FieldType)
      /\ Len(written \o q) = Len(written) + Len(q) /\ Len(written) \in Nat /\ Len(q) \in Nat
      /\ \A i \in 1 .. Len(written) + Len(q) :
           (written \o q)[i] = IF i <= Len(written) THEN written[i] ELSE q[i - Len(written)]
  BY <1>2, ConcatProperties DEF StateType
<1>4. unwritten = <<>> /\ Line = written /\ Line' = Line \o q /\ Line' = written'
  <2>1. unwritten = <<>>
    BY <1>2 DEF WriterInv
  <2>2. Line = written
    BY <1>2, <2>1, ConcatEmptySeq DEF Line, StateType
  <2>3. Line' = written' \o <<>>
    BY <1>1, <2>1 DEF Line
  <2>4. Line' = written'
    BY <1>3, <2>3, ConcatEmptySeq
  <2> QED BY <2>1, <2>2, <2>4
<1>5. ParseInv' /\ asked' \in Seq(Command)
  BY <1>1, <1>2, <1>4, LineGrows
<1>6. StateType'
  <2>1. stream \o e \in Seq(Byte)
    BY <1>2, ConcatProperties DEF StateType
  <2> QED BY <1>1, <1>2, <1>3, <1>5, <2>1 DEF StateType
<1>7. WriterInv'
  <2>1. ASSUME NEW k \in 1 .. Len(Line') PROVE Fits(Line'[k])
    <3>1. Line' = written \o q
      BY <1>4
    <3>2. CASE k <= Len(written)
      <4>1. k \in 1 .. Len(Line) /\ Line'[k] = Line[k]
        BY <1>3, <1>4, <3>1, <3>2
      <4> QED BY <1>2, <4>1 DEF WriterInv
    <3>3. CASE ~(k <= Len(written))
      <4>1. k - Len(written) \in 1 .. Len(q) /\ Line'[k] = q[k - Len(written)]
        BY <1>3, <3>1, <3>3
      <4> QED BY <4>1
    <3> QED BY <3>2, <3>3
  <2>2. \A k \in 1 .. 0 : FALSE
    OBVIOUS
  <2> QED BY <1>1, <1>4, <2>1, <2>2, EmptySeq DEF WriterInv
<1>8. ReaderInv'
  <2>1. /\ Len(received) <= Len(written) /\ Len(received) \in Nat
        /\ \A k \in 1 .. Len(received) : received[k] = written[k]
    BY <1>2 DEF ReaderInv, StateType
  <2>2. Len(received) <= Len(written')
    BY <1>3, <2>1
  <2>3. \A k \in 1 .. Len(received) : received[k] = written'[k]
    BY <1>3, <2>1
  <2> QED BY <1>1, <1>2, <2>2, <2>3 DEF ReaderInv
<1>9. BytesInv'
  <2> DEFINE s == stream \o <<>>
  <2>1. s = stream /\ stream \o e \in Seq(Byte) /\ (stream \o e) \o <<>> = stream \o e
    <3>1. stream \in Seq(Byte) /\ stream \o e \in Seq(Byte)
      BY <1>2, ConcatProperties DEF StateType
    <3> QED BY <3>1, ConcatEmptySeq
  <2>2. InFlight = field \o (buf \o stream)
    BY <2>1 DEF InFlight
  <2>3. InFlight' = field \o (buf \o (stream \o e))
    BY <1>1, <2>1, SMTT(40) DEF InFlight
  <2>4. InFlight' = InFlight \o e
    BY <1>2, <2>2, <2>3, FlightGrows
  <2> QED BY <1>1, <2>4 DEF BytesInv
<1> QED BY <1>5, <1>6, <1>7, <1>8, <1>9 DEF WireInv

LEMMA GoalOfServer ==
  ASSUME reader = "server"
  PROVE  Goal(reader, Line) = Loop("server") /\ Loop(reader) = Loop("server")
BY DEF Goal, Start

LEMMA GuiBytesAre ==
  ASSUME NEW d \in Datagrams
  PROVE  d \in Seq(Byte)
<1>1. PICK n \in 0 .. 3 : d \in [1 .. n -> GuiBytes]
  BY DEF Datagrams
<1>2. GuiBytes \subseteq Byte
  BY ClientInputAssumption DEF Byte
<1>3. d \in [1 .. n -> Byte] /\ n \in Nat
  BY <1>1, <1>2
<1> QED BY <1>3

\* A datagram with another id.
LEMMA Forwarded ==
  ASSUME NEW d \in Seq(Byte), 1 \in 1 .. Len(d), NEW x \in Byte
  PROVE  /\ [d EXCEPT ![1] = x] \in Seq(Byte) /\ Len([d EXCEPT ![1] = x]) = Len(d)
         /\ [d EXCEPT ![1] = x][1] = x
         /\ \A i \in 1 .. Len(d) : i # 1 => [d EXCEPT ![1] = x][i] = d[i]
<1> DEFINE n == Len(d)
           z == [d EXCEPT ![1] = x]
<1>1. n \in Nat /\ d \in [1 .. n -> Byte] /\ 1 \in 1 .. n
  BY LenProperties
<1> HIDE DEF n
<1>2. z \in [1 .. n -> Byte] /\ z[1] = x /\ \A i \in 1 .. n : i # 1 => z[i] = d[i]
  BY <1>1
<1> HIDE DEF z
<1>3. z \in Seq(Byte) /\ Len(z) = n
  BY <1>1, <1>2
<1> QED BY <1>2, <1>3 DEF z, n

\* A datagram of one byte.
LEMMA ForwardPlace ==
  ASSUME WireInv, reader = "server", ~open, NEW d \in Datagrams, Len(d) = 1,
         d[1] \in {GC_PLACE_BOMB, GC_PLACE_BLOCK}, forward(d)
  PROVE  WireInv'
<1> DEFINE x == d[1] + 1
           f == U8(x)
           bytes == [d EXCEPT ![1] = (@ + 1) % ByteMod]
           q == [i \in DOMAIN bytes |-> U8(bytes[i])]
           c == IF x = CS_PLACE_BOMB THEN <<"place bomb">> ELSE <<"place block">>
<1>1. /\ stream' = stream \o bytes /\ written' = written \o q
      /\ asked' = Append(asked, Wish(d))
      /\ UNCHANGED <<reader, unwritten, open, data, readerVars, pushed>>
  BY DEF forward
<1>2. d \in Seq(Byte) /\ 1 \in DOMAIN d /\ DOMAIN d = 1 .. 1
  BY GuiBytesAre
<1>3. x \in Byte /\ (d[1] + 1) % ByteMod = x /\ x \in {CS_PLACE_BOMB, CS_PLACE_BLOCK}
  <2>1. ByteMod \in Nat /\ ByteMod > 4
    BY WireAssumption
  <2>2. x \in Nat /\ x < ByteMod /\ x \in {CS_PLACE_BOMB, CS_PLACE_BLOCK}
    BY <2>1, CommandIds
  <2>3. x % ByteMod = x
    BY <2>1, <2>2
  <2> QED BY <2>1, <2>2, <2>3 DEF Byte
<1>4. Wish(d) = c /\ c \in Command
  <2>1. CASE d[1] = GC_PLACE_BOMB
    <3>1. x = CS_PLACE_BOMB
      BY <2>1, CommandIds
    <3>2. c = <<"place bomb">>
      BY <3>1
    <3>3. GC_PLACE_BOMB # GC_PLACE_BLOCK /\ GC_PLACE_BOMB # GC_MOVE
      BY CommandIds
    <3> QED BY <2>1, <3>2, <3>3 DEF Wish, Command
  <2>2. CASE d[1] = GC_PLACE_BLOCK
    <3>1. x # CS_PLACE_BOMB
      BY <2>2, CommandIds
    <3>2. c = <<"place block">>
      BY <3>1
    <3>3. GC_PLACE_BOMB # GC_PLACE_BLOCK /\ GC_PLACE_BLOCK # GC_MOVE
      BY CommandIds
    <3> QED BY <2>2, <3>2, <3>3 DEF Wish, Command
  <2> QED BY <2>1, <2>2
<1>5. bytes = <<x>>
  <2> DEFINE y == <<x>>
  <2>1. /\ bytes \in Seq(Byte) /\ Len(bytes) = 1 /\ bytes[1] = x
    <3>1. bytes = [d EXCEPT ![1] = x]
      BY <1>3
    <3>2. 1 \in 1 .. Len(d)
      OBVIOUS
    <3> HIDE DEF bytes, x
    <3> QED BY <1>2, <1>3, <3>1, <3>2, Forwarded
  <2>2. y \in Seq(Byte) /\ Len(y) = 1 /\ y[1] = x
    BY <1>3
  <2> HIDE DEF bytes, y, x
  <2>3. \A i \in 1 .. 1 : bytes[i] = y[i]
    BY <2>1, <2>2
  <2>4. bytes = y
    BY <2>1, <2>2, <2>3, SeqEqual
  <2> QED BY <2>4 DEF y
<1>6. f \in FieldType /\ Fits(f) /\ Encode(f) = <<x>>
  BY <1>3, ByteField
<1>7. q = <<f>>
  <2> DEFINE y == <<f>>
  <2>1. DOMAIN bytes = 1 .. 1 /\ bytes[1] = x
    BY <1>5
  <2>2. q = [i \in 1 .. 1 |-> U8(bytes[i])]
    BY <2>1
  <2>3. y \in Seq(FieldType) /\ Len(y) = 1 /\ y[1] = f
    BY <1>6
  <2> HIDE DEF bytes
  <2>4. q \in Seq(FieldType) /\ Len(q) = 1 /\ q[1] = f
    BY <1>6, <2>1, <2>2
  <2> HIDE DEF q, y, f
  <2>5. \A i \in 1 .. 1 : q[i] = y[i]
    BY <2>3, <2>4
  <2>6. q = y
    BY <2>3, <2>4, <2>5, SeqEqual
  <2> QED BY <2>6 DEF y
<1> HIDE DEF bytes, q
<1>8. StateType /\ WriterInv /\ ReaderInv /\ BytesInv /\ ParseInv
  BY DEF WireInv
<1>9. \E h, p : Chain(reader, Goal(reader, Line), asked, <<f>>, Loop(reader), asked', h, p)
  <2>1. asked \in Seq(Command) /\ asked' = Append(asked, c)
    BY <1>1, <1>4, <1>8 DEF StateType
  <2> HIDE DEF x
  <2>2. \E h, p : Chain("server", Loop("server"), asked, <<U8(x)>>, Loop("server"),
                        Append(asked, c), h, p)
    BY <1>3, <2>1, PlaceChain
  <2> QED BY <2>1, <2>2, GoalOfServer
<1>10. \E r : Coded(written \o <<f>>, Len(received), InFlight \o <<x>>, r)
  <2>1. PICK r : Coded(written, Len(received), InFlight, r)
    BY <1>8 DEF BytesInv
  <2>2. written \in Seq(FieldType) /\ Len(received) \in 0 .. Len(written)
    BY <1>8 DEF StateType, ReaderInv
  <2> HIDE DEF f, x
  <2>3. \E s : Coded(Append(written, f), Len(received), InFlight \o Encode(f), s)
    BY <1>6, <2>1, <2>2, CodedAppend
  <2>4. Append(written, f) = written \o <<f>>
    BY <1>6, <2>2, AppendIsConcat
  <2> QED BY <1>6, <2>3, <2>4
<1>11. <<f>> \in Seq(FieldType) /\ <<f>> # <<>> /\ Len(<<f>>) = 1 /\ <<f>>[1] = f
  BY <1>6
<1>12. \A k \in 1 .. Len(<<f>>) : Fits(<<f>>[k])
  BY <1>6, <1>11
<1>13. <<x>> \in Seq(Byte)
  BY <1>3
<1> HIDE DEF f, x
<1> QED BY <1>1, <1>5, <1>7, <1>9, <1>10, <1>11, <1>12, <1>13, ForwardStep

\* A datagram of two bytes, whose second may be a direction below 0.
LEMMA ForwardMove ==
  ASSUME WireInv, reader = "server", ~open, NEW d \in Datagrams, Len(d) = 2,
         d[1] = GC_MOVE, SignedByte(d[2]) <= MAX_DIRECTION, forward(d)
  PROVE  WireInv'
<1> DEFINE x == CS_MOVE
           v == d[2]
           f == U8(x)
           g == U8(v)
           bytes == [d EXCEPT ![1] = (@ + 1) % ByteMod]
           q == [i \in DOMAIN bytes |-> U8(bytes[i])]
           c == <<"move", v>>
<1>1. /\ stream' = stream \o bytes /\ written' = written \o q
      /\ asked' = Append(asked, Wish(d))
      /\ UNCHANGED <<reader, unwritten, open, data, readerVars, pushed>>
  BY DEF forward
<1>2. d \in Seq(Byte) /\ 1 \in 1 .. Len(d) /\ 2 \in 1 .. Len(d) /\ v \in Byte
  <2>1. d \in Seq(Byte)
    BY GuiBytesAre
  <2> QED BY <2>1
<1>3. x \in Byte /\ (d[1] + 1) % ByteMod = x
  <2>1. ByteMod \in Nat /\ ByteMod > 4
    BY WireAssumption
  <2>2. x \in Nat /\ x < ByteMod /\ d[1] + 1 = x
    BY <2>1, CommandIds
  <2>3. x % ByteMod = x
    BY <2>1, <2>2
  <2> QED BY <2>1, <2>2, <2>3 DEF Byte
<1>4. Wish(d) = c /\ c \in Command
  <2>1. GC_MOVE # GC_PLACE_BOMB /\ GC_MOVE # GC_PLACE_BLOCK
    BY CommandIds
  <2>2. v \in Nat
    BY <1>2 DEF Byte
  <2> QED BY <2>1, <2>2 DEF Wish, Command
<1>5. bytes = <<x, v>>
  <2> DEFINE y == <<x, v>>
  <2>1. /\ bytes \in Seq(Byte) /\ Len(bytes) = 2 /\ bytes[1] = x /\ bytes[2] = v
    <3>1. bytes = [d EXCEPT ![1] = x]
      BY <1>3
    <3>2. 2 # 1
      OBVIOUS
    <3> HIDE DEF bytes, x
    <3> QED BY <1>2, <1>3, <3>1, <3>2, Forwarded
  <2>2. y \in Seq(Byte) /\ Len(y) = 2 /\ y[1] = x /\ y[2] = v
    BY <1>2, <1>3
  <2> HIDE DEF bytes, y, x, v
  <2>3. \A i \in 1 .. 2 : i = 1 \/ i = 2
    OBVIOUS
  <2>4. \A i \in 1 .. 2 : bytes[i] = y[i]
    BY <2>1, <2>2, <2>3
  <2>5. bytes = y
    BY <2>1, <2>2, <2>4, SeqEqual
  <2> QED BY <2>5 DEF y
<1>6. /\ f \in FieldType /\ Fits(f) /\ Encode(f) = <<x>>
      /\ g \in FieldType /\ Fits(g) /\ Encode(g) = <<v>>
  BY <1>2, <1>3, ByteField
<1>7. q = <<f, g>>
  <2> DEFINE y == <<f, g>>
  <2>1. DOMAIN bytes = 1 .. 2 /\ bytes[1] = x /\ bytes[2] = v
    BY <1>5
  <2>2. q = [i \in 1 .. 2 |-> U8(bytes[i])]
    BY <2>1
  <2>3. y \in Seq(FieldType) /\ Len(y) = 2 /\ y[1] = f /\ y[2] = g
    BY <1>6
  <2>4. \A i \in 1 .. 2 : i = 1 \/ i = 2
    OBVIOUS
  <2> HIDE DEF bytes
  <2>5. q[1] = f /\ q[2] = g
    BY <2>1, <2>2
  <2> HIDE DEF f, g, v, x, y
  <2>6. q \in Seq(FieldType) /\ Len(q) = 2
    <3>1. \A i \in 1 .. 2 : U8(bytes[i]) \in FieldType
      <4>1. \A i \in 1 .. 2 : U8(bytes[i]) = q[i]
        BY <2>2
      <4>2. \A i \in 1 .. 2 : q[i] \in FieldType
        BY <1>6, <2>4, <2>5
      <4> QED BY <4>1, <4>2
    <3> HIDE DEF q
    <3> DEFINE n == 2
    <3>2. n \in Nat /\ q \in [1 .. n -> FieldType]
      BY <2>2, <3>1
    <3> HIDE DEF n
    <3>3. q \in Seq(FieldType) /\ Len(q) = n
      BY <3>2
    <3> QED BY <3>3 DEF n
  <2> HIDE DEF q
  <2>7. \A i \in 1 .. 2 : q[i] = y[i]
    BY <2>3, <2>4, <2>5
  <2>8. q = y
    BY <2>3, <2>6, <2>7, SeqEqual
  <2> QED BY <2>8 DEF y
<1> HIDE DEF bytes, q
<1>8. StateType /\ WriterInv /\ ReaderInv /\ BytesInv /\ ParseInv
  BY DEF WireInv
<1>9. <<f, g>> = <<f>> \o <<g>> /\ <<f, g>> \in Seq(FieldType)
  <2> HIDE DEF f, g
  <2> QED BY <1>6, Pair
<1>10. <<x, v>> = <<x>> \o <<v>> /\ <<x>> \in Seq(Byte) /\ <<v>> \in Seq(Byte)
  <2> HIDE DEF x, v
  <2> QED BY <1>2, <1>3, Pair
<1>11. \E h, p : Chain(reader, Goal(reader, Line), asked, <<f, g>>, Loop(reader), asked', h, p)
  <2>1. asked \in Seq(Command) /\ asked' = Append(asked, c)
    BY <1>1, <1>4, <1>8 DEF StateType
  <2>2. SignedByte(v) <= MAX_DIRECTION
    OBVIOUS
  <2> HIDE DEF v
  <2>3. \E h, p : Chain("server", Loop("server"), asked, <<U8(CS_MOVE)>> \o <<U8(v)>>,
                        Loop("server"), Append(asked, <<"move", v>>), h, p)
    BY <1>2, <2>1, <2>2, MoveChain
  <2>4. <<f, g>> = <<U8(CS_MOVE)>> \o <<U8(v)>>
    BY <1>9
  <2>5. \E h, p : Chain("server", Loop("server"), asked, <<f, g>>, Loop("server"), asked', h, p)
    <3> HIDE DEF f, g
    <3> QED BY <2>1, <2>3, <2>4
  <2> HIDE DEF f, g
  <2> QED BY <2>5, GoalOfServer
<1>12. \E r : Coded(written \o <<f, g>>, Len(received), InFlight \o <<x, v>>, r)
  <2>1. PICK r : Coded(written, Len(received), InFlight, r)
    BY <1>8 DEF BytesInv
  <2>2. /\ written \in Seq(FieldType) /\ Len(received) \in 0 .. Len(written)
        /\ Len(received) \in Nat /\ Len(written) \in Nat
    BY <1>8 DEF StateType, ReaderInv
  <2> HIDE DEF f, g, x, v
  <2>3. PICK s : Coded(Append(written, f), Len(received), InFlight \o Encode(f), s)
    BY <1>6, <2>1, <2>2, CodedAppend
  <2>4. /\ Append(written, f) \in Seq(FieldType)
        /\ Len(received) \in 0 .. Len(Append(written, f))
    <3>1. Append(written, f) \in Seq(FieldType) /\ Len(Append(written, f)) = Len(written) + 1
      BY <1>6, <2>2, AppendProperties
    <3> QED BY <2>2, <3>1
  <2>5. \E t : Coded(Append(Append(written, f), g), Len(received),
                     (InFlight \o Encode(f)) \o Encode(g), t)
    BY <1>6, <2>3, <2>4, CodedAppend
  <2>6. Append(Append(written, f), g) = written \o <<f, g>>
    <3>1. Append(written, f) = written \o <<f>>
      BY <1>6, <2>2, AppendIsConcat
    <3>2. Append(Append(written, f), g) = (written \o <<f>>) \o <<g>>
      BY <1>6, <2>4, <3>1, AppendIsConcat
    <3>3. <<f>> \in Seq(FieldType) /\ <<g>> \in Seq(FieldType)
      BY <1>6
    <3>4. (written \o <<f>>) \o <<g>> = written \o (<<f>> \o <<g>>)
      BY <2>2, <3>3, ConcatAssociative
    <3> QED BY <1>9, <3>2, <3>4
  <2>7. (InFlight \o Encode(f)) \o Encode(g) = InFlight \o <<x, v>>
    BY <1>6, <1>8, <1>10, InFlightType, BytesConcat
  <2> QED BY <2>5, <2>6, <2>7
<1>13. /\ <<f, g>> # <<>> /\ \A k \in 1 .. Len(<<f, g>>) : Fits(<<f, g>>[k])
  <2> HIDE DEF f, g
  <2>1. \A i \in 1 .. 2 : i = 1 \/ i = 2
    OBVIOUS
  <2> QED BY <1>6, <2>1
<1>14. <<x, v>> \in Seq(Byte)
  BY <1>2, <1>3
<1> HIDE DEF f, g, x, v
<1>15. stream' = stream \o <<x, v>> /\ written' = written \o <<f, g>>
  BY <1>1, <1>5, <1>7
<1> QED BY <1>1, <1>9, <1>11, <1>12, <1>13, <1>14, <1>15, ForwardStep

LEMMA JoinStep ==
  ASSUME WireInv, reader = "server", NEW name \in PlayerNames, send_join(name)
  PROVE  WireInv'
<1> DEFINE f == U8(CS_JOIN)
           g == U8(name.len % ByteMod)
           e == Field(name.len, name.letters)
           c == <<"join", name.letters>>
<1>1. /\ Begin(<<f, g, e>>) /\ asked' = Append(asked, c) /\ pushed' = pushed
  BY DEF send_join
<1>2. name \in NameType /\ name.len < ByteMod /\ Fits(e) /\ name.len \in Nat /\ name.letters \in Nat
  BY ClientInputAssumption DEF NameType
<1>3. CS_JOIN \in Byte /\ name.len % ByteMod \in Byte
  <2>1. ByteMod \in Nat /\ ByteMod > 4
    BY WireAssumption
  <2> QED BY <1>2, <2>1, CommandIds DEF Byte
<1>4. /\ f \in FieldType /\ g \in FieldType /\ e \in FieldType
      /\ Fits(f) /\ Fits(g) /\ Fits(e)
  BY <1>2, <1>3, ByteField, OneField
<1>5. asked \in Seq(Command)
  BY DEF WireInv, StateType
<1>6. \E h, p : Chain(reader, Goal(reader, Line), asked, <<f>> \o (<<g>> \o <<e>>),
                      Loop(reader), asked', h, p)
  <2>1. \E h, p : Chain("server", Loop("server"), asked, <<f>> \o (<<g>> \o <<e>>),
                        Loop("server"), Append(asked, c), h, p)
    BY <1>2, <1>5, JoinChain
  <2> HIDE DEF f, g, e, c
  <2> QED BY <1>1, <2>1, GoalOfServer
<1> HIDE DEF f, g, e
<1>7. <<f>> \o (<<g>> \o <<e>>) = <<f, g, e>>
  BY <1>4, Triple
<1>8. <<f, g, e>> \in Seq(FieldType) /\ <<f, g, e>> # <<>>
  BY <1>4
<1>9. \A k \in 1 .. Len(<<f, g, e>>) : Fits(<<f, g, e>>[k])
  <2>1. \A i \in 1 .. 3 : i = 1 \/ i = 2 \/ i = 3
    OBVIOUS
  <2> QED BY <1>4, <2>1
<1> DEFINE q == <<f, g, e>>
<1>10. /\ q \in Seq(FieldType) /\ q # <<>> /\ \A k \in 1 .. Len(q) : Fits(q[k])
       /\ Begin(q) /\ pushed' = pushed /\ (reader = "client" => asked' = asked)
       /\ \E h, p : Chain(reader, Goal(reader, Line), asked, q, Loop(reader), asked', h, p)
  BY <1>1, <1>6, <1>7, <1>8, <1>9
<1> HIDE DEF q
<1> QED BY <1>10, BeginStep

LEMMA GuiStep ==
  ASSUME WireInv, from_gui_to_server
  PROVE  WireInv'
<1>1. reader = "server" /\ ~open
  BY DEF from_gui_to_server
<1>2. PICK d \in Datagrams :
        /\ validate_gui_message(d)
        /\ (\E name \in PlayerNames : send_join(name)) \/ forward(d)
  BY DEF from_gui_to_server
<1>3. CASE \E name \in PlayerNames : send_join(name)
  BY <1>1, <1>3, JoinStep
<1>4. CASE forward(d)
  <2>1. CASE Len(d) = 1 /\ d[1] \in {GC_PLACE_BOMB, GC_PLACE_BLOCK}
    BY <1>1, <1>4, <2>1, ForwardPlace
  <2>2. CASE Len(d) = 2 /\ d[1] = GC_MOVE /\ SignedByte(d[2]) <= MAX_DIRECTION
    BY <1>1, <1>4, <2>2, ForwardMove
  <2> QED BY <1>2, <2>1, <2>2 DEF validate_gui_message
<1> QED BY <1>2, <1>3, <1>4

LEMMA ServerStep ==
  ASSUME WireInv, send_to_client
  PROVE  WireInv'
<1>1. reader = "client" /\ asked' = asked /\ pushed' = pushed
  BY DEF send_to_client
<1>2. PICK m \in IF written = <<>> THEN {Hello} ELSE Messages : Begin(Layout(m))
  BY DEF send_to_client
<1> DEFINE q == Layout(m)
           r == IF written = <<>> THEN HelloRead ELSE <<Read(1, "message")>>
<1>3. StateType /\ WriterInv /\ ReaderInv
  BY DEF WireInv
<1>4. asked = <<>>
  BY <1>1, <1>3 DEF ReaderInv
<1>5. Line = written
  <2>1. unwritten = <<>>
    BY <1>2, <1>3 DEF WriterInv, Begin
  <2> QED BY <1>3, <2>1, ConcatEmptySeq DEF Line, StateType
<1>6. Goal(reader, Line) = r
  BY <1>1, <1>5 DEF Goal, Start, Loop
<1>7. Parses(r, q) /\ Plain(r) /\ r # <<>> /\ q \in Seq(FieldType)
  <2>1. CASE written = <<>>
    <3>1. m = Hello /\ m \in HelloType
      BY <2>1, MessageAssumption
    <3> QED BY <2>1, <3>1, ParsesHello, HelloPlain
  <2>2. CASE written # <<>>
    <3>1. m \in MessageType
      BY <2>2, MessageAssumption
    <3>2. Loop("client") = <<Read(1, "message")>>
      BY DEF Loop
    <3> QED BY <2>2, <3>1, <3>2, ParsesMessage, LoopIs
  <2> QED BY <2>1, <2>2
<1>8. \A k \in 1 .. Len(q) : Fits(q[k])
  <2>1. m \in Messages \cup {Hello}
    OBVIOUS
  <2>2. \A k \in DOMAIN Layout(m) : Fits(Layout(m)[k])
    BY <2>1, MessageAssumption
  <2> QED BY <1>7, <2>2
<1>9. Begin(q)
  BY <1>2
<1> HIDE DEF q, r
<1>10. Reading(r, q, <<>>)
  <2>1. r \o <<>> = r
    BY <1>7, ConcatEmptySeq DEF Plain
  <2> QED BY <1>7, <2>1, PlainEmpty DEF Parses
<1>11. q # <<>>
  BY <1>7, <1>10, ReadingSome
<1>12. \E h, p : Chain("client", r, <<>>, q, Loop("client"), <<>>, h, p)
  BY <1>7, <1>10, <1>11, ClientChain
<1>13. \E h, p : Chain(reader, Goal(reader, Line), asked, q, Loop(reader), asked', h, p)
  BY <1>1, <1>4, <1>6, <1>12
<1> QED BY <1>1, <1>7, <1>8, <1>9, <1>11, <1>13, BeginStep

-----------------------------------------------------------------------------
(* Bytes on their way *)

LEMMA HeadThenTail ==
  ASSUME NEW s \in Seq(FieldType), s # <<>>
  PROVE  <<Head(s)>> \o Tail(s) = s
<1>1. Len(s) \in Nat /\ Len(s) # 0 /\ 1 \in 1 .. Len(s) /\ Len(s) \in 1 .. Len(s)
  BY EmptySeq
<1>2. SubSeq(s, 1, Len(s)) = <<s[1]>> \o SubSeq(s, 1 + 1, Len(s))
  BY <1>1, SubSeqRecursiveFirst
<1>3. Tail(s) = SubSeq(s, 2, Len(s)) /\ SubSeq(s, 1, Len(s)) = s
  BY TailIsSubSeq, SubSeqFull
<1>4. Head(s) = s[1] /\ 1 + 1 = 2
  BY <1>1
<1> QED BY <1>2, <1>3, <1>4

\* What does not change the fields begun leaves the reading as it stands.
LEMMA ParseStays ==
  ASSUME ParseInv, Line' = Line, UNCHANGED <<reader, received, expected, thrown, asked, pushed>>
  PROVE  ParseInv'
<1>1. PICK h, p :
        /\ Chain(reader, Start(reader), <<>>, Line, Goal(reader, Line), asked, h, p)
        /\ Stands(h, p)
  BY DEF ParseInv
<1>2. Chain(reader', Start(reader'), <<>>, Line', Goal(reader', Line'), asked', h, p)
  BY <1>1
<1>3. Stands(h, p)'
  BY <1>1 DEF Stands
<1> QED BY <1>2, <1>3 DEF ParseInv

LEMMA WriteStep ==
  ASSUME WireInv, write, UNCHANGED <<asked, pushed>>
  PROVE  WireInv'
<1> DEFINE f == Head(unwritten)
           e == Encode(f)
           sent == prepare_buf(f.size).sent
           kept == prepare_buf(f.size).kept
<1>1. /\ open /\ unwritten # <<>> /\ unwritten' = Tail(unwritten)
      /\ data' = kept \o e /\ stream' = stream \o sent /\ written' = Append(written, f)
      /\ UNCHANGED <<open, reader, buf, field, expected, received, thrown>>
  BY DEF write, readerVars
<1>2. StateType /\ WriterInv /\ ReaderInv /\ BytesInv /\ ParseInv
  BY DEF WireInv
<1>3. /\ unwritten \in Seq(FieldType) /\ written \in Seq(FieldType) /\ data \in Seq(Byte)
      /\ field \in Seq(Byte) /\ buf \in Seq(Byte) /\ stream \in Seq(Byte)
  BY <1>2 DEF StateType
<1>4. f \in FieldType /\ Tail(unwritten) \in Seq(FieldType)
      /\ Len(Tail(unwritten)) = Len(unwritten) - 1
      /\ \A i \in 1 .. Len(Tail(unwritten)) : Tail(unwritten)[i] = unwritten[i + 1]
  BY <1>1, <1>3, HeadTailProperties
<1>5. e \in Seq(Byte) /\ Len(e) = f.size
  BY <1>4, EncodeIs
<1>6. sent \in Seq(Byte) /\ kept \in Seq(Byte) /\ sent \o kept = data
  <2>1. (sent = data /\ kept = <<>>) \/ (sent = <<>> /\ kept = data)
    BY DEF prepare_buf
  <2> HIDE DEF sent, kept
  <2>2. <<>> \in Seq(Byte) /\ data \o <<>> = data /\ <<>> \o data = data
    BY <1>3, EmptySeq, ConcatEmptySeq
  <2> QED BY <1>3, <2>1, <2>2
<1>7. unwritten[1] = f /\ Len(unwritten) \in Nat /\ Len(unwritten) # 0
  BY <1>1, <1>3
<1> HIDE DEF f, e, sent, kept
<1>8. /\ written' \in Seq(FieldType) /\ Len(written') = Len(written) + 1
      /\ written' = written \o <<f>> /\ <<f>> \in Seq(FieldType)
      /\ \A i \in 1 .. Len(written) : written'[i] = written[i]
  BY <1>1, <1>3, <1>4, AppendProperties, AppendIsConcat
<1>9. Line' = Line
  <2>1. (written \o <<f>>) \o Tail(unwritten) = written \o (<<f>> \o Tail(unwritten))
    BY <1>3, <1>4, <1>8, ConcatAssociative, SMTT(40)
  <2>2. <<f>> \o Tail(unwritten) = unwritten
    BY <1>1, <1>3, HeadThenTail DEF f
  <2> QED BY <1>1, <1>8, <2>1, <2>2 DEF Line
<1>10. ParseInv'
  BY <1>1, <1>2, <1>9, ParseStays
<1>11. data' \in Seq(Byte) /\ Len(data') = Len(kept) + Len(e) /\ Len(kept) \in Nat /\ Len(e) \in Nat
  BY <1>1, <1>5, <1>6, ConcatProperties
<1>12. StateType'
  <2>1. stream \o sent \in Seq(Byte)
    BY <1>3, <1>6, ConcatProperties
  <2> QED BY <1>1, <1>2, <1>4, <1>8, <1>11, <2>1 DEF StateType
<1>13. WriterInv'
  <2>1. ASSUME NEW k \in 1 .. Len(unwritten'), unwritten'[k].size = 0
        PROVE  IF k = 1 THEN data' # <<>> ELSE unwritten'[k - 1].size # 0
    <3> DEFINE j == k + 1
    <3>1. j \in 1 .. Len(unwritten) /\ j # 1 /\ j - 1 = k /\ k \in 1 .. Len(Tail(unwritten))
      BY <1>1, <1>4, <1>7
    <3>2. unwritten'[k] = unwritten[j]
      BY <1>1, <1>4, <3>1
    <3> HIDE DEF j
    <3>3. unwritten[j - 1].size # 0
      BY <1>2, <2>1, <3>1, <3>2 DEF WriterInv
    <3>4. unwritten[k].size # 0
      BY <3>1, <3>3
    <3>5. CASE k = 1
      <4>1. f.size # 0
        BY <1>7, <3>4, <3>5
      <4>2. Len(data') # 0
        BY <1>5, <1>11, <4>1
      <4> QED BY <1>11, <3>5, <4>2, EmptySeq
    <3>6. CASE k # 1
      <4> DEFINE i == k - 1
      <4>1. i \in 1 .. Len(Tail(unwritten)) /\ i + 1 = k
        BY <1>4, <1>7, <3>1, <3>6
      <4> HIDE DEF i
      <4>2. Tail(unwritten)[i] = unwritten[k]
        BY <1>4, <4>1
      <4>3. unwritten'[i].size # 0
        BY <1>1, <3>4, <4>2
      <4> QED BY <3>6, <4>3 DEF i
    <3> QED BY <3>5, <3>6
  <2> QED BY <1>1, <1>2, <1>9, <2>1 DEF WriterInv
<1>14. Len(received) \in Nat /\ Len(written) \in Nat /\ Len(received) <= Len(written)
  BY <1>2 DEF StateType, ReaderInv
<1>15. ReaderInv'
  <2>1. Len(received) <= Len(written')
    BY <1>8, <1>14
  <2>2. \A k \in 1 .. Len(received) : received[k] = written'[k]
    <3>1. \A k \in 1 .. Len(received) : k \in 1 .. Len(written) /\ received[k] = written[k]
      BY <1>2, <1>14 DEF ReaderInv
    <3> QED BY <1>8, <3>1
  <2> QED BY <1>1, <1>2, <2>1, <2>2 DEF ReaderInv
<1>16. BytesInv'
  <2>1. PICK r : Coded(written, Len(received), InFlight, r)
    BY <1>2 DEF BytesInv
  <2>2. Len(received) \in 0 .. Len(written)
    BY <1>14
  <2>3. \E s : Coded(Append(written, f), Len(received), InFlight \o e, s)
    BY <1>3, <1>4, <2>1, <2>2, CodedAppend DEF e
  <2>4. InFlight' = InFlight \o e
    <3>1. InFlight = field \o (buf \o (stream \o data))
      BY <1>1 DEF InFlight
    <3>2. InFlight' = field \o (buf \o ((stream \o sent) \o (kept \o e)))
      BY <1>1 DEF InFlight
    <3>3. kept \o e \in Seq(Byte) /\ stream \o data \in Seq(Byte)
      BY <1>3, <1>5, <1>6, ConcatProperties
    <3>4. (stream \o sent) \o (kept \o e) = stream \o (sent \o (kept \o e))
      <4> DEFINE z == kept \o e
      <4>1. stream \in Seq(Byte) /\ sent \in Seq(Byte) /\ z \in Seq(Byte)
        BY <1>3, <1>6, <3>3
      <4> HIDE DEF z
      <4>2. (stream \o sent) \o z = stream \o (sent \o z)
        BY <4>1, BytesConcat
      <4> QED BY <4>2 DEF z
    <3>5. sent \o (kept \o e) = data \o e
      <4>1. sent \in Seq(Byte) /\ kept \in Seq(Byte) /\ e \in Seq(Byte)
        BY <1>5, <1>6
      <4>2. (sent \o kept) \o e = sent \o (kept \o e)
        BY <4>1, BytesConcat
      <4> QED BY <1>6, <4>2
    <3>6. stream \o (data \o e) = (stream \o data) \o e
      <4>1. stream \in Seq(Byte) /\ data \in Seq(Byte) /\ e \in Seq(Byte)
        BY <1>3, <1>5
      <4> QED BY <4>1, BytesConcat
    <3>7. buf \o ((stream \o data) \o e) = (buf \o (stream \o data)) \o e
      <4> DEFINE y == stream \o data
      <4>1. buf \in Seq(Byte) /\ y \in Seq(Byte) /\ e \in Seq(Byte)
        BY <1>3, <1>5, <3>3
      <4> HIDE DEF y
      <4>2. (buf \o y) \o e = buf \o (y \o e)
        BY <4>1, BytesConcat
      <4> QED BY <4>2 DEF y
    <3>8. buf \o (stream \o data) \in Seq(Byte)
      BY <1>3, <3>3, ConcatProperties
    <3>9. field \o ((buf \o (stream \o data)) \o e) = (field \o (buf \o (stream \o data))) \o e
      <4> DEFINE x == buf \o (stream \o data)
      <4>1. field \in Seq(Byte) /\ x \in Seq(Byte) /\ e \in Seq(Byte)
        BY <1>3, <1>5, <3>8
      <4> HIDE DEF x
      <4>2. (field \o x) \o e = field \o (x \o e)
        BY <4>1, BytesConcat
      <4> QED BY <4>2 DEF x
    <3> QED BY <3>1, <3>2, <3>4, <3>5, <3>6, <3>7, <3>9
  <2> QED BY <1>1, <2>3, <2>4 DEF BytesInv
<1> QED BY <1>10, <1>12, <1>13, <1>15, <1>16 DEF WireInv

\* Bytes that only move: everything else stands.
LEMMA FlightMoves ==
  ASSUME WireInv, UNCHANGED <<reader, unwritten, written, data, expected, received, thrown,
                              asked, pushed>>,
         open' \in BOOLEAN, ~open' => unwritten = <<>>,
         stream' \in Seq(Byte), buf' \in Seq(Byte), field' \in Seq(Byte),
         ~thrown => Len(field') <= Head(expected).size, InFlight' = InFlight
  PROVE  WireInv'
<1>1. StateType /\ WriterInv /\ ReaderInv /\ BytesInv /\ ParseInv
  BY DEF WireInv
<1>2. Line' = Line
  BY DEF Line
<1>3. ParseInv'
  BY <1>1, <1>2, ParseStays
<1>4. StateType'
  BY <1>1 DEF StateType
<1>5. WriterInv'
  BY <1>1, <1>2 DEF WriterInv
<1>6. ReaderInv'
  BY <1>1 DEF ReaderInv
<1>7. BytesInv'
  BY <1>1 DEF BytesInv
<1> QED BY <1>3, <1>4, <1>5, <1>6, <1>7 DEF WireInv

LEMMA SendStep ==
  ASSUME WireInv, send, UNCHANGED <<asked, pushed>>
  PROVE  WireInv'
<1>1. /\ open /\ unwritten = <<>> /\ stream' = stream \o data /\ open' = FALSE
      /\ UNCHANGED <<unwritten, data, written, reader, buf, field, expected, received, thrown>>
  BY DEF send, readerVars
<1>2. StateType /\ ReaderInv
  BY DEF WireInv
<1>3. stream \o data \in Seq(Byte)
  BY <1>2, ConcatProperties DEF StateType
<1>4. InFlight' = InFlight
  <2>1. InFlight = field \o (buf \o (stream \o data))
    BY <1>1 DEF InFlight
  <2>2. InFlight' = field \o (buf \o ((stream \o data) \o <<>>))
    BY <1>1 DEF InFlight
  <2> QED BY <1>3, <2>1, <2>2, ConcatEmptySeq
<1>5. /\ stream' \in Seq(Byte) /\ buf' \in Seq(Byte) /\ field' \in Seq(Byte)
      /\ open' \in BOOLEAN /\ (~thrown => Len(field') <= Head(expected).size)
  BY <1>1, <1>2, <1>3 DEF StateType, ReaderInv
<1> QED BY <1>1, <1>4, <1>5, FlightMoves

LEMMA ReadSomeStep ==
  ASSUME WireInv, read_some, UNCHANGED <<asked, pushed>>
  PROVE  WireInv'
<1>1. /\ buf = <<>>
      /\ UNCHANGED <<reader, unwritten, open, data, written, field, expected, received, thrown>>
  BY DEF read_some, writerVars
<1>2. PICK n \in 1 .. Len(stream) :
        buf' = SubSeq(stream, 1, n) /\ stream' = SubSeq(stream, n + 1, Len(stream))
  BY DEF read_some
<1>3. StateType /\ ReaderInv /\ WriterInv
  BY DEF WireInv
<1>4. stream \in Seq(Byte) /\ n \in 0 .. Len(stream)
  BY <1>3 DEF StateType
<1>5. buf' \in Seq(Byte) /\ stream' \in Seq(Byte) /\ buf' \o stream' = stream
  BY <1>2, <1>4, Parts
<1>6. InFlight' = InFlight
  <2> DEFINE d == IF open THEN data ELSE <<>>
             b == buf'
             s == stream'
  <2>1. d \in Seq(Byte)
    BY <1>3, EmptySeq DEF StateType
  <2>2. b \in Seq(Byte) /\ s \in Seq(Byte) /\ b \o s = stream
    BY <1>5
  <2>3. InFlight = field \o (<<>> \o (stream \o d))
    BY <1>1 DEF InFlight
  <2>4. InFlight' = field \o (b \o (s \o d))
    BY <1>1 DEF InFlight
  <2> HIDE DEF d, b, s
  <2>5. stream \o d \in Seq(Byte)
    BY <1>4, <2>1, ConcatProperties
  <2>6. <<>> \o (stream \o d) = stream \o d
    BY <2>5, ConcatEmptySeq
  <2>7. (b \o s) \o d = b \o (s \o d)
    BY <2>1, <2>2, BytesConcat
  <2> QED BY <2>2, <2>3, <2>4, <2>6, <2>7
<1>7. /\ field' \in Seq(Byte) /\ open' \in BOOLEAN /\ (~open' => unwritten = <<>>)
      /\ (~thrown => Len(field') <= Head(expected).size)
  BY <1>1, <1>3 DEF StateType, ReaderInv, WriterInv
<1> QED BY <1>1, <1>5, <1>6, <1>7, FlightMoves

-----------------------------------------------------------------------------
(* Bytes that are read *)

LEMMA ExpectedIs ==
  ASSUME StateType, ReaderInv, ParseInv, ~thrown
  PROVE  /\ expected \in Seq(ReadType) /\ expected # <<>>
         /\ Head(expected).size \in Nat /\ Head(expected).as \in Kinds
<1>1. PICK h, p :
        /\ Chain(reader, Start(reader), <<>>, Line, Goal(reader, Line), asked, h, p)
        /\ Stands(h, p)
  BY DEF ParseInv
<1>2. Len(received) \in 0 .. Len(Line)
  BY LineIs DEF StateType, ReaderInv
<1>3. Stack(expected) /\ expected # <<>>
  BY <1>1, <1>2 DEF Stands, Chain
<1>4. expected \in Seq(ReadType)
  BY <1>3 DEF Stack
<1>5. Head(expected) \in ReadType
  BY <1>3, <1>4, HeadTailProperties
<1> QED BY <1>3, <1>4, <1>5 DEF ReadType

\* A field that takes bytes from the buffer.
LEMMA FieldGrows ==
  ASSUME StateType, NEW n \in 0 .. Len(buf)
  PROVE  /\ field \o SubSeq(buf, 1, n) \in Seq(Byte)
         /\ SubSeq(buf, n + 1, Len(buf)) \in Seq(Byte)
         /\ Len(field \o SubSeq(buf, 1, n)) = Len(field) + n
         /\ \A d \in Seq(Byte) :
              (field \o SubSeq(buf, 1, n)) \o (SubSeq(buf, n + 1, Len(buf)) \o d) =
                field \o (buf \o d)
<1> DEFINE a == SubSeq(buf, 1, n)
           b == SubSeq(buf, n + 1, Len(buf))
<1>1. field \in Seq(Byte) /\ buf \in Seq(Byte)
  BY DEF StateType
<1>2. a \in Seq(Byte) /\ b \in Seq(Byte) /\ Len(a) = n /\ a \o b = buf
  BY <1>1, Parts
<1> HIDE DEF a, b
<1>3. field \o a \in Seq(Byte) /\ Len(field \o a) = Len(field) + n
  BY <1>1, <1>2, ConcatProperties
<1>4. ASSUME NEW d \in Seq(Byte)
      PROVE  (field \o a) \o (b \o d) = field \o (buf \o d)
  <2> DEFINE c == b \o d
  <2>1. c \in Seq(Byte) /\ field \in Seq(Byte) /\ a \in Seq(Byte)
    BY <1>1, <1>2, ConcatProperties
  <2>2. (a \o b) \o d = a \o (b \o d)
    BY <1>2, BytesConcat
  <2> HIDE DEF c
  <2>3. (field \o a) \o c = field \o (a \o c)
    BY <2>1, BytesConcat, SMTT(40)
  <2>4. a \o c = buf \o d
    BY <1>2, <2>2 DEF c
  <2> QED BY <2>3, <2>4 DEF c
<1> QED BY <1>2, <1>3, <1>4 DEF a, b

LEMMA PrepareStep ==
  ASSUME WireInv, prepare_field, UNCHANGED <<asked, pushed>>
  PROVE  WireInv'
<1> DEFINE lacking == Head(expected).size - Len(field)
           n == IF lacking < Len(buf) THEN lacking ELSE Len(buf)
<1>1. /\ ~thrown /\ Len(field) # Head(expected).size
      /\ field' = field \o SubSeq(buf, 1, n) /\ buf' = SubSeq(buf, n + 1, Len(buf))
      /\ UNCHANGED <<reader, unwritten, open, data, written, stream, expected, received, thrown>>
  BY DEF prepare_field, Complete, writerVars
<1>2. StateType /\ ReaderInv /\ WriterInv /\ ParseInv
  BY DEF WireInv
<1>3. Head(expected).size \in Nat
  BY <1>1, <1>2, ExpectedIs
<1>4. Len(field) \in Nat /\ Len(buf) \in Nat /\ Len(field) <= Head(expected).size
  BY <1>1, <1>2, SMTT(40) DEF StateType, ReaderInv
<1>5. n \in 0 .. Len(buf) /\ Len(field) + n <= Head(expected).size
  BY <1>1, <1>3, <1>4, SMTT(40)
<1> HIDE DEF n
<1>6. /\ field' \in Seq(Byte) /\ buf' \in Seq(Byte) /\ Len(field') = Len(field) + n
      /\ \A d \in Seq(Byte) : field' \o (buf' \o d) = field \o (buf \o d)
  BY <1>1, <1>2, <1>5, FieldGrows
<1>7. InFlight' = InFlight
  <2> DEFINE d == stream \o (IF open THEN data ELSE <<>>)
  <2>1. d \in Seq(Byte)
    <3> DEFINE e == IF open THEN data ELSE <<>>
    <3>1. e \in Seq(Byte) /\ stream \in Seq(Byte)
      BY <1>2, EmptySeq DEF StateType
    <3> HIDE DEF e
    <3>2. stream \o e \in Seq(Byte)
      BY <3>1, ConcatProperties
    <3> QED BY <3>2 DEF e
  <2>2. InFlight = field \o (buf \o d)
    BY DEF InFlight
  <2>3. InFlight' = field' \o (buf' \o d)
    BY <1>1 DEF InFlight
  <2> HIDE DEF d
  <2> QED BY <1>6, <2>1, <2>2, <2>3
<1>8. /\ stream' \in Seq(Byte) /\ open' \in BOOLEAN /\ (~open' => unwritten = <<>>)
      /\ (~thrown => Len(field') <= Head(expected).size)
  BY <1>1, <1>2, <1>5, <1>6 DEF StateType, WriterInv
<1> QED BY <1>1, <1>6, <1>7, <1>8, FlightMoves

\* The bytes in flight behind the field that is read.
Behind == buf \o (stream \o (IF open THEN data ELSE <<>>))

LEMMA BehindType ==
  ASSUME StateType
  PROVE  /\ Behind \in Seq(Byte) /\ InFlight = field \o Behind
         /\ InFlight = <<>> => field = <<>> /\ (open => data = <<>>)
<1> DEFINE d == IF open THEN data ELSE <<>>
           s == stream \o d
           b == buf \o s
<1>1. field \in Seq(Byte) /\ buf \in Seq(Byte) /\ stream \in Seq(Byte) /\ d \in Seq(Byte)
  BY EmptySeq DEF StateType
<1>2. open => data = d
  OBVIOUS
<1>3. Behind = b /\ InFlight = field \o b
  BY DEF Behind, InFlight
<1> HIDE DEF d
<1>4. s \in Seq(Byte) /\ Len(s) = Len(stream) + Len(d)
  BY <1>1, ConcatProperties
<1> HIDE DEF s
<1>5. b \in Seq(Byte) /\ Len(b) = Len(buf) + Len(s)
  BY <1>1, <1>4, ConcatProperties
<1> HIDE DEF b
<1>6. Len(field \o b) = Len(field) + Len(b)
  BY <1>1, <1>5, ConcatProperties
<1>7. ASSUME InFlight = <<>> PROVE field = <<>> /\ d = <<>>
  <2>1. Len(field \o b) = 0
    BY <1>3, <1>7
  <2>2. /\ Len(field) \in Nat /\ Len(buf) \in Nat /\ Len(stream) \in Nat /\ Len(d) \in Nat
    BY <1>1
  <2>3. Len(field) = 0 /\ Len(d) = 0
    BY <1>4, <1>5, <1>6, <2>1, <2>2
  <2> QED BY <1>1, <2>3, EmptySeq
<1> QED BY <1>2, <1>3, <1>5, <1>7

\* A field is never found complete before it is written: what comes next takes
\* at least a byte, or its bytes follow others that are on their way.
LEMMA WrittenBefore ==
  ASSUME WireInv, ~thrown, Complete
  PROVE  Len(received) < Len(written)
<1> DEFINE n == Len(received)
           m == n + 1
<1>1. StateType /\ WriterInv /\ ReaderInv /\ BytesInv /\ ParseInv
  BY DEF WireInv
<1>2. n \in Nat /\ Len(written) \in Nat /\ Len(unwritten) \in Nat /\ n <= Len(written)
  BY <1>1 DEF StateType, ReaderInv
<1> SUFFICES ASSUME n = Len(written) PROVE FALSE
  BY <1>2
<1>3. InFlight = <<>>
  <2>1. PICK r : Coded(written, n, InFlight, r)
    BY <1>1 DEF BytesInv
  <2> QED BY <2>1 DEF Coded
<1>4. field = <<>> /\ (open => data = <<>>)
  BY <1>1, <1>3, BehindType
<1>5. Head(expected).size = 0
  BY <1>4 DEF Complete
<1>6. PICK h, p :
        /\ Chain(reader, Start(reader), <<>>, Line, Goal(reader, Line), asked, h, p)
        /\ Stands(h, p)
  BY <1>1 DEF ParseInv
<1>7. expected = h[n]
  BY <1>6 DEF Stands
<1>8. /\ Len(Line) = Len(written) + Len(unwritten)
      /\ \A k \in 1 .. Len(unwritten) : Line[Len(written) + k] = unwritten[k]
  BY <1>1, LineIs
<1>9. CASE unwritten = <<>>
  <2>1. Len(Line) = n
    BY <1>2, <1>8, <1>9
  <2>2. expected = Goal(reader, Line)
    BY <1>6, <1>7, <2>1 DEF Chain
  <2>3. Plain(expected) /\ expected # <<>>
    BY <2>2, StartIs
  <2>4. expected \in Seq(ReadType)
    BY <2>3 DEF Plain
  <2>5. 1 \in 1 .. Len(expected) /\ Head(expected) = expected[1]
    BY <2>3, <2>4, EmptySeq
  <2> QED BY <1>5, <2>3, <2>5 DEF Plain
<1>10. CASE unwritten # <<>>
  <2>1. 1 \in 1 .. Len(unwritten)
    BY <1>1, <1>10, EmptySeq DEF StateType
  <2>2. m \in 1 .. Len(Line) /\ m - 1 = n
    BY <1>2, <1>8, <2>1
  <2>3. Line[m] = unwritten[1]
    BY <1>8, <2>1
  <2> HIDE DEF m
  <2>4. Step(reader, h[m - 1], Line[m], h[m])
    BY <1>6, <2>2 DEF Chain
  <2>5. unwritten[1].size = 0
    BY <1>5, <1>7, <2>2, <2>3, <2>4 DEF Step
  <2>6. data # <<>>
    BY <1>1, <2>1, <2>5 DEF WriterInv
  <2>7. open
    BY <1>1, <1>10 DEF WriterInv, StateType
  <2> QED BY <1>4, <2>6, <2>7
<1> QED BY <1>9, <1>10

\* The complete field is the next one of those written.
LEMMA FieldIs ==
  ASSUME WireInv, ~thrown, Complete
  PROVE  LET m == Len(received) + 1
             f == written[m]
         IN /\ m \in 1 .. Len(written) /\ f \in FieldType /\ Line[m] = f
            /\ Len(field) = f.size /\ Decode(field) = f.value
            /\ \E r : Coded(written, m, Behind, r)
<1> DEFINE n == Len(received)
           m == n + 1
           f == written[m]
<1>1. StateType /\ WriterInv /\ ReaderInv /\ BytesInv /\ ParseInv
  BY DEF WireInv
<1>2. n \in Nat /\ Len(written) \in Nat /\ Len(unwritten) \in Nat /\ n < Len(written)
  BY <1>1, WrittenBefore DEF StateType
<1>3. m \in 1 .. Len(written) /\ m - 1 = n
  BY <1>2
<1> HIDE DEF m
<1>4. f \in FieldType
  BY <1>1, <1>3 DEF StateType
<1>5. Line[m] = f /\ m \in 1 .. Len(Line)
  <2>1. /\ Len(Line) = Len(written) + Len(unwritten)
        /\ \A k \in 1 .. Len(written) : Line[k] = written[k]
    BY <1>1, LineIs
  <2>2. Line[m] = written[m]
    BY <1>3, <2>1
  <2>3. m \in 1 .. Len(Line)
    BY <1>2, <1>3, <2>1
  <2> QED BY <2>2, <2>3
<1>6. PICK h, p :
        /\ Chain(reader, Start(reader), <<>>, Line, Goal(reader, Line), asked, h, p)
        /\ Stands(h, p)
  BY <1>1 DEF ParseInv
<1>7. expected = h[m - 1] /\ Step(reader, h[m - 1], Line[m], h[m])
  <2>1. expected = h[n]
    BY <1>6 DEF Stands
  <2>2. \A k \in 1 .. Len(Line) : Step(reader, h[k - 1], Line[k], h[k])
    BY <1>6 DEF Chain
  <2>3. m \in 1 .. Len(Line)
    BY <1>5
  <2>4. Step(reader, h[m - 1], Line[m], h[m])
    BY <2>2, <2>3
  <2>5. h[m - 1] = h[n]
    BY <1>3
  <2> QED BY <2>1, <2>4, <2>5
<1>8. Len(field) = f.size
  BY <1>5, <1>7 DEF Step, Complete
<1>9. PICK r : Coded(written, n, InFlight, r)
  BY <1>1 DEF BytesInv
<1>10. /\ r[n] = InFlight /\ r[Len(written)] = <<>>
       /\ \A k \in 0 .. Len(written) : r[k] \in Seq(Byte)
       /\ \A k \in 1 .. Len(written) : r[k - 1] = Encode(written[k]) \o r[k]
  BY <1>9 DEF Coded
<1>11. r[m] \in Seq(Byte) /\ InFlight = Encode(f) \o r[m]
  <2>1. m \in 0 .. Len(written)
    BY <1>2, <1>3
  <2>2. r[m] \in Seq(Byte)
    BY <1>10, <2>1
  <2>3. r[m - 1] = Encode(written[m]) \o r[m]
    BY <1>3, <1>10
  <2>4. r[m - 1] = InFlight
    BY <1>3, <1>10
  <2> QED BY <2>2, <2>3, <2>4
<1> HIDE DEF f
<1> DEFINE e == Encode(f)
           x == r[m]
<1>12. e \in Seq(Byte) /\ Len(e) = f.size
  BY <1>4, EncodeIs
<1>13. field \in Seq(Byte) /\ Behind \in Seq(Byte) /\ InFlight = field \o Behind
  BY <1>1, BehindType DEF StateType
<1>14. x \in Seq(Byte) /\ field \o Behind = e \o x /\ Len(field) = Len(e)
  BY <1>8, <1>11, <1>12, <1>13
<1> HIDE DEF e, x
<1>15. field = e /\ Behind = x
  BY <1>12, <1>13, <1>14, SameParts
<1>16. Fits(f)
  BY <1>1, <1>5 DEF WriterInv
<1>17. Decode(field) = f.value
  BY <1>4, <1>15, <1>16, RoundTrip DEF e
<1>18. Coded(written, m, Behind, r)
  BY <1>10, <1>15 DEF Coded, x
<1> QED BY <1>3, <1>4, <1>5, <1>8, <1>17, <1>18 DEF f, m

LEMMA StackHead ==
  ASSUME NEW s, Stack(s), s # <<>>
  PROVE  Head(s).size \in Nat
<1>1. s \in Seq(ReadType)
  BY DEF Stack
<1>2. Head(s) \in ReadType
  BY <1>1, HeadTailProperties
<1> QED BY <1>2 DEF ReadType

\* A field that is read, and what the server's receiver pushes with it.
LEMMA ReadStep ==
  ASSUME WireInv, read, asked' = asked,
         reader = "client" => pushed' = pushed,
         reader = "server" =>
           pushed' = IF thrown' THEN pushed
                     ELSE pushed \o Pushed(Head(expected).as, Decode(field))
  PROVE  WireInv'
<1> DEFINE n == Len(received)
           m == n + 1
           f == written[m]
           value == Decode(field)
           as == Head(expected).as
           rest == Follow(as, value) \o Tail(expected)
<1>1. /\ ~thrown /\ Complete
      /\ received' = Append(received, Field(Len(field), value))
      /\ thrown' = Rejected(as, value)
      /\ expected' = IF rest = <<>> THEN LoopRead ELSE rest
      /\ field' = <<>>
      /\ UNCHANGED <<reader, unwritten, open, data, written, stream, buf>>
  BY DEF read, writerVars
<1>2. StateType /\ WriterInv /\ ReaderInv /\ ParseInv
  BY DEF WireInv
<1>3. /\ m \in 1 .. Len(written) /\ f \in FieldType /\ Line[m] = f
      /\ Len(field) = f.size /\ value = f.value
      /\ \E r : Coded(written, m, Behind, r)
  BY <1>1, FieldIs
<1>4. n \in Nat /\ m - 1 = n /\ m \in Nat /\ m # 0
  BY <1>2 DEF StateType
<1> HIDE DEF m
<1>5. Field(Len(field), value) = f
  BY <1>3 DEF Field, FieldType
<1> HIDE DEF value
<1>6. /\ received' \in Seq(FieldType) /\ Len(received') = m
      /\ \A k \in 1 .. n : received'[k] = received[k]
      /\ received'[m] = f
  <2>1. received' = Append(received, f) /\ received \in Seq(FieldType)
    BY <1>1, <1>2, <1>5 DEF StateType
  <2>2. m = n + 1
    BY DEF m
  <2> HIDE DEF f
  <2> QED BY <1>3, <2>1, <2>2, AppendProperties
<1>7. Line' = Line
  BY <1>1 DEF Line
<1>8. m \in 1 .. Len(Line)
  <2>1. Len(Line) = Len(written) + Len(unwritten) /\ Len(written) \in Nat /\ Len(unwritten) \in Nat
    BY <1>2, LineIs
  <2> QED BY <1>3, <2>1
<1>9. PICK h, p :
        /\ Chain(reader, Start(reader), <<>>, Line, Goal(reader, Line), asked, h, p)
        /\ Stands(h, p)
  BY <1>2 DEF ParseInv
<1>10. expected = h[n] /\ pushed = p[n]
  BY <1>1, <1>9 DEF Stands
<1>11. /\ Stack(h[m]) /\ h[m] # <<>> /\ p[m] \in Seq(Command) /\ p[n] \in Seq(Command)
       /\ Step(reader, h[n], Line[m], h[m])
       /\ p[m] = p[n] \o Given(reader, Head(h[n]).as, Line[m].value)
  <2>1. /\ \A k \in 0 .. Len(Line) : Stack(h[k]) /\ h[k] # <<>> /\ p[k] \in Seq(Command)
        /\ \A k \in 1 .. Len(Line) :
             /\ Step(reader, h[k - 1], Line[k], h[k])
             /\ p[k] = p[k - 1] \o Given(reader, Head(h[k - 1]).as, Line[k].value)
    BY <1>9 DEF Chain
  <2>2. m \in 0 .. Len(Line) /\ n \in 0 .. Len(Line)
    BY <1>4, <1>8
  <2>3. /\ Step(reader, h[m - 1], Line[m], h[m])
        /\ p[m] = p[m - 1] \o Given(reader, Head(h[m - 1]).as, Line[m].value)
    BY <1>8, <2>1
  <2>4. Stack(h[m]) /\ h[m] # <<>> /\ p[m] \in Seq(Command) /\ p[n] \in Seq(Command)
    BY <2>1, <2>2
  <2> QED BY <1>4, <2>3, <2>4
<1>12. expected' = h[m]
  <2>1. h[m] = Refilled(reader, Follow(as, value) \o Tail(expected))
    BY <1>3, <1>10, <1>11 DEF Step
  <2> QED BY <1>1, <2>1, LoopReadIs DEF Refilled
<1>13. p[m] = pushed \o Given(reader, as, value)
  BY <1>3, <1>10, <1>11
<1>14. ASSUME ~thrown' PROVE pushed' = p[m]
  <2>1. CASE reader = "server"
    BY <1>13, <1>14, <2>1 DEF Given, value
  <2>2. CASE reader = "client"
    <3>1. Given(reader, as, value) = <<>>
      BY <2>2 DEF Given
    <3>2. pushed \o <<>> = pushed
      BY <1>10, <1>11, ConcatEmptySeq
    <3> QED BY <1>13, <2>2, <3>1, <3>2
  <2> QED BY <1>2, <2>1, <2>2 DEF StateType
<1>15. ASSUME thrown' PROVE pushed' = p[n]
  BY <1>2, <1>10, <1>15 DEF StateType
<1>16. thrown' \in BOOLEAN
  BY <1>1 DEF Rejected
<1>17. StateType'
  <2>1. pushed' \in Seq(Command)
    BY <1>11, <1>14, <1>15, <1>16
  <2>2. <<>> \in Seq(Byte)
    BY EmptySeq
  <2> QED BY <1>1, <1>2, <1>6, <1>16, <2>1, <2>2 DEF StateType
<1>18. WriterInv'
  BY <1>1, <1>2, <1>7 DEF WriterInv
<1>19. ReaderInv'
  <2>1. Len(received') <= Len(written')
    BY <1>1, <1>3, <1>6, <1>2 DEF StateType
  <2>2. ASSUME NEW k \in 1 .. Len(received') PROVE received'[k] = written'[k]
    <3>1. CASE k = m
      BY <1>1, <1>6, <3>1
    <3>2. CASE k # m
      <4>1. k \in 1 .. n
        BY <1>4, <1>6, <3>2
      <4>2. received[k] = written[k]
        BY <1>2, <4>1 DEF ReaderInv
      <4> QED BY <1>1, <1>6, <4>1, <4>2
    <3> QED BY <3>1, <3>2
  <2>3. Len(field') <= Head(expected').size
    <3>1. Head(expected').size \in Nat
      BY <1>11, <1>12, StackHead
    <3>2. Len(field') = 0
      BY <1>1
    <3> QED BY <3>1, <3>2
  <2>4. reader' = "client" => asked' = <<>> /\ pushed' = <<>>
    BY <1>1, <1>2 DEF ReaderInv
  <2> QED BY <2>1, <2>2, <2>3, <2>4 DEF ReaderInv
<1>20. BytesInv'
  <2>1. InFlight' = <<>> \o Behind
    BY <1>1 DEF InFlight, Behind
  <2>2. <<>> \o Behind = Behind
    BY <1>2, BehindType, ConcatEmptySeq
  <2>3. \E r : Coded(written', Len(received'), InFlight', r)
    BY <1>1, <1>3, <1>6, <2>1, <2>2
  <2> QED BY <2>3 DEF BytesInv
<1>21. ParseInv'
  <2>1. Chain(reader', Start(reader'), <<>>, Line', Goal(reader', Line'), asked', h, p)
    BY <1>1, <1>7, <1>9
  <2>2. Stands(h, p)'
    <3>1. ~thrown' => expected' = h[Len(received')] /\ pushed' = p[Len(received')]
      BY <1>6, <1>12, <1>14
    <3>2. ASSUME thrown'
          PROVE  /\ Len(received') # 0 /\ pushed' = p[Len(received') - 1]
                 /\ Rejected(Head(h[Len(received') - 1]).as, Line'[Len(received')].value)
      <4>1. Len(received') = m /\ Len(received') - 1 = n
        BY <1>4, <1>6
      <4>2. Rejected(Head(h[n]).as, Line[m].value)
        BY <1>1, <1>3, <1>10, <3>2
      <4> QED BY <1>4, <1>7, <1>15, <3>2, <4>1, <4>2
    <3> QED BY <3>1, <3>2 DEF Stands
  <2> QED BY <2>1, <2>2 DEF ParseInv
<1> QED BY <1>17, <1>18, <1>19, <1>20, <1>21 DEF WireInv

LEMMA StandStill ==
  ASSUME WireInv, UNCHANGED inputVars
  PROVE  WireInv'
<1>1. /\ UNCHANGED <<reader, unwritten, open, data, written, stream, buf, field>>
      /\ UNCHANGED <<expected, received, thrown, asked, pushed>>
  BY DEF inputVars, vars, writerVars, readerVars
<1>2. StateType /\ WriterInv /\ ReaderInv
  BY DEF WireInv
<1>3. InFlight' = InFlight
  BY <1>1 DEF InFlight
<1>4. /\ stream' \in Seq(Byte) /\ buf' \in Seq(Byte) /\ field' \in Seq(Byte)
      /\ open' \in BOOLEAN /\ (~open' => unwritten = <<>>)
      /\ (~thrown => Len(field') <= Head(expected).size)
  BY <1>1, <1>2 DEF StateType, WriterInv, ReaderInv
<1> QED BY <1>1, <1>3, <1>4, FlightMoves

LEMMA NextWire == WireInv /\ [Next]_inputVars => WireInv'
<1> SUFFICES ASSUME WireInv, [Next]_inputVars PROVE WireInv'
  OBVIOUS
<1>1. CASE from_gui_to_server
  BY <1>1, GuiStep
<1>2. CASE send_to_client
  BY <1>2, ServerStep
<1>3. CASE Transfer
  <2>1. (write \/ send \/ read_some \/ prepare_field) /\ UNCHANGED <<asked, pushed>>
    BY <1>3 DEF Transfer
  <2>2. CASE write
    BY <2>1, <2>2, WriteStep
  <2>3. CASE send
    BY <2>1, <2>3, SendStep
  <2>4. CASE read_some
    BY <2>1, <2>4, ReadSomeStep
  <2>5. CASE prepare_field
    BY <2>1, <2>5, PrepareStep
  <2> QED BY <2>1, <2>2, <2>3, <2>4, <2>5
<1>4. CASE receive_from_client
  <2>1. /\ reader = "server" /\ read /\ asked' = asked
        /\ pushed' = IF thrown' THEN pushed
                     ELSE pushed \o Pushed(Head(expected).as, Decode(field))
    BY <1>4 DEF receive_from_client
  <2>2. reader # "client"
    BY <2>1
  <2> QED BY <2>1, <2>2, ReadStep
<1>5. CASE from_server_to_gui
  <2>1. reader = "client" /\ read /\ asked' = asked /\ pushed' = pushed
    BY <1>5 DEF from_server_to_gui
  <2>2. reader # "server"
    BY <2>1
  <2> QED BY <2>1, <2>2, ReadStep
<1>6. CASE UNCHANGED inputVars
  BY <1>6, StandStill
<1> QED BY <1>1, <1>2, <1>3, <1>4, <1>5, <1>6 DEF Next, Receive

\* At any field, what was pushed is a beginning of what was asked for.
LEMMA PushedBefore ==
  ASSUME StateType, NEW h, NEW p, NEW i \in 0 .. Len(Line),
         Chain(reader, Start(reader), <<>>, Line, Goal(reader, Line), asked, h, p)
  PROVE  \E d \in Seq(Command) : asked = p[i] \o d
<1> DEFINE who == reader
           r == Start(reader)
           a == <<>>
           q == Line
           t == Goal(reader, Line)
           c == asked
<1>1. q \in Seq(FieldType) /\ i \in 0 .. Len(q)
  BY LineIs
<1>2. Chain(who, r, a, q, t, c, h, p)
  OBVIOUS
<1> HIDE DEF who, r, a, q, t, c
<1>3. Begins(p, q, c)
  BY <1>1, <1>2, ChainPrefix
<1> QED BY <1>1, <1>3 DEF c, Begins

-----------------------------------------------------------------------------
(* Theorems *)

\* Between the bytes in flight and the fields written, and between the fields
\* and what is read next, nothing is ever lost, doubled or taken for something
\* else, wherever the buffers are cut.
THEOREM WireInvAlways == Spec => []WireInv
<1>1. WireInv /\ [Next]_inputVars => WireInv'
  BY NextWire
<1> QED BY <1>1, InitWire, PTL DEF Spec

\* The fields read are those written: the same number of bytes and the same
\* value, in order, with none left out (DatagramWriter and DatagramReader).
THEOREM ReadAsWrittenAlways == Spec => []ReadAsWritten
<1>1. WireInv => ReadAsWritten
  <2> SUFFICES ASSUME WireInv PROVE ReadAsWritten
    OBVIOUS
  <2>1. /\ received \in Seq(FieldType) /\ written \in Seq(FieldType)
        /\ Len(received) <= Len(written)
        /\ \A k \in 1 .. Len(received) : received[k] = written[k]
    BY DEF WireInv, StateType, ReaderInv
  <2>2. IsPrefix(received, written)
    BY <2>1, PrefixOf
  <2> QED BY <2>2 DEF ReadAsWritten
<1> QED BY <1>1, WireInvAlways, PTL

\* The commands that the server's receiver pushes are those the gui meant, in
\* order (from_gui_to_server and receive_from_client).
THEOREM CommandsArriveAlways == Spec => []CommandsArrive
<1>1. WireInv => CommandsArrive
  <2> SUFFICES ASSUME WireInv PROVE CommandsArrive
    OBVIOUS
  <2>1. StateType /\ ReaderInv /\ ParseInv
    BY DEF WireInv
  <2>2. Line \in Seq(FieldType) /\ Len(received) \in 0 .. Len(Line)
    BY <2>1, LineIs DEF StateType, ReaderInv
  <2>3. PICK h, p :
          /\ Chain(reader, Start(reader), <<>>, Line, Goal(reader, Line), asked, h, p)
          /\ Stands(h, p)
    BY <2>1 DEF ParseInv
  <2>4. PICK i \in 0 .. Len(Line) : pushed = p[i]
    <3>1. CASE thrown
      <4> DEFINE j == Len(received) - 1
      <4>1. Len(received) # 0 /\ pushed = p[j]
        BY <2>3, <3>1 DEF Stands
      <4>2. j \in 0 .. Len(Line)
        BY <2>2, <4>1
      <4> QED BY <4>1, <4>2
    <3>2. CASE ~thrown
      <4>1. pushed = p[Len(received)]
        BY <2>3, <3>2 DEF Stands
      <4> QED BY <2>2, <4>1
    <3> QED BY <3>1, <3>2
  <2>5. PICK d \in Seq(Command) : asked = p[i] \o d
    BY <2>1, <2>3, <2>4, PushedBefore
  <2>6. pushed \in Seq(Command) /\ asked = pushed \o d
    BY <2>1, <2>4, <2>5 DEF StateType
  <2>7. IsPrefix(pushed, pushed \o d)
    BY <2>5, <2>6, PrefixConcat
  <2> QED BY <2>6, <2>7 DEF CommandsArrive
<1> QED BY <1>1, WireInvAlways, PTL

\* The client accepts whatever its server sends; the server's receiver throws
\* over nothing but the direction of a move that is negative as a char, which
\* validate_gui_message lets pass.
THEOREM OnlyNegativeMovesThrowAlways == Spec => []OnlyNegativeMovesThrow
<1>1. WireInv => OnlyNegativeMovesThrow
  <2> SUFFICES ASSUME WireInv, thrown
               PROVE  /\ reader = "server"
                      /\ SignedByte(received[Len(received)].value) < 0
                      /\ asked[Len(pushed) + 1] = <<"move", received[Len(received)].value>>
    BY DEF OnlyNegativeMovesThrow
  <2> DEFINE n == Len(received)
             v == Line[n].value
  <2>1. StateType /\ ReaderInv /\ ParseInv
    BY DEF WireInv
  <2>2. PICK h, p :
          /\ Chain(reader, Start(reader), <<>>, Line, Goal(reader, Line), asked, h, p)
          /\ Stands(h, p)
    BY <2>1 DEF ParseInv
  <2>3. /\ n # 0 /\ pushed = p[n - 1] /\ Rejected(Head(h[n - 1]).as, v)
    BY <2>2 DEF Stands
  <2>4. /\ Line \in Seq(FieldType) /\ n \in 1 .. Len(Line) /\ n \in 0 .. Len(Line)
        /\ received[n] = Line[n]
    <3>1. /\ Line \in Seq(FieldType) /\ Len(Line) = Len(written) + Len(unwritten)
          /\ Len(written) \in Nat /\ Len(unwritten) \in Nat
          /\ \A k \in 1 .. Len(written) : Line[k] = written[k]
      BY <2>1, LineIs
    <3>2. n \in 1 .. n /\ n \in 1 .. Len(written)
      BY <2>1, <2>3, <3>1 DEF StateType, ReaderInv
    <3>3. received[n] = written[n]
      BY <2>1, <3>2 DEF ReaderInv
    <3> QED BY <3>1, <3>2, <3>3
  <2>5. /\ Step(reader, h[n - 1], Line[n], h[n])
        /\ p[n] = p[n - 1] \o Given(reader, Head(h[n - 1]).as, v)
    <3>1. \A k \in 1 .. Len(Line) :
            /\ Step(reader, h[k - 1], Line[k], h[k])
            /\ p[k] = p[k - 1] \o Given(reader, Head(h[k - 1]).as, Line[k].value)
      BY <2>2 DEF Chain
    <3> QED BY <2>4, <3>1
  <2>6. reader = "server" /\ Head(h[n - 1]).as = "direction" /\ SignedByte(v) < 0
    BY <2>3, <2>5 DEF Step
  <2>7. Given(reader, Head(h[n - 1]).as, v) = <<<<"move", v>>>>
    BY <2>6 DEF Given, Pushed
  <2>8. PICK d \in Seq(Command) : asked = p[n] \o d
    BY <2>1, <2>2, <2>4, PushedBefore
  <2>9. asked[Len(pushed) + 1] = <<"move", v>>
    <3> DEFINE c == <<"move", v>>
               s == pushed \o <<c>>
    <3>1. v \in Nat
      <4>1. Line[n] \in FieldType
        BY <2>4
      <4> QED BY <4>1 DEF FieldType
    <3>2. c \in Command
      BY <3>1 DEF Command
    <3> HIDE DEF c
    <3>3. pushed \in Seq(Command) /\ <<c>> \in Seq(Command) /\ Len(<<c>>) = 1 /\ <<c>>[1] = c
      BY <2>1, <3>2 DEF StateType
    <3>4. /\ s \in Seq(Command) /\ Len(s) = Len(pushed) + 1 /\ s[Len(pushed) + 1] = c
      <4>1. s = Append(pushed, c)
        BY <3>2, <3>3, AppendIsConcat
      <4> QED BY <3>2, <3>3, <4>1, AppendProperties
    <3>5. asked = s \o d
      BY <2>3, <2>5, <2>7, <2>8 DEF c
    <3> HIDE DEF s
    <3>6. \A i \in 1 .. Len(s) + Len(d) :
            (s \o d)[i] = IF i <= Len(s) THEN s[i] ELSE d[i - Len(s)]
      BY <2>8, <3>4, ConcatProperties
    <3>7. Len(s) \in 1 .. Len(s) + Len(d) /\ Len(s) <= Len(s)
      BY <2>8, <3>3, <3>4
    <3>8. (s \o d)[Len(s)] = s[Len(s)]
      BY <3>6, <3>7
    <3> QED BY <3>4, <3>5, <3>8 DEF c
  <2> QED BY <2>4, <2>6, <2>9
<1> QED BY <1>1, WireInvAlways, PTL
=============================================================================
