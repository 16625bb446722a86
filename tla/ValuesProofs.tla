----------------------------- MODULE ValuesProofs -----------------------------
(***************************************************************************)
(* Theorems about Decoder, Instant and Money: the frames of a stream, the   *)
(* times of its records and the amounts in them.                            *)
(***************************************************************************)
EXTENDS Decoder, Instant, Money, TLAPS, FiniteSetTheorems, SequenceTheorems,
        WellFoundedInduction

-----------------------------------------------------------------------------
(***************************************************************************)
(* Numbers, and what is computed step by step.                              *)
(***************************************************************************)

(* A non-empty set of numbers has a least. *)
LEMMA LeastNumber ==
  ASSUME NEW S \in SUBSET Nat, S # {}
  PROVE  \E m \in S : \A k \in S : m =< k
<1>1. PICK m \in S : \A k \in S : ~ (<<k, m>> \in OpToRel(<, Nat))
  BY NatLessThanWellFounded, WFMin
<1>2. \A k \in S : ~ (k < m)
  BY <1>1 DEF OpToRel
<1> QED BY <1>2

(* A non-empty set of numbers up to n has a greatest. *)
LEMMA GreatestNumber ==
  ASSUME NEW n \in Nat, NEW S \in SUBSET (0 .. n), S # {}
  PROVE  \E m \in S : \A k \in S : k =< m
<1> DEFINE T == {m \in 0 .. n : n - m \in S}
<1>1. PICK x \in S : TRUE
  OBVIOUS
<1>2. n - x \in T /\ T \in SUBSET Nat
  OBVIOUS
<1>3. PICK m \in T : \A k \in T : m =< k
  <2> HIDE DEF T
  <2> QED BY <1>2, LeastNumber
<1>4. \A k \in S : n - k \in T
  OBVIOUS
<1>5. \A k \in S : m =< n - k
  BY <1>3, <1>4
<1>6. \A k \in S : k =< n - m
  BY <1>3, <1>5
<1> QED BY <1>3, <1>6

(* A set of numbers up to n that has each number if it has those before it has
   them all. *)
LEMMA UpTo ==
  ASSUME NEW n \in Nat, NEW S \in SUBSET (0 .. n),
         \A m \in 0 .. n : (\A k \in 0 .. m - 1 : k \in S) => m \in S
  PROVE  S = 0 .. n
<1> DEFINE T == (0 .. n) \ S
<1>1. SUFFICES ASSUME T # {} PROVE FALSE
  OBVIOUS
<1>2. T \in SUBSET Nat
  OBVIOUS
<1>3. PICK m \in T : \A k \in T : m =< k
  BY <1>1, <1>2, LeastNumber
<1>4. \A k \in 0 .. m - 1 : k \in S
  <2> SUFFICES ASSUME NEW k \in 0 .. m - 1 PROVE k \in S
    OBVIOUS
  <2>1. k \in 0 .. n /\ ~ (m =< k)
    OBVIOUS
  <2> QED BY <1>3, <2>1
<1> QED BY <1>3, <1>4

(* A value can be taken through n steps, whatever each step makes of it. *)
CanIterate(n, D, d, step) ==
  \E f \in [0 .. n -> D] : f[0] = d /\ \A k \in 1 .. n : f[k] = step[k][f[k - 1]]

LEMMA Iteration ==
  ASSUME NEW n \in Nat, NEW D, NEW d \in D, NEW step,
         \A k \in 1 .. n : \A x \in D : step[k][x] \in D
  PROVE  CanIterate(n, D, d, step)
<1> DEFINE Through(f, m) == f[0] = d /\ \A k \in 1 .. m : f[k] = step[k][f[k - 1]]
           Can(m) == \E f \in [0 .. m -> D] : Through(f, m)
           S == {m \in 0 .. n : Can(m)}
<1>1. ASSUME NEW m \in 0 .. n, \A k \in 0 .. m - 1 : Can(k) PROVE Can(m)
  <2>1. CASE m = 0
    <3>1. [k \in 0 .. 0 |-> d] \in [0 .. m -> D]
      BY <2>1
    <3>2. Through([k \in 0 .. 0 |-> d], m)
      BY <2>1
    <3> QED BY <3>1, <3>2
  <2>2. CASE m # 0
    <3>1. m - 1 \in 0 .. m - 1 /\ m \in 1 .. n
      BY <2>2
    <3>2. PICK f \in [0 .. m - 1 -> D] : Through(f, m - 1)
      BY <1>1, <3>1
    <3> DEFINE next == step[m][f[m - 1]]
               more == [k \in 0 .. m |-> IF k = m THEN next ELSE f[k]]
    <3>3. next \in D
      BY <3>1
    <3> HIDE DEF next
    <3>4. more \in [0 .. m -> D]
      BY <3>3
    <3>5. more[m] = next /\ \A k \in 0 .. m - 1 : more[k] = f[k]
      OBVIOUS
    <3> HIDE DEF more
    <3>6. more[0] = d
      BY <3>1, <3>2, <3>5
    <3>7. ASSUME NEW k \in 1 .. m PROVE more[k] = step[k][more[k - 1]]
      <4>1. k - 1 \in 0 .. m - 1
        OBVIOUS
      <4>2. CASE k = m
        BY <3>5, <4>1, <4>2 DEF next
      <4>3. CASE k # m
        <5>1. k \in 1 .. m - 1 /\ k \in 0 .. m - 1
          BY <4>3
        <5> QED BY <3>2, <3>5, <4>1, <5>1
      <4> QED BY <4>2, <4>3
    <3> QED BY <3>4, <3>6, <3>7
  <2> QED BY <2>1, <2>2
<1> HIDE DEF Can
<1>2. \A m \in 0 .. n : (\A k \in 0 .. m - 1 : k \in S) => m \in S
  <2> SUFFICES ASSUME NEW m \in 0 .. n, \A k \in 0 .. m - 1 : k \in S PROVE m \in S
    OBVIOUS
  <2>1. \A k \in 0 .. m - 1 : Can(k)
    OBVIOUS
  <2> QED BY <1>1, <2>1
<1>3. S \in SUBSET (0 .. n)
  OBVIOUS
<1>4. S = 0 .. n
  <2> HIDE DEF S
  <2> QED BY <1>2, <1>3, UpTo
<1>5. n \in S
  BY <1>4
<1> QED BY <1>5 DEF Can, CanIterate

(* The powers of ten up to the n-th. *)
PowersOfTen(n, u) ==
  u \in [0 .. n -> Nat] /\ u[0] = 1 /\ \A k \in 1 .. n : u[k] = 10 * u[k - 1]

TenTo(n) == CHOOSE g : g = [k \in 0 .. n |-> IF k = 0 THEN 1 ELSE 10 * g[k - 1]]

LEMMA TenToThe == ASSUME NEW n \in Nat PROVE PowersOfTen(n, TenTo(n))
<1> DEFINE step == [k \in 1 .. n |-> [x \in Nat |-> 10 * x]]
           u == TenTo(n)
<1>2. \A k \in 1 .. n : \A x \in Nat : step[k][x] \in Nat
  OBVIOUS
<1>3. PICK f \in [0 .. n -> Nat] : f[0] = 1 /\ \A k \in 1 .. n : f[k] = step[k][f[k - 1]]
  <2> HIDE DEF step
  <2>1. CanIterate(n, Nat, 1, step)
    BY <1>2, Iteration
  <2> QED BY <2>1 DEF CanIterate
<1>4. ASSUME NEW k \in 1 .. n PROVE f[k] = 10 * f[k - 1]
  <2>1. f[k - 1] \in Nat
    OBVIOUS
  <2> QED BY <1>3, <2>1
<1>5. f = [k \in 0 .. n |-> IF k = 0 THEN 1 ELSE 10 * f[k - 1]]
  <2>1. \A k \in 0 .. n : k # 0 => k \in 1 .. n
    OBVIOUS
  <2>2. \A k \in 0 .. n : f[k] = IF k = 0 THEN 1 ELSE 10 * f[k - 1]
    BY <1>3, <1>4, <2>1
  <2> QED BY <2>2
<1>6. u = [k \in 0 .. n |-> IF k = 0 THEN 1 ELSE 10 * u[k - 1]]
  BY <1>5 DEF TenTo
<1> HIDE DEF u
<1>8. /\ u[0] = 1
      /\ \A k \in 1 .. n : u[k] = 10 * u[k - 1]
  BY <1>6
<1> DEFINE S == {k \in 0 .. n : u[k] \in Nat}
<1>9. S = 0 .. n
  <2>1. ASSUME NEW m \in 0 .. n, \A k \in 0 .. m - 1 : k \in S PROVE m \in S
    <3>1. CASE m = 0
      BY <1>8, <3>1
    <3>2. CASE m # 0
      <4>1. m - 1 \in 0 .. m - 1 /\ m \in 1 .. n
        BY <3>2
      <4>2. u[m] = 10 * u[m - 1] /\ u[m - 1] \in Nat
        BY <1>8, <2>1, <4>1
      <4> QED BY <4>2
    <3> QED BY <3>1, <3>2
  <2> HIDE DEF S
  <2>2. S \in SUBSET (0 .. n)
    BY DEF S
  <2> QED BY <2>1, <2>2, UpTo
<1>10. \A k \in 0 .. n : u[k] \in Nat
  BY <1>9
<1>11. u \in [0 .. n -> Nat]
  BY <1>6, <1>10
<1> QED BY <1>8, <1>11 DEF PowersOfTen, u

LEMMA PowersMultiply ==
  ASSUME NEW n \in Nat, NEW u, PowersOfTen(n, u), NEW a \in 0 .. n, NEW b \in 0 .. n, a + b =< n
  PROVE  u[a + b] = u[a] * u[b]
<1> DEFINE S == {k \in 0 .. a : u[k + b] = u[k] * u[b]}
<1>1. /\ u[0] = 1 /\ \A k \in 0 .. n : u[k] \in Nat
      /\ \A k \in 1 .. n : u[k] = 10 * u[k - 1]
  BY DEF PowersOfTen
<1>2. ASSUME NEW m \in 0 .. a, \A k \in 0 .. m - 1 : k \in S PROVE m \in S
  <2>1. CASE m = 0
    BY <1>1, <2>1
  <2>2. CASE m # 0
    <3>1. m - 1 \in 0 .. m - 1 /\ m \in 1 .. n /\ m + b \in 1 .. n
          /\ m - 1 \in 0 .. n /\ (m + b) - 1 = (m - 1) + b
      BY <2>2
    <3>2. u[(m - 1) + b] = u[m - 1] * u[b]
      BY <1>2, <3>1
    <3>3. u[m + b] = 10 * u[(m - 1) + b] /\ u[m] = 10 * u[m - 1]
      BY <1>1, <3>1
    <3>4. u[m - 1] \in Nat /\ u[b] \in Nat
      BY <1>1, <3>1
    <3>5. \A x, y \in Nat : 10 * (x * y) = (10 * x) * y
      OBVIOUS
    <3> QED BY <3>2, <3>3, <3>4, <3>5
  <2> QED BY <2>1, <2>2
<1>3. S \in SUBSET (0 .. a)
  OBVIOUS
<1>4. S = 0 .. a
  <2> HIDE DEF S
  <2> QED BY <1>2, <1>3, UpTo
<1>5. a \in S
  <2>1. a \in 0 .. a
    OBVIOUS
  <2> HIDE DEF S
  <2> QED BY <1>4, <2>1
<1> QED BY <1>5

LEMMA PowersGrow ==
  ASSUME NEW n \in Nat, NEW u, PowersOfTen(n, u)
  PROVE  /\ \A k \in 0 .. n : u[k] \in Nat \ {0}
         /\ \A a, b \in 0 .. n : a =< b => u[a] =< u[b]
<1>1. /\ u[0] = 1 /\ \A k \in 0 .. n : u[k] \in Nat
      /\ \A k \in 1 .. n : u[k] = 10 * u[k - 1]
  BY DEF PowersOfTen
<1> DEFINE S == {k \in 0 .. n : u[k] >= 1 /\ \A a \in 0 .. k : u[a] =< u[k]}
<1>2. ASSUME NEW m \in 0 .. n, \A k \in 0 .. m - 1 : k \in S PROVE m \in S
  <2>1. CASE m = 0
    BY <1>1, <2>1
  <2>2. CASE m # 0
    <3>1. m - 1 \in 0 .. m - 1 /\ m \in 1 .. n /\ m - 1 \in 0 .. n
      BY <2>2
    <3>2. u[m - 1] >= 1 /\ \A a \in 0 .. m - 1 : u[a] =< u[m - 1]
      BY <1>2, <3>1
    <3>3. u[m] = 10 * u[m - 1] /\ u[m - 1] \in Nat /\ u[m] \in Nat
      BY <1>1, <3>1
    <3>4. u[m] >= 1 /\ u[m - 1] =< u[m]
      BY <3>2, <3>3
    <3>5. ASSUME NEW a \in 0 .. m PROVE u[a] =< u[m]
      <4>1. CASE a = m
        BY <3>3, <4>1
      <4>2. CASE a # m
        <5>1. a \in 0 .. m - 1 /\ a \in 0 .. n
          BY <4>2
        <5>2. u[a] \in Nat /\ u[a] =< u[m - 1]
          BY <1>1, <3>2, <5>1
        <5> QED BY <3>3, <3>4, <5>2
      <4> QED BY <4>1, <4>2
    <3> QED BY <3>4, <3>5
  <2> QED BY <2>1, <2>2
<1>3. S \in SUBSET (0 .. n)
  OBVIOUS
<1>4. S = 0 .. n
  <2> HIDE DEF S
  <2> QED BY <1>2, <1>3, UpTo
<1>5. \A k \in 0 .. n : u[k] >= 1 /\ \A a \in 0 .. k : u[a] =< u[k]
  BY <1>4
<1>6. ASSUME NEW k \in 0 .. n PROVE u[k] \in Nat \ {0}
  BY <1>1, <1>5
<1>7. ASSUME NEW a \in 0 .. n, NEW b \in 0 .. n, a =< b PROVE u[a] =< u[b]
  <2>1. a \in 0 .. b
    BY <1>7
  <2> QED BY <1>5, <2>1
<1> QED BY <1>6, <1>7

-----------------------------------------------------------------------------
(***************************************************************************)
(* What a look at a whole stream says, and what one more byte adds to it.   *)
(***************************************************************************)

(* The line a byte stands on starts at the first byte or after an LF, and there is no
   LF from there to the byte. *)
LEMMA StartOf ==
  ASSUME NEW s \in Seq(Bytes), NEW i \in 1 .. Len(s) + 1
  PROVE  /\ Start(s, i) \in 1 .. i
         /\ Start(s, i) = 1 \/ s[Start(s, i) - 1] = LF
         /\ \A j \in Start(s, i) .. i - 1 : s[j] # LF
<1> DEFINE before == {j \in LFs(s) : j < i}
<1>1. Len(s) \in Nat /\ DOMAIN s = 1 .. Len(s)
  OBVIOUS
<1>2. CASE before = {}
  <2>1. Start(s, i) = 1
    BY <1>2 DEF Start
  <2> QED BY <1>1, <1>2, <2>1 DEF LFs
<1>3. CASE before # {}
  <2>1. before \in SUBSET (0 .. Len(s))
    BY <1>1 DEF LFs
  <2>2. PICK m \in before : \A k \in before : k =< m
    <3> HIDE DEF before
    <3> QED BY <1>1, <1>3, <2>1, GreatestNumber
  <2> DEFINE top == CHOOSE x \in before : \A y \in before : x >= y
  <2>3. top \in before /\ \A y \in before : y =< top
    <3>1. \A y \in before : m >= y
      BY <2>1, <2>2
    <3>2. top \in before /\ \A y \in before : top >= y
      BY <3>1
    <3> QED BY <2>1, <3>2
  <2>4. Start(s, i) = top + 1
    BY <1>3 DEF Start, Max
  <2> HIDE DEF top
  <2>5. top \in 1 .. Len(s) /\ top < i /\ s[top] = LF
    BY <1>1, <2>3 DEF LFs
  <2>6. ASSUME NEW j \in top + 1 .. i - 1 PROVE s[j] # LF
    <3>1. j \in DOMAIN s /\ j < i /\ ~ (j =< top)
      BY <1>1, <2>5
    <3> QED BY <2>3, <3>1 DEF LFs
  <2> QED BY <2>4, <2>5, <2>6
<1> QED BY <1>2, <1>3

(* And no other place is like that. *)
LEMMA StartUnique ==
  ASSUME NEW s \in Seq(Bytes), NEW i \in 1 .. Len(s) + 1, NEW k \in 1 .. i,
         k = 1 \/ s[k - 1] = LF, \A j \in k .. i - 1 : s[j] # LF
  PROVE  Start(s, i) = k
<1> DEFINE m == Start(s, i)
<1>1. /\ m \in 1 .. i
      /\ m = 1 \/ s[m - 1] = LF
      /\ \A j \in m .. i - 1 : s[j] # LF
  BY StartOf
<1> HIDE DEF m
<1>2. ~ (m < k)
  <2> SUFFICES ASSUME m < k PROVE FALSE
    OBVIOUS
  <2>1. s[k - 1] = LF /\ k - 1 \in m .. i - 1
    BY <1>1
  <2> QED BY <1>1, <2>1
<1>3. ~ (k < m)
  <2> SUFFICES ASSUME k < m PROVE FALSE
    OBVIOUS
  <2>1. s[m - 1] = LF /\ m - 1 \in k .. i - 1
    BY <1>1
  <2> QED BY <2>1
<1>4. m = k
  BY <1>1, <1>2, <1>3
<1> QED BY <1>4 DEF m

(* One more byte changes nothing of the bytes before it. *)
LEMMA SamePart ==
  ASSUME NEW s \in Seq(Bytes), NEW b \in Bytes, NEW a \in 1 .. Len(s) + 1,
         NEW c \in 0 .. Len(s)
  PROVE  SubSeq(Append(s, b), a, c) = SubSeq(s, a, c)
<1>1. Append(s, b) \in Seq(Bytes) /\ Len(Append(s, b)) = Len(s) + 1
  OBVIOUS
<1>2. \A j \in a .. c : Append(s, b)[j] = s[j]
  OBVIOUS
<1> QED BY <1>1, <1>2

LEMMA OneByteMore ==
  ASSUME NEW s \in Seq(Bytes), NEW b \in Bytes
  PROVE  LET t == Append(s, b)
             n == Len(s) + 1
         IN  /\ LFs(t) = LFs(s) \union (IF b = LF THEN {n} ELSE {})
             /\ \A i \in 1 .. n : Start(t, i) = Start(s, i)
             /\ \A i \in 1 .. Len(s) : Line(t, i) = Line(s, i) /\ Fault(t, i) = Fault(s, i)
             /\ Line(t, n) = SubSeq(s, Start(s, n), Len(s))
             /\ Faults(t) = Faults(s) \union (IF Fault(t, n) # "Ok" THEN {n} ELSE {})
<1> DEFINE t == Append(s, b)
           n == Len(s) + 1
<1>1. /\ Len(s) \in Nat /\ DOMAIN s = 1 .. Len(s) /\ n \notin DOMAIN s
      /\ t \in Seq(Bytes) /\ Len(t) = n /\ DOMAIN t = 1 .. n
      /\ t[n] = b /\ \A i \in 1 .. Len(s) : t[i] = s[i]
  OBVIOUS
<1> HIDE DEF t
<1>2. LFs(t) = LFs(s) \union (IF b = LF THEN {n} ELSE {})
  BY <1>1 DEF LFs
<1>3. ASSUME NEW i \in 1 .. n PROVE Start(t, i) = Start(s, i)
  <2> DEFINE k == Start(s, i)
  <2>1. /\ k \in 1 .. i
        /\ k = 1 \/ s[k - 1] = LF
        /\ \A j \in k .. i - 1 : s[j] # LF
    BY StartOf
  <2> HIDE DEF k
  <2>2. i \in 1 .. Len(t) + 1
    BY <1>1
  <2>3. k = 1 \/ t[k - 1] = LF
    BY <1>1, <2>1
  <2>4. \A j \in k .. i - 1 : t[j] # LF
    BY <1>1, <2>1
  <2>5. Start(t, i) = k
    BY <1>1, <2>1, <2>2, <2>3, <2>4, StartUnique
  <2> QED BY <2>5 DEF k
<1>4. ASSUME NEW i \in 1 .. n PROVE Line(t, i) = SubSeq(s, Start(s, i), i - 1)
  <2>1. Start(s, i) \in 1 .. Len(s) + 1 /\ i - 1 \in 0 .. Len(s)
    BY <1>1, StartOf
  <2> QED BY <1>3, <2>1, SamePart DEF Line, t
<1>5. ASSUME NEW i \in 1 .. Len(s) PROVE Line(t, i) = Line(s, i) /\ Fault(t, i) = Fault(s, i)
  <2>1. i \in 1 .. n /\ i # n
    BY <1>1
  <2>2. Line(t, i) = Line(s, i)
    BY <1>4, <2>1 DEF Line
  <2>3. i \in LFs(t) <=> i \in LFs(s)
    BY <1>2, <2>1
  <2> QED BY <1>3, <2>1, <2>2, <2>3 DEF Fault
<1>6. Line(t, n) = SubSeq(s, Start(s, n), Len(s))
  <2>1. n \in 1 .. n /\ n - 1 = Len(s)
    BY <1>1
  <2> QED BY <1>4, <2>1
<1>7. Faults(t) = Faults(s) \union (IF Fault(t, n) # "Ok" THEN {n} ELSE {})
  <2>1. 1 .. n = (1 .. Len(s)) \union {n}
    BY <1>1
  <2> QED BY <1>1, <1>5, <2>1 DEF Faults
<1> QED BY <1>2, <1>3, <1>5, <1>6, <1>7 DEF t

-----------------------------------------------------------------------------
(***************************************************************************)
(* The decoder after the bytes s.                                           *)
(***************************************************************************)

Violations == {"OversizeFrame", "NonUtf8", "NotJson"}

Decoders == [buf : Seq(Bytes), violation : Violations \union {"None"}, out : Seq(Seq(Bytes))]

Good(s) == {i \in LFs(s) : \A j \in Faults(s) : i < j}

HandedOn(s, out) ==
  /\ Len(out) = Cardinality(Good(s))
  /\ \A i \in Good(s) : out[Cardinality({j \in Good(s) : j =< i})] = Line(s, i)

(* Up to the first fault the buffer is the line in progress, and there is room for a byte;
   the first fault is the violation. *)
Judged(s, d) ==
  /\ d \in Decoders
  /\ HandedOn(s, d.out)
  /\ Len(d.buf) =< MaxFrameBytes + 1
  /\ d.violation = "None" =>
       /\ Faults(s) = {}
       /\ d.buf = SubSeq(s, Start(s, Len(s) + 1), Len(s))
       /\ Len(d.buf) =< MaxFrameBytes
  /\ d.violation # "None" =>
       \E k \in Faults(s) : (\A j \in Faults(s) : k =< j) /\ d.violation = Fault(s, k)

LEMMA FaultsAreBytes ==
  ASSUME NEW s \in Seq(Bytes)
  PROVE  /\ Faults(s) \in SUBSET (1 .. Len(s)) /\ Good(s) \in SUBSET (1 .. Len(s))
         /\ IsFiniteSet(Good(s)) /\ Cardinality(Good(s)) \in Nat
<1>1. Len(s) \in Nat /\ DOMAIN s = 1 .. Len(s)
  OBVIOUS
<1>2. Faults(s) \in SUBSET (1 .. Len(s)) /\ Good(s) \in SUBSET (1 .. Len(s))
  BY <1>1 DEF Faults, Good, LFs
<1>3. IsFiniteSet(1 .. Len(s))
  BY <1>1, FS_Interval
<1> QED BY <1>2, <1>3, FS_Subset, FS_CardinalityType

LEMMA DecodeFrameType ==
  ASSUME NEW bytes PROVE DecodeFrame(bytes) \in {"NonUtf8", "NotJson", "Ok"}
BY DEF DecodeFrame

(* A byte that ends no good line hands nothing on. *)
LEMMA NothingMore ==
  ASSUME NEW s \in Seq(Bytes), NEW b \in Bytes, NEW out,
         HandedOn(s, out), Good(Append(s, b)) = Good(s)
  PROVE  HandedOn(Append(s, b), out)
<1>1. \A i \in Good(s) : Line(Append(s, b), i) = Line(s, i)
  BY FaultsAreBytes, OneByteMore
<1> QED BY <1>1 DEF HandedOn

(* A good line goes after those before it. *)
LEMMA OneMore ==
  ASSUME NEW s \in Seq(Bytes), NEW b \in Bytes, NEW out \in Seq(Seq(Bytes)),
         HandedOn(s, out), Good(Append(s, b)) = Good(s) \union {Len(s) + 1}
  PROVE  HandedOn(Append(s, b), Append(out, Line(Append(s, b), Len(s) + 1)))
<1> DEFINE t == Append(s, b)
           n == Len(s) + 1
           line == Line(t, n)
           more == Append(out, line)
<1>1. /\ Len(s) \in Nat /\ t \in Seq(Bytes)
      /\ Good(s) \in SUBSET (1 .. Len(s)) /\ IsFiniteSet(Good(s)) /\ Cardinality(Good(s)) \in Nat
  BY FaultsAreBytes
<1>2. n \notin Good(s) /\ \A i \in Good(s) : i =< Len(s) /\ i < n /\ i \in 1 .. Len(s)
  BY <1>1
<1>3. Cardinality(Good(t)) = Cardinality(Good(s)) + 1
  BY <1>1, <1>2, FS_AddElement
<1>4. \A i \in 1 .. Len(s) : Line(t, i) = Line(s, i)
  BY OneByteMore
<1>5. /\ Len(out) = Cardinality(Good(s))
      /\ \A i \in Good(s) : out[Cardinality({j \in Good(s) : j =< i})] = Line(s, i)
  BY DEF HandedOn
<1> HIDE DEF line
<1>6. Len(more) = Len(out) + 1 /\ more[Len(out) + 1] = line
      /\ \A k \in 1 .. Len(out) : more[k] = out[k]
  <2>1. \A k \in 1 .. Len(out) : k # Len(out) + 1
    BY <1>1, <1>5
  <2>2. Len(out) + 1 \in 1 .. Len(out) + 1
    BY <1>1, <1>5
  <2> QED BY <2>1, <2>2, AppendProperties
<1> HIDE DEF t, n, more
<1>7. ASSUME NEW i \in Good(s)
      PROVE  more[Cardinality({j \in Good(t) : j =< i})] = Line(t, i)
  <2> DEFINE T == {j \in Good(s) : j =< i}
  <2>1. {j \in Good(t) : j =< i} = T
    <3>1. ~ (n =< i)
      BY <1>1, <1>2 DEF n
    <3> QED BY <3>1 DEF t, n
  <2>2. T \in SUBSET Good(s) /\ T # {}
    BY <1>1
  <2>3. Cardinality(T) \in 1 .. Cardinality(Good(s))
    <3> HIDE DEF T
    <3>1. IsFiniteSet(T) /\ Cardinality(T) =< Cardinality(Good(s)) /\ Cardinality(T) \in Nat
      BY <1>1, <2>2, FS_Subset, FS_CardinalityType
    <3>2. Cardinality(T) # 0
      BY <2>2, <3>1, FS_EmptySet
    <3> QED BY <1>1, <3>1, <3>2
  <2>4. more[Cardinality(T)] = Line(s, i)
    BY <1>5, <1>6, <2>3
  <2> QED BY <1>2, <1>4, <2>1, <2>4
<1>8. more[Cardinality({j \in Good(t) : j =< n})] = line
  <2>1. {j \in Good(t) : j =< n} = Good(t)
    BY <1>1, <1>2 DEF t, n
  <2> QED BY <1>3, <1>5, <1>6, <2>1
<1>9. \A i \in Good(t) : i \in Good(s) \/ i = n
  BY DEF t, n
<1>10. HandedOn(t, more)
  BY <1>3, <1>5, <1>6, <1>7, <1>8, <1>9 DEF HandedOn, line
<1> QED BY <1>10 DEF t, n, more, line

(* What a step makes of a decoder. *)
Longer(d, b) == [d EXCEPT !.buf = Append(@, b)]
Handing(d, f) == [d EXCEPT !.out = Append(@, f), !.buf = <<>>]

LEMMA CaughtForm ==
  ASSUME NEW d \in Decoders, NEW v \in Violations
  PROVE  /\ Caught(d, v) \in Decoders /\ Caught(d, v).violation = v
         /\ Caught(d, v).buf = d.buf /\ Caught(d, v).out = d.out
BY DEF Caught, Decoders

LEMMA LongerForm ==
  ASSUME NEW d \in Decoders, NEW b \in Bytes
  PROVE  /\ Longer(d, b) \in Decoders /\ Longer(d, b).buf = Append(d.buf, b)
         /\ Len(Longer(d, b).buf) = Len(d.buf) + 1
         /\ Longer(d, b).violation = d.violation /\ Longer(d, b).out = d.out
<1>1. d.buf \in Seq(Bytes)
  BY DEF Decoders
<1>2. Append(d.buf, b) \in Seq(Bytes) /\ Len(Append(d.buf, b)) = Len(d.buf) + 1
  BY <1>1
<1>3. Longer(d, b).buf = Append(d.buf, b)
  BY DEF Longer, Decoders
<1> QED BY <1>2, <1>3 DEF Longer, Decoders

LEMMA HandingForm ==
  ASSUME NEW d \in Decoders, NEW f \in Seq(Bytes)
  PROVE  /\ Handing(d, f) \in Decoders /\ Handing(d, f).out = Append(d.out, f)
         /\ Handing(d, f).buf = <<>> /\ Handing(d, f).violation = d.violation
<1> DEFINE u == [d EXCEPT !.out = Append(@, f)]
<1>1. d.out \in Seq(Seq(Bytes))
  BY DEF Decoders
<1>2. Append(d.out, f) \in Seq(Seq(Bytes)) /\ <<>> \in Seq(Bytes)
  BY <1>1, AppendProperties, EmptySeq
<1>3. /\ u \in Decoders /\ u.out = Append(d.out, f) /\ u.violation = d.violation
  BY <1>2 DEF Decoders
<1>4. Handing(d, f) = [u EXCEPT !.buf = <<>>]
  BY DEF Handing
<1> HIDE DEF u
<1> QED BY <1>2, <1>3, <1>4 DEF Decoders

(* One more byte: the decoder says of the bytes up to it what a look at them says. *)
LEMMA JudgeByte ==
  ASSUME DecoderAssumption, NEW s \in Seq(Bytes), NEW d, Judged(s, d), NEW b \in Bytes
  PROVE  Judged(Append(s, b), Step(d, b))
<1> DEFINE t == Append(s, b)
           n == Len(s) + 1
           line == SubSeq(s, Start(s, n), Len(s))
<1>1. /\ Len(s) \in Nat /\ t \in Seq(Bytes) /\ Len(t) = n /\ t[n] = b
      /\ Faults(s) \in SUBSET (1 .. Len(s)) /\ Good(s) \in SUBSET (1 .. Len(s))
      /\ d \in Decoders /\ HandedOn(s, d.out) /\ MaxFrameBytes \in Nat /\ LF \in Bytes
  BY FaultsAreBytes DEF Judged, DecoderAssumption
<1>2. /\ LFs(t) = LFs(s) \union (IF b = LF THEN {n} ELSE {})
      /\ \A i \in 1 .. n : Start(t, i) = Start(s, i)
      /\ \A i \in 1 .. Len(s) : Fault(t, i) = Fault(s, i)
      /\ Line(t, n) = line
      /\ Faults(t) = Faults(s) \union (IF Fault(t, n) # "Ok" THEN {n} ELSE {})
  BY OneByteMore
<1>3. n \notin LFs(s) /\ \A i \in LFs(s) : i < n
  BY <1>1 DEF LFs
<1>4. Start(s, n) \in 1 .. n
  <2>1. n \in 1 .. Len(s) + 1
    BY <1>1
  <2> QED BY <2>1, StartOf
<1>5. line \in Seq(Bytes) /\ Len(line) = n - Start(s, n)
  <2>1. Start(s, n) \in 1 .. Len(s) + 1
    BY <1>4
  <2> QED BY <1>1, <2>1, SubSeqProperties
<1>6. Fault(t, n) = IF b = LF THEN DecodeFrame(line)
                    ELSE IF Len(line) + 1 > MaxFrameBytes THEN "OversizeFrame" ELSE "Ok"
  <2>1. n \in LFs(t) <=> b = LF
    BY <1>2, <1>3
  <2>2. n \in 1 .. n /\ n - Start(s, n) + 1 = Len(line) + 1
    BY <1>1, <1>4, <1>5
  <2> QED BY <1>2, <2>1, <2>2 DEF Fault
<1>7. ASSUME Fault(t, n) # "Ok" \/ Faults(s) # {} \/ b # LF PROVE Good(t) = Good(s)
  <2>1. CASE b # LF
    <3>1. LFs(t) = LFs(s)
      BY <1>2, <2>1
    <3> QED BY <1>2, <1>3, <3>1 DEF Good
  <2>2. CASE Faults(s) # {}
    <3>1. PICK k \in Faults(s) : TRUE
      BY <2>2
    <3>2. k \in Faults(t) /\ ~ (n < k)
      BY <1>1, <1>2
    <3>3. n \notin Good(t)
      BY <3>2 DEF Good
    <3> QED BY <1>2, <1>3, <3>3 DEF Good
  <2>3. CASE Fault(t, n) # "Ok"
    <3>1. n \in Faults(t) /\ ~ (n < n)
      BY <1>1, <1>2, <2>3
    <3>2. n \notin Good(t)
      BY <3>1 DEF Good
    <3> QED BY <1>2, <1>3, <3>2 DEF Good
  <2> QED BY <1>7, <2>1, <2>2, <2>3
<1> HIDE DEF t, n, line
<1>8. CASE d.violation # "None"
  <2>1. PICK k \in Faults(s) : (\A j \in Faults(s) : k =< j) /\ d.violation = Fault(s, k)
    BY <1>8 DEF Judged
  <2>2. Step(d, b) = d
    BY <1>8 DEF Step
  <2>3. k \in Faults(t) /\ d.violation = Fault(t, k)
    BY <1>1, <1>2, <2>1
  <2>4. \A j \in Faults(t) : k =< j
    <3>1. k =< n
      BY <1>1, <2>1 DEF n
    <3> QED BY <1>2, <2>1, <3>1
  <2>5. HandedOn(t, d.out)
    BY <1>1, <1>7, <2>1, NothingMore DEF t
  <2>6. Len(d.buf) =< MaxFrameBytes + 1
    BY DEF Judged
  <2> QED BY <1>1, <1>8, <2>2, <2>3, <2>4, <2>5, <2>6 DEF Judged, t
<1>9. CASE d.violation = "None" /\ Fault(t, n) # "Ok"
  <2>1. Faults(s) = {} /\ d.buf = line /\ Len(d.buf) =< MaxFrameBytes
    BY <1>9 DEF Judged, line, n
  <2> DEFINE e == Step(d, b)
  <2>2. e \in Decoders /\ e.out = d.out /\ e.violation = Fault(t, n)
        /\ Len(e.buf) =< MaxFrameBytes + 1
    <3>1. CASE b = LF
      <4>1. e = Caught(d, DecodeFrame(d.buf))
        BY <1>6, <1>9, <2>1, <3>1 DEF Step
      <4>2. DecodeFrame(d.buf) \in Violations /\ DecodeFrame(d.buf) = Fault(t, n)
        BY <1>6, <1>9, <2>1, <3>1, DecodeFrameType DEF Violations
      <4>3. Len(d.buf) =< MaxFrameBytes + 1
        BY <1>1, <1>5, <2>1
      <4> HIDE DEF e
      <4> QED BY <1>1, <4>1, <4>2, <4>3, CaughtForm
    <3>2. CASE b # LF
      <4>1. Len(line) + 1 > MaxFrameBytes /\ Fault(t, n) = "OversizeFrame"
        BY <1>6, <1>9, <3>2
      <4> DEFINE longer == Longer(d, b)
      <4>2. longer.buf = Append(line, b) /\ Len(longer.buf) = Len(line) + 1
            /\ longer \in Decoders /\ longer.out = d.out
        BY <1>1, <1>5, <2>1, LongerForm
      <4>3. e = Caught(longer, "OversizeFrame")
        <5>1. Len(Longer(d, b).buf) > MaxFrameBytes
          BY <4>1, <4>2
        <5> QED BY <1>9, <3>2, <5>1 DEF Step, Longer
      <4>4. Len(longer.buf) =< MaxFrameBytes + 1
        BY <1>1, <1>5, <2>1, <4>2
      <4> HIDE DEF longer
      <4>5. "OversizeFrame" \in Violations
        BY DEF Violations
      <4> QED BY <4>1, <4>2, <4>3, <4>4, <4>5, CaughtForm
    <3> QED BY <3>1, <3>2
  <2> HIDE DEF e
  <2>3. n \in Faults(t) /\ \A j \in Faults(t) : n =< j
    BY <1>1, <1>2, <1>9, <2>1 DEF n
  <2>4. HandedOn(t, e.out)
    BY <1>1, <1>7, <1>9, <2>2, NothingMore DEF t
  <2>5. e.violation # "None"
    BY <1>6, <1>9, <2>2, DecodeFrameType
  <2> QED BY <2>2, <2>3, <2>4, <2>5 DEF Judged, e, t
<1>10. CASE d.violation = "None" /\ Fault(t, n) = "Ok"
  <2>1. Faults(s) = {} /\ d.buf = line /\ Len(d.buf) =< MaxFrameBytes
    BY <1>10 DEF Judged, line, n
  <2>2. Faults(t) = {}
    BY <1>2, <1>10, <2>1
  <2> DEFINE m == Len(t) + 1
  <2>3. m \in 1 .. Len(t) + 1 /\ m = n + 1
    BY <1>1 DEF n
  <2>4. CASE b = LF
    <3>1. Start(t, m) = m
      <4>1. m \in 1 .. m /\ t[m - 1] = LF
        BY <1>1, <2>3, <2>4 DEF n
      <4>2. \A j \in m .. m - 1 : t[j] # LF
        BY <2>3
      <4> HIDE DEF m
      <4> QED BY <1>1, <2>3, <4>1, <4>2, StartUnique
    <3>2. SubSeq(t, Start(t, m), Len(t)) = <<>>
      BY <1>1, <2>3, <3>1, SubSeqProperties
    <3>3. DecodeFrame(line) = "Ok"
      BY <1>6, <1>10, <2>4
    <3>4. Step(d, b) = Handing(d, line)
      BY <1>10, <2>1, <2>4, <3>3 DEF Step, Handing
    <3>5. Good(t) = Good(s) \union {n}
      BY <1>2, <2>1, <2>2, <2>4 DEF Good
    <3>6. d.out \in Seq(Seq(Bytes))
      BY <1>1 DEF Decoders
    <3>7. HandedOn(t, Append(d.out, line))
      BY <1>1, <1>2, <3>5, <3>6, OneMore DEF t, n
    <3> DEFINE e == Step(d, b)
    <3>8. /\ e \in Decoders /\ e.out = Append(d.out, line) /\ e.buf = <<>>
          /\ e.violation = "None"
      BY <1>1, <1>5, <1>10, <3>4, HandingForm
    <3>9. Len(e.buf) = 0 /\ 0 =< MaxFrameBytes /\ 0 =< MaxFrameBytes + 1
      BY <1>1, <3>8
    <3> HIDE DEF e
    <3>10. /\ e.buf = SubSeq(t, Start(t, Len(t) + 1), Len(t))
           /\ Len(e.buf) =< MaxFrameBytes /\ Len(e.buf) =< MaxFrameBytes + 1
      BY <1>1, <3>2, <3>8, <3>9
    <3>11. Judged(t, e)
      BY <2>2, <3>7, <3>8, <3>10 DEF Judged
    <3> QED BY <3>11 DEF e, t
  <2>5. CASE b # LF
    <3>1. Start(t, m) = Start(s, n)
      <4> HIDE DEF m
      <4>1. /\ n \in 1 .. Len(s) + 1
            /\ Start(s, n) = 1 \/ s[Start(s, n) - 1] = LF
            /\ \A j \in Start(s, n) .. n - 1 : s[j] # LF
        BY <1>1, StartOf DEF n
      <4>2. \A j \in 1 .. Len(s) : t[j] = s[j]
        BY <1>1 DEF t
      <4>3. Start(s, n) \in 1 .. m
        BY <1>1, <1>4, <2>3 DEF n
      <4>4. Start(s, n) = 1 \/ t[Start(s, n) - 1] = LF
        BY <1>1, <1>4, <4>1, <4>2 DEF n
      <4>5. \A j \in Start(s, n) .. m - 1 : t[j] # LF
        BY <1>1, <1>4, <2>3, <2>5, <4>1, <4>2 DEF n
      <4> QED BY <1>1, <2>3, <4>3, <4>4, <4>5, StartUnique
    <3>2. SubSeq(t, Start(s, n), n) = Append(line, b)
      <4>1. line = SubSeq(s, Start(s, n), Len(s)) /\ n = Len(s) + 1
        BY DEF line, n
      <4>2. Len(SubSeq(t, Start(s, n), n)) = Len(line) + 1
        BY <1>1, <1>4, <1>5, SubSeqProperties
      <4>3. ASSUME NEW j \in 1 .. Len(line) + 1
            PROVE  SubSeq(t, Start(s, n), n)[j] = Append(line, b)[j]
        <5>1. SubSeq(t, Start(s, n), n)[j] = t[Start(s, n) + j - 1]
          BY <1>1, <1>4, <1>5, SubSeqProperties
        <5>2. CASE j = Len(line) + 1
          <6>1. Start(s, n) + j - 1 = n
            BY <1>4, <1>5, <5>2, <4>1
          <6> QED BY <1>1, <1>5, <5>1, <5>2, <6>1
        <5>3. CASE j # Len(line) + 1
          <6>1. j \in 1 .. Len(line) /\ Start(s, n) + j - 1 \in 1 .. Len(s)
            BY <1>1, <1>4, <1>5, <4>1, <5>3
          <6>2. line[j] = s[Start(s, n) + j - 1]
            BY <1>1, <1>4, <1>5, <4>1, <6>1, SubSeqProperties
          <6> QED BY <1>1, <1>5, <5>1, <5>3, <6>1, <6>2 DEF t
        <5> QED BY <5>2, <5>3
      <4>4. SubSeq(t, Start(s, n), n) \in Seq(Bytes) /\ Append(line, b) \in Seq(Bytes)
            /\ Len(Append(line, b)) = Len(line) + 1
        BY <1>1, <1>4, <1>5, SubSeqProperties
      <4> QED BY <1>5, <4>2, <4>3, <4>4
    <3>3. Len(line) + 1 =< MaxFrameBytes
      BY <1>1, <1>5, <1>6, <1>10, <2>5
    <3> DEFINE longer == Longer(d, b)
    <3>4. /\ longer \in Decoders /\ longer.buf = Append(line, b) /\ longer.out = d.out
          /\ longer.violation = "None" /\ Len(longer.buf) = Len(line) + 1
      BY <1>1, <1>5, <1>10, <2>1, LongerForm
    <3>5. Step(d, b) = longer
      <4>1. ~ (Len(Longer(d, b).buf) > MaxFrameBytes)
        BY <1>1, <1>5, <3>3, <3>4
      <4> QED BY <1>10, <2>5, <4>1 DEF Step, Longer
    <3> HIDE DEF longer
    <3>6. HandedOn(t, d.out)
      BY <1>1, <1>7, <2>5, NothingMore DEF t
    <3>7. longer.buf = SubSeq(t, Start(t, Len(t) + 1), Len(t))
      BY <1>1, <3>1, <3>2, <3>4
    <3>8. Len(longer.buf) =< MaxFrameBytes /\ Len(longer.buf) =< MaxFrameBytes + 1
      BY <1>1, <1>5, <3>3, <3>4
    <3>9. Judged(t, longer)
      BY <2>2, <3>4, <3>6, <3>7, <3>8 DEF Judged
    <3> QED BY <3>5, <3>9 DEF t
  <2> QED BY <2>4, <2>5
<1> QED BY <1>8, <1>9, <1>10

(* A step makes a decoder of a decoder. *)
LEMMA StepType ==
  ASSUME NEW d \in Decoders, NEW b \in Bytes
  PROVE  Step(d, b) \in Decoders
<1>1. d.buf \in Seq(Bytes) /\ "OversizeFrame" \in Violations
  BY DEF Decoders, Violations
<1>2. DecodeFrame(d.buf) # "Ok" => DecodeFrame(d.buf) \in Violations
  BY DecodeFrameType DEF Violations
<1>3. Longer(d, b) \in Decoders /\ Handing(d, d.buf) \in Decoders
  BY <1>1, LongerForm, HandingForm
<1>4. Caught(Longer(d, b), "OversizeFrame") \in Decoders
  BY <1>1, <1>3, CaughtForm
<1>5. DecodeFrame(d.buf) # "Ok" => Caught(d, DecodeFrame(d.buf)) \in Decoders
  BY <1>2, CaughtForm
<1>6. \/ Step(d, b) = d
      \/ Step(d, b) \in {Longer(d, b), Caught(Longer(d, b), "OversizeFrame")}
      \/ DecodeFrame(d.buf) # "Ok" /\ Step(d, b) = Caught(d, DecodeFrame(d.buf))
      \/ Step(d, b) = Handing(d, d.buf)
  BY DEF Step, Longer, Handing
<1> QED BY <1>3, <1>4, <1>5, <1>6

(* A chunk is its bytes, one after another, wherever it is cut. *)
LEMMA PushIsBytes ==
  ASSUME NEW d \in Decoders, NEW n \in Nat, NEW chunk \in [1 .. n -> Bytes]
  PROVE  \E f \in [0 .. n -> Decoders] :
           /\ f[0] = d /\ f[n] = Push(d, chunk)
           /\ \A k \in 1 .. n : f[k] = Step(f[k - 1], chunk[k])
<1> DEFINE step == [k \in 1 .. n |-> [x \in Decoders |-> Step(x, chunk[k])]]
           taken == CHOOSE g : g = [k \in 0 .. n |->
                      IF k = 0 THEN d ELSE Step(g[k - 1], chunk[k])]
<1>1. \A k \in 1 .. n : \A x \in Decoders : step[k][x] \in Decoders
  BY StepType
<1>2. PICK f \in [0 .. n -> Decoders] : f[0] = d /\ \A k \in 1 .. n : f[k] = step[k][f[k - 1]]
  <2> HIDE DEF step
  <2>1. CanIterate(n, Decoders, d, step)
    BY <1>1, Iteration
  <2> QED BY <2>1 DEF CanIterate
<1>3. ASSUME NEW k \in 1 .. n PROVE k - 1 \in 0 .. n /\ f[k] = Step(f[k - 1], chunk[k])
  <2>1. k - 1 \in 0 .. n
    OBVIOUS
  <2>2. f[k - 1] \in Decoders
    BY <2>1
  <2>3. step[k][f[k - 1]] = Step(f[k - 1], chunk[k])
    BY <2>2
  <2> HIDE DEF step
  <2> QED BY <1>2, <2>1, <2>3
<1>4. f = [k \in 0 .. n |-> IF k = 0 THEN d ELSE Step(f[k - 1], chunk[k])]
  <2>1. \A k \in 0 .. n : k # 0 => k \in 1 .. n
    OBVIOUS
  <2>2. \A k \in 0 .. n : f[k] = IF k = 0 THEN d ELSE Step(f[k - 1], chunk[k])
    BY <1>2, <1>3, <2>1
  <2> QED BY <2>2
<1>5. taken = [k \in 0 .. n |-> IF k = 0 THEN d ELSE Step(taken[k - 1], chunk[k])]
  BY <1>4
<1>6. chunk \in Seq(Bytes) /\ Len(chunk) = n
  OBVIOUS
<1>7. Push(d, chunk) = taken[n]
  BY <1>6 DEF Push
<1> HIDE DEF taken
<1> DEFINE S == {k \in 0 .. n : taken[k] = f[k]}
<1>8. S = 0 .. n
  <2>1. ASSUME NEW m \in 0 .. n, \A k \in 0 .. m - 1 : k \in S PROVE m \in S
    <3>1. CASE m = 0
      BY <1>2, <1>5, <3>1
    <3>2. CASE m # 0
      <4>1. m - 1 \in 0 .. m - 1 /\ m \in 1 .. n
        BY <3>2
      <4>2. taken[m - 1] = f[m - 1]
        BY <2>1, <4>1
      <4>3. taken[m] = Step(taken[m - 1], chunk[m])
        BY <1>5, <3>2
      <4> QED BY <1>3, <4>1, <4>2, <4>3
    <3> QED BY <3>1, <3>2
  <2> HIDE DEF S
  <2>2. S \in SUBSET (0 .. n)
    BY DEF S
  <2> QED BY <2>1, <2>2, UpTo
<1>9. n \in S
  BY <1>8
<1>10. f[n] = Push(d, chunk)
  BY <1>7, <1>9
<1> QED BY <1>2, <1>3, <1>10

LEMMA JudgeChunk ==
  ASSUME DecoderAssumption, NEW s \in Seq(Bytes), NEW d, Judged(s, d),
         NEW n \in Nat, NEW chunk \in [1 .. n -> Bytes]
  PROVE  s \o chunk \in Seq(Bytes) /\ Judged(s \o chunk, Push(d, chunk))
<1>1. d \in Decoders
  BY DEF Judged
<1>2. PICK f \in [0 .. n -> Decoders] :
           /\ f[0] = d /\ f[n] = Push(d, chunk)
           /\ \A k \in 1 .. n : f[k] = Step(f[k - 1], chunk[k])
  BY <1>1, PushIsBytes
<1>3. chunk \in Seq(Bytes) /\ Len(chunk) = n
  OBVIOUS
<1> DEFINE upto(k) == s \o SubSeq(chunk, 1, k)
           S == {k \in 0 .. n : upto(k) \in Seq(Bytes) /\ Judged(upto(k), f[k])}
<1>4. upto(0) = s
  BY <1>3
<1>5. ASSUME NEW k \in 1 .. n PROVE upto(k) = Append(upto(k - 1), chunk[k])
  <2>1. SubSeq(chunk, 1, k) = Append(SubSeq(chunk, 1, k - 1), chunk[k])
    BY <1>3
  <2>2. SubSeq(chunk, 1, k - 1) \in Seq(Bytes) /\ chunk[k] \in Bytes
    BY <1>3
  <2>3. s \o Append(SubSeq(chunk, 1, k - 1), chunk[k])
          = Append(s \o SubSeq(chunk, 1, k - 1), chunk[k])
    BY <2>2
  <2> QED BY <2>1, <2>3
<1>6. upto(n) = s \o chunk
  <2>1. SubSeq(chunk, 1, n) = chunk
    BY <1>3
  <2> QED BY <2>1
<1> HIDE DEF upto
<1>7. S = 0 .. n
  <2>1. ASSUME NEW m \in 0 .. n, \A k \in 0 .. m - 1 : k \in S PROVE m \in S
    <3>1. CASE m = 0
      BY <1>2, <1>4, <3>1
    <3>2. CASE m # 0
      <4>1. m - 1 \in 0 .. m - 1 /\ m \in 1 .. n /\ chunk[m] \in Bytes
        BY <3>2
      <4>2. upto(m - 1) \in Seq(Bytes) /\ Judged(upto(m - 1), f[m - 1])
        BY <2>1, <4>1
      <4>3. Judged(Append(upto(m - 1), chunk[m]), Step(f[m - 1], chunk[m]))
        BY <4>1, <4>2, JudgeByte
      <4>4. Append(upto(m - 1), chunk[m]) \in Seq(Bytes)
        BY <4>1, <4>2
      <4> QED BY <1>2, <1>5, <4>1, <4>3, <4>4
    <3> QED BY <3>1, <3>2
  <2> HIDE DEF S
  <2>2. S \in SUBSET (0 .. n)
    BY DEF S
  <2> QED BY <2>1, <2>2, UpTo
<1>8. n \in S
  BY <1>7
<1> QED BY <1>2, <1>6, <1>8

-----------------------------------------------------------------------------
(***************************************************************************)
(* The decoder under its reader.                                            *)
(***************************************************************************)

(* The reader's last word is the decoder's. *)
DecoderInv ==
  /\ stream \in Seq(Bytes)
  /\ Judged(stream, decoder)
  /\ ended # "None" =>
       ended = IF decoder.violation # "None" THEN decoder.violation
               ELSE IF decoder.buf # <<>> THEN "UnterminatedFrame" ELSE "Clean"

LEMMA DecoderInitJudged == ASSUME DecoderAssumption PROVE DecoderInit => DecoderInv
<1> SUFFICES ASSUME DecoderInit PROVE DecoderInv
  OBVIOUS
<1>1. stream = <<>> /\ stream \in Seq(Bytes) /\ Len(stream) = 0 /\ DOMAIN stream = {}
  BY DEF DecoderInit
<1>2. Faults(stream) = {} /\ Good(stream) = {} /\ LFs(stream) = {}
  BY <1>1 DEF Faults, Good, LFs
<1>3. /\ decoder.buf = <<>> /\ decoder.violation = "None" /\ decoder.out = <<>>
      /\ Len(decoder.buf) = 0 /\ Len(decoder.out) = 0 /\ decoder \in Decoders
  <2>1. <<>> \in Seq(Bytes) /\ <<>> \in Seq(Seq(Bytes)) /\ Len(<<>>) = 0
    BY EmptySeq
  <2> QED BY <2>1 DEF DecoderInit, NewDecoder, Decoders
<1>4. HandedOn(stream, decoder.out)
  BY <1>2, <1>3, FS_EmptySet DEF HandedOn
<1>5. Start(stream, 1) = 1
  BY <1>2 DEF Start
<1>6. SubSeq(stream, Start(stream, Len(stream) + 1), Len(stream)) = <<>>
  BY <1>1, <1>5
<1>7. MaxFrameBytes \in Nat
  BY DEF DecoderAssumption
<1>8. 0 =< MaxFrameBytes /\ 0 =< MaxFrameBytes + 1
  BY <1>7
<1>9. Judged(stream, decoder)
  BY <1>2, <1>3, <1>4, <1>6, <1>8 DEF Judged
<1> QED BY <1>1, <1>9 DEF DecoderInv, DecoderInit

LEMMA DecoderStepJudged ==
  ASSUME DecoderAssumption, DecoderInv, [DecoderNext]_decoderVars PROVE DecoderInv'
<1>1. CASE UNCHANGED decoderVars
  BY <1>1 DEF DecoderInv, decoderVars
<1>2. ASSUME NEW n \in 1 .. MaxStream - Len(stream), NEW chunk \in [1 .. n -> Bytes],
             Read(chunk)
      PROVE  DecoderInv'
  <2>1. n \in Nat /\ stream \in Seq(Bytes) /\ Judged(stream, decoder)
    BY DEF DecoderInv, DecoderAssumption
  <2>2. stream \o chunk \in Seq(Bytes) /\ Judged(stream \o chunk, Push(decoder, chunk))
    BY <2>1, JudgeChunk
  <2>3. stream' \in Seq(Bytes) /\ Judged(stream', decoder') /\ ended' = "None"
    BY <1>2, <2>2 DEF Read
  <2> QED BY <2>3 DEF DecoderInv
<1>3. CASE EndOfStream
  BY <1>3 DEF EndOfStream, DecoderInv
<1> QED BY <1>1, <1>2, <1>3 DEF DecoderNext

LEMMA JudgedIsSplit ==
  ASSUME DecoderAssumption, DecoderInv PROVE SplitInvariant
<1>1. /\ stream \in Seq(Bytes) /\ Judged(stream, decoder) /\ decoder \in Decoders
      /\ Faults(stream) \in SUBSET (1 .. Len(stream)) /\ Len(stream) \in Nat
  BY FaultsAreBytes DEF DecoderInv, Judged
<1>2. decoder.violation = IF Faults(stream) = {} THEN "None" ELSE Fault(stream, Min(Faults(stream)))
  <2>1. CASE decoder.violation = "None"
    BY <1>1, <2>1 DEF Judged
  <2>2. CASE decoder.violation # "None"
    <3>1. PICK k \in Faults(stream) :
            (\A j \in Faults(stream) : k =< j) /\ decoder.violation = Fault(stream, k)
      BY <1>1, <2>2 DEF Judged
    <3>2. Min(Faults(stream)) = k
      <4> DEFINE m == CHOOSE x \in Faults(stream) : \A y \in Faults(stream) : x =< y
      <4>1. m \in Faults(stream) /\ \A y \in Faults(stream) : m =< y
        BY <3>1
      <4> HIDE DEF m
      <4>2. m =< k /\ k =< m
        BY <3>1, <4>1
      <4>3. m = k
        BY <1>1, <3>1, <4>1, <4>2
      <4> QED BY <4>3 DEF m, Min
    <3> QED BY <3>1, <3>2
  <2> QED BY <2>1, <2>2
<1>3. ended # "None" =>
        (ended = "Clean" <=> Faults(stream) = {} /\ (stream = <<>> \/ Last(stream) = LF))
  <2> SUFFICES ASSUME ended # "None"
               PROVE  ended = "Clean" <=>
                        Faults(stream) = {} /\ (stream = <<>> \/ Last(stream) = LF)
    OBVIOUS
  <2>1. CASE decoder.violation # "None"
    <3>1. ended = decoder.violation /\ ended # "Clean"
      BY <1>1, <2>1 DEF DecoderInv, Decoders, Violations
    <3>2. Faults(stream) # {}
      BY <1>1, <2>1 DEF Judged
    <3> QED BY <3>1, <3>2
  <2>2. CASE decoder.violation = "None"
    <3> DEFINE n == Len(stream) + 1
               k == Start(stream, n)
    <3>1. Faults(stream) = {} /\ decoder.buf = SubSeq(stream, k, Len(stream))
      BY <1>1, <2>2 DEF Judged
    <3>2. ended = "Clean" <=> decoder.buf = <<>>
      BY <2>2 DEF DecoderInv
    <3>3. /\ n \in 1 .. Len(stream) + 1 /\ k \in 1 .. n
          /\ k = 1 \/ stream[k - 1] = LF
          /\ \A j \in k .. n - 1 : stream[j] # LF
      <4>1. n \in 1 .. Len(stream) + 1
        BY <1>1
      <4> HIDE DEF n
      <4> QED BY <1>1, <4>1, StartOf
    <3> HIDE DEF k
    <3>4. decoder.buf = <<>> <=> k = n
      <4>1. k \in Nat /\ n - 1 = Len(stream) /\ k =< n /\ 1 =< k
        BY <1>1, <3>3
      <4>2. k = n => decoder.buf = <<>>
        BY <1>1, <3>1, <4>1
      <4>3. k # n => Len(decoder.buf) # 0
        <5>1. ASSUME k # n PROVE Len(decoder.buf) = n - k
          BY <1>1, <3>1, <4>1, <5>1, SubSeqProperties
        <5> QED BY <4>1, <5>1
      <4>4. Len(<<>>) = 0
        OBVIOUS
      <4> QED BY <4>2, <4>3, <4>4
    <3>5. stream = <<>> <=> Len(stream) = 0
      BY <1>1
    <3>6. Last(stream) = stream[Len(stream)]
      BY DEF Last
    <3>7. k = n <=> stream = <<>> \/ Last(stream) = LF
      <4>1. CASE Len(stream) = 0
        BY <3>3, <3>5, <4>1
      <4>2. CASE Len(stream) # 0
        <5>1. ASSUME k = n PROVE Last(stream) = LF
          BY <1>1, <3>3, <3>6, <4>2, <5>1
        <5>2. ASSUME k # n PROVE Last(stream) # LF
          <6>1. Len(stream) \in k .. n - 1
            BY <1>1, <3>3, <5>2
          <6> QED BY <3>3, <3>6, <6>1
        <5> QED BY <3>5, <4>2, <5>1, <5>2
      <4> QED BY <4>1, <4>2
    <3> QED BY <3>1, <3>2, <3>4, <3>7
  <2> QED BY <2>1, <2>2
<1> QED BY <1>1, <1>2, <1>3 DEF SplitInvariant, Judged, HandedOn, Good

(* For every alphabet, text, cap and cut of the stream: the frames that are handed on and
   the violation are those a look at all the bytes finds, and the end is clean only when
   each byte was judged. *)
THEOREM SplitAnywhere == DecoderSpec => []SplitInvariant
<1>1. DecoderAssumption => (DecoderInit => DecoderInv)
  BY DecoderInitJudged
<1>2. DecoderAssumption => (DecoderInv /\ [DecoderNext]_decoderVars => DecoderInv')
  BY DecoderStepJudged
<1>3. DecoderAssumption => (DecoderInv => SplitInvariant)
  BY JudgedIsSplit
<1>4. DecoderInit => DecoderInv
  BY <1>1, DecoderAssumption
<1>5. DecoderInv /\ [DecoderNext]_decoderVars => DecoderInv'
  BY <1>2, DecoderAssumption
<1>6. DecoderInv => SplitInvariant
  BY <1>3, DecoderAssumption
<1> QED BY <1>4, <1>5, <1>6, PTL DEF DecoderSpec

-----------------------------------------------------------------------------
(***************************************************************************)
(* The calendar.                                                            *)
(***************************************************************************)

(* The days before the March that begins a year, and before a month of that year. *)
YearDays(y) == 365 * y + y \div 4 - y \div 100 + y \div 400
MonthDays(mp) == (153 * mp + 2) \div 5

(* The day a March-based year, its month and a day of it stand for. *)
DayOf(y, mp, d) == YearDays(y) + MonthDays(mp) + d - 1 - 719468

DayOfYear(mp, d) == MonthDays(mp) + d - 1

MarchYear(y, m) == IF m =< 2 THEN y - 1 ELSE y
MarchMonth(m) == IF m > 2 THEN m - 3 ELSE m + 9

RealDate(date) ==
  /\ date \in Int \X (1 .. 12) \X (1 .. 31)
  /\ date[3] =< DaysIn(date[1], date[2])

DateIs(date, y, m, d) == date = <<y, m, d>> /\ d =< DaysIn(y, m)

LEMMA DateParts ==
  ASSUME NEW date, RealDate(date)
  PROVE  \E y \in Int, m \in 1 .. 12, d \in 1 .. 31 : DateIs(date, y, m, d)
<1>1. /\ date[1] \in Int /\ date[2] \in 1 .. 12 /\ date[3] \in 1 .. 31
      /\ date = <<date[1], date[2], date[3]>> /\ date[3] =< DaysIn(date[1], date[2])
  BY DEF RealDate
<1>2. DateIs(date, date[1], date[2], date[3])
  BY <1>1 DEF DateIs
<1> QED BY <1>1, <1>2

LEMMA EraYear ==
  ASSUME NEW era \in Int, NEW yoe \in 0 .. 399
  PROVE  /\ (400 * era + yoe) \div 4 = 100 * era + yoe \div 4
         /\ (400 * era + yoe) \div 100 = 4 * era + yoe \div 100
         /\ (400 * era + yoe) \div 400 = era
OBVIOUS

LEMMA YearOfEra ==
  ASSUME NEW c \in 0 .. 3, NEW q \in 0 .. 24, NEW r \in 0 .. 3, NEW doy \in 0 .. 365,
         doy = 365 => r = 3 /\ (q # 24 \/ c = 3)
  PROVE  LET doe == 36524 * c + 1461 * q + 365 * r + doy
         IN  (doe - doe \div 1460 + doe \div 36524 - doe \div 146096) \div 365
               = 100 * c + 4 * q + r
OBVIOUS

(* A year of an era is of one of its centuries, and there of one of its leap cycles. *)
LEMMA YearParts ==
  ASSUME NEW yoe \in 0 .. 399
  PROVE  \E c \in 0 .. 3, q \in 0 .. 24, r \in 0 .. 3 :
           /\ yoe = 100 * c + 4 * q + r
           /\ yoe \div 100 = c /\ yoe \div 4 = 25 * c + q
<1> DEFINE c == yoe \div 100
           q == (yoe - 100 * c) \div 4
           r == yoe - 100 * c - 4 * q
<1>1. c \in 0 .. 3 /\ yoe - 100 * c \in 0 .. 99
  OBVIOUS
<1> HIDE DEF c
<1>2. q \in 0 .. 24 /\ r \in 0 .. 3
  BY <1>1
<1>3. yoe = 100 * c + 4 * q + r
  BY <1>1, <1>2
<1> HIDE DEF q, r
<1>4. yoe \div 4 = 25 * c + q
  BY <1>1, <1>2, <1>3
<1> QED BY <1>1, <1>2, <1>3, <1>4 DEF c

MonthHas(mp, d) == (mp \in {1, 3, 6, 8} => d =< 30) /\ (mp = 11 => d =< 29)

(* A day of a year tells its month. *)
LEMMA MonthOf ==
  ASSUME NEW mp \in 0 .. 11, NEW d \in 1 .. 31, MonthHas(mp, d)
  PROVE  \E doy \in 0 .. 365 :
           /\ doy = DayOfYear(mp, d) /\ (5 * doy + 2) \div 153 = mp
           /\ doy = 365 <=> mp = 11 /\ d = 29
<1>1. /\ (5 * DayOfYear(mp, d) + 2) \div 153 = mp
      /\ DayOfYear(mp, d) \in 0 .. 365
      /\ DayOfYear(mp, d) = 365 <=> mp = 11 /\ d = 29
  BY SMTT(30) DEF DayOfYear, MonthDays, MonthHas
<1> QED BY <1>1

(* And an era is as many days long as any other. *)
LEMMA EraOfDay ==
  ASSUME NEW era \in Int, NEW doe \in Nat, doe < 146097
  PROVE  (era * 146097 + doe) \div 146097 = era
OBVIOUS

(* `year_days' of an era and of a year in it. *)
LEMMA DaysOfDate ==
  ASSUME NEW y \in Int, NEW m \in 1 .. 12, NEW d \in Int
  PROVE  DaysFromCivil(<<y, m, d>>) = DayOf(MarchYear(y, m), MarchMonth(m), d)
<1> DEFINE n == MarchYear(y, m)
           era == n \div 400
           yoe == n - era * 400
<1>1. n \in Int /\ era \in Int /\ yoe \in 0 .. 399 /\ n = 400 * era + yoe
  BY DEF MarchYear
<1>2. DaysFromCivil(<<y, m, d>>)
        = era * 146097 + yoe * 365 + yoe \div 4 - yoe \div 100
          + (MonthDays(MarchMonth(m)) + d - 1) - 719468
  BY DEF DaysFromCivil, MarchYear, MarchMonth, MonthDays
<1> HIDE DEF n, era, yoe
<1>3. /\ n \div 4 = 100 * era + yoe \div 4
      /\ n \div 100 = 4 * era + yoe \div 100
      /\ n \div 400 = era
  BY <1>1, EraYear
<1>4. YearDays(n) = era * 146097 + yoe * 365 + yoe \div 4 - yoe \div 100
  BY <1>1, <1>3 DEF YearDays
<1>5. MonthDays(MarchMonth(m)) \in Int
  BY DEF MonthDays, MarchMonth
<1> HIDE DEF MonthDays
<1> QED BY <1>1, <1>2, <1>4, <1>5 DEF DayOf, n

(* Whether the year that begins in March y ends with a 29 February. *)
LEMMA LongYear ==
  ASSUME NEW era \in Int, NEW c \in 0 .. 3, NEW q \in 0 .. 24, NEW r \in 0 .. 3
  PROVE  LeapYear(400 * era + 100 * c + 4 * q + r + 1) <=> r = 3 /\ (q # 24 \/ c = 3)
<1> DEFINE k == 100 * c + 4 * q + r + 1
           z == 400 * era + k
<1>1. k \in 1 .. 400
  OBVIOUS
<1>2. z % 4 = k % 4 /\ z % 100 = k % 100 /\ (z % 400 = 0 <=> k = 400)
  <2> HIDE DEF k
  <2> QED BY <1>1
<1>3. k % 4 = 0 <=> r = 3
  OBVIOUS
<1>4. k % 100 = 0 <=> r = 3 /\ q = 24
  OBVIOUS
<1>5. k = 400 <=> r = 3 /\ q = 24 /\ c = 3
  OBVIOUS
<1>6. LeapYear(z) <=> r = 3 /\ (q # 24 \/ c = 3)
  <2> HIDE DEF k
  <2> QED BY <1>2, <1>3, <1>4, <1>5 DEF LeapYear
<1>7. z = 400 * era + 100 * c + 4 * q + r + 1
  OBVIOUS
<1> QED BY <1>6, <1>7

(* Every year stands in an era, a century and a leap cycle. *)
YearIs(y, era, c, q, r) ==
  /\ y = 400 * era + 100 * c + 4 * q + r
  /\ YearDays(y) = era * 146097 + 36524 * c + 1461 * q + 365 * r
  /\ LeapYear(y + 1) <=> r = 3 /\ (q # 24 \/ c = 3)

LEMMA YearIn ==
  ASSUME NEW y \in Int
  PROVE  \E era \in Int, c \in 0 .. 3, q \in 0 .. 24, r \in 0 .. 3 : YearIs(y, era, c, q, r)
<1> DEFINE era == y \div 400
           yoe == y - 400 * era
<1>1. era \in Int /\ yoe \in 0 .. 399 /\ y = 400 * era + yoe
  OBVIOUS
<1> HIDE DEF era, yoe
<1>2. PICK c \in 0 .. 3, q \in 0 .. 24, r \in 0 .. 3 :
        yoe = 100 * c + 4 * q + r /\ yoe \div 100 = c /\ yoe \div 4 = 25 * c + q
  BY <1>1, YearParts
<1>3. /\ y \div 4 = 100 * era + yoe \div 4
      /\ y \div 100 = 4 * era + yoe \div 100
      /\ y \div 400 = era
  BY <1>1, EraYear
<1>4. YearDays(y) = era * 146097 + 36524 * c + 1461 * q + 365 * r
  BY <1>1, <1>2, <1>3 DEF YearDays
<1>5. y = 400 * era + 100 * c + 4 * q + r
  BY <1>1, <1>2
<1>6. LeapYear(y + 1) <=> r = 3 /\ (q # 24 \/ c = 3)
  <2>1. y + 1 = 400 * era + 100 * c + 4 * q + r + 1
    BY <1>1, <1>5
  <2> QED BY <1>1, <2>1, LongYear
<1> QED BY <1>1, <1>4, <1>5, <1>6 DEF YearIs

(* Hinnant's year, month and day of a day of an era are the ones it was counted from. *)
LEMMA CivilOfDay ==
  ASSUME NEW y \in Int, NEW mp \in 0 .. 11, NEW d \in 1 .. 31, MonthHas(mp, d),
         mp = 11 /\ d = 29 => LeapYear(y + 1)
  PROVE  CivilFromDays(DayOf(y, mp, d))
           = <<IF mp < 10 THEN y ELSE y + 1, IF mp < 10 THEN mp + 3 ELSE mp - 9, d>>
<1>1. PICK era \in Int, c \in 0 .. 3, q \in 0 .. 24, r \in 0 .. 3 : YearIs(y, era, c, q, r)
  BY YearIn
<1>2. PICK doy \in 0 .. 365 :
        /\ doy = DayOfYear(mp, d) /\ (5 * doy + 2) \div 153 = mp
        /\ doy = 365 <=> mp = 11 /\ d = 29
  BY MonthOf
<1>3. doy = 365 => r = 3 /\ (q # 24 \/ c = 3)
  BY <1>1, <1>2 DEF YearIs
<1>4. PICK doe \in Nat : doe = 36524 * c + 1461 * q + 365 * r + doy /\ doe < 146097
  BY <1>3
<1>5. PICK yoe \in 0 .. 399 : yoe = 100 * c + 4 * q + r
  OBVIOUS
<1>6. (doe - doe \div 1460 + doe \div 36524 - doe \div 146096) \div 365 = yoe
  BY <1>3, <1>4, <1>5, YearOfEra
<1>7. doe - (365 * yoe + yoe \div 4 - yoe \div 100) = doy
  <2>1. yoe \div 4 = 25 * c + q /\ yoe \div 100 = c
    BY <1>5
  <2> QED BY <1>4, <1>5, <2>1
<1>8. DayOf(y, mp, d) + 719468 = era * 146097 + doe
  <2>1. DayOf(y, mp, d) + 719468 = YearDays(y) + doy
    <3>1. YearDays(y) \in Int /\ MonthDays(mp) \in Int
      BY DEF YearDays, MonthDays
    <3> QED BY <1>2, <3>1 DEF DayOf, DayOfYear
  <2> QED BY <1>1, <1>4, <2>1 DEF YearIs
<1>9. CivilFromDays(DayOf(y, mp, d)) = CivilOfEra(era, doe)
  <2>1. (era * 146097 + doe) \div 146097 = era
    BY <1>4, EraOfDay
  <2> DEFINE z == DayOf(y, mp, d) + 719468
  <2>2. z \div 146097 = era /\ z - (z \div 146097) * 146097 = doe
    BY <1>8, <2>1
  <2>3. CivilFromDays(DayOf(y, mp, d))
          = CivilOfEra(z \div 146097, z - (z \div 146097) * 146097)
    BY DEF CivilFromDays
  <2> HIDE DEF z
  <2> QED BY <2>2, <2>3
<1>10. doy - (153 * mp + 2) \div 5 + 1 = d
  BY <1>2 DEF DayOfYear, MonthDays
<1> DEFINE m == IF mp < 10 THEN mp + 3 ELSE mp - 9
<1>11. CivilOfEra(era, doe) = <<yoe + era * 400 + (IF m =< 2 THEN 1 ELSE 0), m, d>>
  BY <1>2, <1>6, <1>7, <1>10 DEF CivilOfEra
<1>12. yoe + era * 400 + (IF m =< 2 THEN 1 ELSE 0) = IF mp < 10 THEN y ELSE y + 1
  <2>1. y = 400 * era + yoe
    BY <1>1, <1>5 DEF YearIs
  <2> QED BY <2>1
<1> QED BY <1>9, <1>11, <1>12

(* A date the calendar has is a day of a March-based year. *)
LEMMA RealDateParts ==
  ASSUME NEW y \in Int, NEW m \in 1 .. 12, NEW d \in 1 .. 31, d =< DaysIn(y, m)
  PROVE  LET n == MarchYear(y, m)
             mp == MarchMonth(m)
         IN  /\ n \in Int /\ mp \in 0 .. 11
             /\ MonthHas(mp, d)
             /\ mp = 11 /\ d = 29 => LeapYear(n + 1)
             /\ (IF mp < 10 THEN n ELSE n + 1) = y
             /\ (IF mp < 10 THEN mp + 3 ELSE mp - 9) = m
<1>1. m = 2 => (d =< 29 /\ (d = 29 => LeapYear(y)))
  BY DEF DaysIn
<1>2. m \in {4, 6, 9, 11} => d =< 30
  BY DEF DaysIn
<1>3. y - 1 + 1 = y
  OBVIOUS
<1>4. MarchMonth(m) \in 0 .. 11 /\ MarchYear(y, m) \in Int
  BY DEF MarchMonth, MarchYear
<1>5. MarchMonth(m) = 11 <=> m = 2
  BY DEF MarchMonth
<1>6. MarchMonth(m) \in {1, 3, 6, 8} => m \in {4, 6, 9, 11}
  BY DEF MarchMonth
<1>7. m = 2 => MarchYear(y, m) + 1 = y
  BY DEF MarchYear
<1>8. /\ (IF MarchMonth(m) < 10 THEN MarchYear(y, m) ELSE MarchYear(y, m) + 1) = y
      /\ (IF MarchMonth(m) < 10 THEN MarchMonth(m) + 3 ELSE MarchMonth(m) - 9) = m
  BY DEF MarchMonth, MarchYear
<1> QED BY <1>1, <1>2, <1>4, <1>5, <1>6, <1>7, <1>8 DEF MonthHas

(* From a date to its day and back. *)
LEMMA ThereAndBack ==
  ASSUME NEW date, RealDate(date)
  PROVE  DaysFromCivil(date) \in Int /\ CivilFromDays(DaysFromCivil(date)) = date
<1>0. PICK y \in Int, m \in 1 .. 12, d \in 1 .. 31 : DateIs(date, y, m, d)
  BY DateParts
<1>1. date = <<y, m, d>> /\ d =< DaysIn(y, m)
  BY <1>0 DEF DateIs
<1> DEFINE n == MarchYear(y, m)
           mp == MarchMonth(m)
<1>2. /\ n \in Int /\ mp \in 0 .. 11
      /\ MonthHas(mp, d)
      /\ mp = 11 /\ d = 29 => LeapYear(n + 1)
      /\ (IF mp < 10 THEN n ELSE n + 1) = y
      /\ (IF mp < 10 THEN mp + 3 ELSE mp - 9) = m
  BY <1>1, RealDateParts
<1>3. DaysFromCivil(date) = DayOf(n, mp, d)
  BY <1>1, DaysOfDate
<1> HIDE DEF n, mp
<1>4. CivilFromDays(DayOf(n, mp, d)) = <<y, m, d>>
  BY <1>2, CivilOfDay
<1>5. DayOf(n, mp, d) \in Int
  BY <1>2 DEF DayOf, YearDays, MonthDays
<1> QED BY <1>1, <1>3, <1>4, <1>5

(* The next March is as far away as the year is long. *)
LEMMA NextYear ==
  ASSUME NEW y \in Int
  PROVE  YearDays(y + 1) = YearDays(y) + (IF LeapYear(y + 1) THEN 366 ELSE 365)
<1>1. /\ (y + 1) \div 4 - y \div 4 = IF (y + 1) % 4 = 0 THEN 1 ELSE 0
      /\ (y + 1) \div 100 - y \div 100 = IF (y + 1) % 100 = 0 THEN 1 ELSE 0
      /\ (y + 1) \div 400 - y \div 400 = IF (y + 1) % 400 = 0 THEN 1 ELSE 0
  OBVIOUS
<1>2. /\ (y + 1) % 400 = 0 => (y + 1) % 100 = 0
      /\ (y + 1) % 100 = 0 => (y + 1) % 4 = 0
  OBVIOUS
<1> QED BY <1>1, <1>2 DEF YearDays, LeapYear

(* The day after a month's last is the next month's first, wherever it is counted from. *)
LEMMA Overflow ==
  ASSUME NEW y \in Int, NEW m \in 1 .. 12, NEW k \in Int
  PROVE  LET next == IF m < 12 THEN <<y, m + 1, k>> ELSE <<y + 1, 1, k>>
         IN  DaysFromCivil(<<y, m, DaysIn(y, m) + k>>) = DaysFromCivil(next)
<1> DEFINE ny == IF m < 12 THEN y ELSE y + 1
           nm == IF m < 12 THEN m + 1 ELSE 1
           n == MarchYear(y, m)
           mp == MarchMonth(m)
           dd == DaysIn(y, m)
<1>1. ny \in Int /\ nm \in 1 .. 12 /\ dd \in 28 .. 31 /\ n \in Int /\ mp \in 0 .. 11
  BY DEF DaysIn, MarchYear, MarchMonth
<1>2. DaysFromCivil(<<y, m, dd + k>>) = DayOf(n, mp, dd + k)
  BY <1>1, DaysOfDate
<1>3. DaysFromCivil(<<ny, nm, k>>) = DayOf(MarchYear(ny, nm), MarchMonth(nm), k)
  BY <1>1, DaysOfDate
<1>4. CASE m = 2
  <2>1. MarchYear(ny, nm) = n + 1 /\ MarchMonth(nm) = 0 /\ mp = 11 /\ n + 1 = y
    BY <1>4 DEF MarchYear, MarchMonth
  <2>2. dd = IF LeapYear(n + 1) THEN 29 ELSE 28
    BY <1>4, <2>1 DEF DaysIn
  <2>3. YearDays(n + 1) = YearDays(n) + (IF LeapYear(n + 1) THEN 366 ELSE 365)
    BY <1>1, NextYear
  <2>4. MonthDays(11) = 337 /\ MonthDays(0) = 0
    BY DEF MonthDays
  <2>5. YearDays(n) \in Int
    BY <1>1 DEF YearDays
  <2> HIDE DEF n, mp, dd, ny, nm
  <2>6. DayOf(n, mp, dd + k) = DayOf(n + 1, 0, k)
    BY <1>1, <2>1, <2>2, <2>3, <2>4, <2>5 DEF DayOf
  <2> QED BY <1>2, <1>3, <1>4, <2>1, <2>6 DEF dd, ny, nm
<1>5. CASE m # 2
  <2>1. MarchYear(ny, nm) = n /\ MarchMonth(nm) = mp + 1
    BY <1>5 DEF MarchYear, MarchMonth
  <2>2. MonthDays(mp + 1) = MonthDays(mp) + dd
    BY <1>5 DEF MonthDays, DaysIn, MarchMonth
  <2>3. YearDays(n) \in Int /\ MonthDays(mp) \in Int
    BY <1>1 DEF YearDays, MonthDays
  <2> HIDE DEF n, mp, dd, ny, nm
  <2>4. DayOf(n, mp, dd + k) = DayOf(n, mp + 1, k)
    BY <1>1, <2>2, <2>3 DEF DayOf
  <2> QED BY <1>2, <1>3, <2>1, <2>4 DEF dd, ny, nm
<1> QED BY <1>4, <1>5

LEMMA FollowingCounts ==
  ASSUME NEW date, RealDate(date)
  PROVE  RealDate(Following(date)) /\ DaysFromCivil(Following(date)) = DaysFromCivil(date) + 1
<1>0. PICK y \in Int, m \in 1 .. 12, d \in 1 .. 31 : DateIs(date, y, m, d)
  BY DateParts
<1>1. date = <<y, m, d>> /\ d =< DaysIn(y, m)
  BY <1>0 DEF DateIs
<1>2. \A z \in Int : \A k \in 1 .. 12 : DaysIn(z, k) \in 28 .. 31
  BY DEF DaysIn
<1>3. CASE d < DaysIn(y, m)
  <2>1. Following(date) = <<y, m, d + 1>>
    BY <1>1, <1>3 DEF Following
  <2>2. RealDate(<<y, m, d + 1>>)
    BY <1>2, <1>3 DEF RealDate
  <2>3. DaysFromCivil(<<y, m, d + 1>>) = DaysFromCivil(<<y, m, d>>) + 1
    <3> DEFINE n == MarchYear(y, m)
               mp == MarchMonth(m)
    <3>1. /\ DaysFromCivil(<<y, m, d + 1>>) = DayOf(n, mp, d + 1)
          /\ DaysFromCivil(<<y, m, d>>) = DayOf(n, mp, d)
      BY DaysOfDate
    <3>2. YearDays(n) \in Int /\ MonthDays(mp) \in Int
      BY DEF YearDays, MonthDays, MarchYear, MarchMonth
    <3> HIDE DEF n, mp
    <3> QED BY <3>1, <3>2 DEF DayOf
  <2> QED BY <1>1, <2>1, <2>2, <2>3
<1>4. CASE ~ (d < DaysIn(y, m))
  <2> DEFINE next == IF m < 12 THEN <<y, m + 1, 1>> ELSE <<y + 1, 1, 1>>
  <2>1. Following(date) = next /\ d = DaysIn(y, m)
    BY <1>1, <1>2, <1>4 DEF Following
  <2>2. RealDate(next)
    <3>1. CASE m < 12
      <4>1. m + 1 \in 1 .. 12 /\ 1 =< DaysIn(y, m + 1)
        BY <1>2, <3>1
      <4> QED BY <3>1, <4>1 DEF RealDate
    <3>2. CASE ~ (m < 12)
      <4>1. y + 1 \in Int /\ 1 =< DaysIn(y + 1, 1)
        BY <1>2
      <4> QED BY <3>2, <4>1 DEF RealDate
    <3> QED BY <3>1, <3>2
  <2>3. DaysFromCivil(<<y, m, DaysIn(y, m) + 1>>) = DaysFromCivil(next)
    BY Overflow
  <2>4. DaysFromCivil(<<y, m, DaysIn(y, m) + 1>>) = DaysFromCivil(<<y, m, d>>) + 1
    <3> DEFINE n == MarchYear(y, m)
               mp == MarchMonth(m)
    <3>1. /\ DaysFromCivil(<<y, m, d + 1>>) = DayOf(n, mp, d + 1)
          /\ DaysFromCivil(<<y, m, d>>) = DayOf(n, mp, d)
      BY DaysOfDate
    <3>2. YearDays(n) \in Int /\ MonthDays(mp) \in Int
      BY DEF YearDays, MonthDays, MarchYear, MarchMonth
    <3> HIDE DEF n, mp
    <3> QED BY <2>1, <3>1, <3>2 DEF DayOf
  <2> HIDE DEF next
  <2> QED BY <1>1, <2>1, <2>2, <2>3, <2>4
<1> QED BY <1>3, <1>4

(* The same day by a division that rounds towards zero. *)
LEMMA SameCalendar ==
  ASSUME NEW n \in Int PROVE CivilFromDays_bitcoin(n) = CivilFromDays(n)
<1> DEFINE z == n + 719468
<1>1. Quotient(IF z >= 0 THEN z ELSE z - 146096, 146097) = z \div 146097
  BY DEF Quotient
<1> QED BY <1>1 DEF CivilFromDays_bitcoin, CivilFromDays


DayIs(n, y, mp, d) ==
  /\ n = DayOf(y, mp, d) /\ MonthHas(mp, d)
  /\ mp = 11 /\ d = 29 => LeapYear(y + 1)

(* Every number of days since the epoch is that of a March-based year's day. *)
LEMMA EveryDay ==
  ASSUME NEW n \in Int
  PROVE  \E y \in Int, mp \in 0 .. 11, d \in 1 .. 31 : DayIs(n, y, mp, d)
<1>1. PICK era \in Int, doe \in Nat : n + 719468 = era * 146097 + doe /\ doe < 146097
  <2> DEFINE era == (n + 719468) \div 146097
             doe == (n + 719468) - era * 146097
  <2>1. era \in Int /\ doe \in Nat /\ doe < 146097 /\ n + 719468 = era * 146097 + doe
    OBVIOUS
  <2> HIDE DEF era, doe
  <2> QED BY <2>1
<1>2. PICK c \in 0 .. 3, inCentury \in Nat :
        doe = 36524 * c + inCentury /\ inCentury =< 36524 /\ (inCentury = 36524 => c = 3)
  <2>1. CASE doe < 36524
    BY <2>1
  <2>2. CASE doe >= 36524 /\ doe < 73048
    <3>1. doe - 36524 \in Nat /\ doe = 36524 * 1 + (doe - 36524) /\ doe - 36524 < 36524
      BY <2>2
    <3> QED BY <3>1
  <2>3. CASE doe >= 73048 /\ doe < 109572
    <3>1. doe - 73048 \in Nat /\ doe = 36524 * 2 + (doe - 73048) /\ doe - 73048 < 36524
      BY <2>3
    <3> QED BY <3>1
  <2>4. CASE doe >= 109572
    <3>1. doe - 109572 \in Nat /\ doe = 36524 * 3 + (doe - 109572) /\ doe - 109572 =< 36524
      BY <1>1, <2>4
    <3> QED BY <3>1
  <2> QED BY <2>1, <2>2, <2>3, <2>4
<1>3. PICK q \in 0 .. 24, inCycle \in Nat :
        inCentury = 1461 * q + inCycle /\ inCycle =< 1460 /\ (inCycle = 1460 /\ q = 24 => c = 3)
  <2> DEFINE q == inCentury \div 1461
             rest == inCentury - 1461 * q
  <2>1. q \in 0 .. 24 /\ rest \in Nat /\ rest =< 1460 /\ inCentury = 1461 * q + rest
    BY <1>2
  <2>2. rest = 1460 /\ q = 24 => inCentury = 36524
    BY <2>1
  <2> HIDE DEF q, rest
  <2> QED BY <1>2, <2>1, <2>2
<1>4. PICK r \in 0 .. 3, doy \in 0 .. 365 :
        inCycle = 365 * r + doy /\ (doy = 365 => r = 3 /\ inCycle = 1460)
  <2>1. CASE inCycle < 365
    BY <2>1
  <2>2. CASE inCycle >= 365 /\ inCycle < 730
    <3>1. inCycle - 365 \in 0 .. 365 /\ inCycle = 365 * 1 + (inCycle - 365)
      BY <2>2
    <3> QED BY <2>2, <3>1
  <2>3. CASE inCycle >= 730 /\ inCycle < 1095
    <3>1. inCycle - 730 \in 0 .. 365 /\ inCycle = 365 * 2 + (inCycle - 730)
      BY <2>3
    <3> QED BY <2>3, <3>1
  <2>4. CASE inCycle >= 1095
    <3>1. inCycle - 1095 \in 0 .. 365 /\ inCycle = 365 * 3 + (inCycle - 1095)
      BY <1>3, <2>4
    <3> QED BY <2>4, <3>1
  <2> QED BY <2>1, <2>2, <2>3, <2>4
<1> DEFINE y == 400 * era + (100 * c + 4 * q + r)
<1>5. y \in Int /\ YearDays(y) = era * 146097 + 36524 * c + 1461 * q + 365 * r
  <2>1. PICK yoe \in 0 .. 399 : yoe = 100 * c + 4 * q + r
    OBVIOUS
  <2>2. yoe \div 4 = 25 * c + q /\ yoe \div 100 = c
    BY <2>1
  <2>3. /\ y \div 4 = 100 * era + yoe \div 4
        /\ y \div 100 = 4 * era + yoe \div 100
        /\ y \div 400 = era
    BY <2>1, EraYear
  <2>4. y = 400 * era + 100 * c + 4 * q + r
    OBVIOUS
  <2> HIDE DEF y
  <2> QED BY <2>2, <2>3, <2>4 DEF YearDays
<1>6. LeapYear(y + 1) <=> r = 3 /\ (q # 24 \/ c = 3)
  <2>1. y + 1 = 400 * era + 100 * c + 4 * q + r + 1
    OBVIOUS
  <2> HIDE DEF y
  <2> QED BY <2>1, LongYear
<1> HIDE DEF y
<1>7. n + 719468 = YearDays(y) + doy
  BY <1>1, <1>2, <1>3, <1>4, <1>5
<1>8. doy = 365 => LeapYear(y + 1)
  BY <1>3, <1>4, <1>6
<1>9. PICK mp \in 0 .. 11, d \in 1 .. 31 :
        doy = DayOfYear(mp, d) /\ MonthHas(mp, d) /\ (mp = 11 /\ d = 29 => doy = 365)
  <2> DEFINE mp == (5 * doy + 2) \div 153
             d == doy - MonthDays(mp) + 1
  <2>1. mp \in 0 .. 11
    OBVIOUS
  <2>2. MonthDays(mp) \in Int /\ d \in Int /\ doy = DayOfYear(mp, d)
    BY DEF MonthDays, DayOfYear
  <2>3. d \in 1 .. 31
    BY SMTT(30) DEF MonthDays
  <2>4. MonthHas(mp, d)
    BY SMTT(30) DEF MonthDays, MonthHas
  <2>5. mp = 11 /\ d = 29 => doy = 365
    BY DEF MonthDays
  <2> HIDE DEF mp, d
  <2> QED BY <2>1, <2>2, <2>3, <2>4, <2>5
<1>10. n = DayOf(y, mp, d)
  <2>1. YearDays(y) \in Int /\ MonthDays(mp) \in Int
    BY <1>5 DEF YearDays, MonthDays
  <2> QED BY <1>7, <1>9, <2>1 DEF DayOf, DayOfYear
<1>11. y \in Int /\ (mp = 11 /\ d = 29 => LeapYear(y + 1))
  BY <1>5, <1>8, <1>9
<1>12. DayIs(n, y, mp, d)
  BY <1>9, <1>10, <1>11 DEF DayIs
<1> QED BY <1>11, <1>12

(* So is the date of each number a real one, and it has that number. *)
LEMMA BackAndThere ==
  ASSUME NEW n \in Int
  PROVE  RealDate(CivilFromDays(n)) /\ DaysFromCivil(CivilFromDays(n)) = n
<1>1. PICK y \in Int, mp \in 0 .. 11, d \in 1 .. 31 : DayIs(n, y, mp, d)
  BY EveryDay
<1>0. /\ n = DayOf(y, mp, d) /\ MonthHas(mp, d)
      /\ mp = 11 /\ d = 29 => LeapYear(y + 1)
  BY <1>1 DEF DayIs
<1> DEFINE year == IF mp < 10 THEN y ELSE y + 1
           month == IF mp < 10 THEN mp + 3 ELSE mp - 9
<1>2. year \in Int /\ month \in 1 .. 12 /\ MarchYear(year, month) = y
      /\ MarchMonth(month) = mp
  BY DEF MarchYear, MarchMonth
<1>3. CivilFromDays(n) = <<year, month, d>>
  BY <1>0, <1>2, CivilOfDay
<1>4. d =< DaysIn(year, month)
  <2>1. month = 2 <=> mp = 11
    OBVIOUS
  <2>2. month \in {4, 6, 9, 11} => mp \in {1, 3, 6, 8}
    OBVIOUS
  <2>3. month = 2 => year = y + 1
    OBVIOUS
  <2> HIDE DEF year, month
  <2>4. CASE month = 2
    <3>1. d =< 29 /\ (d = 29 => LeapYear(year))
      BY <1>0, <2>1, <2>3, <2>4 DEF MonthHas
    <3> QED BY <2>4, <3>1 DEF DaysIn
  <2>5. CASE month # 2
    BY <1>0, <2>2, <2>5 DEF MonthHas, DaysIn
  <2> QED BY <2>4, <2>5
<1> HIDE DEF year, month
<1>5. RealDate(<<year, month, d>>)
  BY <1>2, <1>4 DEF RealDate
<1>6. DaysFromCivil(<<year, month, d>>) = n
  BY <1>0, <1>2, DaysOfDate
<1> QED BY <1>3, <1>5, <1>6

(* The validator's years are those of these days. *)
CivilDate(date) == date \in Years \X (1 .. 12) \X (1 .. 31)

LEMMA YearsOf ==
  ASSUME NEW date, RealDate(date), DaysFromCivil(<<0, 1, 1>>) =< DaysFromCivil(date),
         DaysFromCivil(date) =< DaysFromCivil(<<9999, 12, 31>>)
  PROVE  CivilDate(date)
<1>0. PICK y \in Int, m \in 1 .. 12, d \in 1 .. 31 : DateIs(date, y, m, d)
  BY DateParts
<1>1. date = <<y, m, d>> /\ d =< DaysIn(y, m)
  BY <1>0 DEF DateIs
<1> DEFINE n == MarchYear(y, m)
           mp == MarchMonth(m)
<1>2. DaysFromCivil(date) = DayOf(n, mp, d) /\ n \in Int /\ mp \in 0 .. 11
  BY <1>1, DaysOfDate DEF MarchYear, MarchMonth
<1>3. MonthDays(mp) \in 0 .. 337 /\ YearDays(n) \in Int
  BY <1>2 DEF MonthDays, YearDays
<1>4. mp =< 9 => MonthDays(mp) =< 275
  BY <1>2 DEF MonthDays
<1>5. mp >= 10 => MonthDays(mp) >= 306
  BY <1>2 DEF MonthDays
<1>6. n =< y /\ (mp >= 10 => n = y - 1) /\ (mp =< 9 => n = y)
  BY DEF MarchYear, MarchMonth
<1>7. /\ n =< -1 => YearDays(n) =< -366
      /\ n =< -2 => YearDays(n) =< -731
      /\ n >= 9999 => YearDays(n) >= 3652059
      /\ n >= 10000 => YearDays(n) >= 3652425
  BY <1>2 DEF YearDays
<1> HIDE DEF n, mp
<1>12. DaysFromCivil(<<0, 1, 1>>) = -719528 /\ DaysFromCivil(<<9999, 12, 31>>) = 2932896
  <2>1. DaysFromCivil(<<0, 1, 1>>) = DayOf(-1, 10, 1)
    BY DaysOfDate DEF MarchYear, MarchMonth
  <2>2. DaysFromCivil(<<9999, 12, 31>>) = DayOf(9999, 9, 31)
    BY DaysOfDate DEF MarchYear, MarchMonth
  <2>3. ASSUME NEW z \in Int, z + 1 = 0 PROVE YearDays(z) = -366
    <3>1. YearDays(z + 1) = 0 /\ LeapYear(z + 1) /\ YearDays(z) \in Int
      BY <2>3 DEF YearDays, LeapYear
    <3>2. YearDays(z + 1) = YearDays(z) + (IF LeapYear(z + 1) THEN 366 ELSE 365)
      BY NextYear
    <3> QED BY <3>1, <3>2
  <2>4. \A z \in Int : z = 9999 => YearDays(z) = 3652059
    BY DEF YearDays
  <2>5. \A z \in 0 .. 11 : (z = 10 => MonthDays(z) = 306) /\ (z = 9 => MonthDays(z) = 275)
    BY DEF MonthDays
  <2>6. YearDays(-1) = -366 /\ YearDays(9999) = 3652059
    BY <2>3, <2>4
  <2>7. MonthDays(10) = 306 /\ MonthDays(9) = 275
    BY <2>5
  <2> QED BY <2>1, <2>2, <2>6, <2>7 DEF DayOf
<1>8. DayOf(n, mp, d) = YearDays(n) + MonthDays(mp) + d - 1 - 719468
  BY DEF DayOf
<1>9. ~ (y < 0)
  BY <1>12, <1>1, <1>2, <1>3, <1>4, <1>6, <1>7, <1>8
<1>10. ~ (y > 9999)
  BY <1>12, <1>1, <1>2, <1>3, <1>5, <1>6, <1>7, <1>8
<1>11. y \in Years
  BY <1>9, <1>10 DEF Years
<1> QED BY <1>1, <1>11 DEF CivilDate

-----------------------------------------------------------------------------
(***************************************************************************)
(* Fractions of a second.                                                   *)
(***************************************************************************)

LEMMA FinestIs ==
  ASSUME InstantAssumption
  PROVE  /\ Finest \in Nat /\ Resolution \in Nat /\ Resolution =< Finest
         /\ \A f \in Fractions : Len(f) \in Nat /\ Len(f) =< Finest
<1> DEFINE lengths == {Len(f) : f \in Fractions}
           S == {Resolution} \union lengths
<1>1. Resolution \in Nat /\ Fractions \subseteq Seq(0 .. 9) /\ IsFiniteSet(Fractions)
  BY DEF InstantAssumption
<1>2. \A f \in Fractions : Len(f) \in Nat
  BY <1>1
<1>3. IsFiniteSet(lengths)
  <2> DEFINE len == [f \in Fractions |-> Len(f)]
  <2>1. len \in Surjection(Fractions, lengths)
    BY DEF Surjection
  <2> HIDE DEF len, lengths
  <2> QED BY <1>1, <2>1, FS_Surjection
<1>4. IsFiniteSet(S) /\ S \in SUBSET Nat /\ Resolution \in S
  <2>1. IsFiniteSet({Resolution}) /\ lengths \in SUBSET Nat
    BY <1>2, FS_Singleton
  <2> HIDE DEF lengths
  <2>2. IsFiniteSet(S)
    BY <1>3, <2>1, FS_Union
  <2> QED BY <1>1, <2>1, <2>2
<1>5. \E m \in S : \A k \in S : m >= k
  <2> HIDE DEF S
  <2>1. PICK n \in Nat : \E g : g \in Bijection(1 .. n, S)
    BY <1>4, FS_NatBijection DEF ExistsBijection
  <2>2. PICK g \in [1 .. n -> S] : \A k \in S : \E j \in 1 .. n : g[j] = k
    BY <2>1 DEF Bijection, Injection, Surjection
  <2> DEFINE Upto(m) == \E x \in S : \A j \in 1 .. m : x >= g[j]
             T == {m \in 0 .. n : Upto(m)}
  <2>3. ASSUME NEW m \in 0 .. n, \A k \in 0 .. m - 1 : k \in T PROVE m \in T
    <3>1. CASE m = 0
      BY <1>4, <3>1
    <3>2. CASE m # 0
      <4>1. m - 1 \in 0 .. m - 1 /\ m \in 1 .. n
        BY <3>2
      <4>2. PICK x \in S : \A j \in 1 .. m - 1 : x >= g[j]
        BY <2>3, <4>1
      <4>3. g[m] \in S /\ \A j \in 1 .. m : g[j] \in Nat /\ (j = m \/ j \in 1 .. m - 1)
        <5>1. \A j \in 1 .. m : j \in 1 .. n /\ (j = m \/ j \in 1 .. m - 1)
          BY <4>1
        <5>2. \A j \in 1 .. n : g[j] \in S /\ g[j] \in Nat
          BY <1>4, <2>2
        <5> QED BY <4>1, <5>1, <5>2
      <4>4. CASE x >= g[m]
        BY <4>1, <4>2, <4>3, <4>4
      <4>5. CASE ~ (x >= g[m])
        <5>1. \A j \in 1 .. m : g[m] >= g[j]
          BY <1>4, <4>1, <4>2, <4>3, <4>5
        <5> QED BY <4>1, <4>3, <5>1
      <4> QED BY <4>4, <4>5
    <3> QED BY <3>1, <3>2
  <2>4. n \in T
    <3> HIDE DEF Upto
    <3>1. T \in SUBSET (0 .. n)
      OBVIOUS
    <3>2. T = 0 .. n
      <4> HIDE DEF T
      <4> QED BY <2>3, <3>1, UpTo
    <3> QED BY <3>2
  <2> QED BY <2>2, <2>4
<1> DEFINE top == CHOOSE x \in S : \A y \in S : x >= y
<1>6. top \in S /\ \A y \in S : top >= y
  <2> HIDE DEF S
  <2> QED BY <1>5
<1>7. Finest = top
  BY DEF Finest, Max
<1>8. \A f \in Fractions : Len(f) \in S
  OBVIOUS
<1> HIDE DEF top, S
<1>9. top \in Nat /\ top >= Resolution
  BY <1>4, <1>6
<1>10. \A f \in Fractions : top >= Len(f)
  BY <1>6, <1>8
<1> QED BY <1>1, <1>2, <1>7, <1>9, <1>10

LEMMA DigitType ==
  ASSUME NEW f \in Seq(0 .. 9), NEW i PROVE Digit(f, i) \in Nat
BY DEF Digit

(* The units of a fraction are the powers of ten. *)
LEMMA UnitsAre == ASSUME InstantAssumption PROVE PowersOfTen(Finest, Unit)
<1>1. Finest \in Nat
  BY FinestIs
<1>2. Unit = TenTo(Finest)
  BY DEF Unit, TenTo
<1> QED BY <1>1, <1>2, TenToThe

LEMMA Units ==
  ASSUME InstantAssumption
  PROVE  /\ \A k \in 0 .. Finest : Unit[k] \in Nat
         /\ Unit[0] = 1
         /\ \A k \in 1 .. Finest : Unit[k] = 10 * Unit[k - 1]
BY UnitsAre DEF PowersOfTen

LEMMA UnitsMultiply ==
  ASSUME InstantAssumption, NEW a \in 0 .. Finest, NEW b \in 0 .. Finest, a + b =< Finest
  PROVE  Unit[a + b] = Unit[a] * Unit[b]
<1>1. Finest \in Nat
  BY FinestIs
<1> QED BY <1>1, UnitsAre, PowersMultiply

(* What an instant keeps of a fraction, digit after digit. *)
LEMMA NanosAre ==
  ASSUME InstantAssumption, NEW f \in Seq(0 .. 9)
  PROVE  \E g \in [0 .. Resolution -> Nat] :
           /\ g[0] = 0 /\ g[Resolution] = Nanos(f)
           /\ \A k \in 1 .. Resolution : g[k] = g[k - 1] * 10 + Digit(f, k)
<1> DEFINE n == Resolution
           step == [k \in 1 .. n |-> [x \in Nat |-> x * 10 + Digit(f, k)]]
           kept == CHOOSE h : h = [k \in 0 .. n |->
                     IF k = 0 THEN 0 ELSE h[k - 1] * 10 + Digit(f, k)]
<1>1. n \in Nat
  BY FinestIs
<1> HIDE DEF n
<1>2. \A k \in 1 .. n : \A x \in Nat : step[k][x] \in Nat
  BY DigitType
<1>3. PICK g \in [0 .. n -> Nat] : g[0] = 0 /\ \A k \in 1 .. n : g[k] = step[k][g[k - 1]]
  <2> HIDE DEF step
  <2>1. CanIterate(n, Nat, 0, step)
    BY <1>1, <1>2, Iteration
  <2> QED BY <2>1 DEF CanIterate
<1>4. ASSUME NEW k \in 1 .. n PROVE g[k] = g[k - 1] * 10 + Digit(f, k)
  <2>1. g[k - 1] \in Nat
    BY <1>1
  <2> QED BY <1>3, <2>1
<1>5. g = [k \in 0 .. n |-> IF k = 0 THEN 0 ELSE g[k - 1] * 10 + Digit(f, k)]
  <2>1. \A k \in 0 .. n : k # 0 => k \in 1 .. n
    BY <1>1
  <2>2. \A k \in 0 .. n : g[k] = IF k = 0 THEN 0 ELSE g[k - 1] * 10 + Digit(f, k)
    BY <1>3, <1>4, <2>1
  <2> QED BY <2>2
<1>6. kept = [k \in 0 .. n |-> IF k = 0 THEN 0 ELSE kept[k - 1] * 10 + Digit(f, k)]
  BY <1>5
<1>7. Nanos(f) = kept[n]
  BY DEF Nanos, n
<1> HIDE DEF kept
<1> DEFINE S == {k \in 0 .. n : kept[k] = g[k]}
<1>8. S = 0 .. n
  <2>1. ASSUME NEW m \in 0 .. n, \A k \in 0 .. m - 1 : k \in S PROVE m \in S
    <3>1. CASE m = 0
      BY <1>3, <1>6, <3>1
    <3>2. CASE m # 0
      <4>1. m - 1 \in 0 .. m - 1 /\ m \in 1 .. n
        BY <3>2
      <4>2. kept[m - 1] = g[m - 1]
        BY <2>1, <4>1
      <4>3. kept[m] = kept[m - 1] * 10 + Digit(f, m)
        BY <1>6, <3>2
      <4> QED BY <1>4, <4>1, <4>2, <4>3
    <3> QED BY <3>1, <3>2
  <2> HIDE DEF S
  <2>2. S \in SUBSET (0 .. n)
    BY DEF S
  <2> QED BY <1>1, <2>1, <2>2, UpTo
<1>9. n \in S
  BY <1>1, <1>8
<1>10. g[n] = Nanos(f)
  BY <1>7, <1>9
<1> QED BY <1>3, <1>4, <1>10 DEF n

(* What a fraction is worth, digit after digit. *)
LEMMA ValueIs ==
  ASSUME InstantAssumption, NEW f \in Seq(0 .. 9)
  PROVE  \E h \in [0 .. Finest -> Nat] :
           /\ h[0] = 0 /\ h[Finest] = Value(f)
           /\ \A k \in 1 .. Finest : h[k] = h[k - 1] + Digit(f, k) * Unit[Finest - k]
<1> DEFINE n == Finest
           part(k) == Digit(f, k) * Unit[Finest - k]
           step == [k \in 1 .. n |-> [x \in Nat |-> x + part(k)]]
           worth == CHOOSE g : g = [k \in 0 .. n |-> IF k = 0 THEN 0 ELSE g[k - 1] + part(k)]
<1>1. n \in Nat
  BY FinestIs
<1>p. ASSUME NEW k \in 1 .. n PROVE part(k) \in Nat
  <2>1. Finest - k \in 0 .. Finest
    BY <1>1
  <2>2. Digit(f, k) \in Nat /\ Unit[Finest - k] \in Nat
    BY <2>1, DigitType, Units
  <2>3. \A x, y \in Nat : x * y \in Nat
    OBVIOUS
  <2> QED BY <2>2, <2>3
<1>7. Value(f) = worth[n]
  BY DEF Value
<1> HIDE DEF n, part
<1>2. \A k \in 1 .. n : \A x \in Nat : step[k][x] \in Nat
  BY <1>p
<1>3. PICK g \in [0 .. n -> Nat] : g[0] = 0 /\ \A k \in 1 .. n : g[k] = step[k][g[k - 1]]
  <2> HIDE DEF step
  <2>1. CanIterate(n, Nat, 0, step)
    BY <1>1, <1>2, Iteration
  <2> QED BY <2>1 DEF CanIterate
<1>4. ASSUME NEW k \in 1 .. n PROVE g[k] = g[k - 1] + part(k)
  <2>1. g[k - 1] \in Nat
    BY <1>1
  <2> QED BY <1>3, <2>1
<1>5. g = [k \in 0 .. n |-> IF k = 0 THEN 0 ELSE g[k - 1] + part(k)]
  <2>1. \A k \in 0 .. n : k # 0 => k \in 1 .. n
    BY <1>1
  <2>2. \A k \in 0 .. n : g[k] = IF k = 0 THEN 0 ELSE g[k - 1] + part(k)
    BY <1>3, <1>4, <2>1
  <2> QED BY <2>2
<1>6. worth = [k \in 0 .. n |-> IF k = 0 THEN 0 ELSE worth[k - 1] + part(k)]
  BY <1>5
<1> HIDE DEF worth
<1> DEFINE S == {k \in 0 .. n : worth[k] = g[k]}
<1>8. S = 0 .. n
  <2>1. ASSUME NEW m \in 0 .. n, \A k \in 0 .. m - 1 : k \in S PROVE m \in S
    <3>1. CASE m = 0
      BY <1>3, <1>6, <3>1
    <3>2. CASE m # 0
      <4>1. m - 1 \in 0 .. m - 1 /\ m \in 1 .. n
        BY <3>2
      <4>2. worth[m - 1] = g[m - 1]
        BY <2>1, <4>1
      <4>3. worth[m] = worth[m - 1] + part(m)
        BY <1>6, <3>2
      <4> QED BY <1>4, <4>1, <4>2, <4>3
    <3> QED BY <3>1, <3>2
  <2> HIDE DEF S
  <2>2. S \in SUBSET (0 .. n)
    BY DEF S
  <2> QED BY <1>1, <2>1, <2>2, UpTo
<1>9. n \in S
  BY <1>1, <1>8
<1>10. g[n] = Value(f)
  BY <1>7, <1>9
<1> QED BY <1>3, <1>4, <1>10 DEF n, part

(* Of an exact fraction all that it is worth is kept. *)
LEMMA FractionIsExact ==
  ASSUME InstantAssumption, NEW f \in Seq(0 .. 9), Exact(f)
  PROVE  Nanos(f) \in Nat /\ Nanos(f) * Unit[Finest] = Value(f) * Unit[Resolution]
<1>1. Finest \in Nat /\ Resolution \in Nat /\ Resolution =< Finest
  BY FinestIs
<1>2. PICK g \in [0 .. Resolution -> Nat] :
           /\ g[0] = 0 /\ g[Resolution] = Nanos(f)
           /\ \A k \in 1 .. Resolution : g[k] = g[k - 1] * 10 + Digit(f, k)
  BY NanosAre
<1>3. PICK h \in [0 .. Finest -> Nat] :
           /\ h[0] = 0 /\ h[Finest] = Value(f)
           /\ \A k \in 1 .. Finest : h[k] = h[k - 1] + Digit(f, k) * Unit[Finest - k]
  BY ValueIs
<1> DEFINE S == {k \in 0 .. Resolution : h[k] = g[k] * Unit[Finest - k]}
           T == {k \in 0 .. Finest : k >= Resolution => h[k] = h[Resolution]}
<1>4. S = 0 .. Resolution
  <2>1. ASSUME NEW m \in 0 .. Resolution, \A k \in 0 .. m - 1 : k \in S PROVE m \in S
    <3>1. CASE m = 0
      <4>1. Unit[Finest - 0] \in Nat
        BY <1>1, Units
      <4>2. \A x \in Nat : 0 * x = 0
        OBVIOUS
      <4> QED BY <1>2, <1>3, <3>1, <4>1, <4>2
    <3>2. CASE m # 0
      <4>1. m - 1 \in 0 .. m - 1 /\ m \in 1 .. Resolution /\ m \in 1 .. Finest
            /\ m - 1 \in 0 .. Resolution
        BY <1>1, <3>2
      <4> DEFINE a == g[m - 1]
                 d == Digit(f, m)
                 u == Unit[Finest - m]
      <4>2. h[m - 1] = a * Unit[Finest - (m - 1)]
        BY <2>1, <4>1
      <4>3. Finest - m \in 0 .. Finest /\ Finest - (m - 1) \in 1 .. Finest
            /\ (Finest - (m - 1)) - 1 = Finest - m
        BY <1>1, <4>1
      <4>4. Unit[Finest - (m - 1)] = 10 * u /\ u \in Nat
        BY <4>3, Units
      <4>5. a \in Nat /\ d \in Nat
        BY <1>2, <4>1, DigitType
      <4>6. h[m] = h[m - 1] + d * u /\ g[m] = a * 10 + d
        BY <1>2, <1>3, <4>1
      <4> HIDE DEF a, d, u
      <4>7. a * (10 * u) + d * u = (a * 10 + d) * u
        BY <4>4, <4>5
      <4> QED BY <4>2, <4>4, <4>6, <4>7 DEF u
    <3> QED BY <3>1, <3>2
  <2> HIDE DEF S
  <2>2. S \in SUBSET (0 .. Resolution)
    BY DEF S
  <2> QED BY <1>1, <2>1, <2>2, UpTo
<1>5. T = 0 .. Finest
  <2>1. ASSUME NEW m \in 0 .. Finest, \A k \in 0 .. m - 1 : k \in T PROVE m \in T
    <3>1. CASE m =< Resolution
      BY <1>1, <3>1
    <3>2. CASE m > Resolution
      <4>1. m - 1 \in 0 .. m - 1 /\ m \in 1 .. Finest /\ m - 1 >= Resolution
            /\ m - 1 \in 0 .. Finest
        BY <1>1, <3>2
      <4>2. h[m - 1] = h[Resolution]
        BY <2>1, <4>1
      <4>3. Digit(f, m) = 0
        BY <3>2 DEF Digit, Exact
      <4>4. Finest - m \in 0 .. Finest
        BY <1>1
      <4>5. Unit[Finest - m] \in Nat
        BY <4>4, Units
      <4>6. \A x \in Nat : 0 * x = 0
        OBVIOUS
      <4>7. h[m] = h[m - 1] + 0
        BY <1>3, <4>1, <4>3, <4>5, <4>6
      <4>8. h[m - 1] \in Nat
        BY <1>3, <4>1
      <4> QED BY <4>2, <4>7, <4>8
    <3> QED BY <1>1, <3>1, <3>2
  <2> HIDE DEF T
  <2>2. T \in SUBSET (0 .. Finest)
    BY DEF T
  <2> QED BY <1>1, <2>1, <2>2, UpTo
<1>6. Value(f) = Nanos(f) * Unit[Finest - Resolution]
  <2>1. Resolution \in S /\ Finest \in T
    BY <1>1, <1>4, <1>5
  <2>2. h[Resolution] = g[Resolution] * Unit[Finest - Resolution] /\ h[Finest] = h[Resolution]
    BY <1>1, <2>1
  <2> QED BY <1>2, <1>3, <2>2
<1>7. Unit[Finest] = Unit[Finest - Resolution] * Unit[Resolution]
  <2>1. /\ Finest - Resolution \in 0 .. Finest /\ Resolution \in 0 .. Finest
        /\ (Finest - Resolution) + Resolution = Finest
    BY <1>1
  <2> QED BY <2>1, <1>1, UnitsMultiply
<1>8. Nanos(f) \in Nat
  BY <1>1, <1>2
<1>9. Unit[Finest - Resolution] \in Nat /\ Unit[Resolution] \in Nat
  <2>1. Finest - Resolution \in 0 .. Finest /\ Resolution \in 0 .. Finest
    BY <1>1
  <2> QED BY <2>1, Units
<1>10. \A x, y, z \in Nat : x * (y * z) = (x * y) * z
  OBVIOUS
<1> QED BY <1>6, <1>7, <1>8, <1>9, <1>10

(* Of a fraction that is not written nothing is kept. *)
LEMMA NoFraction ==
  ASSUME InstantAssumption, NEW f \in Seq(0 .. 9), DOMAIN f = {} PROVE Nanos(f) = 0
<1>1. Resolution \in Nat
  BY FinestIs
<1>2. PICK g \in [0 .. Resolution -> Nat] :
           /\ g[0] = 0 /\ g[Resolution] = Nanos(f)
           /\ \A k \in 1 .. Resolution : g[k] = g[k - 1] * 10 + Digit(f, k)
  BY NanosAre
<1>3. \A k : Digit(f, k) = 0
  BY DEF Digit
<1> DEFINE S == {k \in 0 .. Resolution : g[k] = 0}
<1>4. S = 0 .. Resolution
  <2>1. ASSUME NEW m \in 0 .. Resolution, \A k \in 0 .. m - 1 : k \in S PROVE m \in S
    <3>1. CASE m = 0
      BY <1>2, <3>1
    <3>2. CASE m # 0
      <4>1. m - 1 \in 0 .. m - 1 /\ m \in 1 .. Resolution
        BY <1>1, <3>2
      <4>2. g[m - 1] = 0
        BY <2>1, <4>1
      <4> QED BY <1>2, <1>3, <4>1, <4>2
    <3> QED BY <3>1, <3>2
  <2> HIDE DEF S
  <2>2. S \in SUBSET (0 .. Resolution)
    BY DEF S
  <2> QED BY <1>1, <2>1, <2>2, UpTo
<1>5. Resolution \in S
  BY <1>1, <1>4
<1> QED BY <1>2, <1>5

-----------------------------------------------------------------------------
(***************************************************************************)
(* Instants.                                                                *)
(***************************************************************************)

(* What is given of the constants, for a proof that needs it only where it is expanded. *)
InstantGiven == InstantAssumption /\ CalendarAssumption

LEMMA Given == InstantGiven
BY InstantAssumption, CalendarAssumption DEF InstantGiven

Clocks == [sign : {1, -1}, hour : 0 .. 23, minute : 0 .. 59]
DigitSeq == Seq(0 .. 9)

WithinYears(n) ==
  DaysFromCivil(<<0, 1, 1>>) =< n /\ n < DaysFromCivil(<<9999, 12, 31>>)

LEMMA Parameters ==
  ASSUME InstantGiven
  PROVE  /\ Times \subseteq Nat /\ Fractions \subseteq DigitSeq /\ Offsets \subseteq Clocks
         /\ \A n \in Orderable : WithinYears(n)
BY DEF InstantGiven, InstantAssumption, CalendarAssumption, DigitSeq, Clocks, WithinYears

(* Midnights and the minutes of two days. *)
Reads(minutes, hour, minute) ==
  /\ hour \in 0 .. 23 /\ minute \in 0 .. 59
  /\ hour * 60 + minute = IF minutes < Minutes THEN minutes ELSE minutes - Minutes

LEMMA ClockParts ==
  ASSUME NEW minutes \in TwoDays
  PROVE  Reads(minutes, (minutes % Minutes) \div 60, minutes % 60)
BY DEF Minutes, TwoDays, Reads

LEMMA OffsetMinutes ==
  ASSUME NEW o \in Clocks, NEW t \in Int
  PROVE  /\ OffsetSecs(o) \in Int /\ Local(t, o) \in Int
         /\ Local(t, o) * 60 - OffsetSecs(o) = t * 60
<1>1. CASE o.sign = 1
  BY <1>1 DEF OffsetSecs, Local, Clocks
<1>2. CASE o.sign = -1
  BY <1>2 DEF OffsetSecs, Local, Clocks
<1>3. o.sign = 1 \/ o.sign = -1
  BY DEF Clocks
<1> QED BY <1>1, <1>2, <1>3

(* The calendar's number of today is the count's. *)
Counted ==
  /\ today = [number |-> today.number, date |-> today.date]
  /\ today.number \in Int /\ RealDate(today.date)
  /\ DaysFromCivil(today.date) = today.number

(* So does a clock write today's date or tomorrow's, and midnights are a day apart. *)
LEMMA WrittenDate ==
  ASSUME Counted, NEW minutes \in TwoDays,
         NEW s, NEW f, NEW o
  PROVE  LET date == Written(minutes, s, f, o).date
         IN  /\ RealDate(date)
             /\ DaysFromCivil(date)
                  = IF minutes < Minutes THEN today.number ELSE today.number + 1
<1>1. RealDate(Following(today.date))
      /\ DaysFromCivil(Following(today.date)) = today.number + 1
  BY FollowingCounts DEF Counted
<1>2. RealDate(today.date) /\ DaysFromCivil(today.date) = today.number
  BY DEF Counted
<1>3. Written(minutes, s, f, o).date
        = IF minutes < Minutes THEN today.date ELSE Following(today.date)
  BY DEF Written
<1>4. CASE minutes < Minutes
  BY <1>2, <1>3, <1>4
<1>5. CASE ~ (minutes < Minutes)
  BY <1>1, <1>3, <1>5
<1> QED BY <1>4, <1>5

LEMMA CalendarHolds == Counted => CalendarIsCounted
<1> SUFFICES ASSUME Counted PROVE CalendarIsCounted
  OBVIOUS
<1>1. CivilFromDays(today.number) = today.date
  BY ThereAndBack DEF Counted
<1>2. CivilFromDays_bitcoin(today.number) = CivilFromDays(today.number)
  BY SameCalendar DEF Counted
<1> QED BY <1>1, <1>2 DEF CalendarIsCounted, Counted

(* The instant of a date that exists is the seconds it names. *)
SecondsOf(day, hour, minute, second, ahead) ==
  day * 86400 + hour * 3600 + minute * 60 + second - ahead

Seconds(ts) ==
  SecondsOf(DaysFromCivil(ts.date), ts.hour, ts.minute, ts.second, OffsetSecs(ts.offset))

NoInstant(ts) == ts.second = 60 \/ ~ Exact(ts.fraction)

LEMMA InstantIs ==
  ASSUME InstantGiven, NEW ts, RealDate(ts.date), ts.fraction \in DigitSeq
  PROVE  Instant(ts) = IF NoInstant(ts) THEN NotOrdered ELSE <<Seconds(ts), Nanos(ts.fraction)>>
<1>1. CivilFromDays(DaysFromCivil(ts.date)) = ts.date
  BY ThereAndBack
<1>2. (\E i \in Resolution + 1 .. Len(ts.fraction) : ts.fraction[i] # 0)
         <=> ~ Exact(ts.fraction)
  <2>1. Resolution \in Nat
    BY DEF InstantGiven, InstantAssumption
  <2> QED BY <2>1 DEF Exact, DigitSeq
<1>3. CASE NoInstant(ts)
  BY <1>2, <1>3 DEF Instant, NoInstant
<1>4. CASE ~ NoInstant(ts)
  <2>1. /\ ts.second # 60
        /\ ~ \E i \in Resolution + 1 .. Len(ts.fraction) : ts.fraction[i] # 0
    BY <1>2, <1>4 DEF NoInstant
  <2> QED BY <1>1, <1>4, <2>1 DEF Instant, Seconds, SecondsOf
<1> QED BY <1>3, <1>4

(* The seconds of a clock's day, its time and its offset. *)
Shows(n, t, minutes, ahead, day, hour, minute) ==
  /\ n \in Int /\ t \in Int /\ minutes \in Int /\ ahead \in Int
  /\ Reads(minutes, hour, minute)
  /\ day = IF minutes < Minutes THEN n ELSE n + 1
  /\ minutes * 60 - ahead = t * 60

LEMMA SecondsAre ==
  ASSUME NEW n, NEW t, NEW minutes, NEW ahead, NEW day, NEW hour, NEW minute, NEW s \in Int,
         Shows(n, t, minutes, ahead, day, hour, minute)
  PROVE  SecondsOf(day, hour, minute, s, ahead) = n * 86400 + t * 60 + s
<1>0. /\ n \in Int /\ t \in Int /\ minutes \in Int /\ ahead \in Int
      /\ day = IF minutes < Minutes THEN n ELSE n + 1
      /\ minutes * 60 - ahead = t * 60
  BY DEF Shows
<1>1. hour \in Int /\ minute \in Int /\ Reads(minutes, hour, minute)
  BY DEF Reads, Shows
<1>2. CASE minutes < Minutes
  <2>1. day = n /\ hour * 60 + minute = minutes
    BY <1>0, <1>1, <1>2 DEF Reads
  <2>2. hour * 3600 + minute * 60 = minutes * 60
    BY <1>0, <1>1, <2>1
  <2> QED BY <1>0, <1>1, <2>1, <2>2 DEF SecondsOf
<1>3. CASE ~ (minutes < Minutes)
  <2>1. day = n + 1 /\ hour * 60 + minute = minutes - 1440
    BY <1>0, <1>1, <1>3 DEF Reads, Minutes
  <2>2. hour * 3600 + minute * 60 = minutes * 60 - 86400
    BY <1>0, <1>1, <2>1
  <2>3. day * 86400 = n * 86400 + 86400
    BY <1>0, <2>1
  <2> QED BY <1>0, <1>1, <2>1, <2>2, <2>3 DEF SecondsOf
<1> QED BY <1>2, <1>3

LEMMA ClockNames ==
  ASSUME InstantGiven, Counted, WithinYears(today.number),
         NEW t \in Int, NEW s \in 0 .. 60, NEW f \in DigitSeq, NEW o \in Clocks,
         Local(t, o) \in TwoDays
  PROVE  ExactOrNone(t, s, f, o)
<1> DEFINE minutes == Local(t, o)
           written == Written(minutes, s, f, o)
           n == today.number
<1>1. n \in Int /\ minutes \in TwoDays
  BY DEF Counted
<1>2. /\ written.second = s /\ written.fraction = f /\ written.offset = o
      /\ written.hour = (minutes % Minutes) \div 60 /\ written.minute = minutes % 60
  BY DEF Written
<1>3. /\ RealDate(written.date)
      /\ DaysFromCivil(written.date) = IF minutes < Minutes THEN n ELSE n + 1
  BY WrittenDate
<1>4. Reads(minutes, written.hour, written.minute)
  BY <1>2, ClockParts
<1>5. /\ OffsetSecs(o) \in Int /\ minutes \in Int
      /\ minutes * 60 - OffsetSecs(o) = t * 60
  BY OffsetMinutes
<1>6. n * 86400 = Midnight
  BY DEF Midnight
<1>7. ExactOrNone(t, s, f, o) <=>
        /\ Valid(written)
        /\ IF s = 60 \/ ~Exact(f) THEN Instant(written) = NotOrdered
           ELSE /\ Instant(written)[1] = Midnight + t * 60 + s
                /\ Instant(written)[2] * Unit[Finest] = Value(f) * Unit[Resolution]
  BY DEF ExactOrNone
<1> HIDE DEF written, minutes, n
<1>8. Valid(written)
  <2>1. CivilDate(written.date)
    <3> DEFINE first == DaysFromCivil(<<0, 1, 1>>)
               last == DaysFromCivil(<<9999, 12, 31>>)
               day == DaysFromCivil(written.date)
    <3>1. first =< n /\ n < last
      BY DEF WithinYears, n
    <3>2. RealDate(<<0, 1, 1>>) /\ RealDate(<<9999, 12, 31>>)
      BY DEF RealDate, DaysIn
    <3>3. first \in Int /\ last \in Int
      BY <3>2, ThereAndBack
    <3>4. day = n \/ day = n + 1
      BY <1>3
    <3> HIDE DEF first, last, day
    <3>5. first =< day /\ day =< last
      BY <1>1, <3>1, <3>3, <3>4
    <3> QED BY <1>3, <3>5, YearsOf DEF first, last, day
  <2>2. written.date \in Years \X (1 .. 12) \X (1 .. 31)
    BY <2>1 DEF CivilDate
  <2>3. written.hour \in 0 .. 23 /\ written.minute \in 0 .. 59
    BY <1>4 DEF Reads
  <2>4. /\ written.offset.sign \in {1, -1} /\ written.offset.hour \in 0 .. 23
        /\ written.offset.minute \in 0 .. 59
    BY <1>2 DEF Clocks
  <2>5. written.second \in 0 .. 60 /\ written.fraction \in Seq(0 .. 9)
    BY <1>2 DEF DigitSeq
  <2> QED BY <2>2, <2>3, <2>4, <2>5 DEF Valid
<1>9. Instant(written)
        = IF NoInstant(written) THEN NotOrdered ELSE <<Seconds(written), Nanos(f)>>
  <2>1. written.fraction \in DigitSeq
    BY <1>2
  <2> QED BY <1>2, <1>3, <2>1, InstantIs
<1>10. NoInstant(written) <=> s = 60 \/ ~ Exact(f)
  BY <1>2 DEF NoInstant
<1>11. CASE s = 60 \/ ~ Exact(f)
  BY <1>7, <1>8, <1>9, <1>10, <1>11
<1>12. CASE ~ (s = 60 \/ ~ Exact(f))
  <2>1. Instant(written) = <<Seconds(written), Nanos(f)>>
    BY <1>9, <1>10, <1>12
  <2>2. Nanos(f) * Unit[Finest] = Value(f) * Unit[Resolution]
    <3>1. InstantAssumption /\ f \in Seq(0 .. 9)
      BY DEF InstantGiven, DigitSeq
    <3> QED BY <1>12, <3>1, FractionIsExact
  <2>3. Seconds(written) = Midnight + t * 60 + s
    <3> DEFINE day == DaysFromCivil(written.date)
               ahead == OffsetSecs(o)
               hour == written.hour
               minute == written.minute
    <3>1. Seconds(written) = SecondsOf(day, hour, minute, s, ahead)
      BY <1>2 DEF Seconds
    <3>2. s \in Int
      OBVIOUS
    <3>4. Shows(n, t, minutes, ahead, day, hour, minute)
      BY <1>1, <1>3, <1>4, <1>5 DEF Shows
    <3> HIDE DEF day, ahead, hour, minute
    <3>3. SecondsOf(day, hour, minute, s, ahead) = n * 86400 + t * 60 + s
      BY <3>2, <3>4, SecondsAre
    <3> QED BY <1>6, <3>1, <3>3
  <2> QED BY <1>7, <1>8, <1>12, <2>1, <2>2, <2>3
<1> QED BY <1>11, <1>12

LEMMA ClocksAgree ==
  ASSUME InstantGiven, Counted, today.number \in Orderable
  PROVE  WallClocksAgree
<1>1. /\ Times \subseteq Nat /\ Fractions \subseteq DigitSeq /\ Offsets \subseteq Clocks
      /\ WithinYears(today.number)
  BY Parameters
<1>2. \A s \in {0, 59, 60} : s \in 0 .. 60
  OBVIOUS
<1> SUFFICES ASSUME NEW t \in Times, NEW s \in {0, 59, 60}, NEW f \in Fractions,
                    NEW o \in Offsets, Local(t, o) \in TwoDays
             PROVE  ExactOrNone(t, s, f, o)
  BY DEF WallClocksAgree
<1>3. t \in Int /\ s \in 0 .. 60 /\ f \in DigitSeq /\ o \in Clocks
  BY <1>1, <1>2
<1> QED BY <1>1, <1>3, ClockNames

(* A day past the month's last is counted as one of the next month's. *)
LEMMA NoSuchDate ==
  ASSUME NEW y \in Int, NEW m \in 1 .. 12, NEW d \in DaysIn(y, m) + 1 .. 31
  PROVE  CivilFromDays(DaysFromCivil(<<y, m, d>>)) # <<y, m, d>>
<1> DEFINE k == d - DaysIn(y, m)
           next == IF m < 12 THEN <<y, m + 1, k>> ELSE <<y + 1, 1, k>>
<1>1. \A x \in Int : \A z \in 1 .. 12 : DaysIn(x, z) \in 28 .. 31
  BY DEF DaysIn
<1>2. DaysIn(y, m) \in 28 .. 31
  BY <1>1
<1>3. k \in 1 .. 3 /\ d = DaysIn(y, m) + k
  BY <1>2
<1> HIDE DEF k
<1>4. DaysFromCivil(<<y, m, DaysIn(y, m) + k>>) = DaysFromCivil(next)
  BY <1>3, Overflow
<1>5. RealDate(next)
  <2>1. CASE m < 12
    <3>1. m + 1 \in 1 .. 12
      BY <2>1
    <3>2. DaysIn(y, m + 1) \in 28 .. 31
      BY <1>1, <3>1
    <3>3. k =< DaysIn(y, m + 1) /\ k \in 1 .. 31
      BY <1>3, <3>2
    <3>4. next = <<y, m + 1, k>>
      BY <2>1
    <3> HIDE DEF next
    <3> QED BY <3>1, <3>3, <3>4 DEF RealDate
  <2>2. CASE ~ (m < 12)
    <3>1. y + 1 \in Int /\ 1 \in 1 .. 12
      OBVIOUS
    <3>2. DaysIn(y + 1, 1) \in 28 .. 31
      BY <1>1, <3>1
    <3>3. k =< DaysIn(y + 1, 1) /\ k \in 1 .. 31
      BY <1>3, <3>2
    <3>4. next = <<y + 1, 1, k>>
      BY <2>2
    <3> HIDE DEF next
    <3> QED BY <3>1, <3>3, <3>4 DEF RealDate
  <2> QED BY <2>1, <2>2
<1>6. next # <<y, m, d>>
  OBVIOUS
<1> HIDE DEF next
<1>7. CivilFromDays(DaysFromCivil(next)) = next
  BY <1>5, ThereAndBack
<1> QED BY <1>3, <1>4, <1>6, <1>7

LEMMA NoSuchDay ==
  ASSUME Counted
  PROVE  NoSuchDayHasNone
<1>1. RealDate(today.date)
  BY DEF Counted
<1>2. PICK y \in Int, m \in 1 .. 12, last \in 1 .. 31 : DateIs(today.date, y, m, last)
  BY <1>1, DateParts
<1>3. today.date = <<y, m, last>>
  BY <1>2 DEF DateIs
<1> SUFFICES ASSUME NEW d \in DaysIn(today.date[1], today.date[2]) + 1 .. 31
             PROVE  Instant([Written(0, 0, <<>>, Utc) EXCEPT
                                !.date = [today.date EXCEPT ![3] = d]]) = NotOrdered
  BY DEF NoSuchDayHasNone
<1>4. today.date[1] = y /\ today.date[2] = m /\ [today.date EXCEPT ![3] = d] = <<y, m, d>>
  BY <1>3
<1>5. CivilFromDays(DaysFromCivil(<<y, m, d>>)) # <<y, m, d>>
  <2>1. d \in DaysIn(y, m) + 1 .. 31
    BY <1>4
  <2> QED BY <2>1, NoSuchDate
<1> DEFINE ts == [Written(0, 0, <<>>, Utc) EXCEPT !.date = <<y, m, d>>]
<1>6. ts.date = <<y, m, d>>
  BY DEF Written
<1> HIDE DEF ts
<1>7. Instant(ts) = NotOrdered
  BY <1>5, <1>6 DEF Instant
<1> QED BY <1>4, <1>7 DEF ts

(* The parts of a second of the day. *)
LEMMA TimeOfDay ==
  ASSUME NEW rest \in Int
  PROVE  /\ (rest \div 3600) * 3600 + ((rest % 3600) \div 60) * 60 + (rest % 60) = rest
         /\ rest % 60 # 60
<1> DEFINE hour == rest \div 3600
           left == rest % 3600
<1>1. hour \in Int /\ left \in Int /\ rest = hour * 3600 + left /\ left % 60 = rest % 60
  OBVIOUS
<1>2. rest % 60 # 60
  OBVIOUS
<1> HIDE DEF left, hour
<1>3. left = (left \div 60) * 60 + (left % 60)
  BY <1>1
<1>4. hour * 3600 + (left \div 60) * 60 + (left % 60) = rest
  BY <1>1, <1>3
<1> QED BY <1>1, <1>2, <1>4 DEF hour, left

LEMMA StampNames ==
  ASSUME InstantGiven, NEW secs \in Int
  PROVE  Instant(Now(secs)) = <<secs, 0>>
<1> DEFINE day == secs \div 86400
           rest == secs % 86400
           ts == Now(secs)
<1>1. day \in Int /\ rest \in Int /\ secs = day * 86400 + rest
  OBVIOUS
<1>2. /\ ts.date = CivilFromDays(day) /\ ts.hour = rest \div 3600
      /\ ts.minute = (rest % 3600) \div 60 /\ ts.second = rest % 60
      /\ ts.fraction = <<>> /\ ts.offset = Utc
  BY DEF Now
<1> HIDE DEF day, rest, ts
<1>3. /\ (rest \div 3600) * 3600 + ((rest % 3600) \div 60) * 60 + (rest % 60) = rest
      /\ rest % 60 # 60
  BY <1>1, TimeOfDay
<1>4. RealDate(ts.date) /\ DaysFromCivil(ts.date) = day
  BY <1>1, <1>2, BackAndThere
<1>5. <<>> \in DigitSeq /\ DOMAIN <<>> = {} /\ Exact(<<>>)
  BY DEF Exact, DigitSeq
<1>6. OffsetSecs(ts.offset) = 0
  BY <1>2 DEF OffsetSecs, Utc
<1>7. ~ NoInstant(ts)
  BY <1>2, <1>3, <1>5 DEF NoInstant
<1>8. Instant(ts) = <<Seconds(ts), Nanos(ts.fraction)>>
  <2>1. ts.fraction \in DigitSeq
    BY <1>2, <1>5
  <2> QED BY <1>4, <1>7, <2>1, InstantIs
<1>9. Seconds(ts) = secs
  <2> DEFINE hour == rest \div 3600
             minute == (rest % 3600) \div 60
             second == rest % 60
  <2>1. Seconds(ts) = SecondsOf(day, hour, minute, second, 0)
    BY <1>2, <1>4, <1>6 DEF Seconds
  <2>2. hour * 3600 + minute * 60 + second = rest
    BY <1>3
  <2>3. hour \in Int /\ minute \in Int /\ second \in Int
    BY <1>1
  <2> HIDE DEF hour, minute, second
  <2>4. SecondsOf(day, hour, minute, second, 0) = day * 86400 + rest
    BY <1>1, <2>2, <2>3 DEF SecondsOf
  <2> QED BY <1>1, <2>1, <2>4
<1>10. Nanos(ts.fraction) = 0
  <2>1. InstantAssumption /\ ts.fraction \in Seq(0 .. 9) /\ DOMAIN ts.fraction = {}
    BY <1>2, <1>5 DEF InstantGiven, DigitSeq
  <2> QED BY <2>1, NoFraction
<1> QED BY <1>8, <1>9, <1>10 DEF ts

LEMMA StampsAgree ==
  ASSUME InstantGiven, Counted
  PROVE  StampsNameTheirInstant
<1>1. \A t \in Times : t \in Int
  BY Parameters
<1>2. today.number \in Int
  BY DEF Counted
<1> SUFFICES ASSUME NEW t \in Times
             PROVE  Instant(Now(Midnight + t * 60 + 59)) = <<Midnight + t * 60 + 59, 0>>
  BY DEF StampsNameTheirInstant
<1>3. Midnight + t * 60 + 59 \in Int
  BY <1>1, <1>2 DEF Midnight
<1> QED BY <1>3, StampNames

-----------------------------------------------------------------------------
LEMMA CountInitCounted ==
  ASSUME InstantGiven PROVE CountInit => Counted
<1> SUFFICES ASSUME CountInit PROVE Counted
  OBVIOUS
<1>1. PICK o \in Origins : today = [number |-> o[1], date |-> o[2]]
  BY DEF CountInit
<1>2. o \in Int \X (Nat \X (1 .. 12) \X (1 .. 31))
  BY DEF InstantGiven, InstantAssumption
<1>3. o[2][3] =< DaysIn(o[2][1], o[2][2]) /\ DaysFromCivil(o[2]) = o[1]
  BY DEF InstantGiven, CalendarAssumption
<1>4. o[1] \in Int /\ RealDate(o[2])
  BY <1>2, <1>3 DEF RealDate
<1> QED BY <1>1, <1>3, <1>4 DEF Counted

LEMMA NextDayCounted == Counted /\ [NextDay]_today => Counted'
<1> SUFFICES ASSUME Counted, [NextDay]_today PROVE Counted'
  OBVIOUS
<1>1. CASE NextDay
  <2>1. today' = [number |-> today.number + 1, date |-> Following(today.date)]
    BY <1>1 DEF NextDay
  <2>2. RealDate(Following(today.date))
        /\ DaysFromCivil(Following(today.date)) = today.number + 1
    BY FollowingCounts DEF Counted
  <2>3. today.number + 1 \in Int
    BY DEF Counted
  <2> QED BY <2>1, <2>2, <2>3 DEF Counted
<1>2. CASE UNCHANGED today
  BY <1>2 DEF Counted
<1> QED BY <1>1, <1>2

LEMMA CountedIsExact ==
  ASSUME InstantGiven PROVE Counted => InstantsAreExact
<1> SUFFICES ASSUME Counted PROVE InstantsAreExact
  OBVIOUS
<1>1. CalendarIsCounted
  BY CalendarHolds
<1>2. NoSuchDayHasNone
  BY NoSuchDay
<1>3. StampsNameTheirInstant
  BY StampsAgree
<1>4. today.number \in Orderable => WallClocksAgree
  BY ClocksAgree
<1> QED BY <1>1, <1>2, <1>3, <1>4 DEF InstantsAreExact

(* The calendar of civil_from_days, of its copy in the bitcoin adapter and of              *)
(* days_from_civil is the one counted day by day from any real date on, over every leap    *)
(* year and era; and on every day of the validator's years, `instant` gives a timestamp    *)
(* the very second and fraction it names, whatever the offset of the clock that wrote it,  *)
(* or none (a day the month does not have, a leap second, a fraction too fine), and the    *)
(* stamp of a reading of the clock names that reading (time.rs:25-146, map.rs).            *)
THEOREM InstantsExact == CountSpec => []InstantsAreExact
<1>1. CountInit => Counted
  BY Given, CountInitCounted
<1>2. Counted /\ [NextDay]_today => Counted'
  BY NextDayCounted
<1>3. Counted => InstantsAreExact
  BY Given, CountedIsExact
<1> QED BY <1>1, <1>2, <1>3, PTL DEF CountSpec

-----------------------------------------------------------------------------
(***************************************************************************)
(* Amounts.                                                                 *)
(***************************************************************************)

MoneyGiven == MoneyAssumption

LEMMA MoneyIsGiven == MoneyGiven
BY MoneyAssumption DEF MoneyGiven

(* What a text is made of, and what is written. *)
Characters == STRING \union Digits \union {"-", "."}

LEMMA Limits ==
  ASSUME MoneyGiven
  PROVE  /\ MaxDigits \in Nat \ {0} /\ MaxScale \in Nat /\ MaxInput \in Nat /\ Highest \in Nat
         /\ MaxDigits + 2 =< MaxInput /\ Highest = MaxInput + MaxScale + 1
         /\ Texts \subseteq Seq(Characters) /\ Operands \subseteq Texts
<1>1. \A s \in Seq(STRING) : s \in Seq(Characters)
  <2> SUFFICES ASSUME NEW s \in Seq(STRING) PROVE s \in Seq(Characters)
    OBVIOUS
  <2>1. Len(s) \in Nat /\ s = [i \in 1 .. Len(s) |-> s[i]] /\ \A i \in 1 .. Len(s) : s[i] \in STRING
    OBVIOUS
  <2>2. \A i \in 1 .. Len(s) : s[i] \in Characters
    BY <2>1 DEF Characters
  <2> QED BY <2>1, <2>2
<1>2. MoneyAssumption
  BY DEF MoneyGiven
<1> QED BY <1>1, <1>2 DEF MoneyAssumption, Highest

LEMMA Tens == ASSUME MoneyGiven PROVE PowersOfTen(Highest, Pow10)
<1>1. Highest \in Nat
  BY Limits
<1>2. Pow10 = TenTo(Highest)
  BY DEF Pow10, TenTo
<1> QED BY <1>1, <1>2, TenToThe

Exponents == 0 .. Highest

LEMMA TensGrow ==
  ASSUME MoneyGiven
  PROVE  /\ \A k \in Exponents : Pow10[k] \in Nat \ {0}
         /\ \A a, b \in Exponents : a =< b => Pow10[a] =< Pow10[b]
         /\ Pow10[0] = 1
<1>1. Highest \in Nat
  BY Limits
<1> QED BY <1>1, Tens, PowersGrow DEF Exponents, PowersOfTen

LEMMA TensMultiply ==
  ASSUME MoneyGiven, NEW a \in Exponents, NEW b \in Exponents, a + b =< Highest
  PROVE  Pow10[a + b] = Pow10[a] * Pow10[b]
<1>1. Highest \in Nat
  BY Limits
<1> QED BY <1>1, Tens, PowersMultiply DEF Exponents

LEMMA TenTimes ==
  ASSUME MoneyGiven, NEW k \in Exponents, k # 0
  PROVE  k - 1 \in Exponents /\ Pow10[k] = 10 * Pow10[k - 1]
<1>1. Highest \in Nat
  BY Limits
<1>2. k \in 1 .. Highest
  BY <1>1 DEF Exponents
<1>3. k - 1 \in Exponents
  BY <1>1, <1>2 DEF Exponents
<1> QED BY <1>2, <1>3, Tens DEF PowersOfTen

LEMMA MagnitudeIs ==
  ASSUME NEW u \in Int
  PROVE  /\ Magnitude(u) \in Nat /\ Magnitude(-u) = Magnitude(u)
         /\ \A n \in Nat : Magnitude(u) < n <=> u < n /\ -u < n
BY DEF Magnitude

(* The digits of a magnitude, and when there are too many of them. *)
LEMMA DigitCountIs ==
  ASSUME MoneyGiven, NEW u \in Int, NEW top \in 1 .. Highest, Magnitude(u) < Pow10[top]
  PROVE  /\ DigitCount(u) \in 1 .. Highest
         /\ \A n \in 1 .. Highest : DigitCount(u) =< n <=> Magnitude(u) < Pow10[n]
<1> DEFINE m == Magnitude(u)
           S == {n \in 1 .. Highest : m < Pow10[n]}
           IsCount(n) == m < Pow10[n] /\ (n = 1 \/ Pow10[n - 1] =< m)
<1>1. m \in Nat /\ Highest \in Nat
  BY MagnitudeIs, Limits
<1>2. \A n \in 0 .. Highest : Pow10[n] \in Nat
  BY TensGrow DEF Exponents
<1> HIDE DEF m
<1>3. top \in S /\ S \in SUBSET Nat
  BY DEF m
<1>4. PICK n \in S : \A k \in S : n =< k
  <2> HIDE DEF S
  <2> QED BY <1>3, LeastNumber
<1>5. n \in 1 .. Highest /\ IsCount(n)
  <2>1. n \in 1 .. Highest /\ m < Pow10[n]
    BY <1>4
  <2>2. CASE n # 1
    <3>1. n - 1 \in 1 .. Highest /\ ~ (n =< n - 1)
      BY <1>1, <2>1, <2>2
    <3>2. ~ (m < Pow10[n - 1])
      BY <1>4, <3>1
    <3>3. Pow10[n - 1] \in Nat
      BY <1>2, <3>1
    <3> QED BY <1>1, <2>1, <3>2, <3>3
  <2> QED BY <2>1, <2>2
<1> DEFINE count == CHOOSE x \in 1 .. Highest : IsCount(x)
<1>6. count \in 1 .. Highest /\ IsCount(count)
  <2> HIDE DEF IsCount
  <2> QED BY <1>5
<1>7. DigitCount(u) = count
  BY DEF DigitCount, m
<1> HIDE DEF count
<1>8. ASSUME NEW k \in 1 .. Highest PROVE count =< k <=> m < Pow10[k]
  <2>1. /\ Pow10[k] \in Nat /\ Pow10[count] \in Nat
    BY <1>2, <1>6
  <2>2. CASE count =< k
    <3>1. Pow10[count] =< Pow10[k]
      BY <1>1, <1>6, <2>2, TensGrow DEF Exponents
    <3> QED BY <1>1, <1>6, <2>1, <2>2, <3>1
  <2>3. CASE ~ (count =< k)
    <3>1. count # 1 /\ k =< count - 1 /\ count - 1 \in 0 .. Highest
      BY <1>1, <1>6, <2>3
    <3>2. Pow10[k] =< Pow10[count - 1] /\ Pow10[count - 1] \in Nat
      BY <1>2, <3>1, TensGrow DEF Exponents
    <3> QED BY <1>1, <1>6, <2>1, <2>3, <3>1, <3>2
  <2> QED BY <2>2, <2>3
<1> QED BY <1>6, <1>7, <1>8 DEF m

(* What the constructor lets through: few digits, and few of them behind the point. *)
Amount(a) ==
  /\ a = [asset |-> a.asset, units |-> a.units, scale |-> a.scale]
  /\ a.units \in Int /\ a.scale \in 0 .. MaxScale
  /\ Magnitude(a.units) < Pow10[MaxDigits]

LEMMA CheckedIs ==
  ASSUME MoneyGiven, NEW asset, NEW u \in Int, NEW scale \in Nat,
         NEW top \in 1 .. Highest, Magnitude(u) < Pow10[top]
  PROVE  LET c == Checked(asset, u, scale)
         IN  /\ ~ (Magnitude(u) < Pow10[MaxDigits]) => c = Err("TooManyDigits")
             /\ Magnitude(u) < Pow10[MaxDigits] /\ scale > MaxScale => c = Err("ScaleTooLarge")
             /\ Magnitude(u) < Pow10[MaxDigits] /\ scale =< MaxScale =>
                  c = [asset |-> asset, units |-> u, scale |-> scale] /\ Amount(c)
<1>1. MaxDigits \in 1 .. Highest /\ MaxScale \in Nat
  BY Limits
<1>2. DigitCount(u) \in 1 .. Highest
      /\ (DigitCount(u) =< MaxDigits <=> Magnitude(u) < Pow10[MaxDigits])
  BY <1>1, DigitCountIs
<1>3. DigitCount(u) > MaxDigits <=> ~ (Magnitude(u) < Pow10[MaxDigits])
  BY <1>1, <1>2
<1>4. CASE ~ (Magnitude(u) < Pow10[MaxDigits])
  BY <1>3, <1>4 DEF Checked
<1>5. CASE Magnitude(u) < Pow10[MaxDigits] /\ scale > MaxScale
  BY <1>1, <1>3, <1>5 DEF Checked
<1>6. CASE Magnitude(u) < Pow10[MaxDigits] /\ ~ (scale > MaxScale)
  <2>1. Checked(asset, u, scale) = [asset |-> asset, units |-> u, scale |-> scale]
    BY <1>3, <1>6 DEF Checked
  <2>2. scale \in 0 .. MaxScale
    BY <1>1, <1>6
  <2>3. Amount([asset |-> asset, units |-> u, scale |-> scale])
    BY <1>6, <2>2 DEF Amount
  <2> QED BY <1>1, <1>6, <2>1, <2>2, <2>3
<1> QED BY <1>1, <1>4, <1>5, <1>6

LEMMA AmountsAreOk == ASSUME NEW a, Amount(a) PROVE Ok(a)
BY DEF Amount, Ok

LEMMA ErrorsAreNot == \A what : ~ Ok(Err(what)) /\ \A at : ~ Ok(ErrAt(what, at))
BY DEF Ok, Err, ErrAt

-----------------------------------------------------------------------------
(***************************************************************************)
(* Sums.                                                                    *)
(***************************************************************************)

LEMMA LargerIs ==
  ASSUME NEW a \in 0 .. MaxScale, NEW b \in 0 .. MaxScale, MaxScale \in Nat
  PROVE  /\ Larger(a, b) \in 0 .. MaxScale /\ a =< Larger(a, b) /\ b =< Larger(a, b)
         /\ Larger(a, b) = Larger(b, a)
BY DEF Larger

(* Products of whole numbers. *)
LEMMA Products ==
  /\ \A x, y, z \in Int : (x + y) * z = x * z + y * z /\ (x - y) * z = x * z - y * z
  /\ \A x, y, z \in Int : x * (y * z) = (x * y) * z
  /\ \A x, y \in Int : x * y \in Int /\ (-x) * y = - (x * y)
  /\ \A x, y \in Nat : x * y \in Nat
  /\ \A x \in Int : x * 1 = x
<1>1. \A x, y, z \in Int : (x + y) * z = x * z + y * z /\ (x - y) * z = x * z - y * z
  OBVIOUS
<1>2. \A x, y, z \in Int : x * (y * z) = (x * y) * z
  OBVIOUS
<1>3. \A x, y \in Int : x * y \in Int /\ (-x) * y = - (x * y)
  OBVIOUS
<1>4. \A x, y \in Nat : x * y \in Nat
  OBVIOUS
<1>5. \A x \in Int : x * 1 = x
  OBVIOUS
<1> QED BY <1>1, <1>2, <1>3, <1>4, <1>5

LEMMA ProductsGrow ==
  ASSUME NEW p \in Nat \ {0}, NEW x \in Int, NEW y \in Int
  PROVE  (x < y <=> x * p < y * p) /\ (x = y <=> x * p = y * p)
<1>1. x * p \in Int /\ y * p \in Int
  OBVIOUS
<1>2. CASE x < y
  <2>1. y * p = x * p + (y - x) * p
    OBVIOUS
  <2>2. (y - x) * p > 0
    BY <1>2
  <2> QED BY <1>1, <1>2, <2>1, <2>2
<1>3. CASE x = y
  BY <1>1, <1>3
<1>4. CASE y < x
  <2>1. x * p = y * p + (x - y) * p
    OBVIOUS
  <2>2. (x - y) * p > 0
    BY <1>4
  <2> QED BY <1>1, <1>4, <2>1, <2>2
<1> QED BY <1>2, <1>3, <1>4

(* An amount at a finer scale is worth the same. *)
LEMMA RescaledIs ==
  ASSUME MoneyGiven, NEW a, Amount(a), NEW scale \in 0 .. MaxScale, a.scale =< scale
  PROVE  /\ RescaleUnits(a, scale) \in Int /\ Worth(a) \in Int
         /\ RescaleUnits(a, scale) * Pow10[MaxScale - scale] = Worth(a)
<1> DEFINE e == scale - a.scale
           f == MaxScale - scale
<1>1. /\ MaxScale \in Nat /\ Highest \in Nat /\ MaxScale =< Highest
      /\ a.units \in Int /\ a.scale \in 0 .. MaxScale
  BY Limits DEF Amount
<1>2. /\ e \in Exponents /\ f \in Exponents /\ e + f =< Highest
      /\ e + f = MaxScale - a.scale /\ MaxScale - a.scale \in Exponents
  BY <1>1 DEF Exponents
<1>3. RescaleUnits(a, scale) = a.units * Pow10[e] /\ Worth(a) = a.units * Pow10[e + f]
  BY <1>2 DEF RescaleUnits, Worth
<1> HIDE DEF e, f
<1>4. Pow10[e] \in Int /\ Pow10[f] \in Int /\ Pow10[e + f] \in Int
  BY <1>2, TensGrow
<1>5. Pow10[e + f] = Pow10[e] * Pow10[f]
  BY <1>2, TensMultiply
<1>6. a.units * (Pow10[e] * Pow10[f]) = (a.units * Pow10[e]) * Pow10[f]
  BY <1>1, <1>4, Products
<1>7. a.units * Pow10[e] \in Int /\ a.units * Pow10[e + f] \in Int
  BY <1>1, <1>4, Products
<1> QED BY <1>3, <1>5, <1>6, <1>7 DEF f

LEMMA MagnitudeTimes ==
  ASSUME NEW u \in Int, NEW p \in Nat \ {0}
  PROVE  Magnitude(u * p) = Magnitude(u) * p
<1>1. u * p \in Int /\ (-u) * p = - (u * p) /\ 0 * p = 0
  BY Products
<1>2. CASE u < 0
  <2>1. u * p < 0
    BY <1>1, <1>2, ProductsGrow
  <2> QED BY <1>1, <1>2, <2>1 DEF Magnitude
<1>3. CASE ~ (u < 0)
  <2>1. ~ (u * p < 0)
    BY <1>1, <1>3, ProductsGrow
  <2> QED BY <1>3, <2>1 DEF Magnitude
<1> QED BY <1>2, <1>3

LEMMA MagnitudeSum ==
  ASSUME NEW x \in Int, NEW y \in Int
  PROVE  Magnitude(x + y) =< Magnitude(x) + Magnitude(y)
BY DEF Magnitude

(* A rescaled coefficient is short of the highest power of ten. *)
LEMMA RescaledIsSmall ==
  ASSUME MoneyGiven, NEW a, Amount(a), NEW scale \in 0 .. MaxScale, a.scale =< scale
  PROVE  Magnitude(RescaleUnits(a, scale)) < Pow10[MaxDigits + MaxScale]
<1> DEFINE e == scale - a.scale
           u == a.units
<1>1. /\ MaxScale \in Nat /\ Highest \in Nat /\ MaxDigits \in Nat
      /\ MaxDigits + MaxScale =< Highest
      /\ u \in Int /\ a.scale \in 0 .. MaxScale /\ Magnitude(u) < Pow10[MaxDigits]
  BY Limits DEF Amount
<1>2. /\ e \in Exponents /\ MaxDigits \in Exponents /\ MaxDigits + e =< MaxDigits + MaxScale
      /\ MaxDigits + e \in Exponents /\ MaxDigits + MaxScale \in Exponents
      /\ MaxDigits + e =< Highest
  BY <1>1 DEF Exponents
<1>3. RescaleUnits(a, scale) = u * Pow10[e]
  BY DEF RescaleUnits
<1> HIDE DEF e, u
<1>4. /\ Pow10[e] \in Nat \ {0} /\ Pow10[MaxDigits] \in Int
      /\ Pow10[MaxDigits + e] \in Int /\ Pow10[MaxDigits + MaxScale] \in Int
      /\ Pow10[MaxDigits + e] =< Pow10[MaxDigits + MaxScale]
  BY <1>2, TensGrow
<1>5. Pow10[MaxDigits + e] = Pow10[MaxDigits] * Pow10[e]
  BY <1>2, TensMultiply
<1>6. Magnitude(u) \in Int
  BY <1>1, MagnitudeIs
<1>7. Magnitude(u) * Pow10[e] < Pow10[MaxDigits] * Pow10[e]
  BY <1>1, <1>4, <1>6, ProductsGrow
<1>8. Magnitude(u * Pow10[e]) = Magnitude(u) * Pow10[e]
  BY <1>1, <1>4, MagnitudeTimes
<1>9. Magnitude(u) * Pow10[e] \in Int
  BY <1>4, <1>6, Products
<1> QED BY <1>3, <1>4, <1>5, <1>7, <1>8, <1>9

(* Of two amounts rescaled to the finer scale the sum, and what it is worth. *)
LEMMA SumOfRescaled ==
  ASSUME MoneyGiven, NEW a, Amount(a), NEW b, Amount(b)
  PROVE  LET scale == Larger(a.scale, b.scale)
             sum == RescaleUnits(a, scale) + RescaleUnits(b, scale)
         IN  /\ sum \in Int /\ scale \in 0 .. MaxScale
             /\ Magnitude(sum) < Pow10[MaxDigits + MaxScale + 1]
             /\ sum * Pow10[MaxScale - scale] = Worth(a) + Worth(b)
<1> DEFINE scale == Larger(a.scale, b.scale)
           x == RescaleUnits(a, scale)
           y == RescaleUnits(b, scale)
           p == Pow10[MaxScale - scale]
           top == MaxDigits + MaxScale
<1>1. /\ MaxScale \in Nat /\ Highest \in Nat /\ MaxDigits \in Nat
      /\ MaxDigits + MaxScale + 1 =< Highest /\ MaxScale =< Highest
      /\ a.scale \in 0 .. MaxScale /\ b.scale \in 0 .. MaxScale
  BY Limits DEF Amount
<1>2. scale \in 0 .. MaxScale /\ a.scale =< scale /\ b.scale =< scale
  BY <1>1, LargerIs
<1> HIDE DEF scale
<1>3. x \in Int /\ Worth(a) \in Int /\ x * p = Worth(a) /\ Magnitude(x) < Pow10[top]
  BY <1>2, RescaledIs, RescaledIsSmall
<1>4. y \in Int /\ Worth(b) \in Int /\ y * p = Worth(b) /\ Magnitude(y) < Pow10[top]
  BY <1>2, RescaledIs, RescaledIsSmall
<1>5. MaxScale - scale \in Exponents /\ top \in Exponents /\ top + 1 \in Exponents
      /\ top + 1 # 0 /\ (top + 1) - 1 = top
  BY <1>1, <1>2 DEF Exponents
<1>6. p \in Int /\ Pow10[top] \in Nat \ {0} /\ Pow10[top + 1] \in Nat
  BY <1>5, TensGrow
<1> HIDE DEF top
<1>7. Pow10[top + 1] = 10 * Pow10[top]
  BY <1>5, TenTimes
<1> HIDE DEF x, y, p
<1>8. (x + y) * p = Worth(a) + Worth(b)
  BY <1>3, <1>4, <1>6, Products
<1>9. Magnitude(x + y) < Pow10[top + 1]
  <2>1. Magnitude(x) \in Nat /\ Magnitude(y) \in Nat /\ Magnitude(x + y) \in Nat
    BY <1>3, <1>4, MagnitudeIs
  <2>2. Magnitude(x + y) =< Magnitude(x) + Magnitude(y)
    BY <1>3, <1>4, MagnitudeSum
  <2> QED BY <1>3, <1>4, <1>6, <1>7, <2>1, <2>2
<1> QED BY <1>2, <1>3, <1>4, <1>8, <1>9 DEF x, y, p, top, scale

LEMMA Sums ==
  ASSUME MoneyGiven, NEW a, Amount(a), NEW b, Amount(b), a.asset = b.asset
  PROVE  /\ SumIsExact(Add(a, b), Worth(a) + Worth(b), Larger(a.scale, b.scale))
         /\ Ok(Add(a, b)) => Amount(Add(a, b))
<1> DEFINE scale == Larger(a.scale, b.scale)
           sum == RescaleUnits(a, scale) + RescaleUnits(b, scale)
           p == Pow10[MaxScale - scale]
           c == Checked(a.asset, sum, scale)
           whole == Worth(a) + Worth(b)
           record == [asset |-> a.asset, units |-> sum, scale |-> scale]
<1>1. /\ sum \in Int /\ scale \in 0 .. MaxScale
      /\ Magnitude(sum) < Pow10[MaxDigits + MaxScale + 1] /\ sum * p = whole
  BY SumOfRescaled
<1>2. Add(a, b) = IF c = Err("TooManyDigits") THEN Err("CoefficientOverflow") ELSE c
  BY DEF Add
<1>3. MaxDigits + MaxScale + 1 \in 1 .. Highest /\ MaxScale \in Nat /\ MaxScale =< Highest
      /\ MaxDigits \in 1 .. Highest /\ Highest \in Nat
  BY Limits
<1> HIDE DEF scale, sum, whole
<1>4. scale \in Nat /\ scale =< MaxScale
  BY <1>1, <1>3
<1>5. /\ ~ (Magnitude(sum) < Pow10[MaxDigits]) => c = Err("TooManyDigits")
      /\ Magnitude(sum) < Pow10[MaxDigits] => c = record /\ Amount(record)
  BY <1>1, <1>3, <1>4, CheckedIs
<1>6. p \in Nat \ {0} /\ Pow10[MaxDigits] \in Int
  <2>1. MaxScale - scale \in Exponents /\ MaxDigits \in Exponents
    BY <1>1, <1>3 DEF Exponents
  <2> QED BY <2>1, TensGrow
<1> HIDE DEF c, record
<1>7. CASE Magnitude(sum) < Pow10[MaxDigits]
  <2>1. Ok(record) /\ c = record /\ Amount(record)
    BY <1>5, <1>7, AmountsAreOk
  <2>2. c # Err("TooManyDigits")
    BY <2>1, ErrorsAreNot
  <2>3. record.units = sum /\ record.scale = scale
    BY DEF record
  <2>4. Worth(record) = whole
    BY <1>1, <2>3 DEF Worth
  <2>5. Add(a, b) = record
    BY <1>2, <2>1, <2>2
  <2>6. SumIsExact(record, whole, scale)
    BY <2>1, <2>3, <2>4 DEF SumIsExact
  <2> QED BY <2>1, <2>5, <2>6 DEF whole, scale
<1>8. CASE ~ (Magnitude(sum) < Pow10[MaxDigits])
  <2>1. Add(a, b) = Err("CoefficientOverflow")
    BY <1>2, <1>5, <1>8
  <2>2. Magnitude(whole) = Magnitude(sum) * p
    BY <1>1, <1>6, MagnitudeTimes
  <2>3. Magnitude(sum) \in Int
    BY <1>1, MagnitudeIs
  <2>4. ~ (Magnitude(sum) * p < Pow10[MaxDigits] * p)
    BY <1>6, <1>8, <2>3, ProductsGrow
  <2>5. Magnitude(sum) * p \in Int /\ Pow10[MaxDigits] * p \in Int
    BY <1>6, <2>3, Products
  <2>6. Magnitude(whole) >= Pow10[MaxDigits] * p
    BY <2>2, <2>4, <2>5
  <2>7. ~ Ok(Err("CoefficientOverflow"))
    BY ErrorsAreNot
  <2>8. SumIsExact(Err("CoefficientOverflow"), whole, scale)
    BY <2>6, <2>7 DEF SumIsExact
  <2> QED BY <2>1, <2>7, <2>8 DEF whole, scale
<1> QED BY <1>7, <1>8

LEMMA Negated ==
  ASSUME MoneyGiven, NEW a, Amount(a)
  PROVE  /\ Amount(Neg(a)) /\ Worth(Neg(a)) = - Worth(a)
         /\ Neg(a).scale = a.scale /\ Neg(a).asset = a.asset
<1>1. /\ a = [asset |-> a.asset, units |-> a.units, scale |-> a.scale]
      /\ a.units \in Int /\ a.scale \in 0 .. MaxScale
      /\ Magnitude(a.units) < Pow10[MaxDigits]
  BY DEF Amount
<1>2. Neg(a) = [asset |-> a.asset, units |-> -a.units, scale |-> a.scale]
  BY <1>1 DEF Neg
<1>3. -a.units \in Int /\ Magnitude(-a.units) = Magnitude(a.units)
  BY <1>1, MagnitudeIs
<1>4. Amount(Neg(a))
  BY <1>1, <1>2, <1>3 DEF Amount
<1>5. Neg(a).units = -a.units /\ Neg(a).scale = a.scale /\ Neg(a).asset = a.asset
  BY <1>2
<1>6. Pow10[MaxScale - a.scale] \in Int
  <2>1. MaxScale - a.scale \in Exponents
    BY <1>1, Limits DEF Exponents
  <2> QED BY <2>1, TensGrow
<1>7. (-a.units) * Pow10[MaxScale - a.scale] = - (a.units * Pow10[MaxScale - a.scale])
  BY <1>1, <1>6, Products
<1>8. Worth(Neg(a)) = - Worth(a)
  BY <1>5, <1>7 DEF Worth
<1> QED BY <1>4, <1>5, <1>8

LEMMA Differences ==
  ASSUME MoneyGiven, NEW a, Amount(a), NEW b, Amount(b), a.asset = b.asset
  PROVE  /\ SumIsExact(Sub(a, b), Worth(a) - Worth(b), Larger(a.scale, b.scale))
         /\ Ok(Sub(a, b)) => Amount(Sub(a, b))
<1> DEFINE c == Neg(b)
<1>1. /\ Amount(c) /\ Worth(c) = - Worth(b) /\ c.scale = b.scale /\ c.asset = b.asset
  BY Negated
<1>2. Sub(a, b) = Add(a, c)
  BY DEF Sub
<1> HIDE DEF c
<1>3. /\ SumIsExact(Add(a, c), Worth(a) + Worth(c), Larger(a.scale, c.scale))
      /\ Ok(Add(a, c)) => Amount(Add(a, c))
  BY <1>1, Sums
<1>4. Worth(a) \in Int /\ Worth(b) \in Int
  <2>1. /\ MaxScale \in 0 .. MaxScale /\ a.scale =< MaxScale /\ b.scale =< MaxScale
    BY Limits DEF Amount
  <2> QED BY <2>1, RescaledIs
<1>5. Worth(a) + Worth(c) = Worth(a) - Worth(b)
  BY <1>1, <1>4
<1> QED BY <1>1, <1>2, <1>3, <1>5

LEMMA OtherAsset ==
  ASSUME NEW a, NEW b, b.asset # a.asset, Neg(b).asset = b.asset
  PROVE  /\ Add(a, b) = Err("AssetMismatch") /\ Sub(a, b) = Err("AssetMismatch")
         /\ ~Eq(a, b)
<1>1. Add(a, b) = Err("AssetMismatch")
  BY DEF Add
<1>2. Sub(a, b) = Err("AssetMismatch")
  BY DEF Sub, Add
<1>3. CmpSameAsset(a, b) = Err("AssetMismatch")
  BY DEF CmpSameAsset
<1>4. Err("AssetMismatch") # [order |-> "Equal"]
  <2>1. "error" \in DOMAIN Err("AssetMismatch") /\ "error" \notin DOMAIN [order |-> "Equal"]
    BY DEF Err
  <2> QED BY <2>1
<1> QED BY <1>1, <1>2, <1>3, <1>4 DEF Eq

LEMMA Compares ==
  ASSUME MoneyGiven, NEW a, Amount(a), NEW b, Amount(b), a.asset = b.asset
  PROVE  /\ Eq(a, b) <=> Worth(a) = Worth(b)
         /\ CmpSameAsset(a, b) = [order |-> "Less"] <=> Worth(a) < Worth(b)
<1> DEFINE scale == Larger(a.scale, b.scale)
           x == RescaleUnits(a, scale)
           y == RescaleUnits(b, scale)
           p == Pow10[MaxScale - scale]
           order == IF x < y THEN "Less" ELSE IF x > y THEN "Greater" ELSE "Equal"
<1>1. /\ MaxScale \in Nat /\ Highest \in Nat /\ MaxScale =< Highest
      /\ a.scale \in 0 .. MaxScale /\ b.scale \in 0 .. MaxScale
  BY Limits DEF Amount
<1>2. scale \in 0 .. MaxScale /\ a.scale =< scale /\ b.scale =< scale
  BY <1>1, LargerIs
<1>3. CmpSameAsset(a, b) = [order |-> order]
  BY DEF CmpSameAsset
<1> HIDE DEF scale
<1>4. x \in Int /\ x * p = Worth(a)
  BY <1>2, RescaledIs
<1>5. y \in Int /\ y * p = Worth(b)
  BY <1>2, RescaledIs
<1>6. p \in Nat \ {0}
  <2>1. MaxScale - scale \in Exponents
    BY <1>1, <1>2 DEF Exponents
  <2> QED BY <2>1, TensGrow
<1> HIDE DEF x, y, p
<1>7. (x < y <=> Worth(a) < Worth(b)) /\ (x = y <=> Worth(a) = Worth(b))
  BY <1>4, <1>5, <1>6, ProductsGrow
<1>8. (order = "Less" <=> x < y) /\ (order = "Equal" <=> x = y)
  BY <1>4, <1>5
<1> HIDE DEF order
<1>9. \A z : [order |-> order] = [order |-> z] <=> order = z
  <2> SUFFICES ASSUME NEW z, [order |-> order] = [order |-> z] PROVE order = z
    OBVIOUS
  <2>1. [order |-> order].order = [order |-> z].order
    OBVIOUS
  <2> QED BY <2>1
<1> QED BY <1>3, <1>7, <1>8, <1>9 DEF Eq

-----------------------------------------------------------------------------
(***************************************************************************)
(* What is hashed.                                                          *)
(***************************************************************************)

LEMMA Division ==
  ASSUME NEW u \in Int, NEW p \in Nat \ {0}
  PROVE  /\ u \div p \in Int /\ u % p \in Nat /\ u % p < p
         /\ u = (u \div p) * p + (u % p)
OBVIOUS

LEMMA Quotients ==
  ASSUME NEW q \in Int, NEW p \in Nat \ {0}
  PROVE  (q * p) \div p = q /\ (q * p) % p = 0
<1> DEFINE u == q * p
           d == u \div p
           r == u % p
<1>1. u \in Int
  BY Products
<1>2. d \in Int /\ r \in Nat /\ r < p /\ u = d * p + r
  BY <1>1, Division
<1>3. u = q * p
  OBVIOUS
<1> HIDE DEF u, d, r
<1>4. (q - d) * p = r /\ (d - q) * p = -r /\ 1 * p = p /\ 0 * p = 0
  BY <1>2, <1>3, Products
<1>5. ~ (q - d >= 1)
  <2>1. q - d > 0 /\ q - d # 1 => 1 * p < (q - d) * p
    BY <1>2, ProductsGrow
  <2> QED BY <1>2, <1>4, <2>1
<1>6. ~ (q - d < 0)
  <2>1. q - d < 0 => (q - d) * p < 0 * p
    BY <1>2, ProductsGrow
  <2> QED BY <1>2, <1>4, <2>1
<1>7. q = d
  BY <1>2, <1>5, <1>6
<1>8. r = 0
  BY <1>2, <1>4, <1>7
<1> QED BY <1>7, <1>8 DEF d, r, u

(* The form that is hashed: worth what the amount is, with no zero at its end. *)
NormalForm(n, worth) ==
  /\ n = [units |-> n.units, scale |-> n.scale]
  /\ n.units \in Int /\ n.scale \in 0 .. MaxScale
  /\ n.units * Pow10[MaxScale - n.scale] = worth
  /\ n.scale = 0 \/ n.units % 10 # 0

LEMMA NormalIs ==
  ASSUME MoneyGiven, NEW a, Amount(a) PROVE NormalForm(Normalized(a), Worth(a))
<1> DEFINE u == a.units
           S == {s \in 0 .. a.scale : u % Pow10[a.scale - s] = 0}
           IsKept(s) == /\ u % Pow10[a.scale - s] = 0
                        /\ s = 0 \/ u % Pow10[a.scale - s + 1] # 0
           k == CHOOSE s \in 0 .. a.scale : IsKept(s)
           p == Pow10[a.scale - k]
           q == u \div p
           n == [units |-> IF u < 0 THEN -(Magnitude(u) \div p) ELSE u \div p, scale |-> k]
<1>1. /\ MaxScale \in Nat /\ Highest \in Nat /\ MaxScale + 1 =< Highest
      /\ u \in Int /\ a.scale \in 0 .. MaxScale
  BY Limits DEF Amount
<1>2. \A s \in 0 .. a.scale : a.scale - s \in Exponents /\ a.scale - s + 1 \in Exponents
  BY <1>1 DEF Exponents
<1>3. \E s \in 0 .. a.scale : IsKept(s)
  <2>1. a.scale \in S
    <3>1. a.scale - a.scale = 0 /\ a.scale \in 0 .. a.scale
      BY <1>1
    <3>2. Pow10[a.scale - a.scale] = 1
      BY <3>1, TensGrow
    <3>3. u % 1 = 0
      BY <1>1
    <3> QED BY <3>1, <3>2, <3>3
  <2>2. S \in SUBSET Nat
    BY <1>1
  <2>3. PICK s \in S : \A t \in S : s =< t
    <3> HIDE DEF S
    <3> QED BY <2>1, <2>2, LeastNumber
  <2>4. s \in 0 .. a.scale /\ u % Pow10[a.scale - s] = 0
    BY <2>3
  <2>5. CASE s # 0
    <3>1. s - 1 \in 0 .. a.scale /\ ~ (s =< s - 1) /\ a.scale - (s - 1) = a.scale - s + 1
      BY <1>1, <2>4, <2>5
    <3>2. s - 1 \notin S
      BY <2>3, <3>1
    <3>3. u % Pow10[a.scale - s + 1] # 0
      BY <3>1, <3>2
    <3> QED BY <2>4, <3>3
  <2>6. CASE s = 0
    BY <2>4, <2>6
  <2> QED BY <2>5, <2>6
<1>4. k \in 0 .. a.scale /\ IsKept(k)
  <2> HIDE DEF IsKept
  <2> QED BY <1>3
<1>5. Normalized(a) = n
  BY DEF Normalized
<1>6. Worth(a) = u * Pow10[MaxScale - a.scale]
  BY DEF Worth
<1> HIDE DEF k, u
<1>7. /\ k \in 0 .. MaxScale /\ a.scale - k \in Exponents /\ a.scale - k + 1 \in Exponents
      /\ MaxScale - a.scale \in Exponents
      /\ (a.scale - k) + (MaxScale - a.scale) = MaxScale - k
      /\ (a.scale - k) + (MaxScale - a.scale) =< Highest
      /\ a.scale - k + 1 # 0 /\ (a.scale - k + 1) - 1 = a.scale - k
  BY <1>1, <1>2, <1>4 DEF Exponents
<1>8. p \in Nat \ {0} /\ Pow10[MaxScale - a.scale] \in Int /\ Pow10[a.scale - k + 1] = 10 * p
  BY <1>7, TensGrow, TenTimes
<1>9. u = q * p /\ q \in Int
  <2> HIDE DEF p
  <2>1. u % p = 0
    BY <1>4 DEF p
  <2> QED BY <1>1, <1>8, <2>1, Division
<1>10. n.units = q /\ n.scale = k /\ n = [units |-> n.units, scale |-> n.scale]
  <2>1. CASE u < 0
    <3> HIDE DEF p, q
    <3>1. Magnitude(u) = (-q) * p /\ -q \in Int
      BY <1>1, <1>8, <1>9, <2>1, Products DEF Magnitude
    <3>2. Magnitude(u) \div p = -q
      BY <1>8, <3>1, Quotients
    <3>3. n = [units |-> q, scale |-> k]
      BY <1>9, <2>1, <3>2
    <3> QED BY <3>3
  <2>2. CASE ~ (u < 0)
    BY <2>2
  <2> QED BY <2>1, <2>2
<1> HIDE DEF n, q
<1>11. q * Pow10[MaxScale - k] = Worth(a)
  <2>1. Pow10[MaxScale - k] = p * Pow10[MaxScale - a.scale]
    BY <1>7, TensMultiply
  <2> HIDE DEF p
  <2>2. q * (p * Pow10[MaxScale - a.scale]) = (q * p) * Pow10[MaxScale - a.scale]
    BY <1>8, <1>9, Products
  <2> QED BY <1>6, <1>9, <2>1, <2>2
<1>12. k = 0 \/ q % 10 # 0
  <2> SUFFICES ASSUME k # 0, q % 10 = 0 PROVE FALSE
    OBVIOUS
  <2>1. u % (10 * p) # 0
    BY <1>4, <1>8
  <2> HIDE DEF p
  <2>2. PICK r \in Int : q = r * 10
    <3>1. q = (q \div 10) * 10 /\ q \div 10 \in Int
      BY <1>9
    <3> QED BY <3>1
  <2>3. u = r * (10 * p) /\ 10 * p \in Nat \ {0}
    BY <1>8, <1>9, <2>2, Products
  <2> QED BY <2>1, <2>3, Quotients
<1> QED BY <1>5, <1>7, <1>9, <1>10, <1>11, <1>12 DEF NormalForm

LEMMA NotFiner ==
  ASSUME MoneyGiven, NEW worth, NEW m, NEW n, NormalForm(m, worth), NormalForm(n, worth)
  PROVE  ~ (m.scale < n.scale)
<1> SUFFICES ASSUME m.scale < n.scale PROVE FALSE
  OBVIOUS
<1> DEFINE e == n.scale - m.scale
           f == MaxScale - n.scale
           p == Pow10[f]
<1>1. /\ MaxScale \in Nat /\ Highest \in Nat /\ MaxScale =< Highest
      /\ m.units \in Int /\ n.units \in Int
      /\ m.scale \in 0 .. MaxScale /\ n.scale \in 0 .. MaxScale
      /\ m.units * Pow10[MaxScale - m.scale] = n.units * Pow10[MaxScale - n.scale]
      /\ n.units % 10 # 0
  BY Limits DEF NormalForm
<1>2. /\ e \in Exponents /\ e # 0 /\ f \in Exponents /\ e + f =< Highest
      /\ MaxScale - m.scale = e + f
  BY <1>1 DEF Exponents
<1>3. m.units * Pow10[e + f] = n.units * p
  BY <1>1, <1>2
<1> HIDE DEF e, f
<1>4. /\ Pow10[e + f] = Pow10[e] * p /\ p \in Nat \ {0} /\ Pow10[e] = 10 * Pow10[e - 1]
      /\ Pow10[e - 1] \in Int /\ Pow10[e] \in Int
  BY <1>2, TensMultiply, TensGrow, TenTimes
<1> HIDE DEF p
<1>5. m.units * (Pow10[e] * p) = (m.units * Pow10[e]) * p /\ m.units * Pow10[e] \in Int
  BY <1>1, <1>4, Products
<1>6. m.units * Pow10[e] = n.units
  BY <1>1, <1>3, <1>4, <1>5, ProductsGrow
<1>7. n.units = (m.units * Pow10[e - 1]) * 10 /\ m.units * Pow10[e - 1] \in Int
  BY <1>1, <1>4, <1>6, Products
<1>8. n.units % 10 = 0
  BY <1>7, Quotients
<1> QED BY <1>1, <1>8

LEMMA NormalUnique ==
  ASSUME MoneyGiven, NEW worth, NEW m, NEW n, NormalForm(m, worth), NormalForm(n, worth)
  PROVE  m = n
<1>1. /\ m = [units |-> m.units, scale |-> m.scale] /\ n = [units |-> n.units, scale |-> n.scale]
      /\ m.units \in Int /\ n.units \in Int
      /\ m.scale \in 0 .. MaxScale /\ n.scale \in 0 .. MaxScale
      /\ m.units * Pow10[MaxScale - m.scale] = worth
      /\ n.units * Pow10[MaxScale - n.scale] = worth
      /\ MaxScale \in Nat /\ Highest \in Nat /\ MaxScale =< Highest
  BY Limits DEF NormalForm
<1>2. ~ (m.scale < n.scale) /\ ~ (n.scale < m.scale)
  BY NotFiner
<1>3. m.scale = n.scale
  BY <1>1, <1>2
<1>4. Pow10[MaxScale - m.scale] \in Nat \ {0}
  <2>1. MaxScale - m.scale \in Exponents
    BY <1>1 DEF Exponents
  <2> QED BY <2>1, TensGrow
<1>5. m.units = n.units
  BY <1>1, <1>3, <1>4, ProductsGrow
<1> QED BY <1>1, <1>3, <1>5

LEMMA HashedAlike ==
  ASSUME MoneyGiven, NEW a, Amount(a), NEW b, Amount(b)
  PROVE  Worth(a) = Worth(b) <=> Normalized(a) = Normalized(b)
<1>1. NormalForm(Normalized(a), Worth(a)) /\ NormalForm(Normalized(b), Worth(b))
  BY NormalIs
<1>2. ASSUME Worth(a) = Worth(b) PROVE Normalized(a) = Normalized(b)
  BY <1>1, <1>2, NormalUnique
<1>3. ASSUME Normalized(a) = Normalized(b) PROVE Worth(a) = Worth(b)
  BY <1>1, <1>3 DEF NormalForm
<1> QED BY <1>2, <1>3

-----------------------------------------------------------------------------
(***************************************************************************)
(* What is read.                                                            *)
(***************************************************************************)

LEMMA FigureIs == \A d \in Digits : Figure(d) \in Nat /\ Figure(d) < 10
<1> SUFFICES ASSUME NEW d \in Digits PROVE Figure(d) \in Nat /\ Figure(d) < 10
  OBVIOUS
<1>1. CASE d = "0"
  BY <1>1 DEF Figure
<1>2. CASE d # "0"
  <2>1. \E i \in 1 .. 9 : Figures[i] = d
    BY <1>2 DEF Figures, Digits
  <2> DEFINE f == CHOOSE i \in 1 .. 9 : Figures[i] = d
  <2>2. f \in 1 .. 9
    BY <2>1
  <2>3. Figure(d) = f
    BY <1>2 DEF Figure
  <2>4. f \in Nat /\ f < 10
    <3> HIDE DEF f
    <3> QED BY <2>2
  <2> QED BY <2>3, <2>4
<1> QED BY <1>1, <1>2

(* A run of digits ends. *)
EndsAt(s, n, m) ==
  /\ \A i \in n + 1 .. m : s[i] \in Digits
  /\ m = Len(s) \/ s[m + 1] \notin Digits

LEMMA RunEndIs ==
  ASSUME NEW s \in Seq(Characters), NEW n \in 0 .. Len(s)
  PROVE  RunEnd(s, n) \in n .. Len(s) /\ EndsAt(s, n, RunEnd(s, n))
<1> DEFINE S == {m \in n .. Len(s) : \A i \in n + 1 .. m : s[i] \in Digits}
           len == Len(s)
<1>1. len \in Nat /\ n \in S /\ S \in SUBSET (0 .. len)
  OBVIOUS
<1>2. PICK m \in S : \A k \in S : k =< m
  <2> HIDE DEF S, len
  <2> QED BY <1>1, GreatestNumber
<1>3. m \in n .. Len(s) /\ \A i \in n + 1 .. m : s[i] \in Digits
  BY <1>2
<1>4. m = Len(s) \/ s[m + 1] \notin Digits
  <2> SUFFICES ASSUME m # Len(s), s[m + 1] \in Digits PROVE FALSE
    OBVIOUS
  <2>1. m + 1 \in n .. Len(s) /\ ~ (m + 1 =< m)
    BY <1>1, <1>3
  <2>2. \A i \in n + 1 .. m + 1 : i \in n + 1 .. m \/ i = m + 1
    BY <1>1, <1>3
  <2>3. \A i \in n + 1 .. m + 1 : s[i] \in Digits
    BY <1>3, <2>2
  <2>4. m + 1 \in S
    BY <2>1, <2>3
  <2> QED BY <1>2, <2>1, <2>4
<1>5. \E x \in n .. Len(s) : EndsAt(s, n, x)
  BY <1>3, <1>4 DEF EndsAt
<1>6. RunEnd(s, n) = CHOOSE x \in n .. Len(s) : EndsAt(s, n, x)
  BY DEF RunEnd, EndsAt
<1> QED BY <1>5, <1>6

(* What a character adds to the number that is read. *)
Figured(s, i, x) == IF s[i] \in Digits THEN 10 * x + Figure(s[i]) ELSE x

LEMMA DigitsValueIs ==
  ASSUME NEW s \in Seq(Characters), NEW n \in 0 .. Len(s)
  PROVE  \E g \in [0 .. n -> Nat] :
           /\ g[0] = 0 /\ g[n] = DigitsValue(s, n)
           /\ \A k \in 1 .. n : g[k] = Figured(s, k, g[k - 1])
<1> DEFINE step == [k \in 1 .. n |-> [x \in Nat |-> Figured(s, k, x)]]
           value == CHOOSE h : h = [k \in 0 .. n |-> IF k = 0 THEN 0 ELSE Figured(s, k, h[k - 1])]
<1>1. n \in Nat
  OBVIOUS
<1>2. \A k \in 1 .. n : \A x \in Nat : step[k][x] \in Nat
  BY FigureIs DEF Figured
<1>3. PICK g \in [0 .. n -> Nat] : g[0] = 0 /\ \A k \in 1 .. n : g[k] = step[k][g[k - 1]]
  <2> HIDE DEF step
  <2>1. CanIterate(n, Nat, 0, step)
    BY <1>1, <1>2, Iteration
  <2> QED BY <2>1 DEF CanIterate
<1>4. ASSUME NEW k \in 1 .. n PROVE g[k] = Figured(s, k, g[k - 1])
  <2>1. g[k - 1] \in Nat
    BY <1>1
  <2> QED BY <1>3, <2>1
<1>5. g = [k \in 0 .. n |-> IF k = 0 THEN 0 ELSE Figured(s, k, g[k - 1])]
  <2>1. \A k \in 0 .. n : k # 0 => k \in 1 .. n
    BY <1>1
  <2>2. \A k \in 0 .. n : g[k] = IF k = 0 THEN 0 ELSE Figured(s, k, g[k - 1])
    BY <1>3, <1>4, <2>1
  <2> QED BY <2>2
<1>6. value = [k \in 0 .. n |-> IF k = 0 THEN 0 ELSE Figured(s, k, value[k - 1])]
  BY <1>5
<1>7. DigitsValue(s, n) = value[n]
  BY DEF DigitsValue, Figured
<1> HIDE DEF value
<1> DEFINE S == {k \in 0 .. n : value[k] = g[k]}
<1>8. S = 0 .. n
  <2>1. ASSUME NEW m \in 0 .. n, \A k \in 0 .. m - 1 : k \in S PROVE m \in S
    <3>1. CASE m = 0
      BY <1>3, <1>6, <3>1
    <3>2. CASE m # 0
      <4>1. m - 1 \in 0 .. m - 1 /\ m \in 1 .. n
        BY <3>2
      <4>2. value[m - 1] = g[m - 1]
        BY <2>1, <4>1
      <4>3. value[m] = Figured(s, m, value[m - 1])
        BY <1>6, <3>2
      <4> QED BY <1>4, <4>1, <4>2, <4>3
    <3> QED BY <3>1, <3>2
  <2> HIDE DEF S
  <2>2. S \in SUBSET (0 .. n)
    BY DEF S
  <2> QED BY <1>1, <2>1, <2>2, UpTo
<1>9. n \in S
  BY <1>1, <1>8
<1>10. g[n] = DigitsValue(s, n)
  BY <1>7, <1>9
<1> QED BY <1>3, <1>4, <1>10

LEMMA DigitsValueIsSmall ==
  ASSUME MoneyGiven, NEW s \in Seq(Characters), NEW n \in 0 .. Len(s), n =< MaxInput
  PROVE  DigitsValue(s, n) \in Nat /\ DigitsValue(s, n) < Pow10[n]
<1>1. PICK g \in [0 .. n -> Nat] :
           /\ g[0] = 0 /\ g[n] = DigitsValue(s, n)
           /\ \A k \in 1 .. n : g[k] = Figured(s, k, g[k - 1])
  BY DigitsValueIs
<1>2. n \in Nat /\ Highest \in Nat /\ n =< Highest
  BY Limits
<1> DEFINE S == {k \in 0 .. n : g[k] < Pow10[k]}
<1>3. S = 0 .. n
  <2>1. ASSUME NEW m \in 0 .. n, \A k \in 0 .. m - 1 : k \in S PROVE m \in S
    <3>1. CASE m = 0
      BY <1>1, <3>1, TensGrow
    <3>2. CASE m # 0
      <4>1. m - 1 \in 0 .. m - 1 /\ m \in 1 .. n /\ m \in Exponents /\ m - 1 \in 0 .. n
        BY <1>2, <3>2 DEF Exponents
      <4>2. g[m - 1] < Pow10[m - 1] /\ g[m - 1] \in Nat /\ g[m] = Figured(s, m, g[m - 1])
        BY <1>1, <2>1, <4>1
      <4>3. Pow10[m] = 10 * Pow10[m - 1] /\ Pow10[m - 1] \in Nat
        BY <3>2, <4>1, TenTimes, TensGrow
      <4>4. CASE s[m] \in Digits
        <5> DEFINE f == Figure(s[m])
        <5>1. f \in Nat /\ f < 10
          BY <4>4, FigureIs
        <5>2. g[m] = 10 * g[m - 1] + f
          BY <4>2, <4>4 DEF Figured
        <5> HIDE DEF f
        <5>3. g[m] < Pow10[m]
          BY <4>2, <4>3, <5>1, <5>2
        <5> QED BY <5>3
      <4>5. CASE s[m] \notin Digits
        <5>1. g[m] = g[m - 1]
          BY <4>2, <4>5 DEF Figured
        <5>2. g[m] < Pow10[m]
          BY <4>2, <4>3, <5>1
        <5> QED BY <5>2
      <4> QED BY <4>4, <4>5
    <3> QED BY <3>1, <3>2
  <2> HIDE DEF S
  <2>2. S \in SUBSET (0 .. n)
    BY DEF S
  <2> QED BY <1>2, <2>1, <2>2, UpTo
<1>4. n \in S
  BY <1>2, <1>3
<1> QED BY <1>1, <1>2, <1>4

LEMMA ReadIsAmount ==
  ASSUME MoneyGiven, NEW asset, NEW s \in Seq(Characters), Ok(Parse(asset, s))
  PROVE  Amount(Parse(asset, s))
<1> DEFINE sign == IF s[1] = "-" THEN 1 ELSE 0
           int == RunEnd(s, sign)
           point == int < Len(s) /\ s[int + 1] = "."
           end == IF point THEN RunEnd(s, int + 1) ELSE int
           scale == IF point THEN end - int - 1 ELSE 0
           value == DigitsValue(s, end)
           units == IF sign = 1 THEN -value ELSE value
           c == Checked(asset, units, scale)
<1>1. /\ MaxInput \in 1 .. Highest /\ MaxScale \in Nat /\ Highest \in Nat /\ MaxInput \in Nat
  BY Limits
<1>2. CASE s # <<>> /\ ~ (Len(s) > MaxInput) /\ Parse(asset, s) = c
  <2>1. Len(s) \in Nat /\ Len(s) >= 1 /\ Len(s) =< MaxInput
    BY <1>1, <1>2
  <2>2. sign \in 0 .. Len(s)
    BY <2>1
  <2> HIDE DEF sign
  <2>3. int \in 0 .. Len(s)
    BY <2>1, <2>2, RunEndIs
  <2> HIDE DEF int
  <2>4. end \in 0 .. Len(s) /\ scale \in Nat
    <3>1. CASE point
      <4>1. int + 1 \in 0 .. Len(s)
        BY <2>1, <2>3, <3>1
      <4>2. RunEnd(s, int + 1) \in int + 1 .. Len(s)
        BY <4>1, RunEndIs
      <4> QED BY <2>1, <2>3, <3>1, <4>2
    <3>2. CASE ~ point
      BY <2>3, <3>2
    <3> QED BY <3>1, <3>2
  <2> HIDE DEF end, scale, point
  <2>5. value \in Nat /\ value < Pow10[end]
    <3>1. end =< MaxInput
      BY <1>1, <2>1, <2>4
    <3> QED BY <2>4, <3>1, DigitsValueIsSmall
  <2>6. Pow10[end] =< Pow10[MaxInput] /\ Pow10[end] \in Nat /\ Pow10[MaxInput] \in Nat
    <3>1. end \in Exponents /\ MaxInput \in Exponents /\ end =< MaxInput
      BY <1>1, <2>1, <2>4 DEF Exponents
    <3> QED BY <3>1, TensGrow
  <2> HIDE DEF value
  <2>7. units \in Int /\ Magnitude(units) = value
    BY <2>5 DEF Magnitude
  <2> HIDE DEF units
  <2>8. Magnitude(units) < Pow10[MaxInput]
    BY <2>5, <2>6, <2>7
  <2>9. /\ c = Err("TooManyDigits") \/ c = Err("ScaleTooLarge") \/ Amount(c)
    <3>1. scale > MaxScale \/ scale =< MaxScale
      BY <1>1, <2>4
    <3> QED BY <1>1, <2>4, <2>7, <2>8, <3>1, CheckedIs
  <2> HIDE DEF c
  <2> QED BY <1>2, <2>9, ErrorsAreNot
<1>3. CASE ~ (s # <<>> /\ ~ (Len(s) > MaxInput) /\ Parse(asset, s) = c)
  <2>1. CASE s = <<>> \/ Len(s) > MaxInput
    <3>1. Parse(asset, s) = Err("InputTooLong") \/ Parse(asset, s) = Err("Empty")
      BY <2>1 DEF Parse
    <3> QED BY <3>1, ErrorsAreNot
  <2>2. CASE s # <<>> /\ ~ (Len(s) > MaxInput)
    <3>1. \/ Parse(asset, s) = c
          \/ \E what : Parse(asset, s) = Err(what)
          \/ \E what, at : Parse(asset, s) = ErrAt(what, at)
      <4> DEFINE answer == IF Len(s) = sign \/ s[sign + 1] = "." THEN Err("MissingIntegerPart")
                           ELSE IF int = sign THEN ErrAt("InvalidByte", sign)
                           ELSE IF s[sign + 1] = "0" /\ int > sign + 1 THEN ErrAt("LeadingZero", sign)
                           ELSE IF point /\ Len(s) = int + 1 THEN Err("MissingFractionDigits")
                           ELSE IF end < Len(s) THEN Misplaced(s, end)
                           ELSE IF sign = 1 /\ value = 0 THEN Err("SignOnZero")
                           ELSE c
      <4>1. Parse(asset, s) = answer
        BY <2>2 DEF Parse
      <4>2. \E what, at : Misplaced(s, end) = ErrAt(what, at)
        BY DEF Misplaced
      <4> HIDE DEF sign, int, point, end, value, c
      <4>3. \/ answer = c \/ answer = Misplaced(s, end)
            \/ answer = Err("MissingIntegerPart") \/ answer = Err("MissingFractionDigits")
            \/ answer = Err("SignOnZero")
            \/ answer = ErrAt("InvalidByte", sign) \/ answer = ErrAt("LeadingZero", sign)
        OBVIOUS
      <4> HIDE DEF answer
      <4> QED BY <4>1, <4>2, <4>3
    <3> HIDE DEF c
    <3> QED BY <1>3, <2>2, <3>1, ErrorsAreNot
  <2> QED BY <2>1, <2>2
<1> QED BY <1>2, <1>3

-----------------------------------------------------------------------------
MoneyInv == Ok(amount) => Amount(amount)

LEMMA OthersAreAmounts ==
  ASSUME MoneyGiven, NEW b \in Others PROVE Amount(b)
<1>1. PICK asset \in Assets, s \in Operands : b = Parse(asset, s) /\ Ok(b)
  BY DEF Others
<1>2. s \in Seq(Characters)
  BY Limits
<1> QED BY <1>1, <1>2, ReadIsAmount

LEMMA MoneyInitAmount == MoneyInit => MoneyInv
<1> SUFFICES ASSUME MoneyInit PROVE MoneyInv
  OBVIOUS
<1>1. amount = Err("Empty")
  BY DEF MoneyInit, Fresh
<1> QED BY <1>1, ErrorsAreNot DEF MoneyInv

LEMMA SumsAreAmounts ==
  ASSUME MoneyGiven, NEW a, Amount(a), NEW b, Amount(b)
  PROVE  /\ Ok(Add(a, b)) => Amount(Add(a, b))
         /\ Ok(Sub(a, b)) => Amount(Sub(a, b))
<1>1. CASE a.asset = b.asset
  BY <1>1, Sums, Differences
<1>2. CASE a.asset # b.asset
  <2>1. Neg(b).asset = b.asset
    BY Negated
  <2>2. Add(a, b) = Err("AssetMismatch") /\ Sub(a, b) = Err("AssetMismatch")
    BY <1>2, <2>1, OtherAsset
  <2> QED BY <2>2, ErrorsAreNot
<1> QED BY <1>1, <1>2

LEMMA MoneyStepAmount ==
  ASSUME MoneyGiven PROVE MoneyInv /\ [MoneyNext]_moneyVars => MoneyInv'
<1> SUFFICES ASSUME MoneyInv, [MoneyNext]_moneyVars, Ok(amount') PROVE Amount(amount')
  BY DEF MoneyInv
<1>1. ASSUME NEW asset \in Assets, NEW s \in Texts, Read_text(asset, s) PROVE Amount(amount')
  <2>1. s \in Seq(Characters) /\ amount' = Parse(asset, s)
    BY <1>1, Limits DEF Read_text
  <2> QED BY <2>1, ReadIsAmount
<1>2. CASE Calculate
  <2>1. Amount(amount)
    BY <1>2 DEF Calculate, MoneyInv
  <2>2. CASE \E b \in Others : amount' \in {c \in {Add(amount, b), Sub(amount, b)} : Ok(c)}
    <3>1. PICK b \in Others : amount' = Add(amount, b) \/ amount' = Sub(amount, b)
      BY <2>2
    <3>2. Amount(b)
      BY OthersAreAmounts
    <3> QED BY <2>1, <3>1, <3>2, SumsAreAmounts
  <2>3. CASE amount' = Neg(amount)
    BY <2>1, <2>3, Negated
  <2> QED BY <1>2, <2>2, <2>3 DEF Calculate
<1>3. CASE UNCHANGED moneyVars
  BY <1>3 DEF moneyVars, MoneyInv
<1> QED BY <1>1, <1>2, <1>3 DEF MoneyNext

LEMMA AmountsAreExact == ASSUME MoneyGiven PROVE MoneyInv => ArithmeticIsExact
<1> SUFFICES ASSUME MoneyInv, Ok(amount), NEW b \in Others
             PROVE  /\ b.asset # amount.asset =>
                         /\ Add(amount, b) = Err("AssetMismatch")
                         /\ Sub(amount, b) = Err("AssetMismatch")
                         /\ ~Eq(amount, b)
                    /\ b.asset = amount.asset =>
                         LET scale == Larger(amount.scale, b.scale)
                         IN  /\ SumIsExact(Add(amount, b), Worth(amount) + Worth(b), scale)
                             /\ SumIsExact(Sub(amount, b), Worth(amount) - Worth(b), scale)
                             /\ Eq(amount, b) <=> Worth(amount) = Worth(b)
                             /\ Eq(amount, b) <=> Normalized(amount) = Normalized(b)
                             /\ (CmpSameAsset(amount, b) = [order |-> "Less"])
                                   <=> Worth(amount) < Worth(b)
  BY DEF ArithmeticIsExact
<1>1. Amount(amount) /\ Amount(b)
  BY OthersAreAmounts DEF MoneyInv
<1>2. CASE b.asset # amount.asset
  <2>1. Neg(b).asset = b.asset
    BY <1>1, Negated
  <2> QED BY <1>2, <2>1, OtherAsset
<1>3. CASE b.asset = amount.asset
  <2>1. SumIsExact(Add(amount, b), Worth(amount) + Worth(b), Larger(amount.scale, b.scale))
    BY <1>1, <1>3, Sums
  <2>2. SumIsExact(Sub(amount, b), Worth(amount) - Worth(b), Larger(amount.scale, b.scale))
    BY <1>1, <1>3, Differences
  <2>3. /\ Eq(amount, b) <=> Worth(amount) = Worth(b)
        /\ CmpSameAsset(amount, b) = [order |-> "Less"] <=> Worth(amount) < Worth(b)
    BY <1>1, <1>3, Compares
  <2>4. Worth(amount) = Worth(b) <=> Normalized(amount) = Normalized(b)
    BY <1>1, HashedAlike
  <2> QED BY <1>3, <2>1, <2>2, <2>3, <2>4
<1> QED BY <1>2, <1>3

(* Whatever texts and operations an amount came of, its sums and differences with any      *)
(* amount that was read are exact at the finer scale or refused for the digits of the       *)
(* coefficient, never for less; it is compared by value; and amounts that compare equal     *)
(* are hashed alike (checked_add, checked_sub, cmp_same_asset and the canonical form of     *)
(* amount.rs).                                                                              *)
THEOREM ArithmeticExact == MoneySpec => []ArithmeticIsExact
<1>1. MoneyInit => MoneyInv
  BY MoneyInitAmount
<1>2. MoneyInv /\ [MoneyNext]_moneyVars => MoneyInv'
  BY MoneyIsGiven, MoneyStepAmount
<1>3. MoneyInv => ArithmeticIsExact
  BY MoneyIsGiven, AmountsAreExact
<1> QED BY <1>1, <1>2, <1>3, PTL DEF MoneySpec

-----------------------------------------------------------------------------
(***************************************************************************)
(* The digits of a number.                                                  *)
(***************************************************************************)

LEMMA DivisionUnique ==
  ASSUME NEW p \in Nat \ {0}, NEW q \in Int, NEW r \in Nat, r < p
  PROVE  (q * p + r) \div p = q /\ (q * p + r) % p = r
<1> DEFINE u == q * p + r
           d == u \div p
           e == u % p
<1>1. u \in Int /\ q * p \in Int
  BY Products
<1>2. d \in Int /\ e \in Nat /\ e < p /\ u = d * p + e
  BY <1>1, Division
<1>3. d * p \in Int /\ u = q * p + r
  BY <1>2, Products
<1> HIDE DEF u, d, e
<1>4. (d - q) * p = r - e
  <2>1. (d - q) * p = d * p - q * p
    BY <1>2, Products
  <2> QED BY <1>1, <1>2, <1>3, <2>1
<1>5. d = q
  <2>1. ~ (d < q)
    <3> SUFFICES ASSUME d - q < 0 PROVE FALSE
      BY <1>2
    <3>1. d - q + 1 =< 0 /\ (d - q + 1) * p =< 0
      <4>1. d - q + 1 =< 0
        BY <1>2
      <4>2. \A x \in Int : x =< 0 => x * p =< 0
        OBVIOUS
      <4> QED BY <1>2, <4>1, <4>2
    <3>2. (d - q + 1) * p = (d - q) * p + 1 * p
      BY <1>2, Products
    <3> QED BY <1>2, <1>4, <3>1, <3>2
  <2>2. ~ (d > q)
    <3> SUFFICES ASSUME d - q > 0 PROVE FALSE
      BY <1>2
    <3>1. d - q - 1 >= 0 /\ (d - q - 1) * p >= 0
      <4>1. d - q - 1 >= 0
        BY <1>2
      <4>2. \A x \in Int : x >= 0 => x * p >= 0
        OBVIOUS
      <4> QED BY <1>2, <4>1, <4>2
    <3>2. (d - q - 1) * p = (d - q) * p - 1 * p
      BY <1>2, Products
    <3> QED BY <1>2, <1>4, <3>1, <3>2
  <2> QED BY <1>2, <2>1, <2>2
<1>6. e = r
  BY <1>2, <1>3, <1>5
<1> QED BY <1>5, <1>6 DEF u, d, e

(* The characters of the digits. *)
Glyph(f) == IF f = 0 THEN "0" ELSE Figures[f]

LEMMA GlyphIs ==
  /\ \A d \in Digits : Glyph(Figure(d)) = d
  /\ \A f \in Nat : f < 10 => Glyph(f) \in Digits /\ Figure(Glyph(f)) = f
<1>1. ASSUME NEW d \in Digits PROVE Glyph(Figure(d)) = d
  <2>1. CASE d = "0"
    BY <2>1 DEF Figure, Glyph
  <2>2. CASE d # "0"
    <3>1. \E i \in 1 .. 9 : Figures[i] = d
      BY <2>2 DEF Figures, Digits
    <3> DEFINE f == CHOOSE i \in 1 .. 9 : Figures[i] = d
    <3>2. f \in 1 .. 9 /\ Figures[f] = d
      BY <3>1
    <3>3. Figure(d) = f
      BY <2>2 DEF Figure
    <3>4. f # 0
      <4> HIDE DEF f
      <4> QED BY <3>2
    <3> QED BY <3>2, <3>3, <3>4 DEF Glyph
  <2> QED BY <2>1, <2>2
<1>2. ASSUME NEW f \in Nat, f < 10 PROVE Glyph(f) \in Digits /\ Figure(Glyph(f)) = f
  <2>1. CASE f = 0
    BY <2>1 DEF Glyph, Figure, Digits
  <2>2. CASE f # 0
    <3>1. f \in 1 .. 9 /\ Glyph(f) = Figures[f]
      BY <1>2, <2>2 DEF Glyph
    <3>2. Figures[f] \in Digits /\ Figures[f] # "0"
      BY <3>1 DEF Figures, Digits
    <3>3. \A i \in 1 .. 9 : Figures[i] = Figures[f] => i = f
      BY <3>1 DEF Figures
    <3>4. (CHOOSE i \in 1 .. 9 : Figures[i] = Figures[f]) = f
      BY <3>1, <3>3
    <3> QED BY <3>1, <3>2, <3>4 DEF Figure
  <2> QED BY <2>1, <2>2
<1> QED BY <1>1, <1>2

LEMMA Signs ==
  /\ "-" \notin Digits /\ "." \notin Digits /\ "-" # "."
  /\ Digits \subseteq Characters /\ "-" \in Characters /\ "." \in Characters
<1>1. "-" \notin Digits /\ "." \notin Digits /\ "-" # "."
  BY DEF Digits
<1>2. Digits \subseteq Characters /\ "-" \in Characters /\ "." \in Characters
  BY DEF Characters
<1> QED BY <1>1, <1>2

(* The digits w of a number, one after the other. *)
Counts(w, N, h) ==
  /\ h \in [0 .. N -> Nat] /\ h[0] = 0
  /\ \A j \in 1 .. N : h[j] = 10 * h[j - 1] + Figure(w[j])

Spells(w, N, m) ==
  /\ m \in Nat /\ m < Pow10[N]
  /\ \A j \in 1 .. N : w[j] = DigitAt(m, N - j)

Spelling(N) == [1 .. N -> Digits]

(* What of a number is above a digit: the digits before it. *)
LEMMA CountsAre ==
  ASSUME MoneyGiven, NEW N \in Exponents, NEW w \in Spelling(N), NEW h, Counts(w, N, h)
  PROVE  /\ \A j \in 0 .. N : h[j] < Pow10[j]
         /\ \A j \in 0 .. N : h[N] \div Pow10[N - j] = h[j]
<1>1. N \in Nat /\ Highest \in Nat /\ \A j \in 0 .. N : j \in Exponents /\ N - j \in Exponents
  BY Limits DEF Exponents
<1>2. /\ \A j \in 0 .. N : h[j] \in Nat
      /\ h[0] = 0
      /\ \A j \in 1 .. N : /\ h[j] = 10 * h[j - 1] + Figure(w[j])
                           /\ Figure(w[j]) \in Nat /\ Figure(w[j]) < 10
  BY FigureIs DEF Counts, Spelling
<1>3. \A j \in Exponents : Pow10[j] \in Nat \ {0}
  BY TensGrow
<1>4. \A j \in 0 .. N : h[j] < Pow10[j]
  <2> DEFINE S == {j \in 0 .. N : h[j] < Pow10[j]}
  <2>1. ASSUME NEW m \in 0 .. N, \A k \in 0 .. m - 1 : k \in S PROVE m \in S
    <3>1. CASE m = 0
      BY <1>2, <3>1, TensGrow
    <3>2. CASE m # 0
      <4>1. m - 1 \in 0 .. m - 1 /\ m \in 1 .. N /\ m \in Exponents /\ m - 1 \in 0 .. N
        BY <1>1, <3>2
      <4>2. h[m - 1] < Pow10[m - 1] /\ h[m - 1] \in Nat
        BY <1>2, <2>1, <4>1
      <4>3. Pow10[m] = 10 * Pow10[m - 1] /\ Pow10[m - 1] \in Nat
        BY <1>1, <1>3, <3>2, <4>1, TenTimes
      <4> DEFINE f == Figure(w[m])
      <4>4. h[m] = 10 * h[m - 1] + f /\ f \in Nat /\ f < 10
        BY <1>2, <4>1
      <4> HIDE DEF f
      <4>5. h[m] < Pow10[m]
        BY <4>2, <4>3, <4>4
      <4> QED BY <4>5
    <3> QED BY <3>1, <3>2
  <2> HIDE DEF S
  <2>2. S \in SUBSET (0 .. N)
    BY DEF S
  <2>3. S = 0 .. N
    BY <1>1, <2>1, <2>2, UpTo
  <2> QED BY <2>3 DEF S
<1>5. \A j \in 0 .. N : h[N] \div Pow10[N - j] = h[j]
  <2> DEFINE Above(j) == \E r \in Nat : r < Pow10[N - j] /\ h[N] = h[j] * Pow10[N - j] + r
             S == {k \in 0 .. N : Above(N - k)}
  <2>1. ASSUME NEW m \in 0 .. N, \A k \in 0 .. m - 1 : k \in S PROVE m \in S
    <3>1. CASE m = 0
      <4>1. N - m = N /\ N - N = 0 /\ Pow10[0] = 1 /\ h[N] \in Nat /\ h[N] = h[N] * 1 + 0
        BY <1>1, <1>2, <3>1, TensGrow
      <4>2. Above(N)
        BY <4>1
      <4> HIDE DEF Above
      <4> QED BY <4>1, <4>2
    <3>2. CASE m # 0
      <4> DEFINE j == N - m
                 p == Pow10[m - 1]
                 f == Figure(w[j + 1])
      <4>1. /\ m - 1 \in 0 .. m - 1 /\ m - 1 \in 0 .. N /\ N - (m - 1) = j + 1 /\ N - j = m
            /\ N - (j + 1) = m - 1
            /\ j \in 0 .. N /\ j + 1 \in 1 .. N /\ j + 1 \in 0 .. N /\ m \in Exponents
            /\ m - 1 \in Exponents /\ (j + 1) - 1 = j
        BY <1>1, <3>2
      <4>2. h[j + 1] = 10 * h[j] + f /\ f \in Nat /\ f < 10 /\ h[j] \in Nat /\ h[j + 1] \in Nat
        BY <1>2, <4>1
      <4>3. Above(j + 1)
        <5> HIDE DEF Above, j, p, f
        <5>1. m - 1 \in S
          BY <2>1, <4>1
        <5> QED BY <4>1, <5>1
      <4>4. PICK r \in Nat : r < p /\ h[N] = h[j + 1] * p + r
        BY <4>1, <4>3
      <4>5. Pow10[m] = 10 * p /\ p \in Nat \ {0}
        BY <1>3, <3>2, <4>1, TenTimes
      <4> HIDE DEF j, p, f
      <4>6. /\ h[j + 1] * p = 10 * (h[j] * p) + f * p
            /\ h[j] * (10 * p) = 10 * (h[j] * p)
            /\ f * p =< 9 * p /\ f * p \in Nat /\ h[j] * p \in Nat
        <5>1. h[j + 1] * p = (10 * h[j]) * p + f * p
          BY <4>2, <4>5, Products
        <5>2. (10 * h[j]) * p = 10 * (h[j] * p) /\ h[j] * (10 * p) = 10 * (h[j] * p)
          BY <4>2, <4>5
        <5>3. f * p \in Nat /\ h[j] * p \in Nat
          BY <4>2, <4>5, Products
        <5>4. f * p =< 9 * p
          <6>1. \A x \in Nat : x < 10 => x * p =< 9 * p
            BY <4>5
          <6> QED BY <4>2, <6>1
        <5> QED BY <5>1, <5>2, <5>3, <5>4
      <4>7. f * p + r \in Nat /\ f * p + r < Pow10[m] /\ h[N] = h[j] * Pow10[m] + (f * p + r)
        BY <4>4, <4>5, <4>6
      <4>8. Above(j)
        BY <4>1, <4>7
      <4> HIDE DEF Above
      <4> QED BY <4>8 DEF j
    <3> QED BY <3>1, <3>2
  <2> HIDE DEF S
  <2>2. S \in SUBSET (0 .. N)
    BY DEF S
  <2>3. S = 0 .. N
    BY <1>1, <2>1, <2>2, UpTo
  <2> SUFFICES ASSUME NEW j \in 0 .. N PROVE h[N] \div Pow10[N - j] = h[j]
    OBVIOUS
  <2>4. N - j \in S /\ N - (N - j) = j
    BY <1>1, <2>3
  <2>5. Above(j)
    <3> HIDE DEF Above
    <3> QED BY <2>4 DEF S
  <2>6. PICK r \in Nat : r < Pow10[N - j] /\ h[N] = h[j] * Pow10[N - j] + r
    BY <2>5
  <2>7. Pow10[N - j] \in Nat \ {0} /\ h[j] \in Int
    BY <1>1, <1>2, <1>3
  <2> QED BY <2>6, <2>7, DivisionUnique
<1> QED BY <1>4, <1>5

LEMMA DigitAtIs ==
  \A m \in Nat : Magnitude(m) = m /\ \A i : DigitAt(m, i) = Glyph((m \div Pow10[i]) % 10)
BY DEF Magnitude, DigitAt, Glyph

(* Digits that count up to a number are its digits. *)
LEMMA CountedSpells ==
  ASSUME MoneyGiven, NEW N \in Exponents, NEW w \in Spelling(N), NEW h, Counts(w, N, h)
  PROVE  Spells(w, N, h[N])
<1>1. N \in Nat /\ Highest \in Nat /\ N \in 0 .. N
  BY Limits DEF Exponents
<1>2. h[N] \in Nat /\ h[N] < Pow10[N]
  BY <1>1, CountsAre DEF Counts
<1>3. ASSUME NEW j \in 1 .. N PROVE w[j] = DigitAt(h[N], N - j)
  <2> DEFINE f == Figure(w[j])
  <2>1. w[j] \in Digits /\ f \in Nat /\ f < 10 /\ Glyph(f) = w[j]
    BY FigureIs, GlyphIs DEF Spelling
  <2>2. h[j] = 10 * h[j - 1] + f /\ h[j - 1] \in Nat
    <3>1. j - 1 \in 0 .. N
      BY <1>1
    <3> QED BY <3>1 DEF Counts
  <2>3. h[N] \div Pow10[N - j] = h[j]
    BY <1>1, CountsAre
  <2> HIDE DEF f
  <2>4. (h[j - 1] * 10 + f) % 10 = f
    <3> DEFINE x == h[j - 1]
    <3>1. x \in Int /\ 10 \in Nat \ {0}
      BY <2>2
    <3> HIDE DEF x
    <3>2. (x * 10 + f) % 10 = f
      BY <2>1, <3>1, DivisionUnique
    <3> QED BY <3>2 DEF x
  <2>5. h[j] % 10 = f
    BY <2>2, <2>4
  <2>6. DigitAt(h[N], N - j) = Glyph((h[N] \div Pow10[N - j]) % 10)
    BY <1>2, DigitAtIs
  <2> QED BY <2>1, <2>3, <2>5, <2>6
<1> QED BY <1>2, <1>3 DEF Spells

(* And the digits of a number count up to it. *)
LEMMA SpelledCounts ==
  ASSUME MoneyGiven, NEW N \in Exponents, NEW w \in Spelling(N), NEW h, Counts(w, N, h),
         NEW m, Spells(w, N, m)
  PROVE  h[N] = m
<1>1. N \in Nat /\ Highest \in Nat /\ \A j \in 0 .. N : j \in Exponents /\ N - j \in Exponents
  BY Limits DEF Exponents
<1>2. /\ m \in Nat /\ m < Pow10[N]
      /\ \A j \in 1 .. N : w[j] = DigitAt(m, N - j)
  BY DEF Spells
<1>3. /\ \A j \in 0 .. N : h[j] \in Nat
      /\ h[0] = 0
      /\ \A j \in 1 .. N : h[j] = 10 * h[j - 1] + Figure(w[j])
  BY DEF Counts
<1>4. \A j \in Exponents : Pow10[j] \in Nat \ {0}
  BY TensGrow
<1> DEFINE S == {j \in 0 .. N : m \div Pow10[N - j] = h[j]}
<1>5. ASSUME NEW j \in 0 .. N, \A k \in 0 .. j - 1 : k \in S PROVE j \in S
  <2>1. CASE j = 0
    <3>1. m = 0 * Pow10[N] + m /\ Pow10[N] \in Nat \ {0} /\ N - j = N
      BY <1>1, <1>2, <1>4, <2>1
    <3>2. (0 * Pow10[N] + m) \div Pow10[N] = 0
      BY <1>2, <3>1, DivisionUnique
    <3> QED BY <1>3, <2>1, <3>1, <3>2
  <2>2. CASE j # 0
    <3> DEFINE p == Pow10[N - j]
               q == m \div p
               r == m % p
               a == q \div 10
               f == q % 10
    <3>1. /\ j - 1 \in 0 .. j - 1 /\ j \in 1 .. N /\ N - j \in Exponents /\ N - (j - 1) \in Exponents
          /\ N - (j - 1) # 0 /\ (N - (j - 1)) - 1 = N - j
      BY <1>1, <2>2
    <3>2. p \in Nat \ {0} /\ Pow10[N - (j - 1)] = 10 * p
      BY <1>4, <3>1, TenTimes
    <3>3. q \in Int /\ r \in Nat /\ r < p /\ m = q * p + r
      <4>1. m \in Int
        BY <1>2
      <4> HIDE DEF p
      <4> QED BY <3>2, <4>1, Division
    <3>4. DigitAt(m, N - j) = Glyph(f)
      BY <1>2, DigitAtIs
    <3> HIDE DEF p, q, r
    <3>5. a \in Int /\ f \in Nat /\ f < 10 /\ q = a * 10 + f
      BY <3>3, Division
    <3> HIDE DEF a, f
    <3>6. m = a * (10 * p) + (f * p + r) /\ f * p + r \in Nat /\ f * p + r < 10 * p
      <4>1. q * p = (a * 10) * p + f * p
        BY <3>2, <3>5, Products
      <4>2. (a * 10) * p = a * (10 * p)
        BY <3>2, <3>5, Products
      <4>3. f * p \in Nat /\ a * (10 * p) \in Int
        BY <3>2, <3>5, Products
      <4>4. f * p =< 9 * p
        <5>1. \A x \in Nat : x < 10 => x * p =< 9 * p
          BY <3>2
        <5> QED BY <3>5, <5>1
      <4> DEFINE x == f * p
                 y == a * (10 * p)
      <4>5. q * p = y + x /\ x \in Nat /\ y \in Int /\ x =< 9 * p
        BY <4>1, <4>2, <4>3, <4>4
      <4> HIDE DEF x, y
      <4>6. m = y + (x + r) /\ x + r \in Nat /\ x + r < 10 * p
        BY <3>2, <3>3, <4>5
      <4> QED BY <4>6 DEF x, y
    <3>7. 10 * p \in Nat \ {0}
      BY <3>2
    <3>8. (a * (10 * p) + (f * p + r)) \div (10 * p) = a
      BY <3>5, <3>6, <3>7, DivisionUnique
    <3>9. m \div Pow10[N - (j - 1)] = a
      BY <3>2, <3>6, <3>8
    <3>10. h[j - 1] = a
      BY <1>5, <3>1, <3>9
    <3>11. Figure(w[j]) = f
      BY <1>2, <3>1, <3>4, <3>5, GlyphIs
    <3>12. h[j] = 10 * a + f
      BY <1>3, <3>1, <3>10, <3>11
    <3>13. h[j] = q
      BY <3>5, <3>12
    <3> QED BY <3>13 DEF q, p
  <2> QED BY <2>1, <2>2
<1>6. S \in SUBSET (0 .. N)
  OBVIOUS
<1>7. S = 0 .. N
  <2> HIDE DEF S
  <2> QED BY <1>1, <1>5, <1>6, UpTo
<1>8. N \in S /\ N - N = 0
  BY <1>1, <1>7
<1>9. m \div Pow10[0] = h[N]
  BY <1>8
<1>10. m \div 1 = m
  <2>1. (m * 1 + 0) \div 1 = m
    BY <1>2, DivisionUnique
  <2> QED BY <1>2, <2>1
<1> QED BY <1>9, <1>10, TensGrow

-----------------------------------------------------------------------------
(***************************************************************************)
(* The text of a sign, N digits and a point before the last of them.        *)
(***************************************************************************)

Point(scale) == IF scale = 0 THEN 0 ELSE 1

TextOf(s, neg, N, scale, w) ==
  /\ s \in Seq(Characters) /\ neg \in {0, 1} /\ N \in Nat /\ scale \in Nat /\ scale < N
  /\ w \in Spelling(N)
  /\ Len(s) = neg + N + Point(scale)
  /\ neg = 1 => s[1] = "-"
  /\ \A j \in 1 .. N - scale : s[neg + j] = w[j]
  /\ scale # 0 => /\ s[neg + (N - scale) + 1] = "."
                  /\ \A j \in N - scale + 1 .. N : s[neg + 1 + j] = w[j]

(* There is one such text. *)
LEMMA TextUnique ==
  ASSUME NEW s, NEW t, NEW neg, NEW N, NEW scale, NEW w,
         TextOf(s, neg, N, scale, w), TextOf(t, neg, N, scale, w)
  PROVE  s = t
<1>1. /\ neg \in {0, 1} /\ N \in Nat /\ scale \in Nat /\ scale < N
      /\ Len(s) = neg + N + Point(scale) /\ Len(t) = Len(s)
      /\ s \in Seq(Characters) /\ t \in Seq(Characters)
  BY DEF TextOf
<1>2. ASSUME NEW i \in 1 .. Len(s) PROVE s[i] = t[i]
  <2>1. CASE i =< neg
    <3>1. i = 1 /\ neg = 1
      BY <1>1, <2>1
    <3> QED BY <3>1 DEF TextOf
  <2>2. CASE ~ (i =< neg) /\ i =< neg + (N - scale)
    <3>1. i - neg \in 1 .. N - scale /\ neg + (i - neg) = i
      BY <1>1, <2>2
    <3>2. s[neg + (i - neg)] = w[i - neg] /\ t[neg + (i - neg)] = w[i - neg]
      BY <3>1 DEF TextOf
    <3> QED BY <3>1, <3>2
  <2>3. CASE ~ (i =< neg + (N - scale))
    <3>1. scale # 0 /\ (i = neg + (N - scale) + 1 \/ i - neg - 1 \in N - scale + 1 .. N)
          /\ neg + 1 + (i - neg - 1) = i
      BY <1>1, <2>3 DEF Point
    <3>2. CASE i = neg + (N - scale) + 1
      BY <3>1, <3>2 DEF TextOf
    <3>3. CASE i - neg - 1 \in N - scale + 1 .. N
      <4>1. s[neg + 1 + (i - neg - 1)] = w[i - neg - 1] /\ t[neg + 1 + (i - neg - 1)] = w[i - neg - 1]
        BY <3>1, <3>3 DEF TextOf
      <4> QED BY <3>1, <4>1
    <3> QED BY <3>1, <3>2, <3>3
  <2> QED BY <1>1, <2>1, <2>2, <2>3
<1>3. s = [i \in 1 .. Len(s) |-> s[i]] /\ t = [i \in 1 .. Len(t) |-> t[i]]
  BY <1>1
<1> QED BY <1>1, <1>2, <1>3

(* The number that is read in it is the one its digits count up to. *)
LEMMA TextCounts ==
  ASSUME NEW s, NEW neg, NEW N, NEW scale, NEW w, TextOf(s, neg, N, scale, w)
  PROVE  \E h : Counts(w, N, h) /\ h[N] = DigitsValue(s, Len(s))
<1> DEFINE len == Len(s)
           cut == N - scale
           place(j) == IF j =< cut THEN neg + j ELSE neg + 1 + j
<1>1. /\ neg \in {0, 1} /\ N \in Nat /\ scale \in Nat /\ cut \in 1 .. N
      /\ len = neg + N + Point(scale) /\ len \in Nat /\ len \in 0 .. len
      /\ s \in Seq(Characters)
      /\ scale = 0 <=> cut = N
  BY DEF TextOf
<1>2. /\ neg = 1 => s[1] = "-"
      /\ cut < N => s[neg + cut + 1] = "."
      /\ \A j \in 1 .. N : s[place(j)] = w[j] /\ w[j] \in Digits
  <2>1. \A j \in 1 .. N : j \in 1 .. cut \/ j \in cut + 1 .. N
    BY <1>1
  <2>2. \A j \in 1 .. cut : s[neg + j] = w[j] /\ j =< cut
    BY <1>1 DEF TextOf
  <2>3. \A j \in cut + 1 .. N : s[neg + 1 + j] = w[j] /\ ~ (j =< cut) /\ scale # 0
    BY <1>1 DEF TextOf
  <2>4. \A j \in 1 .. N : s[place(j)] = w[j]
    <3> HIDE DEF cut
    <3> QED BY <2>1, <2>2, <2>3
  <2>5. \A j \in 1 .. N : w[j] \in Digits
    BY DEF TextOf, Spelling
  <2> QED BY <1>1, <2>4, <2>5 DEF TextOf
<1>3. PICK g \in [0 .. len -> Nat] :
        /\ g[0] = 0 /\ g[len] = DigitsValue(s, len)
        /\ \A k \in 1 .. len : g[k] = Figured(s, k, g[k - 1])
  BY <1>1, DigitsValueIs
<1> DEFINE h == [j \in 0 .. N |-> g[place(j)]]
<1> HIDE DEF len, cut
<1>4. \A j \in 0 .. N : place(j) \in 0 .. len
  BY <1>1 DEF Point
<1>5. h \in [0 .. N -> Nat]
  <2> HIDE DEF place
  <2> QED BY <1>4
<1>6. h[0] = 0
  <2>1. h[0] = g[neg]
    BY <1>1
  <2>2. CASE neg = 1
    <3>1. 1 \in 1 .. len /\ s[1] \notin Digits
      BY <1>1, <1>2, <2>2, Signs DEF Point
    <3>2. g[1] = g[0]
      BY <1>3, <3>1 DEF Figured
    <3> QED BY <1>3, <2>1, <2>2, <3>2
  <2> QED BY <1>1, <1>3, <2>1, <2>2
<1>7. ASSUME NEW j \in 1 .. N PROVE h[j] = 10 * h[j - 1] + Figure(w[j])
  <2>1. place(j) \in 1 .. len
    BY <1>1 DEF Point
  <2>2. g[place(j)] = 10 * g[place(j) - 1] + Figure(w[j])
    <3>1. s[place(j)] = w[j] /\ w[j] \in Digits
      BY <1>2
    <3> HIDE DEF place
    <3> QED BY <1>3, <2>1, <3>1 DEF Figured
  <2>3. g[place(j) - 1] = g[place(j - 1)]
    <3>1. CASE j = cut + 1
      <4>1. place(j) - 1 = neg + cut + 1 /\ place(j - 1) = neg + cut /\ cut < N
            /\ neg + cut + 1 \in 1 .. len /\ (neg + cut + 1) - 1 = neg + cut
        BY <1>1, <3>1, <2>1 DEF Point
      <4>2. s[neg + cut + 1] \notin Digits
        BY <1>2, <4>1, Signs
      <4> HIDE DEF place
      <4> QED BY <1>3, <4>1, <4>2 DEF Figured
    <3>2. CASE j # cut + 1
      <4>1. place(j) - 1 = place(j - 1)
        BY <1>1, <3>2
      <4> QED BY <4>1
    <3> QED BY <3>1, <3>2
  <2>4. h[j] = g[place(j)] /\ h[j - 1] = g[place(j - 1)]
    <3>1. j - 1 \in 0 .. N /\ j \in 0 .. N
      BY <1>1
    <3> HIDE DEF place
    <3> QED BY <3>1
  <2> QED BY <2>2, <2>3, <2>4
<1>8. h[N] = g[len]
  <2>1. place(N) = len /\ N \in 0 .. N
    BY <1>1 DEF Point
  <2> HIDE DEF place
  <2> QED BY <2>1
<1> HIDE DEF h
<1>9. Counts(w, N, h)
  BY <1>5, <1>6, <1>7 DEF Counts
<1> QED BY <1>3, <1>8, <1>9 DEF len

LEMMA TextSpells ==
  ASSUME MoneyGiven, NEW s, NEW neg, NEW N, NEW scale, NEW w, TextOf(s, neg, N, scale, w),
         N \in Exponents
  PROVE  /\ Spells(w, N, DigitsValue(s, Len(s)))
         /\ \A m : Spells(w, N, m) => DigitsValue(s, Len(s)) = m
<1>1. w \in Spelling(N)
  BY DEF TextOf
<1>2. PICK h : Counts(w, N, h) /\ h[N] = DigitsValue(s, Len(s))
  BY TextCounts
<1> QED BY <1>1, <1>2, CountedSpells, SpelledCounts

-----------------------------------------------------------------------------
(***************************************************************************)
(* What is written.                                                         *)
(***************************************************************************)

Places(a) == IF DigitCount(a.units) > a.scale THEN DigitCount(a.units) ELSE a.scale + 1
Minus(a) == IF a.units < 0 THEN 1 ELSE 0
Figures_of(a) == [j \in 1 .. Places(a) |-> DigitAt(a.units, Places(a) - j)]

LEMMA PlacesAre ==
  ASSUME MoneyGiven, NEW a, Amount(a)
  PROVE  /\ Places(a) \in 1 .. Highest /\ a.scale < Places(a)
         /\ Places(a) =< MaxDigits \/ Places(a) = a.scale + 1
         /\ Magnitude(a.units) < Pow10[Places(a)]
         /\ \A n \in 1 .. Highest : Places(a) =< n <=> Magnitude(a.units) < Pow10[n] /\ a.scale < n
<1> DEFINE n == DigitCount(a.units)
<1>1. /\ a.units \in Int /\ a.scale \in Nat /\ a.scale =< MaxScale /\ MaxScale \in Nat
      /\ Highest = MaxInput + MaxScale + 1 /\ MaxInput \in Nat /\ MaxDigits + 2 =< MaxInput
      /\ MaxDigits \in 1 .. Highest /\ Magnitude(a.units) < Pow10[MaxDigits]
  BY Limits DEF Amount
<1>2. /\ n \in 1 .. Highest
      /\ \A k \in 1 .. Highest : n =< k <=> Magnitude(a.units) < Pow10[k]
  BY <1>1, DigitCountIs
<1>3. Places(a) = IF n > a.scale THEN n ELSE a.scale + 1
  BY DEF Places
<1> HIDE DEF n
<1>4. Places(a) \in 1 .. Highest /\ a.scale < Places(a) /\ n =< Places(a)
  BY <1>1, <1>2, <1>3
<1>5. n =< MaxDigits
  BY <1>1, <1>2
<1>6. \A k \in 1 .. Highest : Places(a) =< k <=> n =< k /\ a.scale < k
  BY <1>1, <1>2, <1>3
<1> QED BY <1>2, <1>3, <1>4, <1>5, <1>6

LEMMA DigitsOf ==
  ASSUME MoneyGiven, NEW a, Amount(a)
  PROVE  /\ Figures_of(a) \in Spelling(Places(a))
         /\ Spells(Figures_of(a), Places(a), Magnitude(a.units))
<1> DEFINE m == Magnitude(a.units)
           n == Places(a)
<1>1. m \in Nat /\ m < Pow10[n] /\ n \in 1 .. Highest /\ Highest \in Nat
  BY PlacesAre, MagnitudeIs, Limits DEF Amount
<1>2. ASSUME NEW j \in 1 .. n
      PROVE  Figures_of(a)[j] \in Digits /\ Figures_of(a)[j] = DigitAt(m, n - j)
  <2> DEFINE q == m \div Pow10[n - j]
  <2>1. n - j \in Exponents
    BY <1>1 DEF Exponents
  <2>2. Pow10[n - j] \in Nat \ {0}
    BY <2>1, TensGrow
  <2>3. q \in Int
    <3> HIDE DEF m, n
    <3> QED BY <1>1, <2>2, Division
  <2>4. DigitAt(m, n - j) = Glyph(q % 10)
    BY <1>1, DigitAtIs
  <2>5. DigitAt(a.units, n - j) = DigitAt(m, n - j)
    <3>1. Magnitude(m) = m
      BY <1>1, DigitAtIs
    <3> QED BY <3>1 DEF DigitAt
  <2>6. Figures_of(a)[j] = DigitAt(a.units, n - j)
    BY DEF Figures_of
  <2> HIDE DEF q, m, n
  <2>7. q % 10 \in Nat /\ q % 10 < 10
    BY <2>3
  <2> QED BY <2>4, <2>5, <2>6, <2>7, GlyphIs
<1>3. Figures_of(a) \in Spelling(n)
  BY <1>2 DEF Figures_of, Spelling
<1> QED BY <1>1, <1>2, <1>3 DEF Spells

LEMMA FormatIs ==
  ASSUME MoneyGiven, NEW a, Amount(a)
  PROVE  TextOf(Format(a), Minus(a), Places(a), a.scale, Figures_of(a))
<1> DEFINE n == Places(a)
           k == a.scale
           w == Figures_of(a)
           neg == Minus(a)
           int == [i \in 1 .. n - k |-> DigitAt(a.units, n - i)]
           frac == [i \in 1 .. k |-> DigitAt(a.units, k - i)]
           tail == IF k = 0 THEN <<>> ELSE <<".">> \o frac
           body == int \o tail
           s == Sign(a) \o int \o tail
<1>1. n \in Nat /\ k \in Nat /\ k < n /\ n - k \in Nat /\ neg \in {0, 1}
  BY PlacesAre, Limits DEF Amount, Minus
<1>2. w \in Spelling(n) /\ \A j \in 1 .. n : w[j] = DigitAt(a.units, n - j)
  BY DigitsOf DEF Figures_of
<1>3. /\ int \in Seq(Characters) /\ Len(int) = n - k
      /\ \A j \in 1 .. n - k : int[j] = w[j]
  <2>1. \A j \in 1 .. n - k : int[j] = w[j] /\ w[j] \in Characters
    <3> SUFFICES ASSUME NEW j \in 1 .. n - k PROVE int[j] = w[j] /\ w[j] \in Characters
      OBVIOUS
    <3>1. j \in 1 .. n
      BY <1>1
    <3>2. int[j] = DigitAt(a.units, n - j)
      OBVIOUS
    <3>3. w[j] \in Digits
      BY <1>2, <3>1 DEF Spelling
    <3> HIDE DEF int, w
    <3> QED BY <1>2, <3>1, <3>2, <3>3, Signs
  <2> HIDE DEF n, k, w
  <2> QED BY <1>1, <2>1
<1>4. /\ frac \in Seq(Characters) /\ Len(frac) = k
      /\ \A j \in n - k + 1 .. n : frac[j - (n - k)] = w[j]
  <2>1. \A j \in n - k + 1 .. n : frac[j - (n - k)] = w[j]
    <3> SUFFICES ASSUME NEW j \in n - k + 1 .. n PROVE frac[j - (n - k)] = w[j]
      OBVIOUS
    <3>1. j - (n - k) \in 1 .. k /\ j \in 1 .. n /\ k - (j - (n - k)) = n - j
      BY <1>1
    <3> QED BY <1>2, <3>1
  <2>2. \A i \in 1 .. k : frac[i] \in Characters
    <3> SUFFICES ASSUME NEW i \in 1 .. k PROVE frac[i] \in Characters
      OBVIOUS
    <3>1. i + (n - k) \in 1 .. n /\ n - (i + (n - k)) = k - i
      BY <1>1
    <3>2. frac[i] = w[i + (n - k)] /\ w[i + (n - k)] \in Digits
      BY <1>2, <3>1 DEF Spelling
    <3> QED BY <3>2, Signs
  <2>3. k \in Nat /\ frac = [i \in 1 .. k |-> frac[i]]
    BY <1>1
  <2> HIDE DEF frac, n, k, w
  <2>4. frac \in Seq(Characters) /\ Len(frac) = k
    BY <2>2, <2>3
  <2> QED BY <2>1, <2>4
<1>5. /\ Sign(a) \in Seq(Characters) /\ Len(Sign(a)) = neg
      /\ neg = 1 => Sign(a)[1] = "-"
  BY Signs DEF Sign, Minus
<1>6. /\ tail \in Seq(Characters) /\ Len(tail) = (IF k = 0 THEN 0 ELSE k + 1)
      /\ k # 0 => tail[1] = "." /\ \A i \in 1 .. k : tail[1 + i] = frac[i]
  <2> HIDE DEF frac, k
  <2>1. CASE k = 0
    BY <2>1
  <2>2. CASE k # 0
    <3>1. <<".">> \in Seq(Characters) /\ Len(<<".">>) = 1 /\ <<".">>[1] = "."
      BY Signs
    <3> DEFINE dot == <<".">>
    <3>2. tail = dot \o frac
      BY <2>2
    <3> HIDE DEF dot, tail
    <3>3. /\ dot \o frac \in Seq(Characters) /\ Len(dot \o frac) = 1 + k
          /\ (dot \o frac)[1] = "."
          /\ \A i \in 1 .. k : (dot \o frac)[1 + i] = frac[i]
      BY <1>1, <1>4, <3>1 DEF dot
    <3> QED BY <1>1, <2>2, <3>2, <3>3
  <2> QED BY <2>1, <2>2
<1> DEFINE sign == Sign(a)
<1>7. Format(a) = (sign \o int) \o tail
  BY DEF Format, Places
<1> HIDE DEF int, frac, tail, sign, neg, n, k, w
<1>8. /\ sign \o int \in Seq(Characters) /\ Len(sign \o int) = neg + (n - k)
      /\ \A i \in 1 .. neg : (sign \o int)[i] = sign[i]
      /\ \A i \in 1 .. n - k : (sign \o int)[neg + i] = int[i]
  BY <1>1, <1>3, <1>5 DEF sign
<1> DEFINE front == sign \o int
           m == neg + (n - k)
<1>9. m \in Nat /\ front \in Seq(Characters) /\ Len(front) = m
  BY <1>1, <1>8
<1>10. Len(tail) \in Nat
  BY <1>1, <1>6
<1> HIDE DEF front, m
<1>11. /\ front \o tail \in Seq(Characters) /\ Len(front \o tail) = m + Len(tail)
       /\ \A i \in 1 .. m : (front \o tail)[i] = front[i]
       /\ \A i \in 1 .. Len(tail) : (front \o tail)[m + i] = tail[i]
  BY <1>6, <1>9, <1>10
<1> DEFINE t == front \o tail
<1>12. t = Format(a)
  BY <1>7 DEF front
<1> HIDE DEF t
<1>13. t \in Seq(Characters) /\ Len(t) = neg + n + Point(k)
  BY <1>1, <1>6, <1>11 DEF t, m, Point
<1>14. neg = 1 => t[1] = "-"
  <2> SUFFICES ASSUME neg = 1 PROVE t[1] = "-"
    OBVIOUS
  <2>1. 1 \in 1 .. m /\ 1 \in 1 .. neg
    BY <1>1 DEF m
  <2>2. t[1] = front[1] /\ front[1] = sign[1]
    BY <1>8, <1>11, <2>1 DEF t, front
  <2> QED BY <1>5, <2>2 DEF sign
<1>15. \A j \in 1 .. n - k : t[neg + j] = w[j]
  <2> SUFFICES ASSUME NEW j \in 1 .. n - k PROVE t[neg + j] = w[j]
    OBVIOUS
  <2>1. neg + j \in 1 .. m
    BY <1>1 DEF m
  <2> QED BY <1>3, <1>8, <1>11, <2>1 DEF t, front
<1>16. k # 0 => t[neg + (n - k) + 1] = "." /\ \A j \in n - k + 1 .. n : t[neg + 1 + j] = w[j]
  <2> SUFFICES ASSUME k # 0
               PROVE t[neg + (n - k) + 1] = "." /\ \A j \in n - k + 1 .. n : t[neg + 1 + j] = w[j]
    OBVIOUS
  <2>1. 1 \in 1 .. Len(tail)
    BY <1>1, <1>6
  <2>2. t[m + 1] = tail[1]
    BY <1>11, <2>1 DEF t
  <2>3. ASSUME NEW j \in n - k + 1 .. n PROVE t[neg + 1 + j] = w[j]
    <3>1. /\ j - (n - k) \in 1 .. k /\ 1 + (j - (n - k)) \in 1 .. Len(tail)
          /\ neg + 1 + j = m + (1 + (j - (n - k)))
      BY <1>1, <1>6 DEF m
    <3>2. t[m + (1 + (j - (n - k)))] = tail[1 + (j - (n - k))]
      BY <1>11, <3>1 DEF t
    <3>3. tail[1 + (j - (n - k))] = frac[j - (n - k)]
      BY <1>6, <3>1
    <3> QED BY <1>4, <3>1, <3>2, <3>3
  <2> QED BY <1>6, <2>2, <2>3 DEF m
<1>17. TextOf(t, neg, n, k, w)
  BY <1>1, <1>2, <1>13, <1>14, <1>15, <1>16 DEF TextOf
<1> QED BY <1>12, <1>17 DEF neg, n, k, w

-----------------------------------------------------------------------------
(***************************************************************************)
(* The grammar, by the places of a text: neg characters of a sign, digits   *)
(* up to the n-th character, and all after the point behind it.             *)
(***************************************************************************)

Shaped(s, neg, n) ==
  /\ neg \in {0, 1} /\ (neg = 1 => s[1] = "-")
  /\ n \in neg + 1 .. Len(s)
  /\ \A i \in neg + 1 .. n : s[i] \in Digits
  /\ s[neg + 1] = "0" => n = neg + 1
  /\ n # Len(s) => /\ s[n + 1] = "." /\ n + 1 < Len(s)
                   /\ \A i \in n + 2 .. Len(s) : s[i] \in Digits

Decimals(s, n) == IF n = Len(s) THEN 0 ELSE Len(s) - n - 1

(* What is made of a text of the grammar. *)
Outcome(asset, s, neg, n) ==
  LET value == DigitsValue(s, Len(s))
  IN  IF neg = 1 /\ value = 0 THEN Err("SignOnZero")
      ELSE Checked(asset, IF neg = 1 THEN -value ELSE value, Decimals(s, n))

(* No integer begins where it should. *)
Stuck(s, neg) ==
  /\ neg \in {0, 1} /\ (neg = 1 <=> s[1] = "-")
  /\ neg < Len(s) /\ s[neg + 1] \notin Digits /\ s[neg + 1] # "."

(* What follows a number up to the end-th character does not go on with it. *)
Broken(s, neg, n, end) ==
  /\ neg \in {0, 1} /\ (neg = 1 <=> s[1] = "-")
  /\ n \in neg + 1 .. Len(s)
  /\ \A i \in neg + 1 .. n : s[i] \in Digits
  /\ s[neg + 1] = "0" => n = neg + 1
  /\ end \in n .. Len(s) /\ end < Len(s) /\ s[end + 1] \notin Digits
  /\ \/ end = n /\ s[end + 1] # "."
     \/ end > n /\ s[n + 1] = "." /\ \A i \in n + 2 .. end : s[i] \in Digits

LEMMA RunEndUnique ==
  ASSUME NEW s \in Seq(Characters), NEW n \in 0 .. Len(s), NEW m \in n .. Len(s), EndsAt(s, n, m)
  PROVE  RunEnd(s, n) = m
<1> DEFINE k == RunEnd(s, n)
<1>1. k \in n .. Len(s) /\ EndsAt(s, n, k) /\ Len(s) \in Nat
  BY RunEndIs
<1> HIDE DEF k
<1>2. ~ (k < m)
  <2> SUFFICES ASSUME k < m PROVE FALSE
    OBVIOUS
  <2>1. k + 1 \in n + 1 .. m /\ k # Len(s)
    BY <1>1
  <2> QED BY <1>1, <2>1 DEF EndsAt
<1>3. ~ (m < k)
  <2> SUFFICES ASSUME m < k PROVE FALSE
    OBVIOUS
  <2>1. m + 1 \in n + 1 .. k /\ m # Len(s)
    BY <1>1
  <2> QED BY <1>1, <2>1 DEF EndsAt
<1> QED BY <1>1, <1>2, <1>3 DEF k

LEMMA ShapedParse ==
  ASSUME NEW s \in Seq(Characters), NEW asset, NEW neg, NEW n, Shaped(s, neg, n),
         Len(s) =< MaxInput, MaxInput \in Nat
  PROVE  Parse(asset, s) = Outcome(asset, s, neg, n)
<1> DEFINE sign == IF s[1] = "-" THEN 1 ELSE 0
           int == RunEnd(s, sign)
           point == int < Len(s) /\ s[int + 1] = "."
           end == IF point THEN RunEnd(s, int + 1) ELSE int
           scale == IF point THEN end - int - 1 ELSE 0
           value == DigitsValue(s, end)
           c == Checked(asset, IF sign = 1 THEN -value ELSE value, scale)
<1>1. /\ neg \in {0, 1} /\ n \in neg + 1 .. Len(s) /\ Len(s) \in Nat /\ neg + 1 \in neg + 1 .. n
      /\ neg \in 0 .. Len(s) /\ n \in neg .. Len(s)
  <2>1. neg \in {0, 1} /\ n \in neg + 1 .. Len(s)
    BY DEF Shaped
  <2>2. Len(s) \in Nat
    OBVIOUS
  <2> QED BY <2>1, <2>2
<1>2. sign = neg
  <2>1. CASE neg = 1
    BY <2>1 DEF Shaped
  <2>2. CASE neg = 0
    <3>1. s[1] \in Digits
      BY <1>1, <2>2 DEF Shaped
    <3> QED BY <2>2, <3>1, Signs
  <2> QED BY <1>1, <2>1, <2>2
<1>3. int = n
  <2>1. EndsAt(s, neg, n)
    BY <1>1, Signs DEF EndsAt, Shaped
  <2>2. RunEnd(s, neg) = n
    BY <1>1, <2>1, RunEndUnique
  <2> QED BY <1>2, <2>2
<1>4. point <=> n # Len(s)
  <2> HIDE DEF int
  <2> QED BY <1>1, <1>3 DEF Shaped
<1>5. end = Len(s)
  <2>1. CASE n # Len(s)
    <3>1. n + 1 \in 0 .. Len(s) /\ Len(s) \in n + 1 .. Len(s) /\ (n + 1) + 1 = n + 2
      BY <1>1, <2>1
    <3>2. EndsAt(s, n + 1, Len(s))
      BY <2>1, <3>1 DEF EndsAt, Shaped
    <3>3. RunEnd(s, n + 1) = Len(s)
      BY <3>1, <3>2, RunEndUnique
    <3>4. RunEnd(s, int + 1) = Len(s)
      <4> HIDE DEF int
      <4> QED BY <1>3, <3>3
    <3> HIDE DEF int
    <3> QED BY <1>4, <2>1, <3>4
  <2>2. CASE n = Len(s)
    <3> HIDE DEF int
    <3> QED BY <1>3, <1>4, <2>2
  <2> QED BY <2>1, <2>2
<1>6. scale = Decimals(s, n)
  <2> HIDE DEF int, end
  <2> QED BY <1>3, <1>4, <1>5 DEF Decimals
<1>7. /\ ~ (Len(s) > MaxInput) /\ s # <<>>
      /\ ~ (Len(s) = neg \/ s[neg + 1] = ".")
      /\ n # neg /\ ~ (s[neg + 1] = "0" /\ n > neg + 1)
      /\ ~ (n # Len(s) /\ Len(s) = n + 1)
  <2>1. s[neg + 1] # "."
    <3>1. s[neg + 1] \in Digits
      BY <1>1 DEF Shaped
    <3> QED BY <3>1, Signs
  <2>2. n # Len(s) => n + 1 < Len(s)
    BY DEF Shaped
  <2>3. s[neg + 1] = "0" => n = neg + 1
    BY DEF Shaped
  <2>4. s # <<>>
    BY <1>1
  <2> QED BY <1>1, <2>1, <2>2, <2>3, <2>4
<1> DEFINE answer == IF Len(s) = sign \/ s[sign + 1] = "." THEN Err("MissingIntegerPart")
                     ELSE IF int = sign THEN ErrAt("InvalidByte", sign)
                     ELSE IF s[sign + 1] = "0" /\ int > sign + 1 THEN ErrAt("LeadingZero", sign)
                     ELSE IF point /\ Len(s) = int + 1 THEN Err("MissingFractionDigits")
                     ELSE IF end < Len(s) THEN Misplaced(s, end)
                     ELSE IF sign = 1 /\ value = 0 THEN Err("SignOnZero")
                     ELSE c
<1>8. Parse(asset, s) = answer
  BY <1>7 DEF Parse
<1>9. Outcome(asset, s, neg, n) = IF sign = 1 /\ value = 0 THEN Err("SignOnZero") ELSE c
  <2> HIDE DEF sign, end, scale
  <2> QED BY <1>2, <1>5, <1>6 DEF Outcome
<1> HIDE DEF sign, int, point, end, value, c
<1>10. ~ (end < Len(s))
  BY <1>1, <1>5
<1> QED BY <1>2, <1>3, <1>4, <1>7, <1>8, <1>9, <1>10

(* What reading a text comes to. *)
TooLong(s, p) == p = Err("InputTooLong") /\ ~ (Len(s) =< MaxInput)
Lacking(p) == \E x \in {"Empty", "MissingIntegerPart", "MissingFractionDigits"} : p = Err(x)
Led(p) == \E neg : p = ErrAt("LeadingZero", neg)
Halted(s, p) == \E neg : p = ErrAt("InvalidByte", neg) /\ Stuck(s, neg)
Cut(s, p) == \E neg, n, end : p = Misplaced(s, end) /\ Broken(s, neg, n, end)
Formed(s) == Len(s) =< MaxInput /\ \E neg, n : Shaped(s, neg, n)

LEMMA ParseCases ==
  ASSUME NEW s \in Seq(Characters), NEW asset, MaxInput \in Nat
  PROVE  LET p == Parse(asset, s)
         IN  TooLong(s, p) \/ Lacking(p) \/ Led(p) \/ Halted(s, p) \/ Cut(s, p) \/ Formed(s)
<1> DEFINE p == Parse(asset, s)
           sign == IF s[1] = "-" THEN 1 ELSE 0
           int == RunEnd(s, sign)
           point == int < Len(s) /\ s[int + 1] = "."
           end == IF point THEN RunEnd(s, int + 1) ELSE int
           scale == IF point THEN end - int - 1 ELSE 0
           value == DigitsValue(s, end)
           c == Checked(asset, IF sign = 1 THEN -value ELSE value, scale)
           answer == IF Len(s) = sign \/ s[sign + 1] = "." THEN Err("MissingIntegerPart")
                     ELSE IF int = sign THEN ErrAt("InvalidByte", sign)
                     ELSE IF s[sign + 1] = "0" /\ int > sign + 1 THEN ErrAt("LeadingZero", sign)
                     ELSE IF point /\ Len(s) = int + 1 THEN Err("MissingFractionDigits")
                     ELSE IF end < Len(s) THEN Misplaced(s, end)
                     ELSE IF sign = 1 /\ value = 0 THEN Err("SignOnZero")
                     ELSE c
<1>1. Len(s) \in Nat /\ sign \in {0, 1} /\ (sign = 1 <=> s[1] = "-")
  OBVIOUS
<1>2. CASE Len(s) > MaxInput
  <2>1. p = Err("InputTooLong")
    BY <1>2 DEF Parse
  <2> QED BY <1>1, <1>2, <2>1 DEF TooLong
<1>3. CASE ~ (Len(s) > MaxInput) /\ s = <<>>
  <2>1. p = Err("Empty")
    BY <1>3 DEF Parse
  <2> QED BY <2>1 DEF Lacking
<1>4. CASE ~ (Len(s) > MaxInput) /\ s # <<>>
  <2>1. p = answer /\ Len(s) =< MaxInput /\ Len(s) >= 1
    <3>1. p = answer
      BY <1>4 DEF Parse
    <3>2. Len(s) =< MaxInput /\ Len(s) >= 1
      BY <1>1, <1>4
    <3> QED BY <3>1, <3>2
  <2>2. int \in sign .. Len(s) /\ EndsAt(s, sign, int)
    <3>1. sign \in 0 .. Len(s)
      BY <1>1, <2>1
    <3> HIDE DEF sign
    <3> QED BY <3>1, RunEndIs
  <2> HIDE DEF p, sign, int, value, c
  <2>3. point => end \in int + 1 .. Len(s) /\ EndsAt(s, int + 1, end)
    <3> SUFFICES ASSUME point PROVE end \in int + 1 .. Len(s) /\ EndsAt(s, int + 1, end)
      OBVIOUS
    <3>1. int + 1 \in 0 .. Len(s)
      BY <1>1, <2>2
    <3>2. end = RunEnd(s, int + 1)
      OBVIOUS
    <3> HIDE DEF end
    <3> QED BY <3>1, <3>2, RunEndIs
  <2>4. ~ point => end = int
    OBVIOUS
  <2>5. point <=> int < Len(s) /\ s[int + 1] = "."
    OBVIOUS
  <2> HIDE DEF end, point
  <2>6. CASE Len(s) = sign \/ s[sign + 1] = "."
    <3>1. p = Err("MissingIntegerPart")
      BY <2>1, <2>6
    <3> QED BY <3>1 DEF p, Lacking
  <2>7. CASE ~ (Len(s) = sign \/ s[sign + 1] = ".") /\ int = sign
    <3>1. p = ErrAt("InvalidByte", sign)
      BY <2>1, <2>7
    <3>2. sign < Len(s)
      BY <1>1, <2>1, <2>7
    <3>3. s[sign + 1] \notin Digits
      BY <1>1, <2>2, <2>7 DEF EndsAt
    <3>4. Stuck(s, sign)
      BY <1>1, <2>7, <3>2, <3>3 DEF Stuck
    <3> QED BY <3>1, <3>4 DEF p, Halted
  <2> DEFINE Begun == ~ (Len(s) = sign \/ s[sign + 1] = ".") /\ int # sign
             Zeroed == s[sign + 1] = "0" /\ int > sign + 1
             Pending == point /\ Len(s) = int + 1
  <2>8. CASE Begun /\ Zeroed
    <3>1. p = ErrAt("LeadingZero", sign)
      BY <2>1, <2>8
    <3> QED BY <3>1 DEF p, Led
  <2>9. CASE Begun /\ ~ Zeroed /\ Pending
    <3>1. p = Err("MissingFractionDigits")
      BY <2>1, <2>9
    <3> QED BY <3>1 DEF p, Lacking
  <2>10. CASE Begun /\ ~ Zeroed /\ ~ Pending
    <3>1. /\ int \in sign + 1 .. Len(s) /\ (s[sign + 1] = "0" => int = sign + 1)
          /\ \A i \in sign + 1 .. int : s[i] \in Digits
          /\ int = Len(s) \/ s[int + 1] \notin Digits
      <4>1. int \in sign + 1 .. Len(s) /\ (s[sign + 1] = "0" => int = sign + 1)
        BY <1>1, <2>2, <2>10
      <4> QED BY <2>2, <4>1 DEF EndsAt
    <3>2. point => /\ end \in int + 1 .. Len(s)
                   /\ \A i \in int + 2 .. end : s[i] \in Digits
                   /\ end = Len(s) \/ s[end + 1] \notin Digits
      <4>1. (int + 1) + 1 = int + 2
        BY <1>1, <3>1
      <4> QED BY <2>3, <4>1 DEF EndsAt
    <3>3. CASE end < Len(s)
      <4>1. p = Misplaced(s, end)
        BY <2>1, <2>10, <3>3
      <4>2. CASE point
        <5>1. end > int /\ end \in int .. Len(s) /\ s[end + 1] \notin Digits /\ s[int + 1] = "."
          BY <1>1, <2>5, <3>1, <3>2, <3>3, <4>2
        <5>2. Broken(s, sign, int, end)
          BY <1>1, <3>1, <3>2, <3>3, <4>2, <5>1 DEF Broken
        <5> QED BY <4>1, <5>2 DEF p, Cut
      <4>3. CASE ~ point
        <5>1. end = int /\ s[int + 1] # "." /\ s[int + 1] \notin Digits /\ int \in int .. Len(s)
          BY <1>1, <2>4, <2>5, <3>1, <3>3, <4>3
        <5>2. Broken(s, sign, int, end)
          BY <1>1, <3>1, <3>3, <5>1 DEF Broken
        <5> QED BY <4>1, <5>2 DEF p, Cut
      <4> QED BY <4>2, <4>3
    <3>4. CASE ~ (end < Len(s))
      <4>1. int # Len(s) => /\ s[int + 1] = "." /\ int + 1 < Len(s)
                            /\ \A i \in int + 2 .. Len(s) : s[i] \in Digits
        <5> SUFFICES ASSUME int # Len(s)
                     PROVE  /\ s[int + 1] = "." /\ int + 1 < Len(s)
                            /\ \A i \in int + 2 .. Len(s) : s[i] \in Digits
          OBVIOUS
        <5>1. point
          BY <1>1, <2>4, <3>1, <3>4
        <5>2. end = Len(s) /\ int + 1 < Len(s)
          BY <1>1, <2>10, <3>1, <3>2, <3>4, <5>1
        <5> QED BY <2>5, <3>2, <5>1, <5>2
      <4>2. sign = 1 => s[1] = "-"
        BY <1>1
      <4>3. Shaped(s, sign, int)
        BY <1>1, <3>1, <4>1, <4>2 DEF Shaped
      <4> QED BY <2>1, <4>3 DEF Formed
    <3> QED BY <3>3, <3>4
  <2> QED BY <2>6, <2>7, <2>8, <2>9, <2>10
<1> QED BY <1>2, <1>3, <1>4

-----------------------------------------------------------------------------
(***************************************************************************)
(* A text of the grammar is a sign, digits and a point.                     *)
(***************************************************************************)

(* The digits of a text of the grammar, and how many there are. *)
Number(s, neg, n) ==
  [j \in 1 .. n - neg + Decimals(s, n) |-> IF j =< n - neg THEN s[neg + j] ELSE s[neg + 1 + j]]

LEMMA ShapedText ==
  ASSUME NEW s \in Seq(Characters), NEW neg, NEW n, Shaped(s, neg, n)
  PROVE  LET N == n - neg + Decimals(s, n)
         IN  /\ TextOf(s, neg, N, Decimals(s, n), Number(s, neg, n))
             /\ N \in 1 .. Len(s) /\ N - Decimals(s, n) = n - neg
             /\ Number(s, neg, n)[1] = "0" => n = neg + 1
<1> DEFINE k == Decimals(s, n)
           N == n - neg + k
           w == Number(s, neg, n)
           len == Len(s)
<1>1. /\ neg \in {0, 1} /\ n \in neg + 1 .. len /\ len \in Nat
      /\ n # len => n + 1 < len
  <2>1. neg \in {0, 1} /\ n \in neg + 1 .. Len(s) /\ (n # Len(s) => n + 1 < Len(s))
    BY DEF Shaped
  <2>2. Len(s) \in Nat
    OBVIOUS
  <2> QED BY <2>1, <2>2
<1>2. k = IF n = len THEN 0 ELSE len - n - 1
  BY DEF Decimals
<1>3. w = [j \in 1 .. N |-> IF j =< n - neg THEN s[neg + j] ELSE s[neg + 1 + j]]
  BY DEF Number
<1>4. /\ neg = 1 => s[1] = "-"
      /\ \A i \in neg + 1 .. n : s[i] \in Digits
      /\ s[neg + 1] = "0" => n = neg + 1
      /\ n # len => s[n + 1] = "." /\ \A i \in n + 2 .. len : s[i] \in Digits
  BY DEF Shaped
<1> HIDE DEF k, w, len
<1>5. /\ k \in Nat /\ N \in 1 .. len /\ N - k = n - neg /\ n - neg \in 1 .. N /\ N \in Nat
      /\ len = neg + N + Point(k) /\ (k = 0 <=> n = len)
  BY <1>1, <1>2 DEF Point
<1>6. \A j \in 1 .. N - k : s[neg + j] = w[j] /\ w[j] \in Digits
  <2> SUFFICES ASSUME NEW j \in 1 .. N - k PROVE s[neg + j] = w[j] /\ w[j] \in Digits
    OBVIOUS
  <2>1. j \in 1 .. N /\ j =< n - neg /\ neg + j \in neg + 1 .. n
    BY <1>1, <1>5
  <2> QED BY <1>3, <1>4, <2>1
<1>7. k # 0 => \A j \in N - k + 1 .. N : s[neg + 1 + j] = w[j] /\ w[j] \in Digits
  <2> SUFFICES ASSUME k # 0, NEW j \in N - k + 1 .. N
               PROVE  s[neg + 1 + j] = w[j] /\ w[j] \in Digits
    OBVIOUS
  <2>1. j \in 1 .. N /\ ~ (j =< n - neg) /\ neg + 1 + j \in n + 2 .. len /\ n # len
    BY <1>1, <1>5 DEF Point
  <2> QED BY <1>3, <1>4, <2>1
<1>8. w \in Spelling(N)
  <2>1. \A j \in 1 .. N : w[j] \in Digits
    <3> SUFFICES ASSUME NEW j \in 1 .. N PROVE w[j] \in Digits
      OBVIOUS
    <3>1. j \in 1 .. N - k \/ (k # 0 /\ j \in N - k + 1 .. N)
      BY <1>5
    <3> HIDE DEF N
    <3> QED BY <1>6, <1>7, <3>1
  <2> QED BY <1>3, <2>1 DEF Spelling
<1>9. k # 0 => s[neg + (N - k) + 1] = "."
  <2>1. neg + (N - k) + 1 = n + 1
    BY <1>1, <1>5
  <2> QED BY <1>4, <1>5, <2>1
<1>10. TextOf(s, neg, N, k, w)
  BY <1>1, <1>4, <1>5, <1>6, <1>7, <1>8, <1>9 DEF TextOf, len
<1>11. w[1] = "0" => n = neg + 1
  <2>1. 1 \in 1 .. N - k
    BY <1>1, <1>5
  <2> QED BY <1>4, <1>6, <2>1
<1> QED BY <1>5, <1>10, <1>11 DEF k, w, len

LEMMA TextShaped ==
  ASSUME NEW s, NEW neg, NEW N, NEW scale, NEW w, TextOf(s, neg, N, scale, w),
         w[1] = "0" => N - scale = 1
  PROVE  Shaped(s, neg, neg + (N - scale)) /\ Decimals(s, neg + (N - scale)) = scale
<1> DEFINE n == neg + (N - scale)
           len == Len(s)
<1>1. /\ s \in Seq(Characters) /\ neg \in {0, 1} /\ N \in Nat /\ scale \in Nat /\ scale < N
      /\ w \in Spelling(N) /\ len = neg + N + Point(scale)
      /\ neg = 1 => s[1] = "-"
      /\ \A j \in 1 .. N - scale : s[neg + j] = w[j]
      /\ scale # 0 => s[n + 1] = "." /\ \A j \in N - scale + 1 .. N : s[neg + 1 + j] = w[j]
  BY DEF TextOf
<1>2. \A j \in 1 .. N : w[j] \in Digits
  BY <1>1 DEF Spelling
<1> HIDE DEF len
<1>3. /\ n \in neg + 1 .. len /\ len \in Nat /\ (n = len <=> scale = 0)
      /\ scale # 0 => n + 1 < len /\ len - n - 1 = scale
  BY <1>1 DEF Point
<1>4. \A i \in neg + 1 .. n : s[i] \in Digits
  <2> SUFFICES ASSUME NEW i \in neg + 1 .. n PROVE s[i] \in Digits
    OBVIOUS
  <2>1. i - neg \in 1 .. N - scale /\ i - neg \in 1 .. N /\ neg + (i - neg) = i
    BY <1>1
  <2>2. s[neg + (i - neg)] = w[i - neg]
    BY <1>1, <2>1
  <2> QED BY <1>2, <2>1, <2>2
<1>5. s[neg + 1] = "0" => n = neg + 1
  <2>1. 1 \in 1 .. N - scale
    BY <1>1
  <2>2. s[neg + 1] = w[1]
    BY <1>1, <2>1
  <2> QED BY <1>1, <2>2
<1>6. scale # 0 => \A i \in n + 2 .. len : s[i] \in Digits
  <2> SUFFICES ASSUME scale # 0, NEW i \in n + 2 .. len PROVE s[i] \in Digits
    OBVIOUS
  <2> DEFINE j == i - neg - 1
  <2>1. j \in N - scale + 1 .. N /\ j \in 1 .. N /\ neg + 1 + j = i
    BY <1>1 DEF Point
  <2> HIDE DEF j
  <2>2. s[neg + 1 + j] = w[j]
    BY <1>1, <2>1
  <2> QED BY <1>2, <2>1, <2>2
<1>7. Shaped(s, neg, n)
  <2> HIDE DEF n
  <2> QED BY <1>1, <1>3, <1>4, <1>5, <1>6 DEF Shaped, len
<1>8. Decimals(s, n) = scale
  <2> HIDE DEF n
  <2> QED BY <1>3 DEF Decimals, len
<1> QED BY <1>7, <1>8

LEMMA ReadsBack ==
  ASSUME MoneyGiven, NEW a, Amount(a)
  PROVE  Parse(a.asset, Format(a)) = a
<1> DEFINE n == Places(a)
           k == a.scale
           w == Figures_of(a)
           neg == Minus(a)
           s == Format(a)
           m == Magnitude(a.units)
           value == DigitsValue(s, Len(s))
<1>1. TextOf(s, neg, n, k, w)
  BY FormatIs
<1>2. /\ n \in 1 .. Highest /\ Highest \in Nat /\ k < n /\ k \in Nat /\ k =< MaxScale
      /\ n =< MaxDigits \/ n = k + 1
      /\ m \in Nat /\ m < Pow10[n] /\ m < Pow10[MaxDigits]
      /\ \A i \in 1 .. Highest : n =< i <=> m < Pow10[i] /\ k < i
      /\ a.units \in Int
      /\ a = [asset |-> a.asset, units |-> a.units, scale |-> a.scale]
  BY PlacesAre, MagnitudeIs, Limits DEF Amount
<1>3. w \in Spelling(n) /\ Spells(w, n, m)
  BY DigitsOf
<1>4. /\ MaxDigits \in 1 .. Highest /\ MaxDigits \in Nat /\ MaxScale \in Nat /\ MaxInput \in Nat
      /\ MaxDigits + 2 =< MaxInput /\ MaxScale + 3 =< MaxInput
  <2>1. MoneyAssumption
    BY DEF MoneyGiven
  <2>2. MaxScale + 3 =< MaxInput
    BY <2>1 DEF MoneyAssumption
  <2> QED BY <2>2, Limits
<1>5. neg \in {0, 1} /\ (neg = 1 <=> a.units < 0)
  BY DEF Minus
<1>6. m = IF a.units < 0 THEN -a.units ELSE a.units
  BY DEF Magnitude
<1> HIDE DEF n, k, w, neg, m, s
<1>7. w[1] = "0" => n - k = 1
  <2> SUFFICES ASSUME n - k # 1 PROVE w[1] # "0"
    OBVIOUS
  <2> DEFINE q == m \div Pow10[n - 1]
             r == m % Pow10[n - 1]
  <2>1. n \in Exponents /\ n # 0 /\ n - 1 \in 1 .. Highest /\ n - 1 \in Exponents /\ k < n - 1
        /\ ~ (n =< n - 1) /\ 1 \in 1 .. n
    BY <1>2 DEF Exponents
  <2>2. Pow10[n] = 10 * Pow10[n - 1] /\ Pow10[n - 1] \in Nat \ {0}
    BY <2>1, TenTimes, TensGrow
  <2>3. ~ (m < Pow10[n - 1])
    BY <1>2, <2>1
  <2>4. w[1] = Glyph(q % 10)
    BY <1>3, <2>1, DigitAtIs DEF Spells
  <2>5. q \in Int /\ r \in Nat /\ r < Pow10[n - 1] /\ m = q * Pow10[n - 1] + r
    BY <1>2, <2>2, Division
  <2> DEFINE p == Pow10[n - 1]
  <2> HIDE DEF q, r, p
  <2>6. p \in Nat \ {0} /\ m = q * p + r /\ r < p /\ ~ (m < p) /\ m < 10 * p
    BY <1>2, <2>2, <2>3, <2>5 DEF p
  <2>7. q > 0
    <3>1. \A x \in Int : ~ (x > 0) => x * p =< 0
      BY <2>6
    <3> DEFINE y == q * p
    <3>2. y \in Int /\ (~ (q > 0) => y =< 0) /\ m = y + r
      BY <2>5, <2>6, <3>1, Products
    <3> HIDE DEF y
    <3> QED BY <1>2, <2>5, <2>6, <3>2
  <2>8. q < 10
    <3>1. \A x \in Int : ~ (x < 10) => x * p >= 10 * p
      BY <2>6
    <3> DEFINE y == q * p
    <3>2. y \in Int /\ (~ (q < 10) => y >= 10 * p) /\ m = y + r
      BY <2>5, <2>6, <3>1, Products
    <3> HIDE DEF y
    <3> QED BY <1>2, <2>5, <2>6, <3>2
  <2>9. q \in Nat /\ q # 0 /\ q % 10 = q
    BY <2>5, <2>7, <2>8
  <2>10. Figure(w[1]) = q
    BY <2>4, <2>8, <2>9, GlyphIs
  <2>11. Figure("0") = 0
    BY DEF Figure
  <2> QED BY <2>9, <2>10, <2>11
<1>8. Shaped(s, neg, neg + (n - k)) /\ Decimals(s, neg + (n - k)) = k
  BY <1>1, <1>7, TextShaped
<1>9. s \in Seq(Characters) /\ Len(s) =< MaxInput
  <2>1. s \in Seq(Characters) /\ Len(s) = neg + n + Point(k)
    BY <1>1 DEF TextOf
  <2>2. Point(k) \in {0, 1}
    BY DEF Point
  <2> QED BY <1>2, <1>4, <1>5, <2>1, <2>2
<1>10. DigitsValue(s, Len(s)) = m
  <2>1. n \in Exponents
    BY <1>2 DEF Exponents
  <2> QED BY <1>1, <1>3, <2>1, TextSpells
<1>11. ~ (neg = 1 /\ m = 0) /\ (IF neg = 1 THEN -m ELSE m) = a.units
  BY <1>2, <1>5, <1>6
<1>12. Parse(a.asset, s) = Outcome(a.asset, s, neg, neg + (n - k))
  BY <1>4, <1>8, <1>9, ShapedParse
<1>13. Outcome(a.asset, s, neg, neg + (n - k)) = Checked(a.asset, a.units, k)
  BY <1>8, <1>10, <1>11 DEF Outcome
<1>14. Checked(a.asset, a.units, k) = [asset |-> a.asset, units |-> a.units, scale |-> k]
  <2>1. Magnitude(a.units) < Pow10[MaxDigits]
    BY <1>2 DEF m
  <2> QED BY <1>2, <1>4, <2>1, CheckedIs
<1> QED BY <1>2, <1>12, <1>13, <1>14 DEF s, k

LEMMA SmallQuotient ==
  ASSUME NEW p \in Nat \ {0}, NEW r \in Nat, r < p
  PROVE  r \div p = 0
<1>1. (0 * p + r) \div p = 0
  BY DivisionUnique
<1>2. 0 * p + r = r
  OBVIOUS
<1> QED BY <1>1, <1>2

LEMMA WritesBack ==
  ASSUME MoneyGiven, NEW s \in Seq(Characters), NEW neg, NEW n, Shaped(s, neg, n),
         Len(s) =< MaxInput, NEW asset, Ok(Parse(asset, s))
  PROVE  Format(Parse(asset, s)) = s
<1> DEFINE a == Parse(asset, s)
           k == Decimals(s, n)
           N == n - neg + k
           w == Number(s, neg, n)
           value == DigitsValue(s, Len(s))
           units == IF neg = 1 THEN -value ELSE value
<1>1. /\ TextOf(s, neg, N, k, w)
      /\ N \in 1 .. Len(s) /\ N - k = n - neg
      /\ w[1] = "0" => n = neg + 1
  BY ShapedText
<1>2. neg \in {0, 1} /\ k \in Nat /\ k < N /\ N \in Nat /\ w \in Spelling(N) /\ n \in neg + 1 .. Len(s)
  BY <1>1 DEF TextOf, Shaped
<1>3. Amount(a) /\ a = Outcome(asset, s, neg, n)
  BY Limits, ReadIsAmount, ShapedParse
<1>4. ~ (neg = 1 /\ value = 0) /\ a = Checked(asset, units, k)
  BY <1>3, ErrorsAreNot DEF Outcome
<1>5. N \in 1 .. Highest /\ N \in Exponents /\ Highest \in Nat /\ Len(s) \in 1 .. Highest
  <2>1. Len(s) \in Nat
    OBVIOUS
  <2> HIDE DEF N
  <2> QED BY <1>1, <2>1, Limits DEF Exponents
<1>6. Spells(w, N, value)
  BY <1>1, <1>5, TextSpells
<1>7. value \in Nat /\ value < Pow10[N]
  BY <1>6 DEF Spells
<1> HIDE DEF k, N, w, value, a
<1>8. units \in Int /\ Magnitude(units) = value
  <2>1. units \in Int
    BY <1>2, <1>7
  <2>2. CASE neg = 1
    <3>1. units = -value /\ units < 0
      BY <1>4, <1>7, <2>2
    <3> HIDE DEF units
    <3> QED BY <1>7, <3>1 DEF Magnitude
  <2>3. CASE neg # 1
    <3>1. units = value
      BY <2>3
    <3> HIDE DEF units
    <3> QED BY <1>7, <3>1 DEF Magnitude
  <2> QED BY <2>1, <2>2, <2>3
<1>9. units < 0 <=> neg = 1
  BY <1>2, <1>4, <1>7
<1> HIDE DEF units
<1>10. a = [asset |-> asset, units |-> units, scale |-> k]
  <2>1. Magnitude(units) < Pow10[N]
    BY <1>7, <1>8
  <2>2. Ok(a)
    BY DEF a
  <2>3. /\ ~ (Magnitude(units) < Pow10[MaxDigits]) => a = Err("TooManyDigits")
        /\ Magnitude(units) < Pow10[MaxDigits] /\ k > MaxScale => a = Err("ScaleTooLarge")
        /\ Magnitude(units) < Pow10[MaxDigits] /\ k =< MaxScale =>
             a = [asset |-> asset, units |-> units, scale |-> k]
    BY <1>2, <1>4, <1>5, <1>8, <2>1, CheckedIs
  <2>4. Magnitude(units) < Pow10[MaxDigits] /\ ~ (k > MaxScale)
    BY <2>2, <2>3, ErrorsAreNot
  <2> QED BY <1>2, <2>3, <2>4, Limits
<1>11. a.units = units /\ a.scale = k
  BY <1>10
<1>12. Minus(a) = neg
  BY <1>2, <1>9, <1>11 DEF Minus
<1>13. Places(a) = N
  <2>1. /\ Places(a) \in 1 .. Highest /\ k < Places(a)
        /\ \A i \in 1 .. Highest : Places(a) =< i <=> value < Pow10[i] /\ k < i
    BY <1>3, <1>8, <1>11, PlacesAre
  <2>2. Places(a) =< N
    BY <1>2, <1>5, <1>7, <2>1
  <2>3. ASSUME Places(a) # N PROVE FALSE
    <3>1. N - 1 \in 1 .. Highest /\ Places(a) =< N - 1 /\ N - 1 \in Exponents /\ 1 \in 1 .. N
      BY <1>5, <2>1, <2>2, <2>3 DEF Exponents
    <3>2. value < Pow10[N - 1] /\ k < N - 1
      BY <2>1, <3>1
    <3>3. w[1] # "0"
      BY <1>1, <1>2, <3>2
    <3>4. w[1] = Glyph((value \div Pow10[N - 1]) % 10)
      BY <1>6, <1>7, <3>1, DigitAtIs DEF Spells
    <3>5. Pow10[N - 1] \in Nat \ {0}
      BY <3>1, TensGrow
    <3>6. value \div Pow10[N - 1] = 0
      BY <1>7, <3>2, <3>5, SmallQuotient
    <3>7. Glyph(0 % 10) = "0"
      <4>1. 0 % 10 = 0
        OBVIOUS
      <4> QED BY <4>1 DEF Glyph
    <3> QED BY <3>3, <3>4, <3>6, <3>7
  <2> QED BY <2>3
<1>14. Figures_of(a) = w
  <2>1. Figures_of(a) \in [1 .. N -> Digits] /\ w \in [1 .. N -> Digits]
    BY <1>2, <1>3, <1>13, DigitsOf DEF Spelling
  <2>2. \A j \in 1 .. N : Figures_of(a)[j] = DigitAt(value, N - j) /\ w[j] = DigitAt(value, N - j)
    BY <1>3, <1>6, <1>8, <1>11, <1>13, DigitsOf DEF Spells
  <2>3. Figures_of(a) = [j \in 1 .. N |-> Figures_of(a)[j]] /\ w = [j \in 1 .. N |-> w[j]]
    BY <2>1
  <2> QED BY <2>2, <2>3
<1>15. TextOf(Format(a), neg, N, k, w)
  BY <1>3, <1>11, <1>12, <1>13, <1>14, FormatIs
<1>16. Format(a) = s
  BY <1>1, <1>15, TextUnique
<1> QED BY <1>16 DEF a

-----------------------------------------------------------------------------
(***************************************************************************)
(* The texts of the grammar.                                                *)
(***************************************************************************)

LEMMA DigitsOnly ==
  ASSUME NEW t \in Seq(Characters)
  PROVE  ToSet(t) \subseteq Digits <=> \A i \in 1 .. Len(t) : t[i] \in Digits
<1>1. DOMAIN t = 1 .. Len(t)
  OBVIOUS
<1> QED BY <1>1 DEF ToSet

LEMMA IntegralIs ==
  ASSUME NEW t \in Seq(Characters)
  PROVE  Integral(t) <=> /\ Len(t) >= 1 /\ \A i \in 1 .. Len(t) : t[i] \in Digits
                         /\ t[1] = "0" => Len(t) = 1
<1>1. t # <<>> <=> Len(t) >= 1
  OBVIOUS
<1> QED BY <1>1, DigitsOnly DEF Integral

LEMMA FractionIs ==
  ASSUME NEW t \in Seq(Characters)
  PROVE  Fraction(t) <=> \/ Len(t) = 0
                         \/ Len(t) > 1 /\ t[1] = "." /\ \A i \in 2 .. Len(t) : t[i] \in Digits
<1>1. t = <<>> <=> Len(t) = 0
  OBVIOUS
<1>2. CASE Len(t) > 1
  <2>1. /\ Tail(t) \in Seq(Characters) /\ Len(Tail(t)) = Len(t) - 1
        /\ \A i \in 1 .. Len(t) - 1 : Tail(t)[i] = t[i + 1]
    BY <1>2
  <2>2. ToSet(Tail(t)) \subseteq Digits <=> \A i \in 1 .. Len(t) - 1 : t[i + 1] \in Digits
    BY <2>1, DigitsOnly
  <2>3. (\A i \in 1 .. Len(t) - 1 : t[i + 1] \in Digits) <=> \A i \in 2 .. Len(t) : t[i] \in Digits
    <3>1. \A i \in 1 .. Len(t) - 1 : i + 1 \in 2 .. Len(t)
      BY <1>2
    <3>2. \A i \in 2 .. Len(t) : i - 1 \in 1 .. Len(t) - 1 /\ (i - 1) + 1 = i
      BY <1>2
    <3>3. ASSUME \A i \in 1 .. Len(t) - 1 : t[i + 1] \in Digits, NEW i \in 2 .. Len(t)
          PROVE  t[i] \in Digits
      <4>1. t[(i - 1) + 1] \in Digits
        BY <3>2, <3>3
      <4> QED BY <3>2, <4>1
    <3> QED BY <3>1, <3>3
  <2> QED BY <1>1, <1>2, <2>2, <2>3 DEF Fraction
<1>3. CASE ~ (Len(t) > 1)
  BY <1>1, <1>3 DEF Fraction
<1> QED BY <1>2, <1>3

(* The number of a text, behind its sign. *)
Unsigned(s, n) ==
  LET whole == SubSeq(s, 1, n)
  IN  IF whole # <<>> /\ whole[1] = "-" THEN Tail(whole) ELSE whole

LEMMA UnsignedIs ==
  ASSUME NEW s \in Seq(Characters), NEW n \in 0 .. Len(s), NEW neg \in {0, 1},
         neg = 1 <=> (n > 0 /\ s[1] = "-")
  PROVE  /\ Unsigned(s, n) \in Seq(Characters) /\ Len(Unsigned(s, n)) = n - neg
         /\ \A i \in 1 .. n - neg : Unsigned(s, n)[i] = s[neg + i]
<1> DEFINE whole == SubSeq(s, 1, n)
<1>1. /\ whole \in Seq(Characters) /\ Len(whole) = n
      /\ \A i \in 1 .. n : whole[i] = s[i]
      /\ n \in Nat
  OBVIOUS
<1>2. Unsigned(s, n) = IF whole # <<>> /\ whole[1] = "-" THEN Tail(whole) ELSE whole
  BY DEF Unsigned
<1> HIDE DEF whole
<1>3. (whole # <<>> /\ whole[1] = "-") <=> neg = 1
  BY <1>1
<1>4. CASE neg = 1
  <2>1. /\ Tail(whole) \in Seq(Characters) /\ Len(Tail(whole)) = n - 1
        /\ \A i \in 1 .. n - 1 : Tail(whole)[i] = whole[i + 1]
    BY <1>1, <1>3, <1>4
  <2>2. Unsigned(s, n) = Tail(whole)
    BY <1>2, <1>3, <1>4
  <2>3. \A i \in 1 .. n - 1 : i + 1 \in 1 .. n /\ 1 + i = i + 1
    BY <1>1
  <2> QED BY <1>1, <1>4, <2>1, <2>2, <2>3
<1>5. CASE neg = 0
  <2>1. Unsigned(s, n) = whole
    BY <1>2, <1>3, <1>5
  <2> QED BY <1>1, <1>5, <2>1
<1> QED BY <1>4, <1>5

LEMMA RestIs ==
  ASSUME NEW s \in Seq(Characters), NEW n \in 0 .. Len(s)
  PROVE  LET t == SubSeq(s, n + 1, Len(s))
         IN  /\ t \in Seq(Characters) /\ Len(t) = Len(s) - n
             /\ \A i \in 1 .. Len(s) - n : t[i] = s[n + i]
<1> DEFINE len == Len(s)
           t == SubSeq(s, n + 1, len)
<1>1. len \in Nat /\ n \in 0 .. len
  OBVIOUS
<1>2. t = [i \in 1 .. len - (n + 1) + 1 |-> s[i + (n + 1) - 1]]
  BY DEF SubSeq
<1>3. \A i \in 1 .. len : s[i] \in Characters
  OBVIOUS
<1> HIDE DEF len, t
<1>4. len - (n + 1) + 1 = len - n /\ len - n \in Nat
      /\ \A i \in 1 .. len - n : i + (n + 1) - 1 = n + i /\ n + i \in 1 .. len
  BY <1>1
<1>5. t = [i \in 1 .. len - n |-> s[n + i]]
  BY <1>2, <1>4
<1>6. t \in Seq(Characters) /\ Len(t) = len - n
  BY <1>3, <1>4, <1>5
<1> QED BY <1>5, <1>6 DEF t, len

LEMMA GrammarIs ==
  ASSUME NEW s \in Seq(Characters)
  PROVE  Grammatical(s) <=> \E neg, n : Shaped(s, neg, n)
<1> DEFINE rest(n) == SubSeq(s, n + 1, Len(s))
           At(n) == Fraction(rest(n)) /\ Integral(Unsigned(s, n))
<1>1. Grammatical(s) <=> \E n \in 0 .. Len(s) : At(n)
  BY DEF Grammatical, Unsigned
<1>2. Len(s) \in Nat
  OBVIOUS
<1>3. ASSUME NEW n \in 0 .. Len(s), NEW neg \in {0, 1}, neg = 1 <=> (n > 0 /\ s[1] = "-")
      PROVE  At(n) <=> Shaped(s, neg, n)
  <2> DEFINE u == Unsigned(s, n)
             t == rest(n)
  <2>1. /\ u \in Seq(Characters) /\ Len(u) = n - neg
        /\ \A i \in 1 .. n - neg : u[i] = s[neg + i]
    BY <1>3, UnsignedIs
  <2>2. /\ t \in Seq(Characters) /\ Len(t) = Len(s) - n
        /\ \A i \in 1 .. Len(s) - n : t[i] = s[n + i]
    BY RestIs
  <2>3. Integral(u) <=> /\ n - neg >= 1 /\ \A i \in 1 .. n - neg : u[i] \in Digits
                        /\ u[1] = "0" => n - neg = 1
    BY <2>1, IntegralIs
  <2>4. Fraction(t) <=> \/ Len(s) - n = 0
                        \/ /\ Len(s) - n > 1 /\ t[1] = "."
                           /\ \A i \in 2 .. Len(s) - n : t[i] \in Digits
    BY <2>2, FractionIs
  <2>5. At(n) <=> Fraction(t) /\ Integral(u)
    OBVIOUS
  <2> HIDE DEF u, t, At
  <2>6. Integral(u) <=> /\ n \in neg + 1 .. Len(s)
                        /\ \A i \in neg + 1 .. n : s[i] \in Digits
                        /\ s[neg + 1] = "0" => n = neg + 1
    <3>1. (\A i \in 1 .. n - neg : u[i] \in Digits) <=> \A i \in neg + 1 .. n : s[i] \in Digits
      <4>1. \A i \in 1 .. n - neg : neg + i \in neg + 1 .. n
        BY <1>2
      <4>2. \A i \in neg + 1 .. n : i - neg \in 1 .. n - neg /\ neg + (i - neg) = i
        BY <1>2
      <4>3. ASSUME \A i \in 1 .. n - neg : u[i] \in Digits, NEW i \in neg + 1 .. n
            PROVE  s[i] \in Digits
        <5>1. u[i - neg] \in Digits /\ u[i - neg] = s[neg + (i - neg)]
          BY <2>1, <4>2, <4>3
        <5> QED BY <4>2, <5>1
      <4> QED BY <2>1, <4>1, <4>3
    <3>2. n - neg >= 1 => u[1] = s[neg + 1]
      <4> SUFFICES ASSUME n - neg >= 1 PROVE u[1] = s[neg + 1]
        OBVIOUS
      <4>1. 1 \in 1 .. n - neg
        BY <1>2
      <4> QED BY <2>1, <4>1
    <3>3. /\ n - neg >= 1 <=> n \in neg + 1 .. Len(s)
          /\ n - neg = 1 <=> n = neg + 1
      BY <1>2
    <3> QED BY <2>3, <3>1, <3>2, <3>3
  <2>7. Fraction(t) <=> \/ n = Len(s)
                        \/ /\ n + 1 < Len(s) /\ s[n + 1] = "."
                           /\ \A i \in n + 2 .. Len(s) : s[i] \in Digits
    <3>1. (\A i \in 2 .. Len(s) - n : t[i] \in Digits) <=> \A i \in n + 2 .. Len(s) : s[i] \in Digits
      <4>1. \A i \in 2 .. Len(s) - n : n + i \in n + 2 .. Len(s) /\ i \in 1 .. Len(s) - n
        BY <1>2
      <4>2. \A i \in n + 2 .. Len(s) :
              i - n \in 2 .. Len(s) - n /\ i - n \in 1 .. Len(s) - n /\ n + (i - n) = i
        BY <1>2
      <4>3. ASSUME \A i \in 2 .. Len(s) - n : t[i] \in Digits, NEW i \in n + 2 .. Len(s)
            PROVE  s[i] \in Digits
        <5>1. t[i - n] \in Digits /\ t[i - n] = s[n + (i - n)]
          BY <2>2, <4>2, <4>3
        <5> QED BY <4>2, <5>1
      <4> QED BY <2>2, <4>1, <4>3
    <3>2. Len(s) - n > 1 => t[1] = s[n + 1]
      <4> SUFFICES ASSUME Len(s) - n > 1 PROVE t[1] = s[n + 1]
        OBVIOUS
      <4>1. 1 \in 1 .. Len(s) - n
        BY <1>2
      <4> QED BY <2>2, <4>1
    <3>3. /\ Len(s) - n = 0 <=> n = Len(s)
          /\ Len(s) - n > 1 <=> n + 1 < Len(s)
      BY <1>2
    <3> QED BY <2>4, <3>1, <3>2, <3>3
  <2>8. n \in neg + 1 .. Len(s) => (neg = 1 => s[1] = "-")
    BY <1>3
  <2>9. n = Len(s) => ~ (n + 1 < Len(s))
    BY <1>2
  <2> QED BY <2>5, <2>6, <2>7, <2>8, <2>9 DEF Shaped
<1>4. ASSUME NEW n \in 0 .. Len(s), At(n) PROVE \E neg, m : Shaped(s, neg, m)
  <2> DEFINE neg == IF n > 0 /\ s[1] = "-" THEN 1 ELSE 0
  <2>1. neg \in {0, 1} /\ (neg = 1 <=> (n > 0 /\ s[1] = "-"))
    OBVIOUS
  <2> HIDE DEF neg, At
  <2>2. Shaped(s, neg, n)
    BY <1>3, <1>4, <2>1
  <2> QED BY <2>2
<1>5. ASSUME NEW neg, NEW n, Shaped(s, neg, n) PROVE \E m \in 0 .. Len(s) : At(m)
  <2>1. neg \in {0, 1} /\ n \in neg + 1 .. Len(s) /\ (neg = 1 => s[1] = "-")
    BY <1>5 DEF Shaped
  <2>2. n \in 0 .. Len(s) /\ n > 0
    BY <1>2, <2>1
  <2>3. neg = 0 => s[1] # "-"
    <3> SUFFICES ASSUME neg = 0 PROVE s[1] # "-"
      OBVIOUS
    <3>1. 1 \in neg + 1 .. n
      BY <2>2
    <3>2. s[1] \in Digits
      BY <1>5, <3>1 DEF Shaped
    <3> QED BY <3>2, Signs
  <2> HIDE DEF At
  <2>4. At(n)
    BY <1>3, <1>5, <2>1, <2>2, <2>3
  <2> QED BY <2>2, <2>4
<1> HIDE DEF At
<1> QED BY <1>1, <1>4, <1>5

-----------------------------------------------------------------------------
(***************************************************************************)
(* Why a text is refused.                                                   *)
(***************************************************************************)

BeyondLimits == {"SignOnZero", "TooManyDigits", "ScaleTooLarge"}

LEMMA ErrorNames ==
  /\ \A what : Err(what).error = what
  /\ \A what, at : ErrAt(what, at).error = what /\ ErrAt(what, at).at = at
BY DEF Err, ErrAt

(* A text of the grammar is an amount, unless it goes beyond a limit. *)
LEMMA OutcomeIs ==
  ASSUME MoneyGiven, NEW s \in Seq(Characters), NEW neg, NEW n, Shaped(s, neg, n),
         Len(s) =< MaxInput, NEW asset
  PROVE  LET p == Parse(asset, s)
         IN  Ok(p) \/ \E x \in BeyondLimits : p = Err(x)
<1> DEFINE p == Parse(asset, s)
           k == Decimals(s, n)
           value == DigitsValue(s, Len(s))
           units == IF neg = 1 THEN -value ELSE value
<1>1. p = Outcome(asset, s, neg, n)
  BY Limits, ShapedParse
<1>2. Len(s) \in 1 .. Highest /\ Len(s) \in 0 .. Len(s) /\ k \in Nat
  <2>1. Len(s) \in Nat /\ n \in neg + 1 .. Len(s) /\ neg \in {0, 1}
    BY DEF Shaped
  <2>2. k \in Nat
    BY ShapedText DEF TextOf
  <2>3. Len(s) \in 1 .. Highest
    BY <2>1, Limits
  <2> QED BY <2>1, <2>2, <2>3
<1>3. value \in Nat /\ value < Pow10[Len(s)]
  BY <1>2, DigitsValueIsSmall
<1>4. p = Err("SignOnZero") \/ p = Checked(asset, units, k)
  BY <1>1 DEF Outcome
<1> HIDE DEF p, k, value
<1>5. units \in Int /\ Magnitude(units) = value
  <2>1. value \in Int /\ Magnitude(value) = value
    BY <1>3, DigitAtIs
  <2> QED BY <2>1, MagnitudeIs
<1> HIDE DEF units
<1>6. CASE p = Err("SignOnZero")
  BY <1>6 DEF p, BeyondLimits
<1>7. CASE p = Checked(asset, units, k)
  <2>1. Magnitude(units) < Pow10[Len(s)]
    BY <1>3, <1>5
  <2>2. /\ ~ (Magnitude(units) < Pow10[MaxDigits]) => p = Err("TooManyDigits")
        /\ Magnitude(units) < Pow10[MaxDigits] /\ k > MaxScale => p = Err("ScaleTooLarge")
        /\ Magnitude(units) < Pow10[MaxDigits] /\ k =< MaxScale => Amount(p)
    BY <1>2, <1>5, <1>7, <2>1, CheckedIs
  <2>3. Amount(p) => Ok(p)
    BY AmountsAreOk
  <2>4. k > MaxScale \/ k =< MaxScale
    BY <1>2, Limits
  <2> QED BY <2>2, <2>3, <2>4 DEF p, BeyondLimits
<1> QED BY <1>4, <1>6, <1>7

(* A text that begins as another does. *)
Begins(t, s, e) == e =< Len(t) /\ \A i \in 1 .. e : t[i] = s[i]

LEMMA PrefixIs ==
  ASSUME NEW s \in Seq(Characters), NEW e \in 0 .. Len(s), NEW more \in Seq(Characters)
  PROVE  LET t == SubSeq(s, 1, e) \o more
         IN  /\ t \in Seq(Characters) /\ Len(t) = e + Len(more) /\ Begins(t, s, e)
             /\ \A i \in 1 .. Len(more) : t[e + i] = more[i]
<1> DEFINE q == SubSeq(s, 1, e)
<1>1. q \in Seq(Characters) /\ Len(q) = e /\ e \in Nat /\ \A i \in 1 .. e : q[i] = s[i]
  OBVIOUS
<1> HIDE DEF q
<1> DEFINE t == q \o more
           len == Len(more)
<1>2. len \in Nat
  OBVIOUS
<1>3. /\ t \in Seq(Characters) /\ Len(t) = e + len
      /\ \A i \in 1 .. e : t[i] = q[i]
      /\ \A i \in 1 .. len : t[e + i] = more[i]
  <2>1. /\ t \in Seq(Characters) /\ Len(t) = Len(q) + len
        /\ \A i \in 1 .. Len(q) + len : t[i] = IF i =< Len(q) THEN q[i] ELSE more[i - Len(q)]
    BY <1>1, ConcatProperties
  <2> HIDE DEF t, len
  <2>2. \A i \in 1 .. e : i \in 1 .. e + len /\ i =< e
    BY <1>1, <1>2
  <2>3. \A i \in 1 .. len : e + i \in 1 .. e + len /\ ~ (e + i =< e) /\ (e + i) - e = i
    BY <1>1, <1>2
  <2> QED BY <1>1, <2>1, <2>2, <2>3
<1> HIDE DEF t, len
<1>4. Begins(t, s, e)
  BY <1>1, <1>2, <1>3 DEF Begins
<1> QED BY <1>3, <1>4 DEF t, q, len

LEMMA MoreIs ==
  /\ \A more \in {<<>>, <<"5">>, <<".", "5">>} : more \in Seq(Characters)
  /\ Len(<<"5">>) = 1 /\ <<"5">>[1] \in Digits /\ Len(<<>>) = 0 /\ <<"5">>[1] # "0"
<1>1. "5" \in Digits /\ "5" # "0"
  BY DEF Digits
<1>2. "5" \in Characters /\ "." \in Characters
  BY <1>1, Signs
<1>3. <<>> \in Seq(Characters)
  OBVIOUS
<1>4. <<"5">> \in Seq(Characters)
  BY <1>2
<1>5. <<".", "5">> \in Seq(Characters)
  BY <1>2
<1>6. \A more \in {<<>>, <<"5">>, <<".", "5">>} : more \in Seq(Characters)
  BY <1>3, <1>4, <1>5, Zenon
<1>7. Len(<<"5">>) = 1 /\ <<"5">>[1] = "5" /\ Len(<<>>) = 0
  OBVIOUS
<1> QED BY <1>1, <1>6, <1>7

LEMMA ViableBy ==
  ASSUME NEW s, NEW more \in {<<>>, <<"5">>, <<".", "5">>}, Grammatical(s \o more)
  PROVE  Viable(s)
BY Zenon DEF Viable

(* The sign of a text of the grammar. *)
LEMMA ShapedSign ==
  ASSUME NEW t \in Seq(Characters), NEW neg, NEW n, Shaped(t, neg, n)
  PROVE  neg \in {0, 1} /\ (neg = 1 <=> t[1] = "-")
<1>1. neg \in {0, 1} /\ (neg = 1 => t[1] = "-") /\ n \in neg + 1 .. Len(t)
  BY DEF Shaped
<1>2. neg = 0 => t[1] \in Digits
  <2> SUFFICES ASSUME neg = 0 PROVE t[1] \in Digits
    OBVIOUS
  <2>1. 1 \in neg + 1 .. n
    BY <1>1
  <2> QED BY <2>1 DEF Shaped
<1> QED BY <1>1, <1>2, Signs

LEMMA HaltedIsRight ==
  ASSUME NEW s \in Seq(Characters), NEW neg, Stuck(s, neg)
  PROVE  Viable(SubSeq(s, 1, neg)) /\ ~ Viable(SubSeq(s, 1, neg + 1))
<1>1. /\ neg \in {0, 1} /\ (neg = 1 <=> s[1] = "-") /\ neg < Len(s) /\ Len(s) \in Nat
      /\ s[neg + 1] \notin Digits /\ neg \in 0 .. Len(s) /\ neg + 1 \in 0 .. Len(s)
  BY DEF Stuck
<1>2. Viable(SubSeq(s, 1, neg))
  <2> DEFINE t == SubSeq(s, 1, neg) \o <<"5">>
  <2>1. t \in Seq(Characters) /\ Len(t) = neg + 1 /\ Begins(t, s, neg) /\ t[neg + 1] = <<"5">>[1]
    <3>1. <<"5">> \in Seq(Characters) /\ Len(<<"5">>) = 1
      BY MoreIs
    <3>2. 1 \in 1 .. Len(<<"5">>)
      BY <3>1
    <3> QED BY <1>1, <3>1, <3>2, PrefixIs
  <2> HIDE DEF t
  <2>2. t[neg + 1] \in Digits /\ t[neg + 1] # "0"
    BY <2>1, MoreIs
  <2>3. neg = 1 => t[1] = "-"
    BY <1>1, <2>1 DEF Begins
  <2>4. Shaped(t, neg, neg + 1)
    BY <1>1, <2>1, <2>2, <2>3 DEF Shaped
  <2>5. Grammatical(t)
    BY <2>1, <2>4, GrammarIs
  <2>6. <<"5">> \in {<<>>, <<"5">>, <<".", "5">>}
    BY Zenon
  <2> QED BY <2>5, <2>6, ViableBy, Zenon DEF t
<1>3. ASSUME NEW more \in {<<>>, <<"5">>, <<".", "5">>}, Grammatical(SubSeq(s, 1, neg + 1) \o more)
      PROVE  FALSE
  <2> DEFINE t == SubSeq(s, 1, neg + 1) \o more
  <2>1. more \in Seq(Characters)
    BY MoreIs
  <2>2. t \in Seq(Characters) /\ Begins(t, s, neg + 1)
    BY <1>1, <2>1, PrefixIs
  <2>3. Grammatical(t)
    BY <1>3
  <2> HIDE DEF t
  <2>4. PICK g, n : Shaped(t, g, n)
    BY <2>2, <2>3, GrammarIs
  <2>5. t[1] = s[1] /\ t[neg + 1] = s[neg + 1]
    BY <1>1, <2>2 DEF Begins
  <2>6. g = neg
    BY <1>1, <2>2, <2>4, <2>5, ShapedSign
  <2>7. neg + 1 \in neg + 1 .. n
    BY <1>1, <2>4, <2>6 DEF Shaped
  <2>8. t[neg + 1] \in Digits
    BY <2>4, <2>6, <2>7 DEF Shaped
  <2> QED BY <1>1, <2>5, <2>8
<1> QED BY <1>2, <1>3 DEF Viable

LEMMA CutIsRight ==
  ASSUME NEW s \in Seq(Characters), NEW neg, NEW n, NEW end, Broken(s, neg, n, end)
  PROVE  Viable(SubSeq(s, 1, end)) /\ ~ Viable(SubSeq(s, 1, end + 1))
<1>1. /\ neg \in {0, 1} /\ (neg = 1 <=> s[1] = "-") /\ Len(s) \in Nat
      /\ n \in neg + 1 .. Len(s) /\ end \in n .. Len(s) /\ end < Len(s)
      /\ end \in 0 .. Len(s) /\ end + 1 \in 0 .. Len(s)
  BY DEF Broken
<1>2. /\ \A i \in neg + 1 .. n : s[i] \in Digits
      /\ s[neg + 1] = "0" => n = neg + 1
      /\ s[end + 1] \notin Digits
      /\ \/ end = n /\ s[n + 1] # "."
         \/ end > n /\ s[n + 1] = "." /\ \A i \in n + 2 .. end : s[i] \in Digits
  BY DEF Broken
<1>3. ASSUME NEW t \in Seq(Characters), Begins(t, s, end)
      PROVE  /\ neg = 1 => t[1] = "-"
             /\ \A i \in neg + 1 .. n : t[i] \in Digits
             /\ t[neg + 1] = "0" => n = neg + 1
             /\ n \in neg + 1 .. Len(t) /\ Len(t) \in Nat /\ end =< Len(t)
  <2>1. \A i \in 1 .. end : t[i] = s[i]
    BY <1>3 DEF Begins
  <2>2. \A i \in neg + 1 .. n : i \in 1 .. end
    BY <1>1
  <2>3. 1 \in 1 .. end /\ neg + 1 \in 1 .. end
    BY <1>1
  <2>4. end =< Len(t) /\ Len(t) \in Nat
    BY <1>3 DEF Begins
  <2> QED BY <1>1, <1>2, <2>1, <2>2, <2>3, <2>4
<1>4. ASSUME end = n PROVE Viable(SubSeq(s, 1, end))
  <2> DEFINE t == SubSeq(s, 1, end) \o <<>>
  <2>1. t \in Seq(Characters) /\ Len(t) = end + 0 /\ Begins(t, s, end)
    <3> DEFINE none == <<>>
    <3>1. none \in Seq(Characters) /\ Len(none) = 0
      OBVIOUS
    <3> HIDE DEF none
    <3>2. LET u == SubSeq(s, 1, end) \o none
          IN  u \in Seq(Characters) /\ Len(u) = end + Len(none) /\ Begins(u, s, end)
      BY <1>1, <3>1, PrefixIs
    <3> QED BY <3>1, <3>2 DEF none
  <2> HIDE DEF t
  <2>2. Shaped(t, neg, n)
    BY <1>1, <1>3, <1>4, <2>1 DEF Shaped
  <2>3. Grammatical(t)
    BY <2>1, <2>2, GrammarIs
  <2>4. <<>> \in {<<>>, <<"5">>, <<".", "5">>}
    BY Zenon
  <2> QED BY <2>3, <2>4, ViableBy, Zenon DEF t
<1>5. ASSUME end > n PROVE Viable(SubSeq(s, 1, end))
  <2> DEFINE t == SubSeq(s, 1, end) \o <<"5">>
  <2>1. t \in Seq(Characters) /\ Len(t) = end + 1 /\ Begins(t, s, end) /\ t[end + 1] = <<"5">>[1]
    <3>1. <<"5">> \in Seq(Characters) /\ Len(<<"5">>) = 1
      BY MoreIs
    <3>2. 1 \in 1 .. Len(<<"5">>)
      BY <3>1
    <3> QED BY <1>1, <3>1, <3>2, PrefixIs
  <2> HIDE DEF t
  <2>2. t[end + 1] \in Digits
    BY <2>1, MoreIs
  <2>3. \A i \in 1 .. end : t[i] = s[i]
    BY <2>1 DEF Begins
  <2>4. n + 1 \in 1 .. end /\ t[n + 1] = "." /\ n + 1 < Len(t) /\ n # Len(t)
    <3>1. n + 1 \in 1 .. end /\ n + 1 < end + 1
      BY <1>1, <1>5
    <3> QED BY <1>1, <1>2, <1>5, <2>1, <2>3, <3>1
  <2>5. \A i \in n + 2 .. Len(t) : t[i] \in Digits
    <3> SUFFICES ASSUME NEW i \in n + 2 .. Len(t) PROVE t[i] \in Digits
      OBVIOUS
    <3>1. i = end + 1 \/ (i \in n + 2 .. end /\ i \in 1 .. end)
      BY <1>1, <2>1
    <3> QED BY <1>1, <1>2, <1>5, <2>2, <2>3, <3>1
  <2>6. Shaped(t, neg, n)
    BY <1>1, <1>3, <2>1, <2>4, <2>5 DEF Shaped
  <2>7. Grammatical(t)
    BY <2>1, <2>6, GrammarIs
  <2>8. <<"5">> \in {<<>>, <<"5">>, <<".", "5">>}
    BY Zenon
  <2> QED BY <2>7, <2>8, ViableBy, Zenon DEF t
<1>6. ASSUME NEW more \in {<<>>, <<"5">>, <<".", "5">>}, Grammatical(SubSeq(s, 1, end + 1) \o more)
      PROVE  FALSE
  <2> DEFINE t == SubSeq(s, 1, end + 1) \o more
  <2>1. more \in Seq(Characters)
    BY MoreIs
  <2>2. t \in Seq(Characters) /\ Begins(t, s, end + 1)
    BY <1>1, <2>1, PrefixIs
  <2>3. Grammatical(t)
    BY <1>6
  <2> HIDE DEF t
  <2>4. PICK g, m : Shaped(t, g, m)
    BY <2>2, <2>3, GrammarIs
  <2>5. (\A i \in 1 .. end + 1 : t[i] = s[i]) /\ end + 1 =< Len(t) /\ Len(t) \in Nat
    BY <2>2 DEF Begins
  <2>6. t[1] = s[1] /\ t[end + 1] = s[end + 1]
    BY <1>1, <2>5
  <2>7. g = neg
    BY <1>1, <2>2, <2>4, <2>6, ShapedSign
  <2>8. Begins(t, s, end)
    BY <1>1, <2>5 DEF Begins
  <2>9. \A i \in neg + 1 .. n : t[i] \in Digits
    BY <1>3, <2>2, <2>8
  <2>10. t[n + 1] \notin Digits
    <3>1. n + 1 \in 1 .. end + 1 /\ (end = n \/ end > n)
      BY <1>1
    <3> QED BY <1>2, <2>5, <2>6, <3>1, Signs
  <2>11. /\ m \in neg + 1 .. Len(t)
         /\ \A i \in neg + 1 .. m : t[i] \in Digits
         /\ m # Len(t) => t[m + 1] = "." /\ \A i \in m + 2 .. Len(t) : t[i] \in Digits
    BY <2>4, <2>7 DEF Shaped
  <2>12. m = n
    <3>1. ~ (m > n)
      <4> SUFFICES ASSUME m > n PROVE FALSE
        OBVIOUS
      <4>1. n + 1 \in neg + 1 .. m
        BY <1>1, <2>11
      <4> QED BY <2>10, <2>11, <4>1
    <3>2. ~ (m < n)
      <4> SUFFICES ASSUME m < n PROVE FALSE
        OBVIOUS
      <4>1. m + 1 \in neg + 1 .. n /\ m # Len(t)
        BY <1>1, <2>5, <2>11
      <4> QED BY <2>9, <2>11, <4>1, Signs
    <3> QED BY <1>1, <2>11, <3>1, <3>2
  <2>13. n # Len(t)
    BY <1>1, <2>5
  <2>14. t[n + 1] = "." /\ \A i \in n + 2 .. Len(t) : t[i] \in Digits
    BY <2>11, <2>12, <2>13
  <2>15. CASE end = n
    BY <1>2, <2>6, <2>14, <2>15, <1>1
  <2>16. CASE end > n
    <3>1. end + 1 \in n + 2 .. Len(t)
      BY <1>1, <2>5, <2>16
    <3> QED BY <1>2, <2>6, <2>14, <3>1
  <2> QED BY <1>1, <2>15, <2>16
<1>7. end = n \/ end > n
  BY <1>1
<1> QED BY <1>4, <1>5, <1>6, <1>7 DEF Viable

-----------------------------------------------------------------------------
(***************************************************************************)
(* An amount and its text are one.                                          *)
(***************************************************************************)

TextRead == text # <<>> => text \in Texts /\ \E asset : amount = Parse(asset, text)

LEMMA MoneyInitRead == MoneyInit => TextRead
BY DEF MoneyInit, TextRead

LEMMA MoneyStepRead == TextRead /\ [MoneyNext]_moneyVars => TextRead'
<1> SUFFICES ASSUME TextRead, [MoneyNext]_moneyVars PROVE TextRead'
  OBVIOUS
<1>1. ASSUME NEW asset \in Assets, NEW s \in Texts, Read_text(asset, s) PROVE TextRead'
  <2>1. text' = s /\ amount' = Parse(asset, s)
    BY <1>1 DEF Read_text
  <2>2. text' \in Texts /\ amount' = Parse(asset, text')
    BY <2>1
  <2> QED BY <2>2 DEF TextRead
<1>2. CASE Calculate
  <2>1. text' = <<>>
    BY <1>2 DEF Calculate
  <2> QED BY <2>1 DEF TextRead
<1>3. CASE UNCHANGED moneyVars
  <2>1. text' = text /\ amount' = amount
    BY <1>3 DEF moneyVars
  <2> QED BY <2>1 DEF TextRead
<1> QED BY <1>1, <1>2, <1>3 DEF MoneyNext

(* What is refused as misplaced, and for nothing else. *)
LEMMA Refused ==
  ASSUME NEW s \in Seq(Characters), NEW asset, MaxInput \in Nat,
         Parse(asset, s).error \in {"InvalidByte", "ExponentNotation"},
         ~ Formed(s)
  PROVE  Halted(s, Parse(asset, s)) \/ Cut(s, Parse(asset, s))
<1> DEFINE p == Parse(asset, s)
<1>1. TooLong(s, p) \/ Lacking(p) \/ Led(p) \/ Halted(s, p) \/ Cut(s, p)
  BY ParseCases
<1>2. p.error \in {"InvalidByte", "ExponentNotation"}
  OBVIOUS
<1> HIDE DEF p
<1>3. ~ TooLong(s, p)
  BY <1>2, ErrorNames DEF TooLong
<1>4. ~ Lacking(p)
  <2> SUFFICES ASSUME NEW x \in {"Empty", "MissingIntegerPart", "MissingFractionDigits"}, p = Err(x)
               PROVE  FALSE
    BY DEF Lacking
  <2>1. p.error = x
    BY ErrorNames
  <2> QED BY <1>2, <2>1
<1>5. ~ Led(p)
  BY <1>2, ErrorNames DEF Led
<1> QED BY <1>1, <1>3, <1>4, <1>5 DEF p

(* A text whose number goes beyond a limit has been read to its end. *)
LEMMA ReadToTheEnd ==
  ASSUME NEW s \in Seq(Characters), NEW asset, MaxInput \in Nat,
         Ok(Parse(asset, s)) \/ Parse(asset, s).error \in BeyondLimits
  PROVE  Formed(s)
<1> DEFINE p == Parse(asset, s)
<1>1. TooLong(s, p) \/ Lacking(p) \/ Led(p) \/ Halted(s, p) \/ Cut(s, p) \/ Formed(s)
  BY ParseCases
<1>2. Ok(p) \/ p.error \in BeyondLimits
  OBVIOUS
<1> HIDE DEF p
<1>3. ASSUME NEW what, p = Err(what) \/ \E at : p = ErrAt(what, at)
      PROVE  what \in BeyondLimits
  <2>1. ~ Ok(p) /\ p.error = what
    BY <1>3, ErrorsAreNot, ErrorNames
  <2> QED BY <1>2, <2>1
<1>4. ~ TooLong(s, p)
  <2> SUFFICES ASSUME p = Err("InputTooLong") PROVE FALSE
    BY DEF TooLong
  <2>1. "InputTooLong" \in BeyondLimits
    BY <1>3
  <2> QED BY <2>1 DEF BeyondLimits
<1>5. ~ Lacking(p)
  <2> SUFFICES ASSUME NEW x \in {"Empty", "MissingIntegerPart", "MissingFractionDigits"}, p = Err(x)
               PROVE  FALSE
    BY DEF Lacking
  <2>1. x \in BeyondLimits
    BY <1>3
  <2> QED BY <2>1 DEF BeyondLimits
<1>6. ~ Led(p)
  <2> SUFFICES ASSUME NEW neg, p = ErrAt("LeadingZero", neg) PROVE FALSE
    BY DEF Led
  <2>1. "LeadingZero" \in BeyondLimits
    BY <1>3
  <2> QED BY <2>1 DEF BeyondLimits
<1>7. ASSUME NEW what \in {"InvalidByte", "ExponentNotation"}, NEW at, p = ErrAt(what, at)
      PROVE  FALSE
  <2>1. what \in BeyondLimits
    BY <1>3, <1>7
  <2> QED BY <2>1 DEF BeyondLimits
<1>8. ~ Halted(s, p)
  BY <1>7 DEF Halted
<1>9. ~ Cut(s, p)
  BY <1>7 DEF Cut, Misplaced
<1> QED BY <1>1, <1>4, <1>5, <1>6, <1>8, <1>9

LEMMA TextsHold == ASSUME MoneyGiven PROVE MoneyInv /\ TextRead => TextIsTheAmount
<1> SUFFICES ASSUME MoneyInv, TextRead PROVE TextIsTheAmount
  OBVIOUS
<1>1. MaxInput \in Nat
  BY Limits
<1>2. Ok(amount) => Parse(amount.asset, Format(amount)) = amount
  BY ReadsBack DEF MoneyInv
<1>3. ASSUME text # <<>>
      PROVE  /\ Ok(amount) => Grammatical(text) /\ Format(amount) = text
             /\ ~ Ok(amount) =>
                  /\ amount.error \in {"SignOnZero", "TooManyDigits", "ScaleTooLarge"} =>
                       Grammatical(text)
                  /\ Grammatical(text) /\ Len(text) =< MaxInput =>
                       amount.error \in {"SignOnZero", "TooManyDigits", "ScaleTooLarge"}
                  /\ amount.error \in {"InvalidByte", "ExponentNotation"} =>
                       /\ Viable(SubSeq(text, 1, amount.at)) \/ amount.at = Len(text)
                       /\ ~ Viable(SubSeq(text, 1, amount.at + 1))
  <2>1. PICK asset : text \in Seq(Characters) /\ amount = Parse(asset, text)
    BY <1>3, Limits DEF TextRead
  <2>2. Ok(amount) \/ amount.error \in BeyondLimits => Formed(text)
    BY <1>1, <2>1, ReadToTheEnd
  <2>3. Formed(text) => Grammatical(text)
    BY <2>1, GrammarIs DEF Formed
  <2>4. ASSUME Ok(amount) PROVE Format(amount) = text
    <3>1. PICK neg, n : Shaped(text, neg, n) /\ Len(text) =< MaxInput
      BY <2>2, <2>4 DEF Formed
    <3> QED BY <2>1, <2>4, <3>1, WritesBack
  <2>5. ASSUME ~ Ok(amount), Grammatical(text), Len(text) =< MaxInput
        PROVE  amount.error \in BeyondLimits
    <3>1. PICK neg, n : Shaped(text, neg, n)
      BY <2>1, <2>5, GrammarIs
    <3>2. PICK x \in BeyondLimits : amount = Err(x)
      BY <2>1, <2>5, <3>1, OutcomeIs
    <3> QED BY <3>2, ErrorNames
  <2>6. ASSUME ~ Ok(amount), amount.error \in {"InvalidByte", "ExponentNotation"}
        PROVE  /\ Viable(SubSeq(text, 1, amount.at))
               /\ ~ Viable(SubSeq(text, 1, amount.at + 1))
    <3>1. ~ Formed(text)
      <4> SUFFICES ASSUME Formed(text) PROVE FALSE
        OBVIOUS
      <4>1. amount.error \in BeyondLimits
        BY <2>3, <2>5, <2>6 DEF Formed
      <4> QED BY <2>6, <4>1 DEF BeyondLimits
    <3>2. Halted(text, amount) \/ Cut(text, amount)
      BY <1>1, <2>1, <2>6, <3>1, Refused
    <3>3. CASE Halted(text, amount)
      <4>1. PICK neg : amount = ErrAt("InvalidByte", neg) /\ Stuck(text, neg)
        BY <3>3 DEF Halted
      <4>2. amount.at = neg
        BY <4>1, ErrorNames
      <4> QED BY <2>1, <4>1, <4>2, HaltedIsRight
    <3>4. CASE Cut(text, amount)
      <4>1. PICK neg, n, end : amount = Misplaced(text, end) /\ Broken(text, neg, n, end)
        BY <3>4 DEF Cut
      <4>2. amount.at = end
        BY <4>1, ErrorNames DEF Misplaced
      <4> QED BY <2>1, <4>1, <4>2, CutIsRight
    <3> QED BY <3>2, <3>3, <3>4
  <2> QED BY <2>2, <2>3, <2>4, <2>5, <2>6 DEF BeyondLimits
<1> QED BY <1>2, <1>3 DEF TextIsTheAmount

(* Whatever texts and operations an amount came of, it is written as a text that reads back *)
(* as the same units and scale; a text that was read is written back as it was; and a text   *)
(* is refused because the grammar has it not, at the first character that cannot be there,   *)
(* or because it is longer or its number larger than the limits (Amount::parse, Display and  *)
(* try_from_units of amount.rs).                                                           *)
THEOREM TextsExact == MoneySpec => []TextIsTheAmount
<1>1. MoneyInit => MoneyInv /\ TextRead
  BY MoneyInitAmount, MoneyInitRead
<1>2. MoneyInv /\ TextRead /\ [MoneyNext]_moneyVars => (MoneyInv /\ TextRead)'
  <2>1. MoneyInv /\ [MoneyNext]_moneyVars => MoneyInv'
    BY MoneyIsGiven, MoneyStepAmount
  <2> QED BY <2>1, MoneyStepRead
<1>3. MoneyInv /\ TextRead => TextIsTheAmount
  BY MoneyIsGiven, TextsHold
<1> QED BY <1>1, <1>2, <1>3, PTL DEF MoneySpec
=============================================================================
