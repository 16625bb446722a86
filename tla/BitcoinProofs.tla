--------------------------- MODULE BitcoinProofs ----------------------------
(***************************************************************************)
(* Theorems about Bitcoin, for every wallet file, chain, provider, budget   *)
(* and number of resources, and for any order of its requests, their        *)
(* failures, restarts and moves of the chain.                               *)
(***************************************************************************)
EXTENDS Bitcoin, TLAPS, FiniteSetTheorems, SequenceTheorems

-----------------------------------------------------------------------------
(***************************************************************************)
(* Sets in order.                                                           *)
(***************************************************************************)

(* A non-empty set of numbers has a least. *)
LEMMA LeastNumber ==
  ASSUME NEW S \in SUBSET Nat, S # {}
  PROVE  \E m \in S : \A k \in S : m <= k
<1>1. PICK m \in S : \A k \in S : ~ (<<k, m>> \in OpToRel(<, Nat))
  BY NatLessThanWellFounded, WFMin
<1>2. \A k \in S : ~ (k < m)
  BY <1>1 DEF OpToRel
<1> QED BY <1>2

(* A non-empty set of numbers below a bound has a greatest. *)
LEMMA GreatestNumber ==
  ASSUME NEW n \in Nat, NEW S \in SUBSET (0..n), S # {}
  PROVE  \E m \in S : \A k \in S : k <= m
<1> DEFINE T == {n - k : k \in S}
<1>1. T \in SUBSET Nat /\ T # {}
  <2>1. PICK k \in S : TRUE
    OBVIOUS
  <2>2. n - k \in T
    OBVIOUS
  <2> QED BY <2>2
<1>2. PICK t \in T : \A u \in T : t <= u
  <2> HIDE DEF T
  <2> QED BY <1>1, LeastNumber
<1>3. PICK m \in S : t = n - m
  BY <1>2
<1>4. ASSUME NEW k \in S PROVE k <= m
  <2>1. n - k \in T
    OBVIOUS
  <2>2. n - m <= n - k
    BY <1>2, <1>3, <2>1
  <2>3. k \in Int /\ m \in Int
    OBVIOUS
  <2> QED BY <2>2, <2>3
<1> QED BY <1>4

(* The first of a sequence, and the rest of it. *)
LEMMA HeadAndTail ==
  ASSUME NEW S, NEW s \in Seq(S), s # <<>>
  PROVE  /\ Head(s) \in S /\ Head(s) = s[1] /\ Tail(s) \in Seq(S)
         /\ Len(s) \in Nat /\ Len(s) >= 1 /\ Len(Tail(s)) = Len(s) - 1
         /\ Len(s) # 1 => Tail(s) # <<>>
         /\ \A i \in 1..Len(Tail(s)) : Tail(s)[i] = s[i + 1]
<1>1. Len(s) \in Nat /\ Len(s) >= 1
  OBVIOUS
<1>2. Head(s) \in S /\ Head(s) = s[1] /\ Tail(s) \in Seq(S)
  BY <1>1
<1>3. Len(Tail(s)) = Len(s) - 1 /\ \A i \in 1..Len(Tail(s)) : Tail(s)[i] = s[i + 1]
  BY <1>1
<1> QED BY <1>1, <1>2, <1>3

(* The elements of a sequence. *)
LEMMA SetOfSequence ==
  ASSUME NEW S, NEW s \in Seq(S)
  PROVE  /\ \A i \in 1..Len(s) : s[i] \in ToSet(s)
         /\ \A x \in ToSet(s) : \E i \in 1..Len(s) : s[i] = x
         /\ ToSet(s) \subseteq S
BY DEF ToSet

(* What a key is. *)
LEMMA KeyType ==
  \A k \in Keys : /\ k.height \in 0..MaxHeight /\ k.height \in Nat
                 /\ k.txid \in Txids /\ k.txid \in Nat /\ k.txid # 0
<1>1. MaxHeight \in Nat /\ \A t \in Txids : t \in Nat /\ t # 0
  BY BitcoinAssumption
<1>2. \A k \in Keys : k.height \in 0..MaxHeight /\ k.txid \in Txids
  BY DEF Keys
<1> QED BY <1>1, <1>2

(* The order of emission is a strict total order of the keys (plan's sort). *)
LEMMA KeyOrder ==
  /\ \A k \in Keys : ~KeyBefore(k, k)
  /\ \A k, l \in Keys : k = l \/ KeyBefore(k, l) \/ KeyBefore(l, k)
  /\ \A k, l, m \in Keys : KeyBefore(k, l) /\ KeyBefore(l, m) => KeyBefore(k, m)
<1>1. \A k \in Keys : k.height \in Nat /\ k.txid \in Nat
  BY KeyType
<1>2. \A k, l \in Keys : k.height = l.height /\ k.txid = l.txid => k = l
  BY DEF Keys
<1> QED BY <1>1, <1>2 DEF KeyBefore, Confirmed, Pool

(* The first of a set of keys. *)
LEMMA FirstKey ==
  ASSUME NEW S \in SUBSET Keys, S # {}
  PROVE  \E m \in S : \A k \in S \ {m} : KeyBefore(m, k)
<1> DEFINE C == {k \in S : Confirmed(k)}
           D == IF C = {} THEN S ELSE C
           H == {k.height : k \in D}
<1>1. \A k \in S : k.height \in Nat /\ k.txid \in Nat
  BY KeyType
<1>2. D \subseteq S /\ D # {}
  OBVIOUS
<1>3. PICK h \in H : \A g \in H : h <= g
  <2>1. H \in SUBSET Nat /\ H # {}
    BY <1>1, <1>2
  <2> HIDE DEF H
  <2> QED BY <2>1, LeastNumber
<1> DEFINE L == {k \in D : k.height = h}
           T == {k.txid : k \in L}
<1>4. PICK t \in T : \A u \in T : t <= u
  <2>1. T \in SUBSET Nat /\ T # {}
    BY <1>1, <1>2, <1>3
  <2> HIDE DEF T
  <2> QED BY <2>1, LeastNumber
<1>5. PICK m \in L : m.txid = t
  BY <1>4
<1>6. ASSUME NEW k \in S \ {m} PROVE KeyBefore(m, k)
  <2>1. m \in S /\ m \in D /\ m.height = h /\ k \in Keys /\ m \in Keys
    BY <1>2, <1>5
  <2>2. CASE k \notin D
    BY <2>1, <2>2 DEF KeyBefore
  <2>3. CASE k \in D
    <3>1. h <= k.height
      BY <1>3, <2>3
    <3>2. k.height = h => t <= k.txid
      BY <1>4, <2>3
    <3>3. KeyBefore(m, k) \/ k = m \/ KeyBefore(k, m)
      BY <2>1, KeyOrder
    <3>4. Confirmed(k) = Confirmed(m)
      BY <2>1, <2>3 DEF Confirmed
    <3> QED BY <1>1, <1>5, <2>1, <3>1, <3>2, <3>3, <3>4 DEF KeyBefore
  <2> QED BY <2>2, <2>3
<1> QED BY <1>2, <1>5, <1>6

(* A sequence of a set in which each element is related to the later ones. *)
InOrder(s, S, R) ==
  /\ s \in [1..Cardinality(S) -> S]
  /\ \A i, j \in 1..Cardinality(S) : i < j => <<s[i], s[j]>> \in R

(* To put a first element before a set in order. *)
LEMMA FirstThenRest ==
  ASSUME NEW S, IsFiniteSet(S), NEW R, NEW m \in S,
         \A k \in S \ {m} : <<m, k>> \in R,
         NEW s, InOrder(s, S \ {m}, R)
  PROVE  \E t : InOrder(t, S, R)
<1> DEFINE n == Cardinality(S)
           t == [i \in 1..n |-> IF i = 1 THEN m ELSE s[i - 1]]
<1>1. n \in Nat /\ Cardinality(S \ {m}) = n - 1
  BY FS_CardinalityType, FS_RemoveElement
<1>2. \A i \in 1..n : i # 1 => i - 1 \in 1..(n - 1)
  BY <1>1
<1>3. s \in [1..(n - 1) -> S \ {m}]
  BY <1>1 DEF InOrder
<1>4. t \in [1..n -> S]
  BY <1>2, <1>3
<1>5. ASSUME NEW i \in 1..n, NEW j \in 1..n, i < j PROVE <<t[i], t[j]>> \in R
  <2>1. j - 1 \in 1..(n - 1) /\ t[j] = s[j - 1]
    BY <1>1, <1>5
  <2>2. CASE i = 1
    BY <1>3, <2>1, <2>2
  <2>3. CASE i # 1
    <3>1. i - 1 \in 1..(n - 1) /\ t[i] = s[i - 1] /\ i - 1 < j - 1
      BY <1>1, <1>5, <2>3
    <3> QED BY <1>1, <1>3, <2>1, <3>1 DEF InOrder
  <2> QED BY <2>2, <2>3
<1>6. InOrder(t, S, R)
  BY <1>4, <1>5 DEF InOrder
<1> QED BY <1>6

(* A finite set has an order when each part of it has a first. *)
LEMMA SetsHaveOrder ==
  ASSUME NEW S, IsFiniteSet(S), NEW R,
         \A T \in SUBSET S : T # {} => \E m \in T : \A k \in T \ {m} : <<m, k>> \in R
  PROVE  \E s : InOrder(s, S, R)
<1> DEFINE Bad == {T \in SUBSET S : ~ \E s : InOrder(s, T, R)}
           Sizes == {Cardinality(T) : T \in Bad}
<1>1. \A T \in SUBSET S : IsFiniteSet(T) /\ Cardinality(T) \in Nat
  BY FS_Subset, FS_CardinalityType
<1>2. SUFFICES ASSUME Bad # {} PROVE FALSE
  OBVIOUS
<1>3. PICK T \in Bad : \A U \in Bad : Cardinality(T) <= Cardinality(U)
  <2>1. Sizes \in SUBSET Nat /\ Sizes # {}
    BY <1>1, <1>2
  <2>2. PICK c \in Sizes : \A d \in Sizes : c <= d
    <3> HIDE DEF Sizes
    <3> QED BY <2>1, LeastNumber
  <2> QED BY <2>2
<1>4. T # {}
  <2> SUFFICES ASSUME T = {} PROVE FALSE
    OBVIOUS
  <2>1. Cardinality(T) = 0
    BY FS_EmptySet
  <2>2. InOrder(<<>>, T, R)
    BY <2>1 DEF InOrder
  <2> QED BY <1>3, <2>2
<1>5. PICK m \in T : \A k \in T \ {m} : <<m, k>> \in R
  BY <1>4
<1>6. Cardinality(T \ {m}) = Cardinality(T) - 1 /\ T \ {m} \in SUBSET S
  BY <1>1, <1>3, FS_RemoveElement
<1>7. PICK s : InOrder(s, T \ {m}, R)
  BY <1>1, <1>3, <1>6
<1>8. \E t : InOrder(t, T, R)
  BY <1>1, <1>3, <1>5, <1>7, FirstThenRest
<1> QED BY <1>3, <1>8

(* A set in an order that no element bears to itself is there once and whole. *)
LEMMA OrderedOnce ==
  ASSUME NEW S, IsFiniteSet(S), NEW R, \A k \in S : <<k, k>> \notin R,
         NEW s, InOrder(s, S, R)
  PROVE  /\ s \in Seq(S) /\ Len(s) = Cardinality(S) /\ Len(s) \in Nat
         /\ \A i, j \in 1..Len(s) : i < j => <<s[i], s[j]>> \in R
         /\ \A i, j \in 1..Len(s) : s[i] = s[j] => i = j
         /\ \A k \in S : \E i \in 1..Len(s) : s[i] = k
<1> DEFINE n == Cardinality(S)
<1>1. n \in Nat
  BY FS_CardinalityType
<1>2. s \in Seq(S) /\ Len(s) = n /\ DOMAIN s = 1..n
  BY <1>1 DEF InOrder
<1>3. \A i, j \in 1..n : i < j => <<s[i], s[j]>> \in R
  BY DEF InOrder
<1>4. ASSUME NEW i \in 1..n, NEW j \in 1..n, s[i] = s[j] PROVE i = j
  <2>1. s[i] \in S
    BY <1>2
  <2>2. ~ (i < j) /\ ~ (j < i)
    BY <1>3, <1>4, <2>1
  <2> QED BY <1>1, <2>2
<1>5. s \in Injection(1..n, S)
  BY <1>2, <1>4 DEF Injection, IsInjective, InOrder
<1>6. s \in Surjection(1..n, S)
  <2>1. Cardinality(1..n) = n
    BY <1>1, FS_Interval
  <2> QED BY <1>5, <2>1, FS_Injection
<1>7. \A k \in S : \E i \in 1..n : s[i] = k
  BY <1>6 DEF Surjection
<1> QED BY <1>1, <1>2, <1>3, <1>4, <1>7

(* Sorted is the set in its order, each element once (sort_by, in plan). *)
LEMMA SortedKeys ==
  ASSUME NEW S \in SUBSET Keys, IsFiniteSet(S)
  PROVE  /\ Sorted(S, KeyBefore) \in Seq(S)
         /\ Len(Sorted(S, KeyBefore)) = Cardinality(S)
         /\ \A i, j \in 1..Len(Sorted(S, KeyBefore)) :
              i < j => KeyBefore(Sorted(S, KeyBefore)[i], Sorted(S, KeyBefore)[j])
         /\ \A k \in S : \E i \in 1..Len(Sorted(S, KeyBefore)) : Sorted(S, KeyBefore)[i] = k
<1> DEFINE R == {p \in Keys \X Keys : KeyBefore(p[1], p[2])}
           s == Sorted(S, KeyBefore)
<1>1. \A k, l \in Keys : <<k, l>> \in R <=> KeyBefore(k, l)
  OBVIOUS
<1>2. PICK t : InOrder(t, S, R)
  <2>1. \A T \in SUBSET S : T # {} => \E m \in T : \A k \in T \ {m} : <<m, k>> \in R
    <3> HIDE DEF R
    <3> QED BY <1>1, FirstKey
  <2> HIDE DEF R
  <2> QED BY <2>1, SetsHaveOrder
<1>3. InOrder(s, S, R)
  <2>1. /\ t \in [1..Cardinality(S) -> S]
        /\ \A i, j \in DOMAIN t : i < j => KeyBefore(t[i], t[j])
    BY <1>1, <1>2 DEF InOrder
  <2>2. /\ s \in [1..Cardinality(S) -> S]
        /\ \A i, j \in DOMAIN s : i < j => KeyBefore(s[i], s[j])
    BY <2>1 DEF Sorted
  <2> HIDE DEF s, R
  <2> QED BY <1>1, <2>2 DEF InOrder
<1> HIDE DEF s, R
<1>4. \A k \in S : <<k, k>> \notin R
  BY <1>1, KeyOrder
<1>5. /\ s \in Seq(S) /\ Len(s) = Cardinality(S)
      /\ \A i, j \in 1..Len(s) : i < j => <<s[i], s[j]>> \in R
      /\ \A k \in S : \E i \in 1..Len(s) : s[i] = k
  BY <1>3, <1>4, OrderedOnce
<1>6. \A i, j \in 1..Len(s) : i < j => KeyBefore(s[i], s[j])
  <2>1. \A i \in 1..Len(s) : s[i] \in Keys
    BY <1>5
  <2> QED BY <1>1, <1>5, <2>1
<1> QED BY <1>5, <1>6 DEF s

(* The same of resources. *)
LEMMA SortedResources ==
  ASSUME NEW S \in SUBSET Resources
  PROVE  /\ Sorted(S, Earlier) \in Seq(S)
         /\ \A i, j \in 1..Len(Sorted(S, Earlier)) :
              Sorted(S, Earlier)[i] = Sorted(S, Earlier)[j] => i = j
         /\ \A k \in S : \E i \in 1..Len(Sorted(S, Earlier)) : Sorted(S, Earlier)[i] = k
<1> DEFINE R == {p \in Nat \X Nat : p[1] < p[2]}
           s == Sorted(S, Earlier)
<1>1. \A k, l \in Nat : <<k, l>> \in R <=> Earlier(k, l)
  BY DEF Earlier
<1>2. S \in SUBSET Nat /\ IsFiniteSet(S)
  BY BitcoinAssumption, FS_Subset
<1>3. PICK t : InOrder(t, S, R)
  <2>1. \A T \in SUBSET S : T # {} => \E m \in T : \A k \in T \ {m} : <<m, k>> \in R
    <3> SUFFICES ASSUME NEW T \in SUBSET S, T # {}
                 PROVE  \E m \in T : \A k \in T \ {m} : <<m, k>> \in R
      OBVIOUS
    <3> HIDE DEF R
    <3>1. PICK m \in T : \A k \in T : m <= k
      BY <1>2, LeastNumber
    <3> QED BY <1>1, <1>2, <3>1 DEF Earlier
  <2> HIDE DEF R
  <2> QED BY <1>2, <2>1, SetsHaveOrder
<1>4. InOrder(s, S, R)
  <2>1. /\ t \in [1..Cardinality(S) -> S]
        /\ \A i, j \in DOMAIN t : i < j => Earlier(t[i], t[j])
    BY <1>1, <1>2, <1>3 DEF InOrder
  <2>2. /\ s \in [1..Cardinality(S) -> S]
        /\ \A i, j \in DOMAIN s : i < j => Earlier(s[i], s[j])
    BY <2>1 DEF Sorted
  <2> HIDE DEF s, R
  <2> QED BY <1>1, <1>2, <2>2 DEF InOrder
<1> HIDE DEF s, R
<1>5. \A k \in S : <<k, k>> \notin R
  BY <1>1, <1>2 DEF Earlier
<1>6. IsFiniteSet(S)
  BY <1>2
<1>7. /\ s \in Seq(S) /\ Len(s) = Cardinality(S) /\ Len(s) \in Nat
      /\ \A i, j \in 1..Len(s) : i < j => <<s[i], s[j]>> \in R
      /\ \A i, j \in 1..Len(s) : s[i] = s[j] => i = j
      /\ \A k \in S : \E i \in 1..Len(s) : s[i] = k
  BY <1>4, <1>5, <1>6, OrderedOnce
<1> QED BY <1>7 DEF s

-----------------------------------------------------------------------------
(***************************************************************************)
(* What the front of a plan costs.                                          *)
(***************************************************************************)

(* A record costs a number of bytes. *)
LEMMA CostType ==
  ASSUME NEW k \in Keys
  PROVE  Cost(k) \in Nat
<1>1. Heavy[k.txid] \in Nat /\ Lean[k.txid] \in Nat
  BY KeyType, BitcoinAssumption
<1>2. Bytes(k) \in Nat
  BY <1>1 DEF Bytes
<1> QED BY <1>2 DEF Cost

(* The sums up to a length. *)
SumsUpTo(plan, f, m) ==
  /\ f \in [0..m -> Nat] /\ f[0] = 0
  /\ \A i \in 1..m : f[i] = f[i - 1] + Cost(plan[i])

(* There are sums up to every length. *)
LEMMA SumsExist ==
  ASSUME NEW plan \in Seq(Keys)
  PROVE  \E f : SumsUpTo(plan, f, Len(plan))
<1> DEFINE Bad == {m \in 0..Len(plan) : ~ \E f : SumsUpTo(plan, f, m)}
<1>1. SUFFICES ASSUME Bad # {} PROVE FALSE
  <2>1. Len(plan) \in 0..Len(plan)
    <3>1. Len(plan) \in Nat
      OBVIOUS
    <3> QED BY <3>1
  <2>2. Len(plan) \notin Bad => \E f : SumsUpTo(plan, f, Len(plan))
    BY <2>1
  <2> QED BY <2>2
<1>2. PICK m \in Bad : \A k \in Bad : m <= k
  <2>1. Bad \in SUBSET Nat
    OBVIOUS
  <2> HIDE DEF Bad
  <2> QED BY <1>1, <2>1, LeastNumber
<1>3. m # 0
  <2>1. SumsUpTo(plan, [i \in 0..0 |-> 0], 0)
    BY DEF SumsUpTo
  <2> QED BY <1>2, <2>1
<1>4. PICK f : SumsUpTo(plan, f, m - 1)
  <2>1. m - 1 \in 0..Len(plan) /\ ~ (m <= m - 1)
    BY <1>2, <1>3
  <2>2. m - 1 \notin Bad
    BY <1>2, <2>1
  <2> QED BY <2>1, <2>2
<1> DEFINE g == [i \in 0..m |-> IF i = m THEN f[m - 1] + Cost(plan[m]) ELSE f[i]]
<1>5. m \in 1..Len(plan) /\ plan[m] \in Keys
  BY <1>2, <1>3
<1>6. Cost(plan[m]) \in Nat
  BY <1>5, CostType
<1>7. f \in [0..(m - 1) -> Nat] /\ f[0] = 0 /\ \A i \in 1..(m - 1) : f[i] = f[i - 1] + Cost(plan[i])
  BY <1>4 DEF SumsUpTo
<1>8. g \in [0..m -> Nat] /\ g[0] = 0
  <2>1. \A i \in 0..m : i # m => i \in 0..(m - 1)
    BY <1>5
  <2> QED BY <1>5, <1>6, <1>7, <2>1
<1>9. ASSUME NEW i \in 1..m PROVE g[i] = g[i - 1] + Cost(plan[i])
  <2>1. i - 1 \in 0..m /\ i \in 0..m /\ i - 1 # m
    BY <1>5
  <2>2. g[i - 1] = f[i - 1]
    BY <2>1
  <2>3. CASE i = m
    BY <2>1, <2>2, <2>3
  <2>4. CASE i # m
    <3>1. i \in 1..(m - 1)
      BY <1>5, <2>4
    <3> QED BY <1>7, <2>1, <2>2, <2>4, <3>1
  <2> QED BY <2>3, <2>4
<1>10. SumsUpTo(plan, g, m)
  BY <1>8, <1>9 DEF SumsUpTo
<1> QED BY <1>2, <1>10

(* Spent is the sum of the costs (the running size of cut_page). *)
LEMMA SpentSums ==
  ASSUME NEW plan \in Seq(Keys)
  PROVE  SumsUpTo(plan, Spent(plan), Len(plan))
<1> DEFINE n == Len(plan)
           Is(f) == f = [i \in 0..n |-> IF i = 0 THEN 0 ELSE f[i - 1] + Cost(plan[i])]
           s == Spent(plan)
<1>1. PICK f : SumsUpTo(plan, f, n)
  BY SumsExist
<1>2. Is(f)
  <2>1. f \in [0..n -> Nat] /\ f[0] = 0 /\ \A i \in 1..n : f[i] = f[i - 1] + Cost(plan[i])
    BY <1>1 DEF SumsUpTo
  <2>2. \A i \in 0..n : i # 0 => i \in 1..n
    OBVIOUS
  <2> QED BY <2>1, <2>2
<1>3. Is(s)
  BY <1>2 DEF Spent
<1> HIDE DEF s
<1>4. \A i \in 0..n : s[i] = IF i = 0 THEN 0 ELSE s[i - 1] + Cost(plan[i])
  BY <1>3
<1>5. DOMAIN s = 0..n /\ s = [i \in 0..n |-> s[i]]
  BY <1>3
<1> DEFINE Bad == {m \in 0..n : s[m] \notin Nat}
<1>6. Bad = {}
  <2>1. SUFFICES ASSUME Bad # {} PROVE FALSE
    OBVIOUS
  <2>2. PICK m \in Bad : \A k \in Bad : m <= k
    <3>1. Bad \in SUBSET Nat
      OBVIOUS
    <3> HIDE DEF Bad
    <3> QED BY <2>1, <3>1, LeastNumber
  <2>3. m # 0
    BY <1>4, <2>2
  <2>4. m - 1 \in 0..n /\ m \in 1..n /\ plan[m] \in Keys
    BY <2>2, <2>3
  <2>5. s[m - 1] \in Nat
    BY <2>2, <2>4
  <2>6. Cost(plan[m]) \in Nat
    BY <2>4, CostType
  <2>7. s[m] = s[m - 1] + Cost(plan[m])
    BY <1>4, <2>3, <2>4
  <2> QED BY <2>2, <2>5, <2>6, <2>7
<1>7. s \in [0..n -> Nat] /\ s[0] = 0
  BY <1>4, <1>5, <1>6
<1>8. \A i \in 1..n : s[i] = s[i - 1] + Cost(plan[i])
  BY <1>4
<1> QED BY <1>7, <1>8 DEF SumsUpTo, s

-----------------------------------------------------------------------------
(***************************************************************************)
(* Cursors.                                                                 *)
(***************************************************************************)

(* What a cursor says: the confirmed mark, and how far the unconfirmed went. *)
Marks == [height : 0..MaxHeight, txid : {0} \union Txids, mempool : {0} \union Txids]

(* What is written is a cursor, and reads back as what it was (CrawlCursor's
   encode and parse). *)
LEMMA CursorText ==
  ASSUME NEW c \in Marks
  PROVE  Encode(c) \in WireCursors /\ Parse(Encode(c)) = c
<1>1. c = [height |-> c.height, txid |-> c.txid, mempool |-> c.mempool]
  BY DEF Marks
<1>2. c.height \in 0..MaxHeight /\ c.txid \in {0} \union Txids /\ c.mempool \in {0} \union Txids
  BY DEF Marks
<1>3. CASE c.mempool = 0
  <2>1. Encode(c) = <<c.height, c.txid>>
    BY <1>3 DEF Encode
  <2>2. Encode(c) \in (0 .. MaxHeight) \X ({0} \union Txids)
    BY <1>2, <2>1
  <2> QED BY <1>1, <1>3, <2>1, <2>2 DEF WireCursors, Parse
<1>4. CASE c.mempool # 0
  <2>1. Encode(c) = <<c.height, c.txid, c.mempool>>
    BY <1>4 DEF Encode
  <2>2. Encode(c) \in (0 .. MaxHeight) \X ({0} \union Txids) \X Txids
    BY <1>2, <1>4, <2>1
  <2> QED BY <1>1, <1>4, <2>1, <2>2 DEF WireCursors, Parse
<1> QED BY <1>3, <1>4

(* A page that parses is a mark. *)
LEMMA ParseType ==
  ASSUME NEW page \in WireCursors
  PROVE  Parse(page) \in Marks /\ page # None /\ From(page) = Parse(page)
<1>1. CASE page \in (0 .. MaxHeight) \X ({0} \union Txids)
  <2>1. PICK h \in 0 .. MaxHeight, t \in {0} \union Txids : page = <<h, t>>
    <3>1. page[1] \in 0 .. MaxHeight /\ page[2] \in {0} \union Txids /\ page = <<page[1], page[2]>>
      BY <1>1
    <3> QED BY <3>1
  <2>2. Parse(page) = [height |-> h, txid |-> t, mempool |-> 0]
    BY <2>1 DEF Parse
  <2> QED BY <2>2, SentinelAssumption DEF Marks, From, Pages
<1>2. CASE page \in (0 .. MaxHeight) \X ({0} \union Txids) \X Txids
  <2>1. PICK h \in 0 .. MaxHeight, t \in {0} \union Txids, m \in Txids : page = <<h, t, m>>
    <3>1. /\ page[1] \in 0 .. MaxHeight /\ page[2] \in {0} \union Txids /\ page[3] \in Txids
          /\ page = <<page[1], page[2], page[3]>>
      BY <1>2
    <3> QED BY <3>1
  <2>2. Parse(page) = [height |-> h, txid |-> t, mempool |-> m]
    BY <2>1 DEF Parse
  <2> QED BY <2>2, SentinelAssumption DEF Marks, From, Pages
<1> QED BY <1>1, <1>2 DEF WireCursors

(* A read starts at a mark. *)
LEMMA FromType ==
  ASSUME NEW page \in {None} \union WireCursors
  PROVE  From(page) \in Marks
<1>1. CASE page = None
  BY <1>1, BitcoinAssumption DEF From, Marks
<1> QED BY <1>1, ParseType

-----------------------------------------------------------------------------
(***************************************************************************)
(* Plans and pages.                                                         *)
(***************************************************************************)

(* Height zero is a place. *)
LEMMA PlaceType ==
  /\ 0 \in Places /\ Absent \in Places
  /\ \A p \in Places : p # Absent => p \in 0..MaxHeight
  /\ \A h \in 0..MaxHeight : h \in Places /\ h # Absent
<1>1. MaxHeight \in Nat /\ Absent \notin Nat
  BY BitcoinAssumption
<1> QED BY <1>1 DEF Places

(* The keys of a snapshot are finitely many, one for each transaction in it. *)
LEMMA SnapshotKeys ==
  ASSUME NEW txs \in Snapshots
  PROVE  /\ AllKeys(txs) \in SUBSET Keys /\ IsFiniteSet(AllKeys(txs))
         /\ \A k \in AllKeys(txs) : txs[k.txid] = k.height
         /\ \A t \in Txids : txs[t] # Absent => [height |-> txs[t], txid |-> t] \in AllKeys(txs)
<1> DEFINE T == {u \in Txids : txs[u] # Absent}
           f == [t \in T |-> [height |-> txs[t], txid |-> t]]
<1>1. \A t \in T : txs[t] \in 0..MaxHeight
  BY PlaceType DEF Snapshots
<1>2. IsFiniteSet(T)
  BY BitcoinAssumption, FS_Subset
<1>3. f \in Surjection(T, AllKeys(txs))
  BY DEF Surjection, AllKeys
<1>4. IsFiniteSet(AllKeys(txs))
  BY <1>2, <1>3, FS_Surjection
<1> QED BY <1>1, <1>4 DEF AllKeys, Keys

(* What is due of a snapshot. *)
LEMMA DueType ==
  ASSUME NEW txs \in Snapshots, NEW from
  PROVE  Due(txs, from) \in SUBSET Keys /\ IsFiniteSet(Due(txs, from))
<1>1. Due(txs, from) \in SUBSET AllKeys(txs)
  BY DEF Due
<1> QED BY <1>1, SnapshotKeys, FS_Subset

(* The marks of a snapshot's confirmed keys. *)
Floors == [height : 0..MaxHeight, txid : {0} \union Txids]

(* To be above is to have a greater height, or a greater txid at the same. *)
LEMMA AboveOrder ==
  /\ \A k, l \in Floors : ~Above(k, l) /\ ~Above(l, k) => k = l
  /\ \A k, l, m \in Floors : ~Above(k, l) /\ ~Above(l, m) => ~Above(k, m)
  /\ \A k, l \in Floors : Above(k, l) => ~Above(l, k)
  /\ \A k \in Floors : ~Above(k, k)
  /\ Keys \subseteq Floors
<1>1. \A k \in Floors : k.height \in Nat /\ k.txid \in Nat
  <2>1. MaxHeight \in Nat /\ \A t \in Txids : t \in Nat
    BY BitcoinAssumption
  <2> QED BY <2>1 DEF Floors
<1>2. \A k, l \in Floors : k.height = l.height /\ k.txid = l.txid => k = l
  BY DEF Floors
<1>3. Keys \subseteq Floors
  BY DEF Keys, Floors
<1> QED BY <1>1, <1>2, <1>3 DEF Above

(* A finite set of confirmed keys has a highest. *)
LEMMA HighestKey ==
  ASSUME NEW S \in SUBSET Keys, IsFiniteSet(S), S # {}, \A k \in S : Confirmed(k)
  PROVE  \E m \in S : \A k \in S : ~Above(k, m)
<1> DEFINE s == Sorted(S, KeyBefore)
<1>1. /\ s \in Seq(S) /\ Len(s) = Cardinality(S)
      /\ \A i, j \in 1..Len(s) : i < j => KeyBefore(s[i], s[j])
      /\ \A k \in S : \E i \in 1..Len(s) : s[i] = k
  BY SortedKeys
<1> HIDE DEF s
<1>2. Len(s) \in Nat /\ Len(s) # 0
  BY <1>1, FS_EmptySet
<1>3. s[Len(s)] \in S
  BY <1>1, <1>2
<1>4. ASSUME NEW k \in S PROVE ~Above(k, s[Len(s)])
  <2>1. PICK i \in 1..Len(s) : s[i] = k
    BY <1>1
  <2>2. k = s[Len(s)] \/ KeyBefore(k, s[Len(s)])
    BY <1>1, <1>2, <2>1
  <2>3. Confirmed(k) /\ Confirmed(s[Len(s)]) /\ k \in Keys /\ s[Len(s)] \in Keys
    BY <1>3
  <2> QED BY <2>2, <2>3, KeyType DEF Above, KeyBefore, Confirmed
<1> QED BY <1>3, <1>4

(* The mark a sync reaches is at or above where it started and every
   confirmed key of it (high_water, in plan). *)
LEMMA HighWaterMark ==
  ASSUME NEW txs \in Snapshots, NEW from \in Marks
  PROVE  /\ HighWater(txs, from) \in Floors
         /\ ~Above(from, HighWater(txs, from))
         /\ \A k \in AllKeys(txs) : Confirmed(k) => ~Above(k, HighWater(txs, from))
<1> DEFINE floor == [height |-> from.height, txid |-> from.txid]
           higher == {k \in AllKeys(txs) : Confirmed(k) /\ Above(k, floor)}
           hw == HighWater(txs, from)
<1>1. floor \in Floors /\ \A m : Above(from, m) <=> Above(floor, m)
  BY DEF Floors, Marks, Above
<1>2. higher \in SUBSET Keys /\ IsFiniteSet(higher)
  <2>1. higher \in SUBSET AllKeys(txs)
    OBVIOUS
  <2> QED BY <2>1, SnapshotKeys, FS_Subset
<1>3. CASE higher = {}
  <2>1. hw = floor
    BY <1>3 DEF HighWater
  <2> QED BY <1>1, <1>3, <2>1, AboveOrder
<1>4. CASE higher # {}
  <2>1. PICK m \in higher : \A l \in higher : ~Above(l, m)
    <3>1. \A k \in higher : Confirmed(k)
      OBVIOUS
    <3> HIDE DEF higher
    <3> QED BY <1>2, <1>4, <3>1, HighestKey
  <2>2. hw = CHOOSE k \in higher : \A l \in higher : ~Above(l, k)
    BY <1>4 DEF HighWater
  <2>3. hw \in higher /\ \A l \in higher : ~Above(l, hw)
    <3> HIDE DEF higher, hw
    <3> QED BY <2>1, <2>2
  <2>4. hw \in Floors /\ Above(hw, floor)
    BY <1>2, <2>3, AboveOrder
  <2>5. ~Above(floor, hw)
    BY <1>1, <2>4, AboveOrder
  <2>6. ASSUME NEW k \in AllKeys(txs), Confirmed(k) PROVE ~Above(k, hw)
    <3>1. k \in Floors
      BY SnapshotKeys, AboveOrder
    <3> HIDE DEF hw
    <3> QED BY <1>1, <2>3, <2>4, <2>5, <2>6, <3>1, AboveOrder
  <2> QED BY <1>1, <2>4, <2>5, <2>6
<1> QED BY <1>3, <1>4

(* A cursor after an item is a mark. *)
LEMMA CursorAfterType ==
  ASSUME NEW k \in Keys, NEW highWater \in Floors
  PROVE  CursorAfter(k, highWater) \in Marks
BY KeyType DEF CursorAfter, Marks, Floors

(* A plan is what is due, in order (plan). *)
LEMMA PlanSorts ==
  ASSUME NEW txs \in Snapshots, NEW from
  PROVE  /\ Plan(txs, from) \in Seq(Keys)
         /\ \A i, j \in 1..Len(Plan(txs, from)) :
              i < j => KeyBefore(Plan(txs, from)[i], Plan(txs, from)[j])
         /\ ToSet(Plan(txs, from)) = Due(txs, from)
<1> DEFINE S == Due(txs, from)
           s == Sorted(S, KeyBefore)
<1>1. S \in SUBSET Keys /\ IsFiniteSet(S)
  BY DueType
<1>2. /\ s \in Seq(S)
      /\ \A i, j \in 1..Len(s) : i < j => KeyBefore(s[i], s[j])
      /\ \A k \in S : \E i \in 1..Len(s) : s[i] = k
  <2> HIDE DEF S
  <2> QED BY <1>1, SortedKeys
<1>3. Plan(txs, from) = s
  BY DEF Plan
<1> HIDE DEF S, s
<1>4. s \in Seq(Keys)
  BY <1>1, <1>2
<1>5. ToSet(s) = S
  BY <1>2 DEF ToSet
<1> QED BY <1>2, <1>3, <1>4, <1>5 DEF S

(* What a page, or its entry, is when it is the first n of a plan. *)
IsEntry(entry, plan, from, highWater, n) ==
  LET front == {plan[i] : i \in 1..n}
  IN  /\ entry.observations = Sorted({k \in front : Deliverable(k)}, KeyBefore)
      /\ entry.degraded = {k \in front : ~Deliverable(k)}
      /\ entry.next = IF n = Len(plan) THEN None
                      ELSE Encode(IF entry.observations = <<>> THEN from
                                  ELSE CursorAfter(Last(entry.observations), highWater))

(* And paid for. *)
IsPage(page, plan, from, highWater, budget, n) ==
  /\ IsEntry(page, plan, from, highWater, n)
  /\ page.bytes \in Nat /\ page.bytes <= budget

(* A page is a front of the plan, paid for by the budget (cut_page). *)
LEMMA PageIsFront ==
  ASSUME NEW plan \in Seq(Keys), NEW from, NEW highWater, NEW budget \in Nat
  PROVE  \E n \in 0..Len(plan) :
           IsPage(CutPage(plan, from, highWater, budget), plan, from, highWater, budget, n)
<1> DEFINE used == Spent(plan)
           fits == {i \in DOMAIN used : used[i] =< budget}
<1>1. used \in [0..Len(plan) -> Nat] /\ used[0] = 0
  BY SpentSums DEF SumsUpTo
<1>2. Max(fits) \in fits
  <2>1. fits \in SUBSET (0..Len(plan)) /\ fits # {} /\ Len(plan) \in Nat
    <3>1. 0 \in fits
      BY <1>1
    <3> QED BY <1>1, <3>1
  <2> HIDE DEF fits
  <2>2. PICK m \in fits : \A k \in fits : k <= m
    BY <2>1, GreatestNumber
  <2>3. m \in fits /\ \A k \in fits : m >= k
    BY <2>1, <2>2
  <2> QED BY <2>3 DEF Max
<1> DEFINE n == Max(fits)
<1>3. n \in 0..Len(plan) /\ used[n] \in Nat /\ used[n] <= budget
  <2> HIDE DEF n
  <2> QED BY <1>1, <1>2 DEF n
<1>4. IsPage(CutPage(plan, from, highWater, budget), plan, from, highWater, budget, n)
  <2> DEFINE page == CutPage(plan, from, highWater, budget)
             front == {plan[i] : i \in 1..n}
             sent == Sorted({k \in front : Deliverable(k)}, KeyBefore)
  <2>1. page = [observations |-> sent, degraded |-> {k \in front : ~Deliverable(k)},
                bytes |-> used[n],
                next |-> IF n = Len(plan) THEN None
                         ELSE Encode(IF sent = <<>> THEN from
                                     ELSE CursorAfter(Last(sent), highWater))]
    BY DEF CutPage
  <2>2. page.bytes \in Nat /\ page.bytes <= budget
    <3> HIDE DEF sent, front, n, used, page
    <3> QED BY <1>3, <2>1
  <2> QED BY <2>1, <2>2 DEF IsPage, IsEntry
<1> QED BY <1>3, <1>4

(* A page goes into a reply. *)
LEMMA PageType ==
  ASSUME NEW plan \in Seq(Keys), NEW from \in Marks, NEW highWater \in Floors,
         NEW n \in 0..Len(plan), NEW page, IsEntry(page, plan, from, highWater, n)
  PROVE  /\ page.observations \in Seq(Keys) /\ page.degraded \in SUBSET Keys
         /\ page.next \in {None} \union WireCursors
         /\ ToSet(page.observations) = {k \in {plan[i] : i \in 1..n} : Deliverable(k)}
         /\ \A i, j \in 1..Len(page.observations) :
              i < j => KeyBefore(page.observations[i], page.observations[j])
         /\ page.observations # <<>> => Last(page.observations) \in ToSet(page.observations)
<1> DEFINE front == {plan[i] : i \in 1..n}
           good == {k \in front : Deliverable(k)}
           sent == page.observations
<1>1. front \in SUBSET Keys /\ IsFiniteSet(front)
  <2> DEFINE f == [i \in 1..n |-> plan[i]]
  <2>1. f \in Surjection(1..n, front)
    BY DEF Surjection
  <2>2. IsFiniteSet(1..n)
    BY FS_Interval
  <2>3. \A i \in 1..n : plan[i] \in Keys
    OBVIOUS
  <2> HIDE DEF f
  <2> QED BY <2>1, <2>2, <2>3, FS_Surjection
<1>2. good \in SUBSET Keys /\ IsFiniteSet(good)
  BY <1>1, FS_Subset
<1>3. sent = Sorted(good, KeyBefore)
  BY DEF IsEntry
<1>4. /\ sent \in Seq(good)
      /\ \A i, j \in 1..Len(sent) : i < j => KeyBefore(sent[i], sent[j])
      /\ \A k \in good : \E i \in 1..Len(sent) : sent[i] = k
  <2> HIDE DEF good, sent
  <2> QED BY <1>2, <1>3, SortedKeys
<1>5. ToSet(sent) = good /\ sent \in Seq(Keys)
  <2> HIDE DEF good, sent
  <2>1. sent \in Seq(Keys)
    BY <1>2, <1>4
  <2>2. \A i \in 1..Len(sent) : sent[i] \in good
    BY <1>4
  <2>3. ToSet(sent) = {sent[i] : i \in 1..Len(sent)}
    BY <2>1 DEF ToSet
  <2>4. good \subseteq ToSet(sent)
    BY <1>4, <2>3
  <2>5. ToSet(sent) \subseteq good
    BY <2>2, <2>3
  <2> QED BY <2>1, <2>4, <2>5
<1>6. sent # <<>> => Last(sent) \in good /\ Last(sent) \in Keys
  <2> HIDE DEF good, sent
  <2>1. sent # <<>> => Len(sent) \in 1..Len(sent)
    BY <1>4
  <2> QED BY <1>2, <1>4, <2>1 DEF Last
<1>7. page.next \in {None} \union WireCursors
  <2>1. sent # <<>> => CursorAfter(Last(sent), highWater) \in Marks
    BY <1>6, CursorAfterType
  <2>2. page.next = IF n = Len(plan) THEN None
                    ELSE Encode(IF sent = <<>> THEN from ELSE CursorAfter(Last(sent), highWater))
    BY DEF IsEntry
  <2> QED BY <2>1, <2>2, CursorText
<1>8. page.degraded \in SUBSET Keys
  BY <1>1 DEF IsEntry
<1> QED BY <1>4, <1>5, <1>6, <1>7, <1>8

-----------------------------------------------------------------------------
(***************************************************************************)
(* Types.                                                                   *)
(***************************************************************************)

(* A process at work has a query in hand; in the middle of a fetch it has an
   address to ask about, and of a history a page that is its own. *)
Working ==
  /\ at \in {"next", "fetch"} => request.queries # <<>>
  /\ at = "fetch" =>
       /\ fetch.todo # <<>> /\ Pageable
       /\ fetch.step \in {"chain", "mempool"} => request.op = "history"

Typed == TypeOK /\ Working

(* Nothing in hand, nothing read. *)
LEMMA NothingType ==
  NoRequest \in Requests /\ NoFetch \in Fetches /\ Idle \in Readers
<1>1. Absent \in Places
  BY PlaceType
<1>2. [r \in Resources |-> None] \in [Resources -> {None} \union Answers]
  OBVIOUS
<1>3. NoRequest \in Requests
  BY <1>2 DEF NoRequest, Requests
<1>4. NoFetch \in Fetches
  BY <1>1 DEF NoFetch, Fetches, Snapshots
<1>5. Idle \in Readers
  BY DEF Idle, Readers
<1> QED BY <1>3, <1>4, <1>5

(* An entry with nothing in it. *)
LEMMA StatusType ==
  ASSUME NEW outcome \in {"fetched", "stale", "rate_limited", "unavailable", "not_fetched"}
  PROVE  Status(outcome) \in Answers
BY DEF Status, Answers

(* The query in hand. *)
LEMMA QueryType ==
  ASSUME TypeOK, request.queries # <<>>
  PROVE  /\ Query \in [resource : Resources, page : {None} \union Pages]
         /\ Query.resource \in Resources /\ Query.page \in {None} \union Pages
         /\ wallets[Query.resource] \in Seq(Addresses)
<1>1. request.queries \in Seq([resource : Resources, page : {None} \union Pages])
  BY DEF TypeOK, Requests
<1>2. Query \in [resource : Resources, page : {None} \union Pages]
  <2> DEFINE Q == [resource : Resources, page : {None} \union Pages]
             q == request.queries
  <2>1. q \in Seq(Q) /\ q # <<>>
    BY <1>1
  <2> HIDE DEF Q, q
  <2>2. Head(q) \in Q
    BY <2>1, HeadAndTail
  <2> QED BY <2>2 DEF Query, Q, q
<1>3. wallets \in [Resources -> Seq(Addresses)]
  BY BitcoinAssumption DEF TypeOK
<1> QED BY <1>2, <1>3

(* The keys are finitely many, and so are the records an entry withholds. *)
LEMMA FinitelyManyKeys ==
  ASSUME NEW S \in SUBSET Keys
  PROVE  IsFiniteSet(S) /\ Cardinality(S) \in Nat
<1> DEFINE P == (0..MaxHeight) \X Txids
           f == [q \in P |-> [height |-> q[1], txid |-> q[2]]]
<1>1. IsFiniteSet(P)
  <2>1. IsFiniteSet(0..MaxHeight) /\ IsFiniteSet(Txids)
    BY BitcoinAssumption, FS_Interval
  <2> QED BY <2>1, FS_Product
<1>2. f \in Surjection(P, Keys)
  <2>1. f \in [P -> Keys]
    BY DEF Keys
  <2>2. ASSUME NEW k \in Keys PROVE \E q \in P : f[q] = k
    <3>1. /\ k.height \in 0..MaxHeight /\ k.txid \in Txids
          /\ k = [height |-> k.height, txid |-> k.txid]
      BY DEF Keys
    <3>2. <<k.height, k.txid>> \in P /\ f[<<k.height, k.txid>>] = k
      BY <3>1
    <3> HIDE DEF P, f
    <3> QED BY <3>2
  <2> HIDE DEF P, f
  <2> QED BY <2>1, <2>2 DEF Surjection
<1> HIDE DEF P, f
<1>3. IsFiniteSet(Keys)
  BY <1>1, <1>2, FS_Surjection
<1>4. IsFiniteSet(S)
  BY <1>3, FS_Subset
<1> QED BY <1>4, FS_CardinalityType

(* What a budget does not know of is so many bytes. *)
LEMMA UnchargedType ==
  ASSUME NEW entry \in Answers
  PROVE  /\ Cardinality(entry.degraded) \in Nat
         /\ ReportBytes * Cardinality(entry.degraded) \in Nat
         /\ Uncharged(entry) \in Nat
<1> DEFINE lines == IF request.op = "balances" /\ Known(Query.resource) THEN LineBytes ELSE 0
<1>1. entry.degraded \in SUBSET Keys
  BY DEF Answers
<1>2. Cardinality(entry.degraded) \in Nat
  BY <1>1, FinitelyManyKeys
<1>3. ReportBytes \in Nat /\ LineBytes \in Nat
  BY BitcoinAssumption
<1>4. lines \in Nat
  BY <1>3
<1>5. Uncharged(entry) = lines + ReportBytes * Cardinality(entry.degraded)
  BY DEF Uncharged
<1> HIDE DEF lines
<1>6. ReportBytes * Cardinality(entry.degraded) \in Nat
  <2> DEFINE n == Cardinality(entry.degraded)
  <2> HIDE DEF n
  <2>1. n \in Nat => ReportBytes * n \in Nat
    BY <1>3
  <2> QED BY <1>2, <2>1 DEF n
<1> QED BY <1>2, <1>4, <1>5, <1>6

(* To push the entry of a query is to have one query less. *)
LEMMA PushType ==
  ASSUME TypeOK, request.queries # <<>>, NEW entry \in Answers, NEW spent \in Nat,
         NEW extra \in Nat, NEW abandon \in BOOLEAN, Push(entry, spent, extra, abandon)
  PROVE  /\ request' \in Requests /\ fetch' = NoFetch /\ fetch' \in Fetches
         /\ at' \in {"next", "reply"}
         /\ at' = "next" => request'.queries # <<>>
<1>1. /\ request \in Requests /\ request.budget \in Nat /\ request.bytes \in Nat
      /\ request.answers \in [Resources -> {None} \union Answers]
      /\ request.abandoned \in BOOLEAN
      /\ request.queries \in Seq([resource : Resources, page : {None} \union Pages])
  BY DEF TypeOK, Requests
<1>2. Tail(request.queries) \in Seq([resource : Resources, page : {None} \union Pages])
  BY <1>1
<1>3. Monus(request.budget, spent + extra) \in Nat
  BY <1>1 DEF Monus
<1>4. request.bytes + spent + extra + Uncharged(entry) \in Nat
  BY <1>1, UnchargedType
<1>5. [request.answers EXCEPT ![Query.resource] = entry] \in [Resources -> {None} \union Answers]
  BY <1>1, QueryType
<1>6. request' = [request EXCEPT
       !.queries = Tail(request.queries),
       !.answers = [request.answers EXCEPT ![Query.resource] = entry],
       !.abandoned = request.abandoned \/ abandon,
       !.budget = Monus(request.budget, spent + extra),
       !.bytes = request.bytes + spent + extra + Uncharged(entry)]
  BY <1>1 DEF Push, Requests
<1>7. (request.abandoned \/ abandon) \in BOOLEAN
  OBVIOUS
<1>8. request' \in Requests
  BY <1>1, <1>2, <1>3, <1>4, <1>5, <1>6, <1>7 DEF Requests
<1>9. at' = "next" => Tail(request.queries) # <<>>
  <2>1. at' = "next" => Len(request.queries) # 1
    BY DEF Push
  <2> QED BY <1>1, <2>1, HeadAndTail
<1>10. request'.queries = Tail(request.queries)
  BY <1>1, <1>6 DEF Requests
<1> QED BY <1>8, <1>9, <1>10, NothingType DEF Push

(* A page served: a front of the plan of the snapshot, within the budget, and
   the snapshot kept unless it was the last (history_read). *)
LEMMA Served ==
  ASSUME TypeOK, request.queries # <<>>, Query.page \in {None} \union WireCursors,
         NEW txs \in Snapshots, Serve(txs)
  PROVE  LET from == From(Query.page)
             plan == Plan(txs, from)
         IN  \E n, page :
               /\ n \in 0..Len(plan)
               /\ IsPage(page, plan, from, HighWater(txs, from), request.budget, n)
               /\ [Status("fetched") EXCEPT !.observations = page.observations,
                                            !.degraded = page.degraded,
                                            !.next = page.next] \in Answers
               /\ Push([Status("fetched") EXCEPT !.observations = page.observations,
                                                 !.degraded = page.degraded,
                                                 !.next = page.next],
                       page.bytes, 0, FALSE)
               /\ crawls' = [crawls EXCEPT ![Query.resource] =
                               IF page.next = None THEN None ELSE txs]
<1> DEFINE from == From(Query.page)
           plan == Plan(txs, from)
           hw == HighWater(txs, from)
           share == IF request.budget < PageBudget THEN request.budget ELSE PageBudget
           page == CutPage(plan, from, hw, share)
           entry == [Status("fetched") EXCEPT !.observations = page.observations,
                                              !.degraded = page.degraded,
                                              !.next = page.next]
<1>1. from \in Marks /\ hw \in Floors /\ plan \in Seq(Keys)
  <2>1. from \in Marks
    BY FromType
  <2> HIDE DEF from
  <2> QED BY <2>1, HighWaterMark, PlanSorts
<1>2. share \in Nat /\ share <= request.budget /\ request.budget \in Nat
  <2>1. request.budget \in Nat /\ PageBudget \in Nat
    BY BitcoinAssumption DEF TypeOK, Requests
  <2> QED BY <2>1
<1>3. /\ Push(entry, page.bytes, 0, FALSE)
      /\ crawls' = [crawls EXCEPT ![Query.resource] = IF page.next = None THEN None ELSE txs]
  BY DEF Serve
<1> HIDE DEF from, plan, hw, share
<1>4. PICK n \in 0..Len(plan) : IsPage(page, plan, from, hw, share, n)
  BY <1>1, <1>2, PageIsFront
<1> HIDE DEF page
<1>5. IsPage(page, plan, from, hw, request.budget, n)
  <2>1. page.bytes \in Nat /\ page.bytes <= share
    BY <1>4 DEF IsPage
  <2>2. page.bytes <= request.budget
    BY <1>2, <2>1
  <2> QED BY <1>4, <2>1, <2>2 DEF IsPage
<1>6. /\ page.observations \in Seq(Keys) /\ page.degraded \in SUBSET Keys
      /\ page.next \in {None} \union WireCursors
  BY <1>1, <1>4, PageType DEF IsPage
<1>7. entry \in Answers
  <2>1. Status("fetched") \in Answers
    BY StatusType
  <2> QED BY <1>6, <2>1 DEF Answers
<1> QED BY <1>3, <1>5, <1>7 DEF from, plan, hw

(* What is served is well typed. *)
LEMMA ServeType ==
  ASSUME TypeOK, request.queries # <<>>, Query.page \in {None} \union WireCursors,
         NEW txs \in Snapshots, Serve(txs)
  PROVE  /\ request' \in Requests /\ fetch' \in Fetches /\ at' \in {"next", "reply"}
         /\ at' = "next" => request'.queries # <<>>
         /\ crawls' \in [Resources -> {None} \union Snapshots]
<1> DEFINE from == From(Query.page)
           plan == Plan(txs, from)
<1>1. PICK n, page :
               /\ n \in 0..Len(plan)
               /\ IsPage(page, plan, from, HighWater(txs, from), request.budget, n)
               /\ [Status("fetched") EXCEPT !.observations = page.observations,
                                            !.degraded = page.degraded,
                                            !.next = page.next] \in Answers
               /\ Push([Status("fetched") EXCEPT !.observations = page.observations,
                                                 !.degraded = page.degraded,
                                                 !.next = page.next],
                       page.bytes, 0, FALSE)
               /\ crawls' = [crawls EXCEPT ![Query.resource] =
                               IF page.next = None THEN None ELSE txs]
  BY Served
<1> HIDE DEF plan, from
<1>2. page.bytes \in Nat
  BY <1>1 DEF IsPage
<1>3. /\ request' \in Requests /\ fetch' \in Fetches /\ at' \in {"next", "reply"}
      /\ at' = "next" => request'.queries # <<>>
  <2>1. 0 \in Nat /\ FALSE \in BOOLEAN
    OBVIOUS
  <2> QED BY <1>1, <1>2, <2>1, PushType
<1>4. crawls \in [Resources -> {None} \union Snapshots]
  BY DEF TypeOK
<1> QED BY <1>1, <1>3, <1>4

(* An entry without observations is well typed. *)
LEMMA RefuseType ==
  ASSUME TypeOK, request.queries # <<>>, NEW status \in Statuses,
         Refuse(Classify(status), status)
  PROVE  /\ request' \in Requests /\ fetch' \in Fetches /\ at' \in {"next", "reply"}
         /\ at' = "next" => request'.queries # <<>>
<1>1. Classify(status) \in {"rate_limited", "unavailable"}
  BY DEF Classify
<1>2. Status(Classify(status)) \in Answers
  BY <1>1, StatusType
<1>3. Evidence[status] \in Nat /\ 0 \in Nat /\ (Classify(status) = "rate_limited") \in BOOLEAN
  BY BitcoinAssumption
<1> QED BY <1>2, <1>3, PushType DEF Refuse

(* A step that only pushes an entry keeps the types. *)
LEMMA PushedTyped ==
  ASSUME Typed, UNCHANGED <<place, wallets, host, duty, count>>,
         cache' \in [Resources -> {None, Damaged} \union CacheFiles],
         read' \subseteq Figures,
         crawls' \in [Resources -> {None} \union Snapshots],
         request' \in Requests, fetch' \in Fetches, at' \in {"next", "reply"},
         at' = "next" => request'.queries # <<>>
  PROVE  Typed'
BY DEF Typed, TypeOK, Working

(* Turns that need no provider. *)
LEMMA TurnTyped ==
  ASSUME Typed, Turn
  PROVE  Typed'
<1>1. CASE BadPage
  <2>1. request' \in Requests
    BY <1>1 DEF BadPage, Typed, TypeOK, Requests
  <2> QED BY <1>1, <2>1 DEF BadPage, Unread, Typed, TypeOK, Working
<1>2. CASE NotFetched
  <2>1. request.queries # <<>> /\ TypeOK
    BY <1>2 DEF NotFetched, Typed, Working
  <2>2. Status("not_fetched") \in Answers /\ 0 \in Nat /\ FALSE \in BOOLEAN
    BY StatusType
  <2>3. Push(Status("not_fetched"), 0, 0, FALSE)
    BY <1>2 DEF NotFetched
  <2>4. /\ request' \in Requests /\ fetch' \in Fetches /\ at' \in {"next", "reply"}
        /\ at' = "next" => request'.queries # <<>>
    BY <2>1, <2>2, <2>3, PushType
  <2>5. UNCHANGED <<place, wallets, crawls, cache, host, duty, read, count>>
    BY <1>2 DEF NotFetched, Unread
  <2> QED BY <2>4, <2>5 DEF Typed, TypeOK, Working
<1>3. CASE ContinueCrawl
  <2>1. request.queries # <<>> /\ TypeOK /\ request.op = "history" /\ Pageable
    BY <1>3 DEF ContinueCrawl, InHand, Typed, Working
  <2>2. Query.page \in {None} \union WireCursors
    BY <2>1 DEF Pageable, Parses
  <2>3. crawls[Query.resource] \in Snapshots
    <3>1. crawls \in [Resources -> {None} \union Snapshots] /\ Query.resource \in Resources
      BY <2>1, QueryType DEF TypeOK
    <3>2. crawls[Query.resource] # None
      BY <1>3 DEF ContinueCrawl, InHand
    <3> QED BY <3>1, <3>2
  <2>4. Serve(crawls[Query.resource])
    BY <1>3 DEF ContinueCrawl
  <2>5. /\ request' \in Requests /\ fetch' \in Fetches /\ at' \in {"next", "reply"}
        /\ at' = "next" => request'.queries # <<>>
        /\ crawls' \in [Resources -> {None} \union Snapshots]
    BY <2>1, <2>2, <2>3, <2>4, ServeType
  <2>6. UNCHANGED <<place, wallets, cache, host, duty, read, count>>
    BY <1>3 DEF ContinueCrawl, Unread
  <2> QED BY <2>5, <2>6 DEF Typed, TypeOK, Working
<1>4. CASE StartFetch
  <2>1. request.queries # <<>> /\ TypeOK /\ Pageable /\ Known(Query.resource)
    BY <1>4 DEF StartFetch, Typed, Working
  <2>2. wallets[Query.resource] \in Seq(Addresses) /\ wallets[Query.resource] # <<>>
    BY <2>1, QueryType DEF Known
  <2>3. fetch' = [NoFetch EXCEPT
       !.todo = wallets[Query.resource],
       !.step = IF request.op = "history" THEN "chain" ELSE "stats",
       !.listed = {t \in Txids : place[t] # Absent},
       !.settled = {t \in Txids : place[t] \notin {Absent, Pool}}]
    BY <1>4 DEF StartFetch
  <2>4. /\ fetch' \in Fetches /\ fetch'.todo # <<>>
        /\ fetch'.step \in {"chain", "mempool"} => request.op = "history"
    <3> DEFINE w == wallets[Query.resource]
               a == {t \in Txids : place[t] # Absent}
               b == {t \in Txids : place[t] \notin {Absent, Pool}}
    <3>1. w \in Seq(Addresses) /\ w # <<>> /\ a \in SUBSET Txids /\ b \in SUBSET Txids
      BY <2>2
    <3> HIDE DEF w, a, b
    <3>2. fetch' = [NoFetch EXCEPT
       !.todo = w, !.step = IF request.op = "history" THEN "chain" ELSE "stats",
       !.listed = a, !.settled = b]
      BY <2>3 DEF w, a, b
    <3> QED BY <3>1, <3>2, NothingType DEF Fetches
  <2>5. UNCHANGED <<place, wallets, crawls, cache, request, host, duty, read, count>> /\ at' = "fetch"
    BY <1>4 DEF StartFetch
  <2>6. Pageable'
    BY <2>1, <2>5 DEF Pageable, Query
  <2> QED BY <2>1, <2>4, <2>5, <2>6 DEF Typed, TypeOK, Working
<1> QED BY <1>1, <1>2, <1>3, <1>4 DEF Turn

(* A set of confirmed keys has a lowest. *)
LEMMA LowestKey ==
  ASSUME NEW S \in SUBSET Keys, S # {}, \A k \in S : Confirmed(k)
  PROVE  \E m \in S : \A k \in S : ~Above(m, k)
<1>1. PICK m \in S : \A k \in S \ {m} : KeyBefore(m, k)
  BY FirstKey
<1>2. ASSUME NEW k \in S PROVE ~Above(m, k)
  <2>1. k = m \/ KeyBefore(m, k)
    BY <1>1
  <2>2. m \in Keys /\ k \in Keys /\ Confirmed(m) /\ Confirmed(k)
    OBVIOUS
  <2> QED BY <2>1, <2>2, KeyType DEF KeyBefore, Above, Confirmed
<1> QED BY <1>2

(* A page of a listing is of confirmed keys at the provider; a full one has a
   lowest (Source::address_chain). *)
LEMMA ListingType ==
  ASSUME TypeOK, NEW a, NEW seen
  PROVE  /\ Chain(a) \in SUBSET Keys /\ IsFiniteSet(Chain(a))
         /\ ChainAfter(a, seen) \in SUBSET Chain(a) /\ IsFiniteSet(ChainAfter(a, seen))
         /\ \A k \in Chain(a) : Confirmed(k) /\ place[k.txid] = k.height
         /\ Full(ChainAfter(a, seen)) =>
              \E m \in ChainAfter(a, seen) : \A k \in ChainAfter(a, seen) : ~Above(m, k)
<1> DEFINE page == ChainAfter(a, seen)
<1>1. place \in Snapshots
  BY DEF TypeOK
<1>2. Chain(a) \in SUBSET AllKeys(place) /\ \A k \in Chain(a) : Confirmed(k)
  BY DEF Chain
<1>3. page \in SUBSET Chain(a)
  BY DEF ChainAfter
<1>4. IsFiniteSet(Chain(a)) /\ IsFiniteSet(page) /\ Chain(a) \in SUBSET Keys
  BY <1>1, <1>2, <1>3, SnapshotKeys, FS_Subset
<1>5. ASSUME Full(page) PROVE \E m \in page : \A k \in page : ~Above(m, k)
  <2> HIDE DEF page
  <2>1. Cardinality(page) # 0
    BY <1>5, BitcoinAssumption DEF Full
  <2>2. page # {}
    BY <2>1, FS_EmptySet
  <2>3. page \in SUBSET Keys /\ \A k \in page : Confirmed(k)
    BY <1>2, <1>3, <1>4
  <2> QED BY <2>2, <2>3, LowestKey
<1> QED BY <1>1, <1>2, <1>3, <1>4, <1>5, SnapshotKeys

(* A fetch in hand. *)
LEMMA FetchType ==
  ASSUME Typed, at = "fetch"
  PROVE  /\ TypeOK /\ request.queries # <<>> /\ fetch \in Fetches /\ request \in Requests
         /\ fetch.todo \in Seq(Addresses) /\ fetch.todo # <<>>
         /\ Head(fetch.todo) \in Addresses /\ Tail(fetch.todo) \in Seq(Addresses)
         /\ Len(fetch.todo) > 1 => Tail(fetch.todo) # <<>>
         /\ Query.resource \in Resources
         /\ request.op = "history" => Query.page \in {None} \union WireCursors
<1>1. /\ TypeOK /\ request.queries # <<>> /\ fetch.todo # <<>> /\ Pageable
      /\ fetch.todo \in Seq(Addresses) /\ fetch \in Fetches /\ request \in Requests
  BY DEF Typed, Working, TypeOK, Fetches
<1>2. /\ Head(fetch.todo) \in Addresses /\ Tail(fetch.todo) \in Seq(Addresses)
      /\ Len(fetch.todo) > 1 => Tail(fetch.todo) # <<>>
  <2> DEFINE todo == fetch.todo
  <2>1. todo \in Seq(Addresses) /\ todo # <<>>
    BY <1>1
  <2> HIDE DEF todo
  <2>2. /\ Head(todo) \in Addresses /\ Tail(todo) \in Seq(Addresses) /\ Len(todo) \in Nat
        /\ Len(todo) # 1 => Tail(todo) # <<>>
    BY <2>1, HeadAndTail
  <2>3. \A n \in Nat : n > 1 => n # 1
    OBVIOUS
  <2>4. Len(todo) > 1 => Len(todo) # 1
    BY <2>2, <2>3
  <2> QED BY <2>2, <2>4 DEF todo
<1>3. request.op = "history" => Query.page \in {None} \union WireCursors
  BY <1>1 DEF Pageable, Parses
<1>4. Query.resource \in Resources
  BY <1>1, QueryType
<1> QED BY <1>1, <1>2, <1>3, <1>4

(* Two pure steps of the process that push an entry of a refusal. *)
LEMMA RefuseTyped ==
  ASSUME Typed, at = "fetch", NEW status \in Statuses, Refuse(Classify(status), status),
         UNCHANGED crawls, Unread
  PROVE  Typed'
<1>1. TypeOK /\ request.queries # <<>>
  BY FetchType
<1>2. /\ request' \in Requests /\ fetch' \in Fetches /\ at' \in {"next", "reply"}
      /\ at' = "next" => request'.queries # <<>>
  BY <1>1, RefuseType
<1> QED BY <1>1, <1>2, PushedTyped DEF Unread, TypeOK

(* One page of a listing. *)
LEMMA AddressChainTyped ==
  ASSUME Typed, AddressChain
  PROVE  Typed'
<1>0. PICK mark \in GoesOnFrom(Head(fetch.todo), fetch.seen) :
        LET page == ChainAfter(Head(fetch.todo), mark)
        IN  fetch' = [fetch EXCEPT
              !.txs = [t \in Txids |-> IF \E k \in page : k.txid = t THEN place[t] ELSE @[t]],
              !.step = IF Full(page) THEN "chain" ELSE "mempool",
              !.seen = IF Full(page) THEN CHOOSE k \in page : \A l \in page : ~Above(k, l) ELSE None,
              !.shown = @ \union {k.txid : k \in page},
              !.adrift = @ \/ fetch.seen \notin {None} \union Chain(Head(fetch.todo))]
  BY DEF AddressChain
<1> DEFINE page == ChainAfter(Head(fetch.todo), mark)
           adrift == fetch.adrift \/ fetch.seen \notin {None} \union Chain(Head(fetch.todo))
           txs == [t \in Txids |-> IF \E k \in page : k.txid = t THEN place[t] ELSE fetch.txs[t]]
           lowest == CHOOSE k \in page : \A l \in page : ~Above(k, l)
           step == IF Full(page) THEN "chain" ELSE "mempool"
           seen == IF Full(page) THEN lowest ELSE None
           shown == fetch.shown \union {k.txid : k \in page}
<1>1. at = "fetch" /\ fetch.step = "chain"
  BY DEF AddressChain
<1>2. /\ TypeOK /\ fetch \in Fetches /\ fetch.todo # <<>> /\ request.op = "history" /\ Pageable
      /\ request.queries # <<>>
  BY <1>1, FetchType DEF Typed, Working
<1>3. page \in SUBSET Keys /\ (Full(page) => lowest \in page)
  <2>1. /\ page \in SUBSET Keys
        /\ Full(page) => \E m \in page : \A k \in page : ~Above(m, k)
    BY <1>2, ListingType
  <2> HIDE DEF page
  <2> QED BY <2>1
<1>4. txs \in Snapshots
  BY <1>2 DEF TypeOK, Fetches, Snapshots
<1>5. seen \in {None} \union Keys
  <2> HIDE DEF page, lowest
  <2> QED BY <1>3
<1>6. shown \in SUBSET Txids
  <2>1. \A k \in page : k.txid \in Txids
    BY <1>3, KeyType
  <2>2. fetch.shown \in SUBSET Txids
    BY <1>2 DEF Fetches
  <2> HIDE DEF page
  <2> QED BY <2>1, <2>2
<1>7. fetch' = [fetch EXCEPT !.txs = txs, !.step = step, !.seen = seen, !.shown = shown,
                             !.adrift = adrift]
  <2>1. fetch' = [fetch EXCEPT
              !.txs = [t \in Txids |-> IF \E k \in page : k.txid = t THEN place[t] ELSE @[t]],
              !.step = IF Full(page) THEN "chain" ELSE "mempool",
              !.seen = IF Full(page) THEN lowest ELSE None,
              !.shown = @ \union {k.txid : k \in page},
              !.adrift = @ \/ fetch.seen \notin {None} \union Chain(Head(fetch.todo))]
    BY <1>0
  <2> HIDE DEF page, lowest
  <2> QED BY <2>1
<1>8. step \in {"chain", "mempool"} /\ adrift \in BOOLEAN
  BY <1>2 DEF Fetches
<1> HIDE DEF page, txs, lowest, step, seen, shown, adrift
<1>9. fetch' \in Fetches /\ fetch'.todo = fetch.todo
  BY <1>2, <1>4, <1>5, <1>6, <1>7, <1>8 DEF Fetches
<1>10. UNCHANGED <<place, wallets, crawls, cache, at, request, host, duty, read, count>>
  BY DEF AddressChain
<1>11. Pageable'
  BY <1>2, <1>10 DEF Pageable, Query
<1> QED BY <1>1, <1>2, <1>9, <1>10, <1>11 DEF Typed, TypeOK, Working

(* The unconfirmed are added to a snapshot. *)
LEMMA PendingType ==
  ASSUME NEW txs \in Snapshots, NEW a
  PROVE  Pending(txs, a) \in Snapshots
BY PlaceType DEF Pending, Snapshots, Pool

(* The unconfirmed listing, and the page of a sync that ends with it. *)
LEMMA AddressMempoolTyped ==
  ASSUME Typed, AddressMempool
  PROVE  Typed'
<1> DEFINE txs == Pending(fetch.txs, Head(fetch.todo))
<1>1. at = "fetch" /\ fetch.step = "mempool"
  BY DEF AddressMempool
<1>2. /\ TypeOK /\ fetch \in Fetches /\ fetch.todo # <<>> /\ request.op = "history" /\ Pageable
      /\ request.queries # <<>>
  BY <1>1, FetchType DEF Typed, Working
<1>3. txs \in Snapshots
  BY <1>2, PendingType DEF Fetches
<1>4. UNCHANGED <<place, wallets, cache, host, duty, read, count>>
  BY DEF AddressMempool, Unread
<1>5. CASE Len(fetch.todo) > 1
  <2>1. /\ fetch' = [fetch EXCEPT !.todo = Tail(@), !.step = "chain", !.txs = txs]
        /\ UNCHANGED <<at, request, crawls>>
    BY <1>5 DEF AddressMempool
  <2>2. Tail(fetch.todo) \in Seq(Addresses) /\ Tail(fetch.todo) # <<>>
    BY <1>1, <1>5, FetchType
  <2> HIDE DEF txs
  <2>3. fetch' \in Fetches /\ fetch'.todo # <<>>
    BY <1>2, <1>3, <2>1, <2>2 DEF Fetches
  <2>4. Pageable'
    BY <1>2, <2>1 DEF Pageable, Query
  <2> QED BY <1>2, <1>4, <2>1, <2>3, <2>4 DEF Typed, TypeOK, Working
<1>6. CASE ~(Len(fetch.todo) > 1)
  <2>1. Serve(txs)
    BY <1>6 DEF AddressMempool
  <2>2. Query.page \in {None} \union WireCursors
    BY <1>1, <1>2, FetchType
  <2>3. /\ request' \in Requests /\ fetch' \in Fetches /\ at' \in {"next", "reply"}
        /\ at' = "next" => request'.queries # <<>>
        /\ crawls' \in [Resources -> {None} \union Snapshots]
    <3> HIDE DEF txs
    <3> QED BY <1>2, <1>3, <2>1, <2>2, ServeType
  <2> QED BY <1>2, <1>4, <2>3, PushedTyped DEF TypeOK
<1> QED BY <1>5, <1>6

(* What an address has, and what a wallet has. *)
LEMMA NetType ==
  ASSUME TypeOK, NEW a, NEW f \in Nat \X Nat
  PROVE  Plus(f, Net(a)) \in Nat \X Nat
<1>1. Cardinality(Chain(a)) \in Nat
  BY ListingType, FS_CardinalityType
<1>2. Cardinality(Mempool(a)) \in Nat
  <2>1. Mempool(a) \in SUBSET Txids
    BY DEF Mempool
  <2> QED BY <2>1, BitcoinAssumption, FS_Subset, FS_CardinalityType
<1>3. f[1] \in Nat /\ f[2] \in Nat
  OBVIOUS
<1>4. Net(a)[1] \in Nat /\ Net(a)[2] \in Nat
  BY <1>1, <1>2 DEF Net
<1> QED BY <1>3, <1>4 DEF Plus

(* The addresses of a wallet. *)
LEMMA WalletType ==
  ASSUME TypeOK, NEW r \in Resources
  PROVE  wallets[r] \in Seq(Addresses) /\ ToSet(wallets[r]) \in SUBSET Addresses
<1>1. wallets[r] \in Seq(Addresses)
  BY BitcoinAssumption DEF TypeOK
<1>2. ToSet(wallets[r]) \in SUBSET Addresses
  BY <1>1 DEF ToSet
<1> QED BY <1>1, <1>2

(* Counters of an address: the next one, or the answer and the file. *)
LEMMA AddressStatsTyped ==
  ASSUME Typed, NEW saved \in BOOLEAN, AddressStats(saved)
  PROVE  Typed'
<1> DEFINE figures == Plus(fetch.figures, Net(Head(fetch.todo)))
           r == Query.resource
           addresses == ToSet(wallets[r])
           entry == [Status("fetched") EXCEPT !.figures = figures]
<1>1. at = "fetch" /\ fetch.step = "stats" /\ request.op = "balances"
  BY DEF AddressStats
<1>2. /\ TypeOK /\ fetch \in Fetches /\ fetch.todo # <<>> /\ request \in Requests
      /\ request.queries # <<>> /\ r \in Resources
  BY <1>1, FetchType
<1>3. figures \in Nat \X Nat
  BY <1>2, NetType DEF Fetches
<1>4. UNCHANGED <<place, wallets, crawls, host, duty, count>>
  BY DEF AddressStats
<1> HIDE DEF figures, r
<1>5. CASE Len(fetch.todo) > 1
  <2>1. /\ fetch' = [fetch EXCEPT !.todo = Tail(@), !.figures = figures]
        /\ UNCHANGED <<at, request, cache, read>>
    BY <1>5 DEF AddressStats, figures
  <2>2. Tail(fetch.todo) \in Seq(Addresses) /\ Tail(fetch.todo) # <<>>
    BY <1>1, <1>5, FetchType
  <2>3. fetch' \in Fetches /\ fetch'.todo # <<>> /\ fetch'.step = "stats"
    BY <1>1, <1>2, <1>3, <2>1, <2>2 DEF Fetches
  <2>4. Pageable'
    BY <1>1, <2>1 DEF Pageable
  <2> QED BY <1>2, <1>4, <2>1, <2>3, <2>4 DEF Typed, TypeOK, Working
<1>6. CASE ~(Len(fetch.todo) > 1)
  <2>1. /\ Push(entry, 0, 0, FALSE)
        /\ cache' = SaveBalances(r, figures, saved)
        /\ read' = read \union {[resource |-> r, addresses |-> addresses,
                                asOf |-> request.now, figures |-> figures]}
    BY <1>6 DEF AddressStats, figures, r
  <2>2. entry \in Answers
    <3>1. Status("fetched") \in Answers /\ figures \in Counts \X Counts
      BY <1>3, StatusType DEF Counts
    <3> QED BY <3>1 DEF Answers
  <2> HIDE DEF entry
  <2>3. /\ request' \in Requests /\ fetch' \in Fetches /\ at' \in {"next", "reply"}
        /\ at' = "next" => request'.queries # <<>>
    <3>1. 0 \in Nat /\ FALSE \in BOOLEAN
      OBVIOUS
    <3> QED BY <1>2, <2>1, <2>2, <3>1, PushType
  <2>4. addresses \in SUBSET Addresses /\ request.now \in Nat
    BY <1>2, WalletType DEF Requests
  <2>5. cache' \in [Resources -> {None, Damaged} \union CacheFiles]
    <3>1. cache \in [Resources -> {None, Damaged} \union CacheFiles]
      BY <1>2 DEF TypeOK
    <3>2. [addresses |-> addresses, asOf |-> request.now, figures |-> figures] \in CacheFiles
      <4> HIDE DEF addresses
      <4>1. figures \in Counts \X Counts
        BY <1>3 DEF Counts
      <4> QED BY <2>4, <4>1 DEF CacheFiles
    <3>3. cache' = IF saved
                   THEN [cache EXCEPT ![r] = [addresses |-> addresses, asOf |-> request.now,
                                              figures |-> figures]]
                   ELSE cache
      BY <2>1 DEF SaveBalances
    <3> HIDE DEF addresses
    <3> QED BY <3>1, <3>2, <3>3
  <2>6. read' \subseteq Figures
    <3>1. read \subseteq Figures
      BY <1>2 DEF TypeOK
    <3> HIDE DEF addresses
    <3> QED BY <1>2, <1>3, <2>1, <2>4, <3>1 DEF Figures
  <2>7. crawls' \in [Resources -> {None} \union Snapshots]
    BY <1>2, <1>4 DEF TypeOK
  <2> QED BY <1>4, <2>3, <2>5, <2>6, <2>7, PushedTyped
<1> QED BY <1>5, <1>6

(* What is loaded of a file is a file. *)
LEMMA LoadType ==
  ASSUME TypeOK, NEW r \in Resources, Load(r) # None
  PROVE  /\ Load(r) = cache[r] /\ cache[r] \in CacheFiles /\ Decodes(r)
         /\ cache[r].addresses = ToSet(wallets[r])
BY DEF TypeOK, Load, Decodes

(* A failed read of balances: stale, or nothing. *)
LEMMA BalanceUnavailableTyped ==
  ASSUME Typed, NEW status \in Statuses, BalanceUnavailable(status)
  PROVE  Typed'
<1> DEFINE cached == Load(Query.resource)
<1>1. at = "fetch" /\ status # "http_429" /\ UNCHANGED crawls /\ Unread
  BY DEF BalanceUnavailable
<1>2. TypeOK /\ request.queries # <<>> /\ Query.resource \in Resources
  BY <1>1, FetchType
<1>3. CASE cached = None
  <2>1. Refuse(Classify(status), status)
    BY <1>1, <1>3 DEF BalanceUnavailable, Classify
  <2> QED BY <1>1, <2>1, RefuseTyped
<1>4. CASE cached # None
  <2>1. cached \in CacheFiles
    BY <1>2, <1>4, LoadType
  <2>2. Push([Status("stale") EXCEPT !.figures = cached.figures, !.asOf = cached.asOf],
             0, Evidence[status], FALSE)
    BY <1>4 DEF BalanceUnavailable
  <2> HIDE DEF cached
  <2>3. [Status("stale") EXCEPT !.figures = cached.figures, !.asOf = cached.asOf] \in Answers
    <3>1. Status("stale") \in Answers /\ cached.figures \in Counts \X Counts /\ cached.asOf \in Nat
      BY <2>1, StatusType DEF CacheFiles
    <3> QED BY <3>1 DEF Answers
  <2>4. 0 \in Nat /\ Evidence[status] \in Nat /\ FALSE \in BOOLEAN
    BY BitcoinAssumption
  <2>5. /\ request' \in Requests /\ fetch' \in Fetches /\ at' \in {"next", "reply"}
        /\ at' = "next" => request'.queries # <<>>
    BY <1>2, <2>2, <2>3, <2>4, PushType
  <2> QED BY <1>1, <1>2, <2>5, PushedTyped DEF Unread, TypeOK
<1> QED BY <1>3, <1>4

(* The steps of a fetch. *)
LEMMA FetchTyped ==
  ASSUME Typed, Fetch
  PROVE  Typed'
<1>1. CASE AddressChain
  BY <1>1, AddressChainTyped
<1>2. CASE PaginationStalled
  <2>1. Refuse("unavailable", "stuck") /\ at = "fetch" /\ UNCHANGED crawls /\ Unread
    BY <1>2 DEF PaginationStalled
  <2>2. "stuck" \in Statuses /\ Classify("stuck") = "unavailable"
    BY <1>2 DEF PaginationStalled, Classify
  <2> QED BY <2>1, <2>2, RefuseTyped
<1>3. CASE AddressMempool
  BY <1>3, AddressMempoolTyped
<1>4. CASE StatusRead
  <2>1. at = "fetch" /\ Push(Status("fetched"), 0, 0, FALSE) /\ UNCHANGED crawls /\ Unread
    BY <1>4 DEF StatusRead
  <2>2. TypeOK /\ request.queries # <<>>
    BY <2>1, FetchType
  <2>3. Status("fetched") \in Answers /\ 0 \in Nat /\ FALSE \in BOOLEAN
    BY StatusType
  <2>4. /\ request' \in Requests /\ fetch' \in Fetches /\ at' \in {"next", "reply"}
        /\ at' = "next" => request'.queries # <<>>
    BY <2>1, <2>2, <2>3, PushType
  <2> QED BY <2>1, <2>2, <2>4, PushedTyped DEF Unread, TypeOK
<1>5. CASE \E saved \in BOOLEAN : AddressStats(saved)
  BY <1>5, AddressStatsTyped
<1>6. CASE \E status \in Statuses : FetchFails(status)
  BY <1>6, RefuseTyped DEF FetchFails
<1>7. CASE \E status \in Statuses : BalanceUnavailable(status)
  BY <1>7, BalanceUnavailableTyped
<1> QED BY <1>1, <1>2, <1>3, <1>4, <1>5, <1>6, <1>7 DEF Fetch

-----------------------------------------------------------------------------
(* The sum and the difference of numbers. *)
LEMMA ReserveType ==
  ASSUME NEW n \in Nat
  PROVE  n * StatusBytes \in Nat /\ Reserve(n) \in Nat
<1>1. StatusBytes \in Nat /\ MaxFrame \in Nat
  BY BitcoinAssumption
<1>2. n * StatusBytes \in Nat
  BY <1>1
<1> QED BY <1>1, <1>2 DEF Reserve, Monus

(* A batch, or the same with a repetition (Batch, and what Asks makes of it). *)
LEMMA BatchType ==
  ASSUME NEW op
  PROVE  /\ Batch(op) \in Seq(Resources)
         /\ \A i, j \in 1..Len(Batch(op)) : Batch(op)[i] = Batch(op)[j] => i = j
         /\ Batch(op) # <<>> => <<Head(Batch(op))>> \o Batch(op) \in Seq(Resources)
         /\ op = "history" => \A r \in ToSet(Batch(op)) : host[r].asking
<1> DEFINE S == IF op = "history" THEN {r \in Resources : host[r].asking} ELSE Resources
           s == Sorted(S, Earlier)
<1>1. S \in SUBSET Resources
  OBVIOUS
<1>2. /\ s \in Seq(S)
      /\ \A i, j \in 1..Len(s) : s[i] = s[j] => i = j
  <2> HIDE DEF S
  <2> QED BY <1>1, SortedResources
<1>3. Batch(op) = s
  BY DEF Batch
<1> HIDE DEF s
<1>4. s \in Seq(Resources)
  <2> HIDE DEF S
  <2> QED BY <1>1, <1>2
<1>5. s # <<>> => <<Head(s)>> \o s \in Seq(Resources)
  <2> SUFFICES ASSUME s # <<>> PROVE <<Head(s)>> \o s \in Seq(Resources)
    OBVIOUS
  <2>1. Head(s) \in Resources
    BY <1>4, HeadAndTail
  <2> QED BY <1>4, <2>1
<1>6. ToSet(s) \subseteq S
  <2> HIDE DEF S
  <2> QED BY <1>2 DEF ToSet
<1> QED BY <1>2, <1>3, <1>4, <1>5, <1>6

(* A request asked. *)
LEMMA AskTyped ==
  ASSUME Typed, NEW op, NEW batch \in Seq(Resources), NEW now \in Nat, Ask(op, batch, now)
  PROVE  Typed'
<1> DEFINE queries == [i \in DOMAIN batch |-> [resource |-> batch[i], page |-> host[batch[i]].page]]
<1>1. TypeOK /\ op \in Operations /\ batch # <<>> /\ at = "idle"
  BY DEF Typed, TypeOK, Ask
<1>2. Len(batch) \in Nat /\ DOMAIN batch = 1..Len(batch) /\ Len(batch) # 0
  BY <1>1
<1>3. queries \in Seq([resource : Resources, page : {None} \union Pages]) /\ queries # <<>>
  <2>1. \A r \in Resources : host[r].page \in {None} \union Pages
    BY <1>1 DEF TypeOK, Readers
  <2>2. \A i \in 1..Len(batch) : batch[i] \in Resources
    OBVIOUS
  <2>3. queries \in [1..Len(batch) -> [resource : Resources, page : {None} \union Pages]]
    BY <1>2, <2>1, <2>2
  <2> DEFINE Q == [resource : Resources, page : {None} \union Pages]
  <2>4. queries \in Seq(Q)
    <3> HIDE DEF queries, Q
    <3>1. queries \in [1..Len(batch) -> Q] /\ Len(batch) \in Nat
      BY <1>2, <2>3 DEF Q
    <3> QED BY <3>1
  <2> HIDE DEF queries
  <2>5. Len(queries) = Len(batch)
    BY <1>2, <2>3
  <2> QED BY <1>2, <2>4, <2>5
<1>4. ToSet(batch) \in SUBSET Resources
  BY DEF ToSet
<1>5. Len(batch) * StatusBytes \in Nat /\ Reserve(Len(batch)) \in Nat
  BY <1>2, ReserveType
<1>6. NoRepeats(batch) \in BOOLEAN
  BY DEF NoRepeats
<1> DEFINE budget == IF op = "history" THEN Reserve(Len(batch)) ELSE 0
<1>7. request' = [NoRequest EXCEPT
       !.op = op, !.batch = ToSet(batch), !.now = now, !.queries = queries,
       !.budget = budget, !.bytes = Len(batch) * StatusBytes,
       !.failed = ~NoRepeats(batch)]
  BY DEF Ask
<1>11. budget \in Nat
  BY <1>5
<1>8. /\ at' = IF NoRepeats(batch) THEN "next" ELSE "reply"
      /\ count' = [count EXCEPT !.uses = IF op = "history" THEN @ ELSE @ + 1]
      /\ UNCHANGED <<place, wallets, crawls, cache, fetch, host, duty, read>>
  BY DEF Ask
<1> HIDE DEF queries, budget
<1>9. request' \in Requests /\ request'.queries = queries
  <2>1. NoRequest \in Requests
    BY NothingType
  <2> QED BY <1>1, <1>3, <1>4, <1>5, <1>6, <1>7, <1>11, <2>1 DEF Requests
<1>10. count' \in [uses : Nat, changes : Nat, faults : Nat]
  BY <1>1, <1>8 DEF TypeOK
<1> QED BY <1>1, <1>3, <1>8, <1>9, <1>10 DEF Typed, TypeOK, Working

(* What a host asks: of every resource, or of those whose crawl it follows. *)
LEMMA AsksBatch ==
  ASSUME Asks
  PROVE  \E op \in duty, batch \in Seq(Resources), now \in Nat :
           /\ Ask(op, batch, now)
           /\ op = "history" => \A r \in ToSet(batch) : host[r].asking
<1>1. PICK op \in duty :
        \E now \in IF op = "balances" THEN 1 .. MaxTime ELSE {0} :
          /\ Batch(op) # <<>>
          /\ Ask(op, Batch(op), now) \/ Ask(op, <<Head(Batch(op))>> \o Batch(op), now)
  BY DEF Asks
<1>2. PICK now \in Nat :
        /\ Batch(op) # <<>>
        /\ Ask(op, Batch(op), now) \/ Ask(op, <<Head(Batch(op))>> \o Batch(op), now)
  <2>1. (IF op = "balances" THEN 1 .. MaxTime ELSE {0}) \subseteq Nat
    BY BitcoinAssumption
  <2> QED BY <1>1, <2>1
<1> DEFINE s == Batch(op)
           t == <<Head(s)>> \o s
<1>3. /\ s \in Seq(Resources) /\ t \in Seq(Resources) /\ s # <<>>
      /\ op = "history" => \A r \in ToSet(s) : host[r].asking
  BY <1>2, BatchType
<1>4. ToSet(t) \subseteq ToSet(s)
  <2> HIDE DEF s
  <2>1. Len(s) \in Nat /\ Len(s) >= 1 /\ Head(s) = s[1]
    BY <1>3, HeadAndTail
  <2>2. ASSUME NEW x \in ToSet(t) PROVE x \in ToSet(s)
    <3>1. PICK i \in 1..Len(t) : t[i] = x
      <4> HIDE DEF t
      <4> QED BY <1>3, <2>2, SetOfSequence
    <3>2. Len(t) = Len(s) + 1 /\ t[1] = s[1] /\ \A j \in 1..Len(t) : j # 1 => t[j] = s[j - 1]
      BY <1>3, <2>1
    <3>3. CASE i = 1
      <4>1. 1 \in 1..Len(s) /\ x = s[1]
        BY <2>1, <3>1, <3>2, <3>3
      <4> QED BY <1>3, <4>1, SetOfSequence
    <3>4. CASE i # 1
      <4>1. i - 1 \in 1..Len(s) /\ x = s[i - 1]
        BY <2>1, <3>1, <3>2, <3>4
      <4> QED BY <1>3, <4>1, SetOfSequence
    <3> QED BY <3>3, <3>4
  <2> QED BY <2>2
<1> QED BY <1>2, <1>3, <1>4

(* The requests of a host. *)
LEMMA AsksTyped ==
  ASSUME Typed, Asks
  PROVE  Typed'
<1>1. PICK op \in duty, batch \in Seq(Resources), now \in Nat : Ask(op, batch, now)
  BY AsksBatch
<1> QED BY <1>1, AskTyped

(* What a host makes of an answer. *)
LEMMA FollowedType ==
  ASSUME NEW h \in Readers, NEW entry \in Answers
  PROVE  Followed(h, entry) \in Readers
<1>1. CASE entry.outcome # "fetched"
  BY <1>1 DEF Followed, Readers
<1>2. CASE entry.outcome = "fetched"
  <2>1. /\ entry.observations \in Seq(Keys) /\ entry.next \in {None} \union Pages
        /\ entry.degraded \in SUBSET Keys /\ h.got \in Seq(Keys) /\ h.told \in SUBSET Keys
    BY DEF Answers, Readers, Pages
  <2>2. h.got \o entry.observations \in Seq(Keys) /\ h.told \union entry.degraded \in SUBSET Keys
    BY <2>1
  <2> QED BY <1>2, <2>1, <2>2 DEF Followed, Readers
<1> QED BY <1>1, <1>2

-----------------------------------------------------------------------------
(* The queries left are of resources of the batch, each once, and exactly
   those have no answer yet; a reply has them all. *)
Asked ==
  at # "idle" /\ ~request.failed =>
    /\ at = "reply" => request.queries = <<>>
    /\ \A i, j \in 1..Len(request.queries) :
         request.queries[i].resource = request.queries[j].resource => i = j
    /\ \A i \in 1..Len(request.queries) : request.queries[i].resource \in request.batch
    /\ \A r \in request.batch :
         request.answers[r] = None <=>
           \E i \in 1..Len(request.queries) : request.queries[i].resource = r

(* An entry pushed answers the query in hand, and no other. *)
LEMMA PushAsked ==
  ASSUME TypeOK, Asked, at \in {"next", "fetch"}, request.queries # <<>>, NEW entry \in Answers,
         NEW spent, NEW extra, NEW abandon,
         Push(entry, spent, extra, abandon)
  PROVE  /\ request'.answers = [request.answers EXCEPT ![Query.resource] = entry]
         /\ request'.queries = Tail(request.queries)
         /\ request'.op = request.op /\ request'.batch = request.batch
         /\ request'.failed = request.failed /\ request'.lost = request.lost
         /\ request'.bytes = request.bytes + spent + extra + Uncharged(entry)
         /\ request'.budget = Monus(request.budget, spent + extra)
         /\ Asked'
<1> DEFINE q == request.queries
           a == request.answers
<1>1. /\ request \in Requests /\ a \in [Resources -> {None} \union Answers]
      /\ q \in Seq([resource : Resources, page : {None} \union Pages]) /\ q # <<>>
      /\ request.batch \in SUBSET Resources
  BY DEF TypeOK, Requests
<1>2. /\ request'.answers = [a EXCEPT ![Query.resource] = entry]
      /\ request'.queries = Tail(q)
      /\ request'.op = request.op /\ request'.batch = request.batch
      /\ request'.failed = request.failed /\ request'.lost = request.lost
      /\ request'.bytes = request.bytes + spent + extra + Uncharged(entry)
      /\ request'.budget = Monus(request.budget, spent + extra)
  BY <1>1 DEF Push, Requests
<1>3. at' = "reply" => Len(q) = 1
  BY DEF Push
<1>4. /\ Head(q) = q[1] /\ Len(q) \in Nat /\ Len(q) >= 1 /\ Len(Tail(q)) = Len(q) - 1
      /\ \A i \in 1..Len(Tail(q)) : Tail(q)[i] = q[i + 1]
      /\ Tail(q) \in Seq([resource : Resources, page : {None} \union Pages])
  <2> DEFINE Q == [resource : Resources, page : {None} \union Pages]
  <2> HIDE DEF q, Q
  <2> QED BY <1>1, HeadAndTail DEF Q
<1>5. ASSUME ~request.failed
      PROVE  /\ \A i, j \in 1..Len(q) : q[i].resource = q[j].resource => i = j
             /\ \A i \in 1..Len(q) : q[i].resource \in request.batch
             /\ \A r \in request.batch : a[r] = None <=> \E i \in 1..Len(q) : q[i].resource = r
  BY <1>5 DEF Asked
<1>6. Query.resource = q[1].resource /\ Query.resource \in Resources
  BY <1>4, QueryType DEF Query
<1>7. entry # None
  BY SentinelAssumption
<1> HIDE DEF q, a
<1>8. ASSUME ~request.failed
      PROVE  /\ \A i, j \in 1..Len(Tail(q)) : Tail(q)[i].resource = Tail(q)[j].resource => i = j
             /\ \A i \in 1..Len(Tail(q)) : Tail(q)[i].resource \in request.batch
             /\ \A r \in request.batch :
                  [a EXCEPT ![Query.resource] = entry][r] = None
                    <=> \E i \in 1..Len(Tail(q)) : Tail(q)[i].resource = r
  <2>1. \A i \in 1..Len(Tail(q)) : i + 1 \in 1..Len(q) /\ i + 1 # 1 /\ Tail(q)[i] = q[i + 1]
    BY <1>4
  <2>2. ASSUME NEW i \in 1..Len(Tail(q)), NEW j \in 1..Len(Tail(q)),
               Tail(q)[i].resource = Tail(q)[j].resource
        PROVE  i = j
    <3>1. i + 1 = j + 1
      BY <1>5, <1>8, <2>1, <2>2
    <3> QED BY <3>1
  <2>3. \A i \in 1..Len(Tail(q)) : Tail(q)[i].resource \in request.batch
    BY <1>5, <1>8, <2>1
  <2>4. ASSUME NEW r \in request.batch
        PROVE  [a EXCEPT ![Query.resource] = entry][r] = None
                 <=> \E i \in 1..Len(Tail(q)) : Tail(q)[i].resource = r
    <3>1. r \in Resources /\ 1 \in 1..Len(q)
      BY <1>1, <1>4
    <3>2. CASE r = Query.resource
      <4>1. [a EXCEPT ![Query.resource] = entry][r] = entry
        BY <1>1, <3>1, <3>2
      <4>2. \A i \in 1..Len(Tail(q)) : Tail(q)[i].resource # r
        BY <1>5, <1>6, <1>8, <2>1, <3>1, <3>2
      <4> QED BY <1>7, <4>1, <4>2
    <3>3. CASE r # Query.resource
      <4>1. [a EXCEPT ![Query.resource] = entry][r] = a[r]
        BY <1>1, <3>1, <3>3
      <4>2. ASSUME NEW i \in 1..Len(q), q[i].resource = r
            PROVE  \E j \in 1..Len(Tail(q)) : Tail(q)[j].resource = r
        <5>1. i # 1 /\ i - 1 \in 1..Len(Tail(q)) /\ (i - 1) + 1 = i
          BY <1>4, <1>6, <3>3, <4>2
        <5> QED BY <2>1, <4>2, <5>1
      <4>3. ASSUME NEW j \in 1..Len(Tail(q)), Tail(q)[j].resource = r
            PROVE  \E i \in 1..Len(q) : q[i].resource = r
        BY <2>1, <4>3
      <4> QED BY <1>5, <1>8, <3>1, <4>1, <4>2, <4>3
    <3> QED BY <3>2, <3>3
  <2> QED BY <2>2, <2>3, <2>4
<1>9. at' = "reply" => Tail(q) = <<>>
  BY <1>3, <1>4
<1>10. Asked'
  <2> SUFFICES ASSUME ~request'.failed
               PROVE  /\ at' = "reply" => request'.queries = <<>>
                      /\ \A i, j \in 1..Len(request'.queries) :
                           request'.queries[i].resource = request'.queries[j].resource => i = j
                      /\ \A i \in 1..Len(request'.queries) :
                           request'.queries[i].resource \in request'.batch
                      /\ \A r \in request'.batch :
                           request'.answers[r] = None <=>
                             \E i \in 1..Len(request'.queries) : request'.queries[i].resource = r
    BY DEF Asked
  <2> QED BY <1>2, <1>8, <1>9
<1> QED BY <1>2, <1>10 DEF q, a

(* What is said of the query in hand: an entry that costs no more than is left, with
   evidence of a failure only; a stale one is what the file says (the adapter's loops). *)
Says(entry, spent, extra) ==
  /\ spent <= request.budget
  /\ entry.outcome \in {"fetched", "not_fetched"} => extra = 0
  /\ entry.outcome = "stale" =>
       /\ Decodes(Query.resource)
       /\ cache[Query.resource].addresses = ToSet(wallets[Query.resource])
       /\ entry.asOf = cache[Query.resource].asOf
       /\ entry.figures = cache[Query.resource].figures

Answered ==
  \E entry \in Answers, spent \in Nat, extra \in Nat, abandon \in BOOLEAN :
    Says(entry, spent, extra) /\ Push(entry, spent, extra, abandon)

(* A page of observations is such an entry. *)
LEMMA ServeAnswers ==
  ASSUME TypeOK, request.queries # <<>>, Query.page \in {None} \union WireCursors,
         NEW txs \in Snapshots, Serve(txs)
  PROVE  Answered
<1> DEFINE from == From(Query.page)
           plan == Plan(txs, from)
<1>1. PICK n, page :
               /\ n \in 0..Len(plan)
               /\ IsPage(page, plan, from, HighWater(txs, from), request.budget, n)
               /\ [Status("fetched") EXCEPT !.observations = page.observations,
                                            !.degraded = page.degraded,
                                            !.next = page.next] \in Answers
               /\ Push([Status("fetched") EXCEPT !.observations = page.observations,
                                                 !.degraded = page.degraded,
                                                 !.next = page.next],
                       page.bytes, 0, FALSE)
  BY Served
<1> HIDE DEF plan, from
<1> DEFINE entry == [Status("fetched") EXCEPT !.observations = page.observations,
                                            !.degraded = page.degraded,
                                            !.next = page.next]
<1>2. page.bytes \in Nat /\ page.bytes <= request.budget
  BY <1>1 DEF IsPage
<1>3. entry.outcome = "fetched"
  BY DEF Status
<1>4. entry \in Answers /\ Push(entry, page.bytes, 0, FALSE)
  BY <1>1
<1> HIDE DEF entry
<1>5. Says(entry, page.bytes, 0)
  BY <1>2, <1>3 DEF Says
<1> QED BY <1>2, <1>4, <1>5 DEF Answered

(* An entry that costs nothing, of a read that did not fail. *)
LEMMA PlainAnswers ==
  ASSUME TypeOK, NEW entry \in Answers, entry.outcome \in {"fetched", "not_fetched"},
         Push(entry, 0, 0, FALSE)
  PROVE  Answered
<1>1. request.budget \in Nat
  BY DEF TypeOK, Requests
<1>2. 0 \in Nat /\ 0 <= request.budget /\ FALSE \in BOOLEAN
  BY <1>1
<1>3. Says(entry, 0, 0)
  BY <1>2 DEF Says
<1> QED BY <1>2, <1>3 DEF Answered

(* A refusal is such an entry. *)
LEMMA RefuseAnswers ==
  ASSUME TypeOK, NEW status \in Statuses, Refuse(Classify(status), status)
  PROVE  Answered
<1> DEFINE entry == Status(Classify(status))
<1>1. Classify(status) \in {"rate_limited", "unavailable"}
  BY DEF Classify
<1>2. entry \in Answers /\ entry.outcome \in {"rate_limited", "unavailable"}
  BY <1>1, StatusType DEF Status
<1>3. /\ 0 \in Nat /\ Evidence[status] \in Nat /\ (Classify(status) = "rate_limited") \in BOOLEAN
      /\ request.budget \in Nat
  BY BitcoinAssumption DEF TypeOK, Requests
<1>4. Push(entry, 0, Evidence[status], Classify(status) = "rate_limited")
  BY DEF Refuse
<1> HIDE DEF entry
<1>5. Says(entry, 0, Evidence[status])
  BY <1>2, <1>3 DEF Says
<1> QED BY <1>2, <1>3, <1>4, <1>5 DEF Answered

(* A step of the process leaves the request alone, or fails it, or answers the query
   in hand. *)
LEMMA ProcessAnswers ==
  ASSUME Typed, Turn \/ Fetch
  PROVE  /\ at \in {"next", "fetch"} /\ UNCHANGED <<place, wallets, host, duty, count>>
         /\ \/ UNCHANGED <<request, crawls, cache, read>> /\ at' = "fetch"
            \/ BadPage
            \/ Answered /\ request.queries # <<>>
<1>1. TypeOK /\ (request.queries # <<>> \/ at \notin {"next", "fetch"})
  BY DEF Typed, Working
<1>2. at \in {"next", "fetch"} /\ UNCHANGED <<place, wallets, host, duty, count>>
  BY DEF Turn, Fetch, BadPage, NotFetched, ContinueCrawl, StartFetch, AddressChain,
         PaginationStalled, AddressMempool, StatusRead, AddressStats, FetchFails,
         BalanceUnavailable, Unread
<1>3. TypeOK /\ request.queries # <<>>
  BY <1>1, <1>2
<1>4. CASE BadPage \/ StartFetch \/ AddressChain
  BY <1>2, <1>4 DEF StartFetch, AddressChain
<1>5. CASE NotFetched
  <2>1. Push(Status("not_fetched"), 0, 0, FALSE)
    BY <1>5 DEF NotFetched
  <2>2. Status("not_fetched") \in Answers /\ Status("not_fetched").outcome = "not_fetched"
    BY StatusType DEF Status
  <2> QED BY <1>2, <1>3, <2>1, <2>2, PlainAnswers
<1>6. CASE ContinueCrawl
  <2>1. crawls[Query.resource] \in Snapshots
    <3>1. crawls \in [Resources -> {None} \union Snapshots] /\ Query.resource \in Resources
      BY <1>3, QueryType DEF TypeOK
    <3>2. crawls[Query.resource] # None
      BY <1>6 DEF ContinueCrawl, InHand
    <3> QED BY <3>1, <3>2
  <2>2. Serve(crawls[Query.resource]) /\ Query.page \in {None} \union WireCursors
    BY <1>6 DEF ContinueCrawl, InHand, Pageable, Parses
  <2> QED BY <1>2, <1>3, <2>1, <2>2, ServeAnswers
<1>7. CASE PaginationStalled
  <2>1. Refuse(Classify("stuck"), "stuck") /\ "stuck" \in Statuses
    BY <1>7 DEF PaginationStalled, Classify
  <2> QED BY <1>2, <1>3, <2>1, RefuseAnswers
<1>8. CASE AddressMempool
  <2>1. CASE Len(fetch.todo) > 1
    BY <1>2, <1>8, <2>1 DEF AddressMempool, Unread
  <2>2. CASE ~(Len(fetch.todo) > 1)
    <3>1. Serve(Pending(fetch.txs, Head(fetch.todo)))
      BY <1>8, <2>2 DEF AddressMempool
    <3>2. Pending(fetch.txs, Head(fetch.todo)) \in Snapshots
      BY <1>3, PendingType DEF TypeOK, Fetches
    <3>3. Query.page \in {None} \union WireCursors
      BY <1>8, FetchType DEF AddressMempool, Typed, Working
    <3> QED BY <1>2, <1>3, <3>1, <3>2, <3>3, ServeAnswers
  <2> QED BY <2>1, <2>2
<1>9. CASE StatusRead
  <2>1. Push(Status("fetched"), 0, 0, FALSE)
    BY <1>9 DEF StatusRead
  <2>2. Status("fetched") \in Answers /\ Status("fetched").outcome = "fetched"
    BY StatusType DEF Status
  <2> QED BY <1>2, <1>3, <2>1, <2>2, PlainAnswers
<1>10. ASSUME NEW saved \in BOOLEAN, AddressStats(saved)
       PROVE  \/ UNCHANGED <<request, crawls, cache, read>> /\ at' = "fetch"
              \/ Answered /\ request.queries # <<>>
  <2> DEFINE figures == Plus(fetch.figures, Net(Head(fetch.todo)))
             entry == [Status("fetched") EXCEPT !.figures = figures]
  <2>1. CASE Len(fetch.todo) > 1
    BY <1>10, <2>1 DEF AddressStats
  <2>2. CASE ~(Len(fetch.todo) > 1)
    <3>1. Push(entry, 0, 0, FALSE)
      BY <1>10, <2>2 DEF AddressStats
    <3>2. figures \in Nat \X Nat
      BY <1>3, NetType DEF TypeOK, Fetches
    <3>3. entry \in Answers /\ entry.outcome = "fetched"
      <4>1. Status("fetched") \in Answers /\ figures \in Counts \X Counts
        BY <3>2, StatusType DEF Counts
      <4> HIDE DEF figures
      <4> QED BY <4>1 DEF Answers, Status
    <3> HIDE DEF entry
    <3> QED BY <1>3, <3>1, <3>3, PlainAnswers
  <2> QED BY <2>1, <2>2
<1>11. ASSUME NEW status \in Statuses, FetchFails(status)
       PROVE  Answered
  BY <1>3, <1>11, RefuseAnswers DEF FetchFails
<1>12. ASSUME NEW status \in Statuses, BalanceUnavailable(status)
       PROVE  Answered
  <2> DEFINE cached == Load(Query.resource)
             entry == [Status("stale") EXCEPT !.figures = cached.figures, !.asOf = cached.asOf]
  <2>1. CASE cached = None
    <3>1. Refuse(Classify(status), status)
      BY <1>12, <2>1 DEF BalanceUnavailable, Classify
    <3> QED BY <1>3, <3>1, RefuseAnswers
  <2>2. CASE cached # None
    <3>1. /\ cached = cache[Query.resource] /\ cached \in CacheFiles /\ Decodes(Query.resource)
          /\ cache[Query.resource].addresses = ToSet(wallets[Query.resource])
      BY <1>3, <2>2, QueryType, LoadType
    <3>2. Push(entry, 0, Evidence[status], FALSE)
      BY <1>12, <2>2 DEF BalanceUnavailable
    <3> HIDE DEF cached
    <3>3. /\ entry \in Answers /\ entry.outcome = "stale"
          /\ entry.figures = cached.figures /\ entry.asOf = cached.asOf
      <4>1. Status("stale") \in Answers /\ cached.figures \in Counts \X Counts /\ cached.asOf \in Nat
        BY <3>1, StatusType DEF CacheFiles
      <4> QED BY <4>1 DEF Answers, Status
    <3> HIDE DEF entry
    <3>4. 0 \in Nat /\ Evidence[status] \in Nat /\ FALSE \in BOOLEAN /\ 0 <= request.budget
      BY <1>3, BitcoinAssumption DEF TypeOK, Requests
    <3>5. Says(entry, 0, Evidence[status])
      BY <3>1, <3>3, <3>4 DEF Says
    <3> QED BY <3>2, <3>3, <3>4, <3>5 DEF Answered
  <2> QED BY <2>1, <2>2
<1> QED
  BY <1>2, <1>3, <1>4, <1>5, <1>6, <1>7, <1>8, <1>9, <1>10, <1>11, <1>12 DEF Turn, Fetch

(* A batch without a repetition names each resource once (no_repeats). *)
LEMMA NoRepeatsOnce ==
  ASSUME NEW S, NEW batch \in Seq(S), NoRepeats(batch)
  PROVE  \A i, j \in 1..Len(batch) : batch[i] = batch[j] => i = j
<1> DEFINE T == ToSet(batch)
<1>1. Len(batch) \in Nat /\ IsFiniteSet(1..Len(batch)) /\ Cardinality(1..Len(batch)) = Len(batch)
  <2>1. Len(batch) \in Nat
    OBVIOUS
  <2> QED BY <2>1, FS_Interval
<1>2. batch \in Surjection(1..Len(batch), T)
  BY DEF Surjection, ToSet
<1>3. Cardinality(T) = Cardinality(1..Len(batch))
  BY <1>1 DEF NoRepeats
<1>4. batch \in Injection(1..Len(batch), T)
  <2> HIDE DEF T
  <2> QED BY <1>1, <1>2, <1>3, FS_Surjection
<1> QED BY <1>4 DEF Injection, IsInjective

(* Every step keeps track of what is asked. *)
LEMMA AskedKept ==
  ASSUME Typed, Asked, Next
  PROVE  Asked'
<1>1. CASE Turn \/ Fetch
  <2>1. CASE UNCHANGED request /\ at' = "fetch"
    <3>1. at # "idle"
      BY <1>1, ProcessAnswers
    <3> QED BY <2>1, <3>1 DEF Asked
  <2>2. CASE BadPage
    <3>1. request'.failed
      BY <2>2 DEF BadPage, Typed, TypeOK, Requests
    <3> QED BY <3>1 DEF Asked
  <2>3. CASE Answered /\ request.queries # <<>>
    <3>1. at \in {"next", "fetch"} /\ TypeOK
      BY <1>1, ProcessAnswers DEF Typed
    <3> QED BY <2>3, <3>1, PushAsked DEF Answered
  <2> QED BY <1>1, <2>1, <2>2, <2>3, ProcessAnswers
<1>2. CASE WriteReply
  BY <1>2 DEF WriteReply, Asked
<1>3. CASE Timeout
  <2>1. /\ request'.queries = request.queries /\ request'.batch = request.batch
        /\ request'.failed = request.failed /\ request'.answers = request.answers
        /\ at' = at
    BY <1>3 DEF Timeout, Typed, TypeOK, Requests
  <2> QED BY <2>1 DEF Asked
<1>4. CASE \E r \in Resources : BeginCrawl(r)
  BY <1>4 DEF BeginCrawl, Asked
<1>5. CASE Environment
  <2>1. CASE \E definition \in Definitions : Restart(definition)
    BY <2>1 DEF Restart, Asked
  <2>2. CASE UNCHANGED <<at, request>>
    BY <2>2 DEF Asked
  <2> QED BY <1>5, <2>1, <2>2 DEF Environment, Broadcast, Evict, Mine, Reorg, Moved, Damage
<1>6. ASSUME NEW op, NEW batch \in Seq(Resources), NEW now, Ask(op, batch, now)
      PROVE  Asked'
  <2> DEFINE queries == [i \in DOMAIN batch |-> [resource |-> batch[i], page |-> host[batch[i]].page]]
  <2>1. /\ request'.queries = queries /\ request'.batch = ToSet(batch)
        /\ request'.failed = ~NoRepeats(batch)
        /\ request'.answers = [r \in Resources |-> None]
        /\ at' = IF NoRepeats(batch) THEN "next" ELSE "reply"
    BY <1>6 DEF Ask, NoRequest
  <2>2. Len(queries) = Len(batch) /\ \A i \in 1..Len(batch) : queries[i].resource = batch[i]
    OBVIOUS
  <2>3. ToSet(batch) \subseteq Resources /\ ToSet(batch) = {batch[i] : i \in 1..Len(batch)}
    BY DEF ToSet
  <2> HIDE DEF queries
  <2>4. ASSUME NoRepeats(batch)
        PROVE  \A i, j \in 1..Len(batch) : batch[i] = batch[j] => i = j
    BY <2>4, NoRepeatsOnce
  <2> SUFFICES ASSUME ~request'.failed
               PROVE  /\ at' = "reply" => request'.queries = <<>>
                      /\ \A i, j \in 1..Len(request'.queries) :
                           request'.queries[i].resource = request'.queries[j].resource => i = j
                      /\ \A i \in 1..Len(request'.queries) :
                           request'.queries[i].resource \in request'.batch
                      /\ \A r \in request'.batch :
                           request'.answers[r] = None <=>
                             \E i \in 1..Len(request'.queries) : request'.queries[i].resource = r
    BY DEF Asked
  <2>5. NoRepeats(batch) /\ at' = "next"
    BY <2>1
  <2>6. \A i, j \in 1..Len(queries) : queries[i].resource = queries[j].resource => i = j
    BY <2>2, <2>4, <2>5
  <2>7. \A i \in 1..Len(queries) : queries[i].resource \in ToSet(batch)
    BY <2>2, <2>3
  <2>8. \A r \in ToSet(batch) : \E i \in 1..Len(queries) : queries[i].resource = r
    BY <2>2, <2>3
  <2>9. \A r \in ToSet(batch) : [x \in Resources |-> None][r] = None
    BY <2>3
  <2>10. at' # "reply"
    BY <2>5
  <2>11. /\ \A r \in request'.batch : request'.answers[r] = None
         /\ \A r \in request'.batch :
              \E i \in 1..Len(request'.queries) : request'.queries[i].resource = r
    BY <2>1, <2>8, <2>9
  <2>12. /\ \A i, j \in 1..Len(request'.queries) :
              request'.queries[i].resource = request'.queries[j].resource => i = j
         /\ \A i \in 1..Len(request'.queries) :
              request'.queries[i].resource \in request'.batch
    BY <2>1, <2>6, <2>7
  <2> QED BY <2>10, <2>11, <2>12
<1>7. CASE Asks
  BY <1>6, <1>7, AsksBatch
<1> QED BY <1>1, <1>2, <1>3, <1>4, <1>5, <1>7 DEF Next, Process

(* The host's own steps. *)
LEMMA BeginCrawlTyped ==
  ASSUME Typed, NEW r \in Resources, BeginCrawl(r)
  PROVE  Typed'
<1>1. TypeOK /\ host[r] \in Readers /\ host \in [Resources -> Readers]
  BY DEF Typed, TypeOK
<1>2. [Idle EXCEPT !.asking = TRUE] \in Readers
  BY NothingType DEF Readers
<1>3. \A c \in ForeignCursors : [Idle EXCEPT !.asking = TRUE, !.page = c] \in Readers
  BY NothingType DEF Readers, Pages
<1>4. [host EXCEPT ![r].asking = TRUE] \in [Resources -> Readers]
  BY <1>1 DEF Readers
<1>5. host' \in [Resources -> Readers]
  BY <1>1, <1>2, <1>3, <1>4 DEF BeginCrawl
<1>6. count' \in [uses : Nat, changes : Nat, faults : Nat]
  <2>1. count \in [uses : Nat, changes : Nat, faults : Nat]
    BY <1>1 DEF TypeOK
  <2>2. count' = [count EXCEPT !.uses = @ + 1]
    BY DEF BeginCrawl
  <2> QED BY <2>1, <2>2
<1> QED BY <1>1, <1>5, <1>6 DEF BeginCrawl, Typed, TypeOK, Working

(* A deadline that passes. *)
LEMMA TimeoutTyped ==
  ASSUME Typed, Timeout
  PROVE  Typed'
<1>1. TypeOK /\ host \in [Resources -> Readers] /\ request \in Requests
  BY DEF Typed, TypeOK
<1>2. \A r \in Resources : [host[r] EXCEPT !.asking = FALSE] \in Readers
  BY <1>1 DEF Readers
<1>3. host' \in [Resources -> Readers]
  BY <1>1, <1>2 DEF Timeout
<1>4. request' \in Requests /\ request'.queries = request.queries /\ request'.op = request.op
  BY <1>1 DEF Timeout, Requests
<1>5. count' \in [uses : Nat, changes : Nat, faults : Nat]
  BY <1>1 DEF Timeout, TypeOK
<1>6. Pageable => Pageable'
  BY <1>4 DEF Pageable, Query
<1> QED BY <1>1, <1>3, <1>4, <1>5, <1>6 DEF Timeout, Typed, TypeOK, Working

(* A reply: its hosts follow it. *)
LEMMA WriteReplyTyped ==
  ASSUME Typed, Asked, WriteReply
  PROVE  Typed'
<1>1. TypeOK /\ host \in [Resources -> Readers] /\ request \in Requests
  BY DEF Typed, TypeOK
<1>2. ASSUME NEW r \in Resources, r \in request.batch, ~request.failed
      PROVE  Followed(host[r], request.answers[r]) \in Readers
  <2>1. request.answers[r] \in {None} \union Answers
    BY <1>1 DEF Requests
  <2>2. request.answers[r] # None
    BY <1>2 DEF Asked, WriteReply
  <2> QED BY <1>1, <2>1, <2>2, FollowedType
<1>3. \A r \in Resources : [host[r] EXCEPT !.asking = FALSE] \in Readers
  BY <1>1 DEF Readers
<1>4. host' \in [Resources -> Readers]
  BY <1>1, <1>2, <1>3 DEF WriteReply
<1>5. request' \in Requests
  BY NothingType DEF WriteReply
<1> QED BY <1>1, <1>4, <1>5 DEF WriteReply, Typed, TypeOK, Working

(* The world around the process. *)
LEMMA MovedTyped ==
  ASSUME Typed, NEW p \in Snapshots, Moved(p)
  PROVE  Typed'
<1> DEFINE listed == {t \in fetch.listed : p[t] # Absent}
           settled == {t \in fetch.settled : p[t] = place[t]}
<1>1. TypeOK /\ fetch \in Fetches
  BY DEF Typed, TypeOK
<1>2. listed \in SUBSET Txids /\ settled \in SUBSET Txids
  BY <1>1 DEF Fetches
<1>3. fetch' = [fetch EXCEPT !.listed = listed, !.settled = settled]
  BY DEF Moved
<1> HIDE DEF listed, settled
<1>4. fetch' \in Fetches /\ fetch'.todo = fetch.todo /\ fetch'.step = fetch.step
  BY <1>1, <1>2, <1>3 DEF Fetches
<1>5. count' \in [uses : Nat, changes : Nat, faults : Nat]
  BY <1>1 DEF Moved, TypeOK
<1>6. Pageable => Pageable'
  BY DEF Moved, Pageable, Query
<1> QED BY <1>1, <1>4, <1>5, <1>6 DEF Moved, Typed, TypeOK, Working

(* A file that is damaged decodes no more, or is as it was but for a figure. *)
LEMMA FileDamaged ==
  ASSUME TypeOK, NEW r \in Resources, Damage(r)
  PROVE  \/ cache' = [cache EXCEPT ![r] = Damaged]
         \/ /\ cache[r] \in CacheFiles
            /\ \E file \in CacheFiles :
                 /\ cache' = [cache EXCEPT ![r] = file]
                 /\ file.addresses = cache[r].addresses /\ file.asOf = cache[r].asOf
                 /\ \A i \in {1, 2} : file.figures[i] \in {None, cache[r].figures[i]}
<1>1. cache[r] \in CacheFiles
  BY DEF Damage, TypeOK
<1>2. ASSUME NEW i \in {1, 2}, cache' = [cache EXCEPT ![r].figures[i] = None]
      PROVE  \E file \in CacheFiles :
               /\ cache' = [cache EXCEPT ![r] = file]
               /\ file.addresses = cache[r].addresses /\ file.asOf = cache[r].asOf
               /\ \A j \in {1, 2} : file.figures[j] \in {None, cache[r].figures[j]}
  <2> DEFINE figures == [cache[r].figures EXCEPT ![i] = None]
             file == [cache[r] EXCEPT !.figures = figures]
  <2>1. cache[r].figures \in Counts \X Counts /\ None \in Counts
    BY <1>1 DEF CacheFiles, Counts
  <2>2. figures \in Counts \X Counts
    BY <2>1
  <2>3. \A j \in {1, 2} : figures[j] \in {None, cache[r].figures[j]}
    BY <2>1
  <2> HIDE DEF figures
  <2>4. file \in CacheFiles /\ file.figures = figures
        /\ file.addresses = cache[r].addresses /\ file.asOf = cache[r].asOf
    BY <1>1, <2>2 DEF CacheFiles
  <2>5. cache' = [cache EXCEPT ![r] = file]
    BY <1>2 DEF figures
  <2> HIDE DEF file
  <2> QED BY <2>3, <2>4, <2>5
<1> QED BY <1>1, <1>2 DEF Damage

(* The world around the process. *)
LEMMA EnvironmentTyped ==
  ASSUME Typed, Environment
  PROVE  Typed'
<1>1. TypeOK /\ place \in Snapshots
  BY DEF Typed, TypeOK
<1>2. MaxHeight \in Nat
  BY BitcoinAssumption
<1>3. ASSUME NEW t \in Txids, Broadcast(t) \/ Evict(t) PROVE Typed'
  <2>1. [place EXCEPT ![t] = Pool] \in Snapshots /\ [place EXCEPT ![t] = Absent] \in Snapshots
    BY <1>1, PlaceType DEF Snapshots, Pool
  <2> QED BY <1>3, <2>1, MovedTyped DEF Broadcast, Evict
<1>4. ASSUME NEW S \in SUBSET Txids, NEW h \in 1 .. MaxHeight, Mine(S, h) PROVE Typed'
  <2>1. h \in Places
    BY <1>2, PlaceType
  <2>2. [t \in Txids |-> IF t \in S THEN h ELSE place[t]] \in Snapshots
    BY <1>1, <2>1 DEF Snapshots
  <2> QED BY <1>4, <2>2, MovedTyped DEF Mine
<1>5. ASSUME NEW h \in 1 .. MaxHeight, Reorg(h) PROVE Typed'
  <2>1. [t \in Txids |-> IF place[t] = h THEN Pool ELSE place[t]] \in Snapshots
    BY <1>1, PlaceType DEF Snapshots, Pool
  <2> QED BY <1>5, <2>1, MovedTyped DEF Reorg
<1>6. ASSUME NEW definition \in Definitions, Restart(definition) PROVE Typed'
  <2>1. host \in [Resources -> Readers]
    BY <1>1 DEF TypeOK
  <2>2. \A r \in Resources : [host[r] EXCEPT !.asking = FALSE] \in Readers
    BY <2>1 DEF Readers
  <2>3. host' \in [Resources -> Readers]
    BY <1>6, <2>2 DEF Restart
  <2>4. crawls' \in [Resources -> {None} \union Snapshots]
    BY <1>6 DEF Restart
  <2>5. count' \in [uses : Nat, changes : Nat, faults : Nat]
    BY <1>1, <1>6 DEF Restart, TypeOK
  <2> QED BY <1>1, <1>6, <2>3, <2>4, <2>5, NothingType DEF Restart, Typed, TypeOK, Working
<1>7. ASSUME NEW r \in Resources, Damage(r) PROVE Typed'
  <2>1. cache' \in [Resources -> {None, Damaged} \union CacheFiles]
    <3>1. cache \in [Resources -> {None, Damaged} \union CacheFiles]
      BY <1>1 DEF TypeOK
    <3> QED BY <1>1, <1>7, <3>1, FileDamaged
  <2>2. count' \in [uses : Nat, changes : Nat, faults : Nat]
    BY <1>1, <1>7 DEF Damage, TypeOK
  <2>3. Pageable => Pageable'
    BY <1>7 DEF Damage, Pageable, Query
  <2> QED BY <1>1, <1>7, <2>1, <2>2, <2>3 DEF Damage, Typed, TypeOK, Working
<1> QED BY <1>3, <1>4, <1>5, <1>6, <1>7 DEF Environment

(* The inductive invariant: the types, a process that knows what it is doing,
   and an answer to come for each resource of the request. *)
THEOREM SpecTyped == Spec => [](Typed /\ Asked)
<1>1. Init => Typed /\ Asked
  <2> SUFFICES ASSUME Init PROVE Typed /\ Asked
    OBVIOUS
  <2>1. /\ place \in Snapshots /\ wallets \in Definitions /\ duty \subseteq Operations
    BY BitcoinAssumption DEF Init
  <2>2. /\ request \in Requests /\ fetch \in Fetches /\ host \in [Resources -> Readers]
    BY NothingType DEF Init
  <2> QED BY <2>1, <2>2 DEF Init, Typed, TypeOK, Working, Asked
<1>2. Typed /\ Asked /\ [Next]_vars => (Typed /\ Asked)'
  <2> SUFFICES ASSUME Typed, Asked, [Next]_vars PROVE (Typed /\ Asked)'
    OBVIOUS
  <2>1. CASE UNCHANGED vars
    <3>1. Pageable => Pageable'
      BY <2>1 DEF vars, Pageable, Query
    <3> QED BY <2>1, <3>1 DEF vars, Typed, TypeOK, Working, Asked
  <2>2. CASE Next
    <3>1. Asked'
      BY <2>2, AskedKept
    <3>2. Typed'
      BY <2>2, TurnTyped, FetchTyped, WriteReplyTyped, TimeoutTyped, BeginCrawlTyped, AsksTyped,
         EnvironmentTyped DEF Next, Process
    <3> QED BY <3>1, <3>2
  <2> QED BY <2>1, <2>2
<1> QED BY <1>1, <1>2, PTL DEF Spec

(* Every variable has its type, whatever the provider, the host and the wallet
   file do (TypeOK). *)
THEOREM SpecTypeOK == Spec => []TypeOK
<1>1. Typed => TypeOK
  BY DEF Typed
<1> QED BY <1>1, SpecTyped, PTL

-----------------------------------------------------------------------------
(***************************************************************************)
(* A stale balance was read.                                                *)
(***************************************************************************)

(* Figures that were read, but for those that are not known any more. *)
WasRead(r, addresses, asOf, figures) ==
  \E f \in read :
    /\ f.resource = r /\ f.addresses = addresses /\ f.asOf = asOf
    /\ \A i \in {1, 2} : figures[i] \in {None, f.figures[i]}

(* What a file says was read. *)
FilesWereRead ==
  \A r \in Resources :
    Decodes(r) => WasRead(r, cache[r].addresses, cache[r].asOf, cache[r].figures)

StaleInv == FilesWereRead /\ StaleWasRead

(* A file is written of the balances just read, or damaged. *)
LEMMA FilesKept ==
  ASSUME TypeOK, FilesWereRead, [Next]_vars
  PROVE  FilesWereRead' /\ read \subseteq read'
<1>1. CASE UNCHANGED <<cache, read>>
  BY <1>1 DEF FilesWereRead, Decodes, WasRead
<1>2. ASSUME NEW saved \in BOOLEAN, AddressStats(saved), ~UNCHANGED <<cache, read>>
      PROVE  FilesWereRead' /\ read \subseteq read'
  <2> DEFINE figures == Plus(fetch.figures, Net(Head(fetch.todo)))
             r == Query.resource
             addresses == ToSet(wallets[r])
             now == request.now
             file == [addresses |-> addresses, asOf |-> now, figures |-> figures]
  <2>1. /\ cache' = SaveBalances(r, figures, saved)
        /\ read' = read \union {[resource |-> r, addresses |-> addresses,
                                asOf |-> now, figures |-> figures]}
    BY <1>2 DEF AddressStats
  <2>2. cache' = cache \/ cache' = [cache EXCEPT ![r] = file]
    BY <2>1 DEF SaveBalances
  <2>3. cache \in [Resources -> {None, Damaged} \union CacheFiles]
    BY DEF TypeOK
  <2> HIDE DEF figures, r, addresses, now
  <2>4. ASSUME NEW q \in Resources, Decodes(q)'
        PROVE  WasRead(q, cache[q].addresses, cache[q].asOf, cache[q].figures)'
    <3>1. CASE cache'[q] = cache[q]
      <4>1. WasRead(q, cache[q].addresses, cache[q].asOf, cache[q].figures)
        BY <2>4, <3>1 DEF FilesWereRead, Decodes
      <4> QED BY <2>1, <3>1, <4>1 DEF WasRead
    <3>2. CASE cache'[q] # cache[q]
      <4>1. q = r /\ cache'[q] = file
        BY <2>2, <2>3, <3>2
      <4>2. [resource |-> r, addresses |-> addresses, asOf |-> now, figures |-> figures] \in read'
        BY <2>1
      <4> QED BY <4>1, <4>2 DEF WasRead
    <3> QED BY <3>1, <3>2
  <2> QED BY <2>1, <2>4 DEF FilesWereRead
<1>3. ASSUME NEW r \in Resources, Damage(r)
      PROVE  FilesWereRead' /\ read \subseteq read'
  <2>1. read' = read
    BY <1>3 DEF Damage
  <2>2. cache \in [Resources -> {None, Damaged} \union CacheFiles]
    BY DEF TypeOK
  <2>3. ASSUME NEW q \in Resources, Decodes(q)'
        PROVE  WasRead(q, cache[q].addresses, cache[q].asOf, cache[q].figures)'
    <3>1. CASE cache'[q] = cache[q]
      <4>1. WasRead(q, cache[q].addresses, cache[q].asOf, cache[q].figures)
        BY <2>3, <3>1 DEF FilesWereRead, Decodes
      <4> QED BY <2>1, <3>1, <4>1 DEF WasRead
    <3>2. CASE cache'[q] # cache[q]
      <4>1. /\ q = r /\ cache[q] \in CacheFiles /\ cache'[q].addresses = cache[q].addresses
            /\ cache'[q].asOf = cache[q].asOf
            /\ \A i \in {1, 2} : cache'[q].figures[i] \in {None, cache[q].figures[i]}
        BY <1>3, <2>2, <2>3, <3>2, FileDamaged DEF Decodes
      <4>2. Decodes(q)
        BY <4>1, SentinelAssumption DEF Decodes
      <4>3. WasRead(q, cache[q].addresses, cache[q].asOf, cache[q].figures)
        BY <4>2 DEF FilesWereRead
      <4> QED BY <2>1, <4>1, <4>3 DEF WasRead
    <3> QED BY <3>1, <3>2
  <2> QED BY <2>1, <2>3 DEF FilesWereRead
<1>4. CASE Process
  <2>1. CASE \E saved \in BOOLEAN : AddressStats(saved)
    BY <1>1, <1>2, <2>1
  <2>2. CASE UNCHANGED <<cache, read>>
    BY <1>1, <2>2
  <2> QED
    BY <1>4, <2>1, <2>2
    DEF Process, Turn, Fetch, WriteReply, BadPage, NotFetched, ContinueCrawl, StartFetch,
        AddressChain, PaginationStalled, AddressMempool, StatusRead, FetchFails,
        BalanceUnavailable, Unread
<1>5. CASE Environment
  BY <1>1, <1>3, <1>5 DEF Environment, Broadcast, Evict, Mine, Reorg, Moved, Restart
<1>6. CASE (\E r \in Resources : BeginCrawl(r)) \/ Asks \/ Timeout \/ UNCHANGED vars
  BY <1>1, <1>6 DEF BeginCrawl, Asks, Ask, Timeout, vars
<1> QED BY <1>4, <1>5, <1>6 DEF Next

(* What a request's stale answers say. *)
StaleSays(r) ==
  request.answers[r] # None /\ request.answers[r].outcome = "stale" =>
    WasRead(r, ToSet(wallets[r]), request.answers[r].asOf, request.answers[r].figures)

(* Every step keeps it. *)
LEMMA StaleKept ==
  ASSUME Typed, Asked, StaleInv, [Next]_vars
  PROVE  StaleInv'
<1>1. FilesWereRead' /\ read \subseteq read' /\ TypeOK /\ FilesWereRead /\ request \in Requests
  BY FilesKept DEF StaleInv, Typed, TypeOK
<1>2. SUFFICES ASSUME request'.op = "balances", NEW r \in request'.batch
               PROVE  StaleSays(r)'
  BY <1>1 DEF StaleInv, StaleWasRead, StaleSays, WasRead
<1>3. request.op = "balances" => \A q \in request.batch : StaleSays(q)
  BY DEF StaleInv, StaleWasRead, StaleSays, WasRead
<1>4. CASE /\ request'.op = request.op /\ request'.batch = request.batch
           /\ request'.answers = request.answers /\ wallets' = wallets
  BY <1>1, <1>2, <1>3, <1>4 DEF StaleSays, WasRead
<1>5. CASE request' = NoRequest
  BY <1>2, <1>5 DEF NoRequest
<1>6. CASE Turn \/ Fetch
  <2>1. CASE BadPage
    <3>1. /\ request'.op = request.op /\ request'.batch = request.batch
          /\ request'.answers = request.answers /\ wallets' = wallets
      BY <1>1, <2>1 DEF BadPage, Unread, Requests
    <3> QED BY <1>4, <3>1
  <2>2. CASE Answered /\ request.queries # <<>>
    <3>1. PICK entry \in Answers, spent \in Nat, extra \in Nat, abandon \in BOOLEAN :
            Says(entry, spent, extra) /\ Push(entry, spent, extra, abandon)
      BY <2>2 DEF Answered
    <3>2. /\ at \in {"next", "fetch"} /\ wallets' = wallets
      BY <1>6, ProcessAnswers
    <3>3. /\ request'.answers = [request.answers EXCEPT ![Query.resource] = entry]
          /\ request'.op = request.op /\ request'.batch = request.batch
      BY <1>1, <2>2, <3>1, <3>2, PushAsked
    <3>4. /\ request.answers \in [Resources -> {None} \union Answers]
          /\ r \in Resources /\ Query.resource \in Resources
      BY <1>1, <2>2, <3>3, QueryType DEF Requests
    <3>5. CASE r # Query.resource
      <4>1. request'.answers[r] = request.answers[r]
        BY <3>3, <3>4, <3>5
      <4>2. StaleSays(r)
        BY <1>2, <1>3, <3>3
      <4> QED BY <1>1, <3>2, <4>1, <4>2 DEF StaleSays, WasRead
    <3>6. CASE r = Query.resource
      <4>1. request'.answers[r] = entry
        BY <3>3, <3>4, <3>6
      <4>2. entry.outcome = "stale" => WasRead(r, ToSet(wallets[r]), entry.asOf, entry.figures)
        <5> SUFFICES ASSUME entry.outcome = "stale"
                     PROVE  WasRead(r, ToSet(wallets[r]), entry.asOf, entry.figures)
          OBVIOUS
        <5>1. /\ Decodes(r) /\ cache[r].addresses = ToSet(wallets[r])
              /\ entry.asOf = cache[r].asOf /\ entry.figures = cache[r].figures
          BY <3>1, <3>6 DEF Says
        <5>2. WasRead(r, cache[r].addresses, cache[r].asOf, cache[r].figures)
          BY <1>1, <3>4, <5>1 DEF FilesWereRead
        <5> QED BY <5>1, <5>2
      <4> QED BY <1>1, <3>2, <4>1, <4>2 DEF StaleSays, WasRead
    <3> QED BY <3>5, <3>6
  <2> QED BY <1>4, <1>6, <2>1, <2>2, ProcessAnswers
<1>7. CASE WriteReply
  BY <1>5, <1>7 DEF WriteReply
<1>8. CASE Timeout
  <2>1. /\ request'.op = request.op /\ request'.batch = request.batch
        /\ request'.answers = request.answers /\ wallets' = wallets
    BY <1>1, <1>8 DEF Timeout, Requests
  <2> QED BY <1>4, <2>1
<1>9. CASE Asks
  <2>1. request'.answers = [q \in Resources |-> None] /\ request'.batch \subseteq Resources
    <3>1. PICK op \in duty, batch \in Seq(Resources), now \in Nat : Ask(op, batch, now)
      BY <1>9, AsksBatch
    <3>2. ToSet(batch) \subseteq Resources
      BY DEF ToSet
    <3> QED BY <3>1, <3>2 DEF Ask, NoRequest
  <2> QED BY <1>2, <2>1 DEF StaleSays
<1>10. CASE Environment
  <2>1. CASE \E definition \in Definitions : Restart(definition)
    BY <1>5, <2>1 DEF Restart
  <2>2. CASE UNCHANGED <<request, wallets>>
    BY <1>4, <2>2
  <2> QED BY <1>10, <2>1, <2>2 DEF Environment, Broadcast, Evict, Mine, Reorg, Moved, Damage
<1>11. CASE (\E q \in Resources : BeginCrawl(q)) \/ UNCHANGED vars
  BY <1>4, <1>11 DEF BeginCrawl, vars
<1> QED BY <1>6, <1>7, <1>8, <1>9, <1>10, <1>11 DEF Next, Process

(* A stale answer is a true statement about money, for every wallet file, every
   order of reads and failures, and whatever becomes of the file (StaleWasRead). *)
THEOREM SpecStaleWasRead == Spec => []StaleWasRead
<1>1. Init => StaleInv
  BY DEF Init, StaleInv, FilesWereRead, StaleWasRead, Decodes, NoRequest
<1>2. Typed /\ Asked /\ StaleInv /\ [Next]_vars => StaleInv'
  BY StaleKept
<1>3. StaleInv => StaleWasRead
  BY DEF StaleInv
<1> QED BY <1>1, <1>2, <1>3, SpecTyped, PTL DEF Spec

-----------------------------------------------------------------------------
(***************************************************************************)
(* A reply fits its frame.                                                  *)
(***************************************************************************)

(* What is reported and was charged to no budget. *)
Reported == ReportBytes * Cardinality(Withheld)

(* As long as every read of a history happened, what is written and what may still be
   fit the frame but for what is reported; or the entries alone do not, and nothing
   else is admitted. *)
WithinFrame ==
  /\ at # "idle" /\ request.op = "history" /\ ~request.failed
  /\ \A r \in request.batch :
       request.answers[r] # None => request.answers[r].outcome \in {"fetched", "not_fetched"}
  => \/ request.bytes + request.budget <= MaxFrame + Reported
     \/ /\ request.budget = 0
        /\ request.bytes = Cardinality(request.batch) * StatusBytes + Reported

(* The records a reply names are finitely many. *)
LEMMA FinitelyManyWithheld ==
  ASSUME TypeOK
  PROVE  IsFiniteSet(Withheld) /\ Cardinality(Withheld) \in Nat /\ Reported \in Nat
<1>1. /\ request.batch \in SUBSET Resources
      /\ request.answers \in [Resources -> {None} \union Answers]
  BY DEF TypeOK, Requests
<1>2. \A r \in request.batch : request.answers[r] # None => request.answers[r].degraded \in SUBSET Keys
  BY <1>1 DEF Answers
<1>3. Withheld \in SUBSET (Resources \X Keys)
  BY <1>1, <1>2 DEF Withheld
<1>4. IsFiniteSet(Resources \X Keys)
  <2>1. IsFiniteSet(Resources) /\ IsFiniteSet(Keys)
    BY BitcoinAssumption, FinitelyManyKeys
  <2> QED BY <2>1, FS_Product
<1>5. IsFiniteSet(Withheld)
  BY <1>3, <1>4, FS_Subset
<1>6. Cardinality(Withheld) \in Nat
  BY <1>5, FS_CardinalityType
<1>7. Reported \in Nat
  <2> DEFINE n == Cardinality(Withheld)
  <2>1. n \in Nat /\ ReportBytes \in Nat
    BY <1>6, BitcoinAssumption
  <2> HIDE DEF n
  <2>2. ReportBytes * n \in Nat
    BY <2>1
  <2> QED BY <2>2 DEF Reported, n
<1> QED BY <1>5, <1>6, <1>7

(* The entries of a batch are so many bytes. *)
LEMMA EntriesType ==
  ASSUME TypeOK
  PROVE  Cardinality(request.batch) * StatusBytes \in Nat
<1> DEFINE n == Cardinality(request.batch)
<1>1. IsFiniteSet(request.batch)
  BY BitcoinAssumption, FS_Subset DEF TypeOK, Requests
<1>2. n \in Nat /\ StatusBytes \in Nat
  BY <1>1, FS_CardinalityType, BitcoinAssumption
<1> HIDE DEF n
<1>3. n * StatusBytes \in Nat
  BY <1>2
<1> QED BY <1>3 DEF n

(* An entry adds what it withholds to what the others do, and so the bytes of a
   history's entry that no budget knows are those of what is newly reported. *)
LEMMA ReportedGrows ==
  ASSUME TypeOK, TypeOK', NEW r \in request.batch, NEW entry \in Answers, request.op = "history",
         request.answers[r] = None, request'.batch = request.batch,
         request'.answers = [request.answers EXCEPT ![r] = entry]
  PROVE  Reported' = Reported + Uncharged(entry)
<1> DEFINE D == entry.degraded
           W == {r} \X D
<1>1. /\ request.batch \in SUBSET Resources
      /\ request.answers \in [Resources -> {None} \union Answers] /\ r \in Resources
  BY DEF TypeOK, Requests
<1>2. D \in SUBSET Keys /\ entry # None
  BY SentinelAssumption DEF Answers
<1>3. IsFiniteSet(D) /\ Cardinality(D) \in Nat
  BY <1>2, FinitelyManyKeys
<1>4. IsFiniteSet(W) /\ Cardinality(W) = Cardinality(D)
  <2>1. IsFiniteSet({r}) /\ Cardinality({r}) = 1
    BY FS_Singleton
  <2>2. IsFiniteSet(W) /\ Cardinality(W) = Cardinality({r}) * Cardinality(D)
    <3> HIDE DEF D
    <3> QED BY <1>3, <2>1, FS_Product
  <2> DEFINE n == Cardinality(D)
             w == Cardinality(W)
  <2>3. n \in Nat /\ w = 1 * n
    BY <1>3, <2>1, <2>2
  <2> HIDE DEF n, w
  <2>4. w = n
    BY <2>3
  <2> QED BY <2>2, <2>4 DEF n, w
<1>5. Withheld' = Withheld \union W
  <2>1. \A q \in request.batch : request'.answers[q] = IF q = r THEN entry ELSE request.answers[q]
    BY <1>1
  <2>2. Withheld' = UNION {{q} \X request'.answers[q].degraded :
                             q \in {p \in request.batch : request'.answers[p] # None}}
    BY DEF Withheld
  <2>3. ASSUME NEW x \in Withheld' PROVE x \in Withheld \union W
    <3>1. PICK q \in request.batch : request'.answers[q] # None /\ x \in {q} \X request'.answers[q].degraded
      BY <2>2, <2>3
    <3>2. CASE q = r
      BY <2>1, <3>1, <3>2
    <3>3. CASE q # r
      BY <2>1, <3>1, <3>3 DEF Withheld
    <3> QED BY <3>2, <3>3
  <2>4. ASSUME NEW x \in Withheld PROVE x \in Withheld'
    <3>1. PICK q \in request.batch : request.answers[q] # None /\ x \in {q} \X request.answers[q].degraded
      BY <2>4 DEF Withheld
    <3>2. q # r
      BY <3>1
    <3> QED BY <2>1, <2>2, <3>1, <3>2
  <2>5. ASSUME NEW x \in W PROVE x \in Withheld'
    <3>1. request'.answers[r] = entry
      BY <2>1
    <3> QED BY <1>2, <2>2, <2>5, <3>1
  <2> QED BY <2>3, <2>4, <2>5
<1>6. Withheld \intersect W = {}
  <2> SUFFICES ASSUME NEW x \in Withheld, x \in W PROVE FALSE
    OBVIOUS
  <2>1. PICK q \in request.batch : request.answers[q] # None /\ x \in {q} \X request.answers[q].degraded
    BY DEF Withheld
  <2>2. x[1] = q /\ x[1] = r
    BY <2>1
  <2> QED BY <2>1, <2>2
<1>7. IsFiniteSet(Withheld) /\ Cardinality(Withheld) \in Nat
  BY FinitelyManyWithheld
<1>8. Cardinality(Withheld') = Cardinality(Withheld) + Cardinality(D)
  <2> HIDE DEF W, D
  <2>1. Cardinality(Withheld') = Cardinality(Withheld) + Cardinality(W) - Cardinality(Withheld \intersect W)
    BY <1>4, <1>5, <1>7, FS_Union
  <2>2. Cardinality(Withheld \intersect W) = 0
    BY <1>6, FS_EmptySet
  <2> QED BY <1>3, <1>4, <1>7, <2>1, <2>2
<1>9. Uncharged(entry) = ReportBytes * Cardinality(D)
  <2>1. Uncharged(entry) = 0 + ReportBytes * Cardinality(D)
    BY DEF Uncharged
  <2> QED BY <2>1, UnchargedType
<1>10. Reported' = ReportBytes * Cardinality(Withheld') /\ Reported = ReportBytes * Cardinality(Withheld)
  BY DEF Reported
<1>11. ReportBytes \in Nat
  BY BitcoinAssumption
<1> DEFINE n == Cardinality(Withheld)
           m == Cardinality(D)
           k == Cardinality(Withheld')
<1>12. n \in Nat /\ m \in Nat /\ k = n + m
  BY <1>3, <1>7, <1>8
<1>13. Reported' = ReportBytes * k /\ Reported = ReportBytes * n /\ Uncharged(entry) = ReportBytes * m
  BY <1>9, <1>10
<1> HIDE DEF n, m, k
<1>14. ReportBytes * (n + m) = ReportBytes * n + ReportBytes * m
  BY <1>11, <1>12
<1> QED BY <1>12, <1>13, <1>14

(* Every step keeps it. *)
LEMMA FrameKept ==
  ASSUME Typed, Typed', Asked, WithinFrame, [Next]_vars
  PROVE  WithinFrame'
<1>1. TypeOK /\ TypeOK' /\ request \in Requests
  BY DEF Typed, TypeOK
<1>2. CASE /\ request'.op = request.op
           /\ request'.batch = request.batch /\ request'.answers = request.answers
           /\ request'.failed = request.failed /\ request'.bytes = request.bytes
           /\ request'.budget = request.budget /\ (at = "idle" => at' = "idle")
  <2>1. Reported' = Reported
    BY <1>2 DEF Reported, Withheld
  <2> QED BY <1>2, <2>1 DEF WithinFrame
<1>3. CASE at' = "idle"
  BY <1>3 DEF WithinFrame
<1>4. CASE Turn \/ Fetch
  <2>1. CASE BadPage
    BY <1>1, <2>1 DEF BadPage, WithinFrame, Requests
  <2>2. CASE Answered /\ request.queries # <<>>
    <3>1. PICK entry \in Answers, spent \in Nat, extra \in Nat, abandon \in BOOLEAN :
            Says(entry, spent, extra) /\ Push(entry, spent, extra, abandon)
      BY <2>2 DEF Answered
    <3>2. at \in {"next", "fetch"}
      BY <1>4, ProcessAnswers
    <3>3. /\ request'.answers = [request.answers EXCEPT ![Query.resource] = entry]
          /\ request'.op = request.op
          /\ request'.batch = request.batch /\ request'.failed = request.failed
          /\ request'.bytes = request.bytes + spent + extra + Uncharged(entry)
          /\ request'.budget = Monus(request.budget, spent + extra)
      BY <1>1, <2>2, <3>1, <3>2, PushAsked
    <3>4. /\ request.answers \in [Resources -> {None} \union Answers]
          /\ request.batch \subseteq Resources /\ Query.resource \in Resources
          /\ request.budget \in Nat /\ request.bytes \in Nat /\ MaxFrame \in Nat
      BY <1>1, <2>2, QueryType, BitcoinAssumption DEF Requests
    <3>5. SUFFICES ASSUME ~request.failed, request.op = "history",
                          \A r \in request.batch :
                            request'.answers[r] # None =>
                              request'.answers[r].outcome \in {"fetched", "not_fetched"}
                   PROVE  \/ request'.bytes + request'.budget <= MaxFrame + Reported'
                          \/ /\ request'.budget = 0
                             /\ request'.bytes = Cardinality(request.batch) * StatusBytes + Reported'
      BY <3>3 DEF WithinFrame
    <3>6. Query.resource \in request.batch /\ request.answers[Query.resource] = None
      <4> DEFINE q == request.queries
      <4>1. q \in Seq([resource : Resources, page : {None} \union Pages]) /\ q # <<>>
        BY <1>1, <2>2 DEF Requests
      <4>2. Query = q[1] /\ 1 \in 1..Len(q)
        <5> DEFINE Q == [resource : Resources, page : {None} \union Pages]
        <5>1. q \in Seq(Q) /\ q # <<>>
          BY <4>1
        <5> HIDE DEF q, Q
        <5>2. Head(q) = q[1] /\ Len(q) \in Nat /\ Len(q) >= 1
          BY <5>1, HeadAndTail
        <5>3. 1 \in 1..Len(q)
          BY <5>2
        <5> QED BY <5>2, <5>3 DEF Query, q
      <4> QED BY <3>2, <3>5, <4>2 DEF Asked
    <3>7. request'.answers[Query.resource] = entry /\ entry # None
      BY <3>3, <3>4, SentinelAssumption
    <3>8. extra = 0 /\ spent <= request.budget
      BY <3>1, <3>5, <3>6, <3>7 DEF Says
    <3>9. \A r \in request.batch :
            request.answers[r] # None => request.answers[r].outcome \in {"fetched", "not_fetched"}
      <4> SUFFICES ASSUME NEW r \in request.batch, request.answers[r] # None
                   PROVE  request.answers[r].outcome \in {"fetched", "not_fetched"}
        OBVIOUS
      <4>1. r # Query.resource /\ r \in Resources
        BY <3>4, <3>6
      <4>2. request'.answers[r] = request.answers[r]
        BY <3>3, <3>4, <4>1
      <4> QED BY <3>5, <4>2
    <3>10. \/ request.bytes + request.budget <= MaxFrame + Reported
           \/ /\ request.budget = 0
              /\ request.bytes = Cardinality(request.batch) * StatusBytes + Reported
      BY <3>2, <3>5, <3>9 DEF WithinFrame
    <3>11. /\ Reported \in Nat /\ Uncharged(entry) \in Nat
           /\ Reported' = Reported + Uncharged(entry)
      BY <1>1, <3>3, <3>5, <3>6, ReportedGrows, UnchargedType, FinitelyManyWithheld
    <3> DEFINE entries == Cardinality(request.batch) * StatusBytes
               bytes == request.bytes
               budget == request.budget
               before == Reported
               after == Reported'
               more == Uncharged(entry)
    <3>12. /\ request'.bytes = bytes + spent + more /\ request'.budget = budget - spent
           /\ bytes \in Nat /\ budget \in Nat /\ spent \in Nat /\ more \in Nat /\ before \in Nat
           /\ spent <= budget /\ after = before + more /\ MaxFrame \in Nat
      BY <3>3, <3>4, <3>8, <3>11 DEF Monus
    <3>13. \/ bytes + budget <= MaxFrame + before
           \/ budget = 0 /\ bytes = entries + before
      BY <3>10
    <3>14. entries \in Nat
      BY <1>1, EntriesType
    <3> HIDE DEF Answered, entries, bytes, budget, before, after, more
    <3>15. \/ request'.bytes + request'.budget <= MaxFrame + after
           \/ request'.budget = 0 /\ request'.bytes = entries + after
      BY <3>12, <3>13, <3>14
    <3> QED BY <3>15 DEF entries, after
  <2>3. CASE UNCHANGED request
    <3>1. at # "idle"
      BY <1>4, ProcessAnswers
    <3> QED BY <1>2, <2>3, <3>1
  <2> QED BY <1>4, <2>1, <2>2, <2>3, ProcessAnswers
<1>5. CASE WriteReply
  BY <1>3, <1>5 DEF WriteReply
<1>6. CASE Timeout
  <2>1. /\ request'.op = request.op
        /\ request'.batch = request.batch /\ request'.answers = request.answers
        /\ request'.failed = request.failed /\ request'.bytes = request.bytes
        /\ request'.budget = request.budget /\ at' = at
    BY <1>1, <1>6 DEF Timeout, Requests
  <2> QED BY <1>2, <2>1
<1>7. CASE Asks
  <2>3. PICK op \in duty, batch \in Seq(Resources), now \in Nat : Ask(op, batch, now)
    BY <1>7, AsksBatch
  <2>4. /\ request'.batch = ToSet(batch) /\ request'.failed = ~NoRepeats(batch)
        /\ request'.op = op /\ request'.answers = [r \in Resources |-> None]
        /\ request'.bytes = Len(batch) * StatusBytes
        /\ request'.budget = IF op = "history" THEN Reserve(Len(batch)) ELSE 0
    BY <2>3 DEF Ask, NoRequest
  <2>5. Len(batch) * StatusBytes \in Nat /\ MaxFrame \in Nat
    <3>1. Len(batch) \in Nat
      OBVIOUS
    <3> QED BY <3>1, ReserveType, BitcoinAssumption
  <2>6. NoRepeats(batch) => request'.bytes = Cardinality(request'.batch) * StatusBytes
    BY <2>4 DEF NoRepeats
  <2>7. op = "history" =>
          request'.budget = IF MaxFrame > request'.bytes THEN MaxFrame - request'.bytes ELSE 0
    BY <2>4 DEF Reserve, Monus
  <2>8. op = "history" => \/ request'.bytes + request'.budget <= MaxFrame
                          \/ request'.budget = 0
    BY <2>4, <2>5, <2>7
  <2>9. Reported' = 0
    <3>1. request'.batch \subseteq Resources
      BY <1>1 DEF TypeOK, Requests
    <3>2. Withheld' = {}
      BY <2>4, <3>1 DEF Withheld
    <3>3. Reported' = ReportBytes * 0
      BY <3>2, FS_EmptySet DEF Reported
    <3> QED BY <3>3, BitcoinAssumption
  <2>10. MaxFrame + 0 = MaxFrame
    BY <2>5
  <2>11. NoRepeats(batch) => request'.bytes = Cardinality(request'.batch) * StatusBytes + 0
    <3> DEFINE b == request'.bytes
    <3>1. b \in Nat /\ (NoRepeats(batch) => b = Cardinality(request'.batch) * StatusBytes)
      BY <2>4, <2>5, <2>6
    <3>2. b + 0 = b
      <4> HIDE DEF b
      <4> QED BY <3>1
    <3> QED BY <3>1, <3>2
  <2> QED BY <2>4, <2>8, <2>9, <2>10, <2>11 DEF WithinFrame
<1>8. CASE Environment
  <2>1. CASE \E definition \in Definitions : Restart(definition)
    BY <1>3, <2>1 DEF Restart
  <2>2. CASE UNCHANGED <<request, at>>
    BY <1>2, <2>2
  <2> QED BY <1>8, <2>1, <2>2 DEF Environment, Broadcast, Evict, Mine, Reorg, Moved, Damage
<1>9. CASE (\E q \in Resources : BeginCrawl(q)) \/ UNCHANGED vars
  BY <1>2, <1>9 DEF BeginCrawl, vars
<1> QED BY <1>4, <1>5, <1>6, <1>7, <1>8, <1>9 DEF Next, Process

(* A reply to history.read that carries no evidence of a failure fits the frame but for
   the degraded records it names, whatever the histories of a batch, unless its entries
   alone do not and nothing else is in it (RepliesFit). *)
THEOREM SpecRepliesFit == Spec => []RepliesFit
<1>1. Init => WithinFrame
  BY DEF Init, WithinFrame
<1>2. Typed /\ Typed' /\ Asked /\ WithinFrame /\ [Next]_vars => WithinFrame'
  BY FrameKept
<1>3. Typed /\ Asked /\ WithinFrame => RepliesFit
  <2> SUFFICES ASSUME Typed, Asked, WithinFrame, NoEvidence, request.op = "history"
               PROVE  \/ request.bytes =< MaxFrame + Reported
                      \/ request.bytes = Cardinality(request.batch) * StatusBytes + Reported
    BY DEF RepliesFit, Reported
  <2>1. \/ request.bytes + request.budget <= MaxFrame + Reported
        \/ request.bytes = Cardinality(request.batch) * StatusBytes + Reported
    BY DEF WithinFrame, NoEvidence
  <2>2. /\ request.bytes \in Nat /\ request.budget \in Nat /\ MaxFrame \in Nat
        /\ Reported \in Nat
    BY BitcoinAssumption, FinitelyManyWithheld DEF Typed, TypeOK, Requests
  <2> QED BY <2>1, <2>2
<1> QED BY <1>1, <1>2, <1>3, SpecTyped, PTL DEF Spec

-----------------------------------------------------------------------------
(***************************************************************************)
(* A sync that ends has not lost history.                                   *)
(***************************************************************************)

(* A page of a listing holds with a key every key of the rest above it, and a short
   one holds the rest (Source::address_chain, and the provider's paging). *)
LEMMA PageOfListing ==
  ASSUME TypeOK, NEW a, NEW seen,
         NEW k \in Chain(a), seen = None \/ Above(seen, k)
  PROVE  /\ \A m \in ChainAfter(a, seen) : ~Above(m, k) => k \in ChainAfter(a, seen)
         /\ ~Full(ChainAfter(a, seen)) => k \in ChainAfter(a, seen)
<1> DEFINE rest == {l \in Chain(a) : seen = None \/ Above(seen, l)}
           over(l) == {x \in rest : Above(x, l)}
           page == ChainAfter(a, seen)
<1>1. /\ rest \in SUBSET Keys /\ IsFiniteSet(rest) /\ rest \in SUBSET Floors
      /\ \A l \in rest : Confirmed(l)
  <2>1. rest \in SUBSET Chain(a)
    OBVIOUS
  <2>2. rest \in SUBSET Keys /\ IsFiniteSet(rest) /\ \A l \in rest : Confirmed(l)
    BY <2>1, ListingType, FS_Subset
  <2> QED BY <2>2, AboveOrder
<1>2. page = {l \in rest : Cardinality(over(l)) < ChainPage}
  BY DEF ChainAfter
<1>3. k \in rest
  OBVIOUS
<1> HIDE DEF page, rest
<1>4. \A l \in rest : /\ over(l) \in SUBSET rest /\ IsFiniteSet(over(l))
                      /\ Cardinality(over(l)) \in Nat
  BY <1>1, FS_Subset, FS_CardinalityType
<1>5. ASSUME NEW l \in rest, NEW m \in page, ~Above(m, l)
      PROVE  l \in page
  <2>1. m \in rest /\ m \in Floors /\ l \in Floors /\ Cardinality(over(m)) < ChainPage
    BY <1>1, <1>2
  <2>2. over(l) \subseteq over(m)
    <3> SUFFICES ASSUME NEW x \in rest, Above(x, l) PROVE Above(x, m)
      OBVIOUS
    <3>1. x \in Floors /\ ~Above(l, x)
      BY <1>1, <1>5, <2>1, AboveOrder
    <3>2. ~Above(x, m) => ~Above(x, l)
      BY <1>5, <2>1, <3>1, AboveOrder
    <3> QED BY <1>5, <3>2
  <2>3. Cardinality(over(l)) <= Cardinality(over(m))
    <3>1. over(l) \in SUBSET over(m) /\ IsFiniteSet(over(m))
      BY <1>4, <2>1, <2>2
    <3> HIDE DEF over
    <3> QED BY <3>1, FS_Subset
  <2>4. Cardinality(over(l)) < ChainPage
    <3>1. ChainPage \in Nat /\ Cardinality(over(l)) \in Nat /\ Cardinality(over(m)) \in Nat
      BY <1>4, <2>1, BitcoinAssumption
    <3> QED BY <2>1, <2>3, <3>1
  <2> QED BY <1>2, <2>4
<1>6. ASSUME k \notin page PROVE Full(page)
  <2> DEFINE out == rest \ page
  <2>1. out \in SUBSET Keys /\ out # {} /\ IsFiniteSet(out)
    BY <1>1, <1>3, <1>6, FS_Subset
  <2>2. PICK h \in out : \A l \in out : ~Above(l, h)
    <3>1. \A l \in out : Confirmed(l)
      BY <1>1
    <3> HIDE DEF out
    <3> QED BY <2>1, <3>1, HighestKey
  <2>3. h \in rest /\ h \notin page /\ h \in Floors
    BY <1>1, <2>2
  <2>4. over(h) = page
    <3>1. ASSUME NEW x \in rest, Above(x, h) PROVE x \in page
      BY <2>2, <3>1
    <3>2. ASSUME NEW x \in page PROVE x \in rest /\ Above(x, h)
      <4>1. x \in rest
        BY <1>2
      <4> QED BY <1>5, <2>3, <4>1
    <3> QED BY <3>1, <3>2
  <2>5. ~(Cardinality(page) < ChainPage)
    BY <1>2, <2>3, <2>4
  <2>6. Cardinality(page) \in Nat /\ IsFiniteSet(page) /\ page \in SUBSET rest /\ ChainPage \in Nat
        /\ ChainPage # 0
    BY <1>4, <2>3, <2>4, BitcoinAssumption
  <2>7. page # {}
    BY <2>5, <2>6, FS_EmptySet
  <2>8. PICK m \in page : \A l \in page : ~Above(m, l)
    BY <1>1, <2>6, <2>7, LowestKey
  <2>9. over(m) = page \ {m}
    <3>1. ASSUME NEW x \in rest, Above(x, m) PROVE x \in page \ {m}
      <4>1. m \in rest /\ m \in Floors /\ x \in Floors
        BY <1>1, <2>6
      <4>2. ~Above(m, x) /\ x # m
        BY <3>1, <4>1, AboveOrder
      <4> QED BY <1>5, <4>2
    <3>2. ASSUME NEW x \in page \ {m} PROVE x \in rest /\ Above(x, m)
      <4>1. x \in rest /\ m \in rest /\ x \in Floors /\ m \in Floors
        BY <1>1, <2>6
      <4> QED BY <2>8, <3>2, <4>1, AboveOrder
    <3> QED BY <3>1, <3>2
  <2>10. Cardinality(page \ {m}) = Cardinality(page) - 1
    BY <2>6, FS_RemoveElement
  <2>11. Cardinality(page) - 1 < ChainPage
    BY <1>2, <2>9, <2>10
  <2> QED BY <2>5, <2>6, <2>11 DEF Full
<1>7. \A m \in page : ~Above(m, k) => k \in page
  BY <1>3, <1>5
<1> QED BY <1>6, <1>7 DEF page

(* The addresses whose listing was walked to its end. *)
WalkedOf(addresses) ==
  addresses \ IF fetch.step = "mempool" THEN ToSet(Tail(fetch.todo)) ELSE ToSet(fetch.todo)

Walked == WalkedOf(ToSet(wallets[Query.resource]))

(* The key a settled transaction has had since the sync began. *)
KeyAt(t) == [height |-> place[t], txid |-> t]

(* What a sync in the middle of its reads is sure of; of what had settled, only if it
   asked for what follows a transaction that was still there. *)
Surely ==
  at = "fetch" =>
    /\ \A t \in fetch.settled : place[t] \notin {Absent, Pool}
    /\ \A t \in fetch.shown : fetch.txs[t] \notin {Absent, Pool}
    /\ fetch.step \in {"chain", "mempool"} /\ ~fetch.adrift =>
         \A t \in fetch.settled, a \in Walked : a \in Touches[t] => fetch.txs[t] = place[t]
    /\ fetch.step = "mempool" => fetch.seen = None
    /\ fetch.step = "chain" /\ fetch.seen # None /\ ~fetch.adrift =>
         \A t \in fetch.settled :
           Head(fetch.todo) \in Touches[t] /\ ~Above(fetch.seen, KeyAt(t))
             => fetch.txs[t] = place[t]

(* A page of a listing, read. *)
LEMMA ChainSurely ==
  ASSUME Typed, Surely, AddressChain
  PROVE  Surely'
<1>0. PICK mark \in GoesOnFrom(Head(fetch.todo), fetch.seen) :
        LET page == ChainAfter(Head(fetch.todo), mark)
        IN  fetch' = [fetch EXCEPT
              !.txs = [t \in Txids |-> IF \E k \in page : k.txid = t THEN place[t] ELSE @[t]],
              !.step = IF Full(page) THEN "chain" ELSE "mempool",
              !.seen = IF Full(page) THEN CHOOSE k \in page : \A l \in page : ~Above(k, l) ELSE None,
              !.shown = @ \union {k.txid : k \in page},
              !.adrift = @ \/ fetch.seen \notin {None} \union Chain(Head(fetch.todo))]
  BY DEF AddressChain
<1> DEFINE a == Head(fetch.todo)
           page == ChainAfter(a, mark)
           lost == fetch.seen \notin {None} \union Chain(a)
           full == Full(page)
           lowest == CHOOSE k \in page : \A l \in page : ~Above(k, l)
           txs == [t \in Txids |-> IF \E k \in page : k.txid = t THEN place[t] ELSE fetch.txs[t]]
<1>1. /\ at = "fetch" /\ at' = "fetch" /\ fetch.step = "chain"
      /\ UNCHANGED <<place, wallets, request>>
  BY DEF AddressChain
<1>2. TypeOK /\ fetch \in Fetches /\ place \in Snapshots /\ fetch.todo # <<>>
      /\ fetch.todo \in Seq(Addresses)
  BY <1>1, FetchType DEF TypeOK
<1>3. /\ page \in SUBSET Chain(a) /\ Chain(a) \in SUBSET Keys
      /\ \A k \in Chain(a) : Confirmed(k) /\ place[k.txid] = k.height
      /\ full => lowest \in page /\ \A l \in page : ~Above(lowest, l)
  <2>1. /\ page \in SUBSET Chain(a) /\ Chain(a) \in SUBSET Keys
        /\ \A k \in Chain(a) : Confirmed(k) /\ place[k.txid] = k.height
        /\ full => \E m \in page : \A k \in page : ~Above(m, k)
    BY <1>2, ListingType
  <2> HIDE DEF page
  <2> QED BY <2>1
<1>4. /\ fetch'.txs = txs /\ fetch'.step = IF full THEN "chain" ELSE "mempool"
      /\ fetch'.seen = IF full THEN lowest ELSE None
      /\ fetch'.shown = fetch.shown \union {k.txid : k \in page}
      /\ fetch'.todo = fetch.todo /\ fetch'.settled = fetch.settled
      /\ fetch'.adrift = (fetch.adrift \/ lost)
  <2>1. fetch' = [fetch EXCEPT
              !.txs = [t \in Txids |-> IF \E k \in page : k.txid = t THEN place[t] ELSE @[t]],
              !.step = IF full THEN "chain" ELSE "mempool",
              !.seen = IF full THEN lowest ELSE None,
              !.shown = @ \union {k.txid : k \in page},
              !.adrift = @ \/ lost]
    BY <1>0
  <2> HIDE DEF page, full, lowest, lost
  <2> QED BY <1>2, <2>1 DEF Fetches
<1>5. \A t \in Txids : fetch.txs[t] = place[t] => txs[t] = place[t]
  OBVIOUS
<1>6. fetch.settled \subseteq Txids /\ fetch.shown \subseteq Txids
  BY <1>2 DEF Fetches
<1>7. \A t \in fetch.settled : place[t] \notin {Absent, Pool}
  BY <1>1 DEF Surely
<1>8. ASSUME NEW t \in fetch'.shown PROVE txs[t] \notin {Absent, Pool}
  <2>1. CASE \E k \in page : k.txid = t
    <3>1. PICK k \in page : k.txid = t
      BY <2>1
    <3>2. k \in Keys /\ Confirmed(k) /\ place[t] = k.height
      BY <1>3, <3>1
    <3>3. t \in Txids /\ k.height \in Nat /\ k.height # Pool /\ Absent \notin Nat
      BY <3>1, <3>2, KeyType, BitcoinAssumption DEF Confirmed
    <3>4. txs[t] = place[t]
      BY <2>1, <3>3
    <3> QED BY <3>2, <3>3, <3>4
  <2>2. CASE ~ \E k \in page : k.txid = t
    <3>1. t \in fetch.shown
      BY <1>4, <1>8, <2>2
    <3>2. txs[t] = fetch.txs[t]
      BY <1>6, <2>2, <3>1
    <3> QED BY <1>1, <3>1, <3>2 DEF Surely
  <2> QED BY <2>1, <2>2
<1>14. ~fetch'.adrift => ~fetch.adrift /\ mark = fetch.seen
  BY <1>0, <1>4 DEF GoesOnFrom
<1>9. ASSUME ~fetch'.adrift, NEW t \in fetch.settled, a \in Touches[t],
             full => ~Above(lowest, KeyAt(t))
      PROVE  txs[t] = place[t]
  <2>1. t \in Txids /\ place[t] # Absent /\ place[t] # Pool
    BY <1>6, <1>7
  <2>2. KeyAt(t) \in Chain(a)
    BY <1>9, <2>1 DEF KeyAt, Chain, AllKeys, Confirmed
  <2>3. CASE fetch.seen # None /\ ~Above(fetch.seen, KeyAt(t))
    BY <1>1, <1>5, <1>9, <1>14, <2>1, <2>3 DEF Surely
  <2>4. CASE fetch.seen = None \/ Above(fetch.seen, KeyAt(t))
    <3>1. /\ \A m \in page : ~Above(m, KeyAt(t)) => KeyAt(t) \in page
          /\ ~full => KeyAt(t) \in page
      <4>1. mark = None \/ Above(mark, KeyAt(t))
        BY <1>9, <1>14, <2>4
      <4> QED BY <1>2, <2>2, <4>1, PageOfListing
    <3>2. KeyAt(t) \in page
      BY <1>3, <1>9, <3>1
    <3>3. KeyAt(t).txid = t
      BY DEF KeyAt
    <3>4. \E k \in page : k.txid = t
      BY <3>2, <3>3
    <3> QED BY <2>1, <3>4
  <2> QED BY <2>3, <2>4
<1>10. ASSUME ~fetch'.adrift, NEW t \in fetch.settled, NEW b \in Walked', b \in Touches[t]
       PROVE  txs[t] = place[t]
  <2>1. CASE b \in Walked
    BY <1>1, <1>5, <1>6, <1>10, <1>14, <2>1 DEF Surely
  <2>2. CASE b \notin Walked
    <3>1. Query' = Query
      BY <1>1 DEF Query
    <3>2. ~full /\ b \in ToSet(fetch.todo) \ ToSet(Tail(fetch.todo))
      BY <1>1, <1>4, <1>10, <2>2, <3>1 DEF Walked, WalkedOf
    <3>3. b = a
      <4> DEFINE s == fetch.todo
      <4>1. s \in Seq(Addresses) /\ s # <<>>
        BY <1>2
      <4>2. b \in ToSet(s) /\ b \notin ToSet(Tail(s))
        BY <3>2
      <4> HIDE DEF s
      <4>3. PICK i \in 1..Len(s) : s[i] = b
        BY <4>1, <4>2 DEF ToSet
      <4>4. /\ Head(s) = s[1] /\ Len(s) \in Nat /\ Len(Tail(s)) = Len(s) - 1
            /\ Tail(s) \in Seq(Addresses)
            /\ \A j \in 1..Len(Tail(s)) : Tail(s)[j] = s[j + 1]
        BY <4>1, HeadAndTail
      <4>5. i # 1 => i - 1 \in 1..Len(Tail(s)) /\ Tail(s)[i - 1] = b
        BY <4>3, <4>4
      <4>6. \A j \in 1..Len(Tail(s)) : Tail(s)[j] \in ToSet(Tail(s))
        BY <4>4, SetOfSequence
      <4>7. i = 1
        BY <4>2, <4>5, <4>6
      <4> QED BY <4>3, <4>4, <4>7 DEF s
    <3> QED BY <1>9, <1>10, <3>2, <3>3
  <2> QED BY <2>1, <2>2
<1>11. ASSUME fetch'.step = "chain", ~fetch'.adrift, NEW t \in fetch.settled, a \in Touches[t],
              ~Above(fetch'.seen, KeyAt(t))
       PROVE  txs[t] = place[t]
  <2>1. full /\ fetch'.seen = lowest
    BY <1>4, <1>11
  <2> QED BY <1>9, <1>11, <2>1
<1> HIDE DEF txs, page, full, lowest, lost
<1>12. \A t : KeyAt(t)' = KeyAt(t)
  BY <1>1 DEF KeyAt
<1>13. fetch'.step = "mempool" => fetch'.seen = None
  BY <1>4
<1> QED BY <1>1, <1>4, <1>7, <1>8, <1>10, <1>11, <1>12, <1>13 DEF Surely

(* The unconfirmed listing, read. *)
LEMMA MempoolSurely ==
  ASSUME Typed, Surely, AddressMempool
  PROVE  Surely'
<1> DEFINE txs == Pending(fetch.txs, Head(fetch.todo))
<1>1. /\ at = "fetch" /\ fetch.step = "mempool" /\ UNCHANGED <<place, wallets>>
  BY DEF AddressMempool, Unread
<1>2. TypeOK /\ fetch \in Fetches /\ fetch.settled \subseteq Txids /\ fetch.shown \subseteq Txids
  BY <1>1, FetchType DEF Fetches
<1>3. CASE Len(fetch.todo) > 1
  <2>1. /\ fetch' = [fetch EXCEPT !.todo = Tail(@), !.step = "chain", !.txs = txs]
        /\ UNCHANGED <<at, request>>
    BY <1>3 DEF AddressMempool
  <2>2. \A t \in Txids : fetch.txs[t] # Absent => txs[t] = fetch.txs[t]
    BY DEF Pending
  <2> HIDE DEF txs
  <2>3. /\ fetch'.txs = txs /\ fetch'.step = "chain" /\ fetch'.todo = Tail(fetch.todo)
        /\ fetch'.settled = fetch.settled /\ fetch'.shown = fetch.shown
        /\ fetch'.seen = fetch.seen /\ fetch'.adrift = fetch.adrift
    BY <1>2, <2>1 DEF Fetches
  <2>4. Query' = Query /\ Walked' = Walked
    BY <1>1, <2>1, <2>3 DEF Query, Walked, WalkedOf
  <2>5. \A t \in fetch.settled : place[t] \notin {Absent, Pool}
    BY <1>1 DEF Surely
  <2>6. \A t \in fetch.shown : txs[t] \notin {Absent, Pool}
    BY <1>1, <1>2, <2>2 DEF Surely
  <2>7. ~fetch.adrift =>
          \A t \in fetch.settled, a \in Walked : a \in Touches[t] => txs[t] = place[t]
    BY <1>1, <1>2, <2>2, <2>5 DEF Surely
  <2>8. fetch'.seen = None
    BY <1>1, <2>3 DEF Surely
  <2> QED BY <1>1, <2>1, <2>3, <2>4, <2>5, <2>6, <2>7, <2>8 DEF Surely
<1>4. CASE ~(Len(fetch.todo) > 1)
  <2>1. at' # "fetch"
    BY <1>4 DEF AddressMempool, Serve, Push
  <2> QED BY <2>1 DEF Surely
<1> QED BY <1>3, <1>4

(* The chain moves: what moved is not settled any more. *)
LEMMA MovedSurely ==
  ASSUME Typed, Surely, NEW p, Moved(p)
  PROVE  Surely'
<1>1. /\ place' = p /\ at' = at /\ UNCHANGED <<wallets, request>>
      /\ fetch' = [fetch EXCEPT !.listed = {t \in @ : p[t] # Absent},
                                !.settled = {t \in @ : p[t] = place[t]}]
  BY DEF Moved
<1>2. fetch \in Fetches
  BY DEF Typed, TypeOK
<1>3. /\ fetch'.todo = fetch.todo /\ fetch'.step = fetch.step /\ fetch'.seen = fetch.seen
      /\ fetch'.txs = fetch.txs /\ fetch'.shown = fetch.shown /\ fetch'.adrift = fetch.adrift
      /\ fetch'.settled = {t \in fetch.settled : p[t] = place[t]}
  BY <1>1, <1>2 DEF Fetches
<1>4. Query' = Query /\ Walked' = Walked
  BY <1>1, <1>3 DEF Query, Walked, WalkedOf
<1>5. \A t \in fetch'.settled : t \in fetch.settled /\ place'[t] = place[t] /\ KeyAt(t)' = KeyAt(t)
  BY <1>1, <1>3 DEF KeyAt
<1> QED BY <1>1, <1>3, <1>4, <1>5 DEF Surely

(* Every step keeps it. *)
LEMMA SurelyKept ==
  ASSUME Typed, Surely, [Next]_vars
  PROVE  Surely'
<1>1. CASE at' # "fetch"
  BY <1>1 DEF Surely
<1>2. CASE UNCHANGED <<place, wallets, fetch, at>> /\ request'.queries = request.queries
  <2>1. Query' = Query /\ Walked' = Walked /\ \A t : KeyAt(t)' = KeyAt(t)
    BY <1>2 DEF Query, Walked, WalkedOf, KeyAt
  <2> QED BY <1>2, <2>1 DEF Surely
<1>3. CASE StartFetch
  <2>1. fetch' = [NoFetch EXCEPT
       !.todo = wallets[Query.resource],
       !.step = IF request.op = "history" THEN "chain" ELSE "stats",
       !.listed = {t \in Txids : place[t] # Absent},
       !.settled = {t \in Txids : place[t] \notin {Absent, Pool}}]
    BY <1>3 DEF StartFetch
  <2>2. /\ fetch'.todo = wallets[Query.resource] /\ fetch'.seen = None /\ fetch'.shown = {}
        /\ fetch'.settled = {t \in Txids : place[t] \notin {Absent, Pool}}
        /\ fetch'.step # "mempool"
    <3> DEFINE w == wallets[Query.resource]
               b == {t \in Txids : place[t] \notin {Absent, Pool}}
               l == {t \in Txids : place[t] # Absent}
    <3>1. fetch' = [NoFetch EXCEPT !.todo = w,
            !.step = IF request.op = "history" THEN "chain" ELSE "stats", !.listed = l, !.settled = b]
      BY <2>1
    <3> HIDE DEF w, b, l
    <3>2. /\ fetch'.todo = w /\ fetch'.seen = None /\ fetch'.shown = {} /\ fetch'.settled = b
          /\ fetch'.step # "mempool"
      BY <3>1 DEF NoFetch
    <3> QED BY <3>2 DEF w, b
  <2>3. UNCHANGED <<place, wallets, request>> /\ Query' = Query
    BY <1>3 DEF StartFetch, Query
  <2>4. Walked' = {}
    BY <2>2, <2>3 DEF Walked, WalkedOf
  <2> QED BY <2>2, <2>3, <2>4 DEF Surely
<1>4. ASSUME NEW saved \in BOOLEAN, AddressStats(saved)
      PROVE  Surely'
  <2>1. CASE Len(fetch.todo) > 1
    <3> DEFINE figures == Plus(fetch.figures, Net(Head(fetch.todo)))
    <3>1. /\ at = "fetch" /\ fetch.step = "stats" /\ UNCHANGED <<place, wallets, at, request>>
          /\ fetch' = [fetch EXCEPT !.todo = Tail(@), !.figures = figures]
      BY <1>4, <2>1 DEF AddressStats
    <3> HIDE DEF figures
    <3>2. /\ fetch'.step = "stats" /\ fetch'.txs = fetch.txs
          /\ fetch'.settled = fetch.settled /\ fetch'.shown = fetch.shown
      BY <3>1 DEF Typed, TypeOK, Fetches
    <3> QED BY <3>1, <3>2 DEF Surely
  <2>2. CASE ~(Len(fetch.todo) > 1)
    BY <1>1, <1>4, <2>2 DEF AddressStats, Push
  <2> QED BY <2>1, <2>2
<1>5. CASE Turn
  BY <1>1, <1>3, <1>5 DEF Turn, BadPage, NotFetched, ContinueCrawl, Serve, Push
<1>6. CASE Fetch
  BY <1>1, <1>4, <1>6, ChainSurely, MempoolSurely
  DEF Fetch, PaginationStalled, Refuse, Push, StatusRead, FetchFails, BalanceUnavailable
<1>7. CASE Environment
  <2>1. CASE \E r \in Resources : Damage(r)
    BY <1>2, <2>1 DEF Damage
  <2>2. CASE \E definition \in Definitions : Restart(definition)
    BY <1>1, <2>2 DEF Restart
  <2> QED BY <1>7, <2>1, <2>2, MovedSurely DEF Environment, Broadcast, Evict, Mine, Reorg
<1>8. CASE Timeout
  <2>1. request'.queries = request.queries /\ UNCHANGED <<place, wallets, fetch, at>>
    BY <1>8 DEF Timeout, Typed, TypeOK, Requests
  <2> QED BY <1>2, <2>1
<1>9. CASE Asks \/ WriteReply
  BY <1>1, <1>9 DEF Asks, Ask, WriteReply
<1>10. CASE (\E r \in Resources : BeginCrawl(r)) \/ UNCHANGED vars
  BY <1>2, <1>10 DEF BeginCrawl, vars
<1> QED BY <1>5, <1>6, <1>7, <1>8, <1>9, <1>10 DEF Next, Process

(* What the sync has confirmed and what it walked, at every moment. *)
LEMMA SpecSurely == Spec => []Surely
<1>1. Init => Surely
  BY DEF Init, Surely
<1>2. Typed /\ Surely /\ [Next]_vars => Surely'
  BY SurelyKept
<1> QED BY <1>1, <1>2, SpecTyped, PTL DEF Spec

(* A transaction that stayed confirmed at one height while its addresses were
   walked is in the sync at that height, for every wallet, page size of the listing
   and move of the chain, as long as what the sync asked the provider to go on from
   was still there (SettledIsRead). *)
THEOREM SpecSettledIsRead == Spec => []SettledIsRead
<1>1. Surely => SettledIsRead
  BY DEF Surely, SettledIsRead, Walked, WalkedOf
<1> QED BY <1>1, SpecSurely, PTL

(* What was once shown confirmed is not planned as unconfirmed, for every wallet and
   move of the chain between two requests (ConfirmedWins). *)
THEOREM SpecConfirmedWins == Spec => []ConfirmedWins
<1>1. Typed /\ Surely => ConfirmedWins
  <2> SUFFICES ASSUME Typed, Surely, at = "fetch", fetch.step = "mempool", NEW t \in fetch.shown
               PROVE  Pending(fetch.txs, Head(fetch.todo))[t] # Pool
    BY DEF ConfirmedWins
  <2>1. t \in Txids
    BY DEF Typed, TypeOK, Fetches
  <2>2. fetch.txs[t] \notin {Absent, Pool}
    BY DEF Surely
  <2> QED BY <2>1, <2>2 DEF Pending
<1> QED BY <1>1, SpecSurely, SpecTyped, PTL
=============================================================================
