-------------------------- MODULE ConformanceProofs --------------------------
(***************************************************************************)
(* Theorems about Conformance, for any fixtures that are true of their own  *)
(* history and any number of faults.                                        *)
(***************************************************************************)
EXTENDS Conformance, TLAPS, FiniteSetTheorems, SequenceTheorems

-----------------------------------------------------------------------------
(***************************************************************************)
(* Numbers and sequences.                                                   *)
(***************************************************************************)

(* A non-empty set of numbers has a least. *)
LEMMA LeastNumber ==
  ASSUME NEW S \in SUBSET Nat, S # {}
  PROVE  \E m \in S : \A k \in S : m =< k
<1>1. PICK m \in S : \A k \in S : ~ (<<k, m>> \in OpToRel(<, Nat))
  BY NatLessThanWellFounded, WFMin
<1>2. \A k \in S : ~ (k < m)
  BY <1>1 DEF OpToRel
<1> QED BY <1>2

(* A set of numbers up to n that has each number if it has those before it has
   them all. *)
LEMMA UpTo ==
  ASSUME NEW n \in Nat, NEW S \in SUBSET (0 .. n),
         \A m \in 0 .. n : (\A k \in 0 .. m - 1 : k \in S) => m \in S
  PROVE  S = 0 .. n
<1> DEFINE T == (0 .. n) \ S
<1>1. SUFFICES ASSUME T # {} PROVE FALSE
  OBVIOUS
<1>2. T \in SUBSET Nat
  OBVIOUS
<1>3. PICK m \in T : \A k \in T : m =< k
  BY <1>1, <1>2, LeastNumber
<1>4. \A k \in 0 .. m - 1 : k \in S
  <2> SUFFICES ASSUME NEW k \in 0 .. m - 1 PROVE k \in S
    OBVIOUS
  <2>1. k \in 0 .. n /\ ~ (m =< k)
    OBVIOUS
  <2> QED BY <1>3, <2>1
<1> QED BY <1>3, <1>4

-----------------------------------------------------------------------------
(***************************************************************************)
(* What the host keeps of a page.                                           *)
(***************************************************************************)

Clean(s) == \A j \in DOMAIN s : ~s[j].big

(* One step of drop_oversized. *)
KeepNext(s, of, n) ==
  IF n = 0 THEN <<>> ELSE IF s[n].big THEN of[n - 1] ELSE Append(of[n - 1], s[n])

(* There is a function that keeps, observation after observation. *)
LEMMA KeepingExists ==
  ASSUME NEW s \in Seq(Observations), NEW n \in 0 .. Len(s)
  PROVE  \E of \in [0 .. n -> Seq(Observations)] : \A k \in 0 .. n : of[k] = KeepNext(s, of, k)
<1> DEFINE Can(m) == \E of \in [0 .. m -> Seq(Observations)] :
                       \A k \in 0 .. m : of[k] = KeepNext(s, of, k)
           S == {m \in 0 .. n : Can(m)}
<1>1. Len(s) \in Nat /\ n \in Nat /\ n =< Len(s)
  OBVIOUS
<1>2. ASSUME NEW m \in 0 .. n, \A k \in 0 .. m - 1 : Can(k) PROVE Can(m)
  <2>1. CASE m = 0
    <3> DEFINE of == [k \in 0 .. 0 |-> <<>>]
    <3>1. of \in [0 .. m -> Seq(Observations)]
      BY <2>1
    <3>2. \A k \in 0 .. m : of[k] = KeepNext(s, of, k)
      BY <2>1 DEF KeepNext
    <3> QED BY <3>1, <3>2
  <2>2. CASE m # 0
    <3>1. m - 1 \in 0 .. m - 1 /\ m \in 1 .. Len(s)
      BY <1>1, <2>2
    <3>2. PICK of \in [0 .. m - 1 -> Seq(Observations)] :
            \A k \in 0 .. m - 1 : of[k] = KeepNext(s, of, k)
      BY <1>2, <3>1
    <3> DEFINE next == KeepNext(s, of, m)
               more == [k \in 0 .. m |-> IF k = m THEN next ELSE of[k]]
    <3>3. s[m] \in Observations /\ of[m - 1] \in Seq(Observations)
      BY <3>1
    <3>4. next \in Seq(Observations)
      BY <2>2, <3>3 DEF KeepNext
    <3> HIDE DEF next
    <3>5. more \in [0 .. m -> Seq(Observations)]
      BY <3>4
    <3>6. \A k \in 0 .. m - 1 : more[k] = of[k]
      OBVIOUS
    <3>7. more[m] = next
      OBVIOUS
    <3> HIDE DEF more
    <3>8. \A k \in 0 .. m : k # 0 => k - 1 \in 0 .. m - 1
      OBVIOUS
    <3>9. \A k \in 0 .. m : KeepNext(s, more, k) = KeepNext(s, of, k)
      BY <3>6, <3>8 DEF KeepNext
    <3>10. \A k \in 0 .. m : more[k] = KeepNext(s, more, k)
      <4> SUFFICES ASSUME NEW k \in 0 .. m PROVE more[k] = KeepNext(s, more, k)
        OBVIOUS
      <4>1. CASE k = m
        BY <3>7, <3>9, <4>1 DEF next
      <4>2. CASE k # m
        BY <3>2, <3>6, <3>9, <4>2
      <4> QED BY <4>1, <4>2
    <3> QED BY <3>5, <3>10
  <2> QED BY <2>1, <2>2
<1> HIDE DEF Can
<1>3. S \in SUBSET (0 .. n)
  OBVIOUS
<1>4. ASSUME NEW m \in 0 .. n, \A k \in 0 .. m - 1 : k \in S PROVE m \in S
  <2>1. \A k \in 0 .. m - 1 : Can(k)
    BY <1>4
  <2> QED BY <1>2, <2>1
<1>5. S = 0 .. n
  <2> HIDE DEF S
  <2> QED BY <1>1, <1>3, <1>4, UpTo
<1>6. Can(n)
  <2>1. n \in S
    BY <1>1, <1>5
  <2> QED BY <2>1
<1> QED BY <1>6 DEF Can

(* What is kept are observations, and all of them when none is over the cap. *)
LEMMA KeptOf ==
  ASSUME NEW s \in Seq(Observations)
  PROVE  /\ Kept(s) \in Seq(Observations)
         /\ Clean(s) => Kept(s) = s
<1> DEFINE n == Len(s)
           of == CHOOSE g : g = [k \in 0 .. n |->
                   IF k = 0 THEN <<>>
                   ELSE IF s[k].big THEN g[k - 1] ELSE Append(g[k - 1], s[k])]
<1>1. n \in Nat /\ n \in 0 .. n
  OBVIOUS
<1>2. PICK g \in [0 .. n -> Seq(Observations)] : \A k \in 0 .. n : g[k] = KeepNext(s, g, k)
  BY <1>1, KeepingExists
<1>3. g = [k \in 0 .. n |-> IF k = 0 THEN <<>>
                            ELSE IF s[k].big THEN g[k - 1] ELSE Append(g[k - 1], s[k])]
  BY <1>2 DEF KeepNext
<1>4. of = [k \in 0 .. n |-> IF k = 0 THEN <<>>
                             ELSE IF s[k].big THEN of[k - 1] ELSE Append(of[k - 1], s[k])]
  BY <1>3
<1>5. Kept(s) = of[n]
  BY DEF Kept
<1> HIDE DEF of
<1>6. \A k \in 0 .. n : of[k] = KeepNext(s, of, k)
  BY <1>4 DEF KeepNext
<1>7. \A k \in 1 .. n : s[k] \in Observations /\ k - 1 \in 0 .. n
  OBVIOUS
<1> DEFINE T == {k \in 0 .. n : of[k] \in Seq(Observations)}
           U == {k \in 0 .. n : of[k] = SubSeq(s, 1, k)}
<1>8. T = 0 .. n
  <2>1. ASSUME NEW m \in 0 .. n, \A k \in 0 .. m - 1 : k \in T PROVE m \in T
    <3>1. CASE m = 0
      <4>1. KeepNext(s, of, 0) = <<>>
        BY DEF KeepNext
      <4>2. of[m] = <<>>
        BY <1>6, <3>1, <4>1
      <4>3. of[m] \in Seq(Observations)
        <5>1. <<>> \in Seq(Observations)
          OBVIOUS
        <5> QED BY <4>2, <5>1
      <4> QED BY <4>3
    <3>2. CASE m # 0
      <4>1. m - 1 \in 0 .. m - 1 /\ m \in 1 .. n
        BY <3>2
      <4>2. of[m - 1] \in Seq(Observations) /\ s[m] \in Observations
        BY <1>7, <2>1, <4>1
      <4>3. of[m] = IF s[m].big THEN of[m - 1] ELSE Append(of[m - 1], s[m])
        BY <1>6, <3>2 DEF KeepNext
      <4>4. of[m] \in Seq(Observations)
        BY <4>2, <4>3
      <4> QED BY <4>4
    <3> QED BY <3>1, <3>2
  <2> QED BY <1>1, <2>1, UpTo
<1>9. ASSUME Clean(s) PROVE U = 0 .. n
  <2>1. ASSUME NEW m \in 0 .. n, \A k \in 0 .. m - 1 : k \in U PROVE m \in U
    <3>1. CASE m = 0
      <4>1. KeepNext(s, of, 0) = <<>>
        BY DEF KeepNext
      <4>2. SubSeq(s, 1, 0) = <<>>
        BY SubSeqEmpty
      <4> QED BY <1>6, <3>1, <4>1, <4>2
    <3>2. CASE m # 0
      <4>1. m - 1 \in 0 .. m - 1 /\ m \in 1 .. n
        BY <3>2
      <4>2. of[m - 1] = SubSeq(s, 1, m - 1) /\ ~s[m].big
        BY <1>9, <2>1, <4>1 DEF Clean
      <4>3. of[m] = Append(SubSeq(s, 1, m - 1), s[m])
        BY <1>6, <3>2, <4>2 DEF KeepNext
      <4>4. Append(SubSeq(s, 1, m - 1), s[m]) = SubSeq(s, 1, m)
        BY <4>1
      <4> QED BY <4>3, <4>4
    <3> QED BY <3>1, <3>2
  <2> QED BY <1>1, <2>1, UpTo
<1>10. Kept(s) \in Seq(Observations)
  BY <1>1, <1>5, <1>8
<1>11. ASSUME Clean(s) PROVE Kept(s) = s
  <2>1. of[n] = SubSeq(s, 1, n)
    BY <1>1, <1>9, <1>11
  <2> QED BY <1>5, <2>1, SubSeqFull
<1> QED BY <1>10, <1>11

-----------------------------------------------------------------------------
(***************************************************************************)
(* What is live.                                                            *)
(***************************************************************************)

(* The ids of a sequence are those of its observations. *)
LEMMA IdsOf ==
  ASSUME NEW s \in Seq(Observations)
  PROVE  /\ DOMAIN s = 1 .. Len(s) /\ Len(s) \in Nat
         /\ \A id : id \in Ids(ToSet(s)) <=> \E i \in 1 .. Len(s) : s[i].id = id
BY DEF Ids, ToSet

(* One sequence after another. *)
LEMMA Concatenated ==
  ASSUME NEW s \in Seq(Observations), NEW t \in Seq(Observations)
  PROVE  /\ s \o t \in Seq(Observations) /\ Len(s \o t) = Len(s) + Len(t)
         /\ Len(s) \in Nat /\ Len(t) \in Nat
         /\ DOMAIN (s \o t) = 1 .. Len(s) + Len(t)
         /\ DOMAIN s = 1 .. Len(s) /\ DOMAIN t = 1 .. Len(t)
         /\ \A i \in 1 .. Len(s) :
              (s \o t)[i] = s[i] /\ i \in 1 .. Len(s) + Len(t)
         /\ \A i \in 1 .. Len(t) :
              (s \o t)[Len(s) + i] = t[i] /\ Len(s) + i \in 1 .. Len(s) + Len(t)
         /\ Clean(s \o t) => Clean(s) /\ Clean(t)
<1> DEFINE n == Len(s)
           both == s \o t
<1>1. both \in Seq(Observations) /\ Len(both) = n + Len(t) /\ n \in Nat /\ Len(t) \in Nat
  BY ConcatProperties
<1>2. DOMAIN both = 1 .. n + Len(t) /\ DOMAIN s = 1 .. n /\ DOMAIN t = 1 .. Len(t)
  BY <1>1
<1>3. \A i \in 1 .. n + Len(t) : both[i] = IF i =< n THEN s[i] ELSE t[i - n]
  BY ConcatProperties
<1>4. \A i \in 1 .. n : both[i] = s[i] /\ i \in 1 .. n + Len(t)
  BY <1>1, <1>3
<1>5. \A i \in 1 .. Len(t) : both[n + i] = t[i] /\ n + i \in 1 .. n + Len(t)
  <2> SUFFICES ASSUME NEW i \in 1 .. Len(t)
               PROVE  both[n + i] = t[i] /\ n + i \in 1 .. n + Len(t)
    OBVIOUS
  <2>1. n + i \in 1 .. n + Len(t) /\ ~ (n + i =< n) /\ (n + i) - n = i
    BY <1>1
  <2> QED BY <1>3, <2>1
<1> HIDE DEF n, both
<1>6. Clean(both) => Clean(s) /\ Clean(t)
  BY <1>2, <1>4, <1>5 DEF Clean
<1> QED BY <1>1, <1>2, <1>4, <1>5, <1>6 DEF n, both

(* A fold that saw a record again has live what it would have from there on. *)
LEMMA LiveAfter ==
  ASSUME NEW s \in Seq(Observations), NEW t \in Seq(Observations),
         Ids(ToSet(s)) \subseteq Ids(ToSet(t))
  PROVE  Live(s \o t) = Live(t)
<1> DEFINE n == Len(s)
           both == s \o t
<1>1. /\ both \in Seq(Observations) /\ Len(both) = n + Len(t)
      /\ n \in Nat /\ Len(t) \in Nat
      /\ DOMAIN both = 1 .. n + Len(t) /\ DOMAIN t = 1 .. Len(t)
      /\ \A i \in 1 .. n : both[i] = s[i]
      /\ \A i \in 1 .. Len(t) : both[n + i] = t[i] /\ n + i \in 1 .. n + Len(t)
  BY Concatenated
<1> HIDE DEF both, n
<1>2. ASSUME NEW o \in Live(both) PROVE o \in Live(t)
  <2>1. PICK i \in 1 .. n + Len(t) :
          /\ o = both[i] /\ both[i].state = "active"
          /\ \A j \in i + 1 .. n + Len(t) : both[j].id # both[i].id
    BY <1>1 DEF Live
  <2>2. CASE i =< n
    <3>1. i \in 1 .. n /\ both[i] = s[i]
      BY <1>1, <2>2
    <3>2. s[i].id \in Ids(ToSet(t))
      BY <3>1, IdsOf DEF n
    <3>3. PICK j \in 1 .. Len(t) : t[j].id = s[i].id
      BY <3>2, IdsOf
    <3>4. n + j \in i + 1 .. n + Len(t) /\ both[n + j] = t[j]
      BY <1>1, <2>2
    <3> QED BY <2>1, <3>1, <3>3, <3>4
  <2>3. CASE ~ (i =< n)
    <3>1. i - n \in 1 .. Len(t) /\ n + (i - n) = i
      BY <1>1, <2>3
    <3>2. both[i] = t[i - n]
      BY <1>1, <3>1
    <3>3. \A j \in (i - n) + 1 .. Len(t) : t[j].id # t[i - n].id
      <4> SUFFICES ASSUME NEW j \in (i - n) + 1 .. Len(t) PROVE t[j].id # t[i - n].id
        OBVIOUS
      <4>1. n + j \in i + 1 .. n + Len(t) /\ j \in 1 .. Len(t)
        BY <1>1, <3>1
      <4> QED BY <1>1, <2>1, <3>2, <4>1
    <3> QED BY <1>1, <2>1, <3>1, <3>2, <3>3 DEF Live
  <2> QED BY <2>2, <2>3
<1>3. ASSUME NEW o \in Live(t) PROVE o \in Live(both)
  <2>1. PICK i \in 1 .. Len(t) :
          /\ o = t[i] /\ t[i].state = "active"
          /\ \A j \in i + 1 .. Len(t) : t[j].id # t[i].id
    BY <1>1 DEF Live
  <2>2. n + i \in 1 .. n + Len(t) /\ both[n + i] = t[i]
    BY <1>1
  <2>3. \A j \in n + i + 1 .. n + Len(t) : both[j].id # both[n + i].id
    <3> SUFFICES ASSUME NEW j \in n + i + 1 .. n + Len(t) PROVE both[j].id # both[n + i].id
      OBVIOUS
    <3>1. j - n \in i + 1 .. Len(t) /\ j - n \in 1 .. Len(t) /\ n + (j - n) = j
      BY <1>1
    <3>2. both[j] = t[j - n]
      BY <1>1, <3>1
    <3> QED BY <2>1, <2>2, <3>1, <3>2
  <2> QED BY <1>1, <2>1, <2>2, <2>3 DEF Live
<1> QED BY <1>2, <1>3 DEF both

-----------------------------------------------------------------------------
(***************************************************************************)
(* The fixture and the adapter that plays it.                               *)
(***************************************************************************)

History == fixture.history

(* What a fixture is. *)
LEMMA ScriptIs ==
  ASSUME fixture \in Fixtures
  PROVE  /\ History \in Seq(Observations) /\ Len(History) \in Nat \ {0}
         /\ DOMAIN History = 1 .. Len(History)
         /\ \A i \in 1 .. Len(History) : History[i] \in Observations /\ ~History[i].big
         /\ fixture.balances \in Seq(Moneys)
         /\ ToSet(fixture.ends) \subseteq 1 .. Len(History)
         /\ Len(History) \in ToSet(fixture.ends)
         /\ fixture.dies \in ToSet(fixture.ends) /\ fixture.dies < Len(History)
         /\ fixture.dies \in 1 .. Len(History)
         /\ fixture.omitted \subseteq Records
<1> DEFINE Pure == {o \in Observations : o.note = Honest /\ ~o.big}
           H == fixture.history
<1>1. fixture \in FixtureFiles /\ Consistent(fixture)
  BY ConformanceAssumption
<1>2. H \in Seq(Pure)
  BY <1>1 DEF FixtureFiles
<1>3. /\ Len(H) \in Nat /\ DOMAIN H = 1 .. Len(H)
      /\ \A i \in 1 .. Len(H) : H[i] \in Observations /\ ~H[i].big
  BY <1>2
<1>4. H \in Seq(Observations)
  <2>1. Pure \subseteq Observations
    OBVIOUS
  <2> HIDE DEF Pure, H
  <2> QED BY <1>2, <2>1, SeqMonotonic
<1>5. /\ fixture.balances \in Seq(Moneys) /\ fixture.ends \in Seq(Nat)
      /\ fixture.omitted \subseteq Records
  BY <1>1 DEF FixtureFiles
<1>6. /\ ToSet(fixture.ends) \subseteq 1 .. Len(H)
      /\ fixture.ends[Len(fixture.ends)] = Len(H)
      /\ fixture.dies \in ToSet(fixture.ends)
      /\ SubSeq(H, fixture.dies + 1, Len(H)) # <<>>
  BY <1>1 DEF Consistent
<1>7. fixture.dies \in 1 .. Len(H)
  BY <1>6
<1>8. fixture.dies < Len(H)
  <2> SUFFICES ASSUME fixture.dies = Len(H) PROVE FALSE
    BY <1>3, <1>7
  <2>1. Len(H) < fixture.dies + 1 /\ fixture.dies + 1 \in Int /\ Len(H) \in Int
    BY <1>3, <1>7
  <2> QED BY <1>6, <2>1, SubSeqEmpty
<1>9. Len(H) \in ToSet(fixture.ends)
  <2>1. PICK i \in DOMAIN fixture.ends : TRUE
    BY <1>6 DEF ToSet
  <2>2. Len(fixture.ends) \in DOMAIN fixture.ends
    BY <1>5, <2>1
  <2> QED BY <1>6, <2>2 DEF ToSet
<1> QED BY <1>3, <1>4, <1>5, <1>6, <1>7, <1>8, <1>9 DEF History

(* There is a next page end, until the history is over. *)
LEMMA EndIsNext ==
  ASSUME fixture \in Fixtures, NEW from \in 0 .. Len(History), from # Len(History)
  PROVE  /\ End(from) \in ToSet(fixture.ends) /\ End(from) > from
         /\ \A d \in ToSet(fixture.ends) : d > from => End(from) =< d
<1> DEFINE S == {e \in ToSet(fixture.ends) : e > from}
<1>1. /\ ToSet(fixture.ends) \subseteq 1 .. Len(History) /\ Len(History) \in ToSet(fixture.ends)
      /\ Len(History) \in Nat
  BY ScriptIs
<1>2. S \in SUBSET Nat /\ Len(History) \in S
  BY <1>1
<1>3. PICK e \in S : \A d \in S : e =< d
  <2> HIDE DEF S
  <2> QED BY <1>2, LeastNumber
<1> QED BY <1>3 DEF End

(* A page of the fixture. *)
LEMMA ScriptedPage ==
  ASSUME fixture \in Fixtures, NEW from \in {Absent} \union ToSet(fixture.ends)
  PROVE  /\ Scripted(from).observations \in Seq(Observations)
         /\ Scripted(from).next \in {Absent} \union ToSet(fixture.ends)
         /\ from # Len(History) =>
              /\ Scripted(from).observations = SubSeq(History, from + 1, End(from))
              /\ Scripted(from).next = IF End(from) = Len(History) THEN Absent ELSE End(from)
<1>1. /\ from \in 0 .. Len(History) /\ Len(History) \in Nat
      /\ \A i \in 1 .. Len(History) : History[i] \in Observations
      /\ ToSet(fixture.ends) \subseteq 1 .. Len(History)
  BY ScriptIs DEF Absent
<1>2. CASE from = Len(History)
  BY <1>2 DEF Scripted, History
<1>3. CASE from # Len(History)
  <2>1. End(from) \in ToSet(fixture.ends) /\ End(from) \in 1 .. Len(History)
    BY <1>1, <1>3, EndIsNext
  <2>2. SubSeq(History, from + 1, End(from)) \in Seq(Observations)
    <3>1. \A i \in from + 1 .. End(from) : History[i] \in Observations
      BY <1>1, <2>1
    <3>2. from + 1 \in Int /\ End(from) \in Int
      BY <1>1, <2>1
    <3> HIDE DEF History
    <3> QED BY <3>1, <3>2, SubSeqProperties
  <2>3. Scripted(from) = [observations |-> SubSeq(History, from + 1, End(from)),
                          next |-> IF End(from) = Len(History) THEN Absent ELSE End(from)]
    BY <1>3 DEF Scripted, History
  <2> QED BY <1>3, <2>1, <2>2, <2>3
<1> QED BY <1>2, <1>3

(* An altered page is still one of observations, with a cursor of the fixture. *)
LEMMA Misplaying ==
  ASSUME fixture \in Fixtures, NEW from \in {Absent} \union ToSet(fixture.ends),
         NEW reply \in {Scripted(from)} \union Misplayed(from)
  PROVE  /\ reply.observations \in Seq(Observations)
         /\ reply.next \in {Absent} \union ToSet(fixture.ends)
<1> DEFINE right == Scripted(from)
           places == {Absent} \union ToSet(fixture.ends)
<1>1. right.observations \in Seq(Observations) /\ right.next \in places
  BY ScriptedPage
<1>2. Variants \subseteq Observations
  <2>1. ToSet(fixture.history) \subseteq Observations /\ fixture.omitted \subseteq Records
    BY ScriptIs DEF ToSet, History
  <2> DEFINE sent == ToSet(fixture.history)
  <2>2. {[o EXCEPT !.money = m] : o \in sent, m \in Moneys} \subseteq Observations
    BY <2>1 DEF Observations
  <2>3. {[o EXCEPT !.note = n] : o \in sent, n \in Notes} \subseteq Observations
    BY <2>1 DEF Observations
  <2>4. {[o EXCEPT !.big = TRUE] : o \in sent} \subseteq Observations
    BY <2>1 DEF Observations
  <2>5. {[o EXCEPT !.id = i] : o \in sent, i \in fixture.omitted} \subseteq Observations
    BY <2>1 DEF Observations
  <2> QED BY <2>1, <2>2, <2>3, <2>4, <2>5 DEF Variants
<1>3. right = [observations |-> right.observations, next |-> right.next]
  BY DEF Scripted
<1>4. CASE reply \in {[right EXCEPT !.observations = s] : s \in Edits(right.observations)}
  <2>1. PICK s \in Edits(right.observations) : reply = [right EXCEPT !.observations = s]
    BY <1>4
  <2> HIDE DEF right
  <2>2. reply.observations = s /\ reply.next = right.next
    BY <1>3, <2>1
  <2> DEFINE t == right.observations
  <2>3. t \in Seq(Observations) /\ Len(t) \in Nat /\ DOMAIN t = 1 .. Len(t)
        /\ \A i \in 1 .. Len(t) : t[i] \in Observations
    BY <1>1
  <2> HIDE DEF t
  <2>4. \A m, n \in Int : 1 =< m /\ n =< Len(t) => SubSeq(t, m, n) \in Seq(Observations)
    <3> SUFFICES ASSUME NEW m \in Int, NEW n \in Int, 1 =< m, n =< Len(t)
                 PROVE  SubSeq(t, m, n) \in Seq(Observations)
      OBVIOUS
    <3>1. \A i \in m .. n : t[i] \in Observations
      BY <2>3
    <3> QED BY <3>1, SubSeqProperties
  <2>5. CASE s \in {RemoveAt(t, i) : i \in DOMAIN t}
    <3>1. PICK i \in 1 .. Len(t) : s = SubSeq(t, 1, i - 1) \o SubSeq(t, i + 1, Len(t))
      BY <2>3, <2>5 DEF RemoveAt
    <3>2. SubSeq(t, 1, i - 1) \in Seq(Observations) /\ SubSeq(t, i + 1, Len(t)) \in Seq(Observations)
      BY <2>3, <2>4
    <3> QED BY <1>1, <2>2, <3>1, <3>2, ConcatProperties
  <2>6. CASE s \in {InsertAt(t, i, v) : i \in 1 .. Len(t) + 1, v \in Variants}
    <3>a. PICK i \in 1 .. Len(t) + 1, v \in Variants : s = InsertAt(t, i, v)
      BY <2>6
    <3>1. s = SubSeq(t, 1, i - 1) \o <<v>> \o SubSeq(t, i, Len(t))
      BY <3>a DEF InsertAt
    <3>2. SubSeq(t, 1, i - 1) \in Seq(Observations) /\ SubSeq(t, i, Len(t)) \in Seq(Observations)
      BY <2>3, <2>4
    <3>3. <<v>> \in Seq(Observations)
      BY <1>2
    <3> QED BY <1>1, <2>2, <3>1, <3>2, <3>3, ConcatProperties
  <2>7. CASE s \in {ReplaceAt(t, i, v) : i \in DOMAIN t, v \in Variants}
    <3>1. PICK i \in 1 .. Len(t), v \in Variants : s = [t EXCEPT ![i] = v]
      BY <2>3, <2>7 DEF ReplaceAt
    <3>2. v \in Observations
      BY <1>2
    <3> QED BY <1>1, <2>2, <2>3, <3>1, <3>2, ExceptSeq
  <2> QED BY <2>1, <2>5, <2>6, <2>7 DEF Edits, t
<1>5. CASE reply \in {[right EXCEPT !.next = n] : n \in places}
  <2> HIDE DEF right
  <2> QED BY <1>1, <1>3, <1>5
<1>6. CASE reply \in {Scripted(p) : p \in places}
  BY <1>6, ScriptedPage
<1>7. CASE reply = right
  BY <1>1, <1>7
<1> QED BY <1>4, <1>5, <1>6, <1>7 DEF Misplayed

-----------------------------------------------------------------------------
(***************************************************************************)
(* Type correctness.                                                        *)
(***************************************************************************)

Cursors == {Absent} \union ToSet(fixture.ends)

Working == step \notin {"compare", "done"}

(* An execution begins as one. *)
LEMMA NewType == NewExecution \in Executions
BY DEF NewExecution, Executions

(* The initial state is well typed. *)
LEMMA InitType == Init => TypeOK
<1> SUFFICES ASSUME Init PROVE TypeOK
  OBVIOUS
<1>1. NewResumption \in Resumptions /\ NewResumption.next = Absent
  BY DEF NewResumption, Resumptions, Absent
<1>2. Len(Runs) \in {2, 3} /\ judged = <<>>
  BY DEF Init, Runs
<1>3. judged \in Seq(Executions) /\ Len(judged) = 0
  BY <1>2
<1>4. 0 \in 0 .. MaxPages /\ 0 \in 0 .. MaxFaults
  BY ConformanceAssumption
<1>5. Len(judged) =< Len(Runs) /\ (step \in {"compare", "done"} <=> Len(judged) = Len(Runs))
  <2>1. step = "spawn"
    BY DEF Init
  <2> QED BY <1>2, <1>3, <2>1
<1> QED BY <1>1, <1>3, <1>4, <1>5, NewType DEF Init, TypeOK, Steps

(* A step inside an execution: it is enough to look at what it changes. *)
LEMMA Within ==
  ASSUME TypeOK, Same, Working, step' \in Steps \ {"compare", "done"},
         page' \in Cursors, pages' \in 0 .. MaxPages, exec' \in Executions,
         across' \in Resumptions, across'.next \in Cursors,
         failures' \subseteq Assertions, faults' \in 0 .. MaxFaults
  PROVE  TypeOK'
<1>1. /\ fixture' = fixture /\ case' = case /\ judged' = judged
  BY DEF Same
<1>2. Len(Runs') = Len(Runs) /\ Cursors' = Cursors
  BY <1>1 DEF Runs, Cursors
<1> QED BY <1>1, <1>2 DEF TypeOK, Working, Runs, Cursors

(* A question is added to those asked. *)
LEMMA AskingType ==
  ASSUME TypeOK, NEW op \in Questions
  PROVE  /\ [exec EXCEPT !.asked = Append(@, op)] \in Executions
         /\ \A lines \in Seq(Moneys) :
              [exec EXCEPT !.asked = Append(@, op), !.balances = lines] \in Executions
         /\ [exec EXCEPT !.asked = Append(@, op), !.crashed = TRUE] \in Executions
<1>1. exec \in Executions /\ Append(exec.asked, op) \in Seq(Questions)
  BY DEF TypeOK, Executions
<1> QED BY <1>1 DEF Executions

(* Faults are counted. *)
LEMMA WrongType ==
  ASSUME TypeOK, NEW n \in Nat, Wrong(n)
  PROVE  faults' \in 0 .. MaxFaults
BY ConformanceAssumption DEF TypeOK, Wrong

(* What a state has that a step inside an execution may leave as it is. *)
LEMMA Typed ==
  ASSUME TypeOK
  PROVE  /\ fixture \in Fixtures /\ page \in Cursors /\ pages \in 0 .. MaxPages
         /\ exec \in Executions /\ across \in Resumptions /\ across.next \in Cursors
         /\ failures \subseteq Assertions /\ faults \in 0 .. MaxFaults
         /\ judged \in Seq(Executions) /\ step \in Steps
         /\ MaxPages \in Nat \ {0} /\ 0 \in 0 .. MaxPages
BY ConformanceAssumption DEF TypeOK, Cursors

(* The calls before the history. *)
LEMMA CallsType ==
  ASSUME TypeOK,
         \/ Spawn \/ SpawnFails \/ ResourcesList \/ ResourcesListFails
         \/ BalancesRead \/ BalancesReadFails \/ BalancesReadDies
  PROVE  TypeOK'
<1> USE Typed
<1>a. \A n \in Nat : Wrong(n) => faults' \in 0 .. MaxFaults
  BY WrongType
<1>b. \A op \in Questions : Asking(op) => exec' \in Executions
  BY AskingType DEF Asking
<1>c. ResumePoint \in Cursors
  BY DEF ResumePoint, Cursors
<1>1. CASE Spawn
  BY <1>1, Within DEF Spawn, Goto, Steps, Working
<1>2. CASE SpawnFails
  BY <1>2, <1>a, Within DEF SpawnFails, Goto, Steps, Working, Fails, Assertions
<1>3. CASE ResourcesList
  BY <1>3, <1>b, Within DEF ResourcesList, Goto, Steps, Working, Questions
<1>4. CASE ResourcesListFails
  BY <1>4, <1>a, <1>b, Within
     DEF ResourcesListFails, Goto, Steps, Working, Questions, Fails, Assertions
<1>5. CASE BalancesRead
  <2>1. PICK lines \in {fixture.balances, <<>>} \union {<<m>> : m \in Moneys}, extra \in BOOLEAN :
          /\ Wrong(IF lines = fixture.balances /\ ~extra THEN 0 ELSE 1)
          /\ exec' = [exec EXCEPT !.asked = Append(@, "balances"), !.balances = lines]
          /\ Fails(StatusCoverage(extra))
    BY <1>5 DEF BalancesRead
  <2>2. lines \in Seq(Moneys)
    <3>1. fixture \in FixtureFiles
      BY Typed, ConformanceAssumption
    <3>2. fixture.balances \in Seq(Moneys)
      BY <3>1 DEF FixtureFiles
    <3>3. ASSUME NEW m \in Moneys PROVE <<m>> \in Seq(Moneys)
      OBVIOUS
    <3>4. <<>> \in Seq(Moneys)
      OBVIOUS
    <3> QED BY <3>2, <3>3, <3>4
  <2>3. exec' \in Executions
    BY <2>1, <2>2, AskingType DEF Questions
  <2>4. failures' \subseteq Assertions
    BY <2>1 DEF Fails, StatusCoverage, If, Assertions
  <2>5. faults' \in 0 .. MaxFaults
    BY <1>a, <2>1
  <2> QED BY <1>5, <1>c, <2>3, <2>4, <2>5, Within DEF BalancesRead, Goto, Steps, Working
<1>6. CASE BalancesReadFails
  BY <1>6, <1>a, <1>b, <1>c, Within
     DEF BalancesReadFails, Goto, Steps, Working, Questions, Fails, Assertions
<1>7. CASE BalancesReadDies
  <2>1. exec' \in Executions
    BY <1>7, AskingType DEF BalancesReadDies, Crashes, Questions
  <2> QED BY <1>7, <1>a, <2>1, Within
          DEF BalancesReadDies, Crashes, Goto, Steps, Working, Fails, If, Assertions
<1> QED BY <1>1, <1>2, <1>3, <1>4, <1>5, <1>6, <1>7

(* What a page does to the execution and to the paging state. *)
LEMMA HistoryReadStep ==
  ASSUME TypeOK, HistoryRead
  PROVE  \E reply \in {Scripted(page)} \union Misplayed(page), extra \in BOOLEAN :
           /\ Wrong((IF Dies THEN 1 ELSE 0) + (IF reply = Scripted(page) THEN 0 ELSE 1)
                      + (IF extra THEN 1 ELSE 0))
           /\ reply.observations \in Seq(Observations) /\ reply.next \in Cursors
           /\ Kept(reply.observations) \in Seq(Observations)
           /\ exec'.asked = Append(exec.asked, HistoryOp)
           /\ exec'.raw = exec.raw \o reply.observations
           /\ exec'.history = exec.history \o Kept(reply.observations)
           /\ exec'.frames = exec.frames + 1
           /\ exec'.balances = exec.balances /\ exec'.crashed = exec.crashed
           /\ exec' \in Executions
           /\ Truncated =>
                /\ across' = [Record(across, fixture.resumable, reply.next)
                                EXCEPT !.fold = @ \o Kept(reply.observations)]
                /\ across'.fold = across.fold \o Kept(reply.observations)
           /\ ~Truncated => across' = across
           /\ page' = reply.next
           /\ Goto(IF reply.next = Absent THEN "status" ELSE "history")
           /\ Fails(StatusCoverage(extra))
<1>1. PICK reply \in {Scripted(page)} \union Misplayed(page), extra \in BOOLEAN :
        /\ Wrong((IF Dies THEN 1 ELSE 0) + (IF reply = Scripted(page) THEN 0 ELSE 1)
                   + (IF extra THEN 1 ELSE 0))
        /\ exec' = [exec EXCEPT !.asked = Append(@, HistoryOp),
                                !.raw = @ \o reply.observations,
                                !.history = @ \o Kept(reply.observations), !.frames = @ + 1]
        /\ across' = IF Truncated
                     THEN [Record(across, fixture.resumable, reply.next)
                             EXCEPT !.fold = @ \o Kept(reply.observations)]
                     ELSE across
        /\ page' = reply.next
        /\ Goto(IF reply.next = Absent THEN "status" ELSE "history")
        /\ Fails(StatusCoverage(extra))
  BY DEF HistoryRead
<1>2. exec \in Executions /\ across \in Resumptions /\ page \in Cursors /\ fixture \in Fixtures
  BY Typed
<1>3. reply.observations \in Seq(Observations) /\ reply.next \in Cursors
  BY <1>2, Misplaying DEF Cursors
<1> DEFINE kept == Kept(reply.observations)
           asked == Append(exec.asked, HistoryOp)
           raw == exec.raw \o reply.observations
           history == exec.history \o kept
<1>4. kept \in Seq(Observations)
  BY <1>3, KeptOf
<1>5. /\ asked \in Seq(Questions)
      /\ raw \in Seq(Observations) /\ history \in Seq(Observations)
      /\ exec.frames + 1 \in Nat
  <2>1. HistoryOp \in Questions
    BY DEF HistoryOp, Questions
  <2>2. /\ exec.asked \in Seq(Questions) /\ exec.raw \in Seq(Observations)
        /\ exec.history \in Seq(Observations) /\ exec.frames \in Nat
    BY <1>2 DEF Executions
  <2> HIDE DEF kept
  <2> QED BY <1>3, <1>4, <2>1, <2>2, ConcatProperties
<1>6. exec' = [exec EXCEPT !.asked = asked, !.raw = raw, !.history = history,
                           !.frames = exec.frames + 1]
  BY <1>1, <1>2 DEF Executions
<1> HIDE DEF kept, asked, raw, history
<1>7. /\ exec'.asked = asked /\ exec'.raw = raw /\ exec'.history = history
      /\ exec'.frames = exec.frames + 1
      /\ exec'.balances = exec.balances /\ exec'.crashed = exec.crashed
      /\ exec' \in Executions
  BY <1>2, <1>5, <1>6 DEF Executions
<1>8. Truncated => across'.fold = across.fold \o kept
  BY <1>1, <1>2 DEF Record, Resumptions, kept
<1> QED BY <1>1, <1>3, <1>4, <1>7, <1>8 DEF kept, asked, raw, history

(* What a record is made of. *)
LEMMA RecordType ==
  ASSUME TypeOK, NEW next \in Cursors
  PROVE  /\ Record(across, fixture.resumable, next) \in Resumptions
         /\ Record(across, fixture.resumable, next).next \in Cursors
         /\ Record(across, fixture.resumable, next).resumable = fixture.resumable
         /\ Record(across, fixture.resumable, next).fold = across.fold
         /\ fixture.resumable = "exact" =>
              Record(across, fixture.resumable, next).next = next
<1>1. across \in Resumptions /\ across.next \in Cursors /\ fixture \in Fixtures
  BY Typed
<1>2. fixture.resumable \in {"exact", "batch_restart", "none"}
  BY <1>1, ConformanceAssumption DEF FixtureFiles
<1>3. Cursors \subseteq Nat
  BY <1>1, ScriptIs DEF Cursors, Absent
<1> QED BY <1>1, <1>2, <1>3 DEF Record, Resumptions

(* The pages. *)
LEMMA PagesType ==
  ASSUME TypeOK, HistoryRead \/ HistoryReadFails \/ HistoryReadDies \/ TooManyPages
  PROVE  TypeOK'
<1> USE Typed
<1>a. \A n \in Nat : Wrong(n) => faults' \in 0 .. MaxFaults
  BY WrongType
<1>b. HistoryOp \in Questions
  BY DEF HistoryOp, Questions
<1>1. CASE HistoryRead
  <2>1. PICK reply \in {Scripted(page)} \union Misplayed(page), extra \in BOOLEAN :
          /\ Wrong((IF Dies THEN 1 ELSE 0) + (IF reply = Scripted(page) THEN 0 ELSE 1)
                     + (IF extra THEN 1 ELSE 0))
          /\ reply.observations \in Seq(Observations) /\ reply.next \in Cursors
          /\ Kept(reply.observations) \in Seq(Observations)
          /\ exec' \in Executions
          /\ Truncated => across' = [Record(across, fixture.resumable, reply.next)
                                       EXCEPT !.fold = @ \o Kept(reply.observations)]
          /\ ~Truncated => across' = across
          /\ page' = reply.next
          /\ Goto(IF reply.next = Absent THEN "status" ELSE "history")
          /\ Fails(StatusCoverage(extra))
    BY <1>1, HistoryReadStep
  <2>2. across' \in Resumptions /\ across'.next \in Cursors
    <3>1. CASE ~Truncated
      BY <2>1, <3>1
    <3>2. CASE Truncated
      <4> DEFINE was == Record(across, fixture.resumable, reply.next)
                 kept == Kept(reply.observations)
      <4>1. was \in Resumptions /\ was.next \in Cursors
        BY <2>1, RecordType
      <4>2. across' = [was EXCEPT !.fold = @ \o kept] /\ kept \in Seq(Observations)
        BY <2>1, <3>2
      <4> HIDE DEF was, kept
      <4>3. was.fold \o kept \in Seq(Observations)
        BY <4>1, <4>2, ConcatProperties DEF Resumptions
      <4> QED BY <4>1, <4>2, <4>3 DEF Resumptions
    <3> QED BY <3>1, <3>2
  <2>3. step = "history" /\ pages < MaxPages /\ pages' = pages + 1 /\ Same
    BY <1>1 DEF HistoryRead
  <2>4. pages' \in 0 .. MaxPages
    BY <2>3
  <2>5. failures' \subseteq Assertions
    BY <2>1 DEF Fails, StatusCoverage, If, Assertions
  <2>6. faults' \in 0 .. MaxFaults
    <3>1. (IF Dies THEN 1 ELSE 0) + (IF reply = Scripted(page) THEN 0 ELSE 1)
            + (IF extra THEN 1 ELSE 0) \in Nat
      OBVIOUS
    <3> QED BY <1>a, <2>1, <3>1
  <2>7. step' \in {"status", "history"}
    BY <2>1 DEF Goto
  <2> QED BY <2>1, <2>2, <2>3, <2>4, <2>5, <2>6, <2>7, Within DEF Steps, Working
<1>2. CASE HistoryReadFails
  <2>1. exec' \in Executions
    BY <1>2, <1>b, AskingType DEF HistoryReadFails, Asking
  <2> QED BY <1>2, <1>a, <2>1, Within
          DEF HistoryReadFails, Goto, Steps, Working, Fails, Assertions
<1>3. CASE HistoryReadDies
  <2>1. exec' \in Executions
    BY <1>3, <1>b, AskingType DEF HistoryReadDies, Crashes
  <2>2. faults' \in 0 .. MaxFaults
    BY <1>3, <1>a DEF HistoryReadDies
  <2> QED BY <1>3, <2>1, <2>2, Within
          DEF HistoryReadDies, Crashes, Goto, Steps, Working, Fails, If, Assertions
<1>4. CASE TooManyPages
  BY <1>4, Within DEF TooManyPages, Goto, Steps, Working, Fails, Assertions
<1> QED BY <1>1, <1>2, <1>3, <1>4

(* The end of a run. *)
LEMMA EndType ==
  ASSUME TypeOK, StatusRead \/ Close
  PROVE  TypeOK'
<1> USE Typed
<1>a. \A n \in Nat : Wrong(n) => faults' \in 0 .. MaxFaults
  BY WrongType
<1>1. CASE StatusRead
  <2>1. exec' \in Executions
    BY <1>1, AskingType DEF StatusRead, Asking, Questions
  <2> QED BY <1>1, <1>a, <2>1, Within
          DEF StatusRead, Goto, Steps, Working, Fails, If, Assertions
<1>2. CASE Close
  BY <1>2, <1>a, Within DEF Close, Goto, Steps, Working, Fails, If, Assertions
<1> QED BY <1>1, <1>2

(* What an execution is judged with. *)
LEMMA JudgementType == Judgement \subseteq Assertions
BY DEF Judgement, WireSizes, LiveFailures, If, Assertions

(* The judgement of a run, and the comparison of the runs. *)
LEMMA VerdictType ==
  ASSUME TypeOK, Judge \/ Compare
  PROVE  TypeOK'
<1>a. Len(Runs) \in {2, 3} /\ Len(judged) \in Nat
  BY DEF TypeOK, Runs
<1>1. CASE Judge
  <2>1. Len(judged) < Len(Runs)
    BY <1>1, <1>a DEF Judge, TypeOK
  <2>2. Append(judged, exec) \in Seq(Executions) /\ Len(Append(judged, exec)) = Len(judged) + 1
    BY DEF TypeOK
  <2>3. /\ judged' = Append(judged, exec)
        /\ step' = IF Len(judged) + 1 = Len(Runs) THEN "compare" ELSE "spawn"
        /\ UNCHANGED <<fixture, case, across, faults>>
        /\ exec' = NewExecution /\ page' = Absent /\ pages' = 0
    BY <1>1 DEF Judge, Goto
  <2>4. Runs' = Runs
    BY <2>3 DEF Runs
  <2>5. failures' \subseteq Assertions
    BY <1>1, JudgementType DEF Judge, Fails, TypeOK
  <2>6. step' \in Steps /\ (step' \in {"compare", "done"} <=> Len(judged') = Len(Runs'))
    BY <2>2, <2>3, <2>4 DEF Steps
  <2>7. Len(judged') =< Len(Runs')
    BY <1>a, <2>1, <2>2, <2>3, <2>4
  <2> QED BY <2>2, <2>3, <2>5, <2>6, <2>7, NewType, Typed DEF TypeOK
<1>2. CASE Compare
  <2>1. UNCHANGED <<fixture, case, judged, page, pages, exec, across, faults>>
        /\ step = "compare" /\ step' = "done"
    BY <1>2 DEF Compare, Goto, Same
  <2>2. failures' \subseteq Assertions
    BY <1>2 DEF Compare, Fails, TypeOK, If, FamilyFailures, Assertions
  <2>3. Runs' = Runs
    BY <2>1 DEF Runs
  <2> QED BY <2>1, <2>2, <2>3 DEF TypeOK, Steps
<1> QED BY <1>1, <1>2

(* Every step keeps the types. *)
LEMMA NextType == TypeOK /\ [Next]_vars => TypeOK'
<1> SUFFICES ASSUME TypeOK, [Next]_vars PROVE TypeOK'
  OBVIOUS
<1>1. CASE UNCHANGED vars
  <2>1. UNCHANGED <<fixture, case, step, page, pages, exec, across, judged, failures, faults>>
    BY <1>1 DEF vars
  <2>2. Runs' = Runs
    BY <2>1 DEF Runs
  <2> QED BY <2>1, <2>2 DEF TypeOK
<1> QED BY <1>1, CallsType, PagesType, EndType, VerdictType DEF Next

(* Executions, transcripts and paging state are well typed, and as many executions
   are judged as the case has runs before they are compared: run_case, whatever
   the adapter answers. *)
THEOREM SpecTypeOK == Spec => []TypeOK
BY InitType, NextType, PTL DEF Spec

-----------------------------------------------------------------------------
(***************************************************************************)
(* A pass is earned.                                                        *)
(***************************************************************************)

(* Unless something over the cap came, what was kept is what came. *)
Drained(e) == Clean(e.raw) => e.history = e.raw

(* The fold that spans a kill is that of the two runs, one after the other. *)
Folded ==
  case = "interrupted" =>
    /\ Len(judged) = 0 => across.fold = <<>>
    /\ Len(judged) = 1 => across.fold = exec.history
    /\ Len(judged) = 2 => across.fold = judged[2].history \o exec.history
    /\ Len(judged) = 3 => across.fold = judged[2].history \o judged[3].history

Alike(o, p) == o.id = p.id /\ o.money = p.money /\ o.state = p.state

(* What an execution shows that was judged without a failure. *)
Earned(e, i) ==
  /\ e.balances = fixture.balances /\ Clean(e.raw)
  /\ \A j \in 1 .. Len(e.raw) : e.raw[j].id \notin fixture.omitted
  /\ case = "crawl" \/ i = 1 =>
       /\ Len(e.raw) = Len(History)
       /\ \A j \in 1 .. Len(History) : Alike(e.raw[j], History[j])

(* What the comparison of the runs shows. *)
Agreed ==
  /\ case = "crawl" => ByLocalId(judged[1].history) = ByLocalId(judged[2].history)
  /\ case = "interrupted" => Live(across.fold) = Live(judged[1].history)

PassInv ==
  /\ Drained(exec) /\ \A i \in 1 .. Len(judged) : Drained(judged[i])
  /\ Folded
  /\ failures = {} => \A i \in 1 .. Len(judged) : Earned(judged[i], i)
  /\ failures = {} /\ step = "done" => Agreed

(* It holds before anything was read. *)
LEMMA InitPass == Init => PassInv
<1> SUFFICES ASSUME Init PROVE PassInv
  OBVIOUS
<1>1. judged = <<>> /\ Len(judged) = 0
  BY DEF Init
<1>2. across.fold = <<>> /\ exec.raw = exec.history /\ step = "spawn"
  BY DEF Init, NewResumption, NewExecution
<1> QED BY <1>1, <1>2 DEF PassInv, Drained, Folded

(* Which run is at hand. *)
LEMMA RunIs ==
  ASSUME TypeOK, Working
  PROVE  /\ Len(judged) \in 0 .. 2 /\ (case = "crawl" => Len(judged) # 2)
         /\ Truncated <=> case = "interrupted" /\ Len(judged) # 0
         /\ Run = "killed" <=> case = "interrupted" /\ Len(judged) = 1
<1>1. /\ Len(judged) \in Nat /\ Len(judged) =< Len(Runs) /\ Len(judged) # Len(Runs)
      /\ case \in {"crawl", "interrupted"}
  BY DEF TypeOK, Working
<1>2. CASE case = "crawl"
  <2>1. Runs = <<"first", "second">> /\ Len(Runs) = 2
    BY <1>2 DEF Runs
  <2>a. Len(Runs) = 2
    BY <2>1
  <2>b. \A n \in Nat : n =< 2 /\ n # 2 => n \in {0, 1}
    OBVIOUS
  <2>2. Len(judged) \in {0, 1}
    BY <1>1, <2>a, <2>b
  <2>3. Run \in {"first", "second"}
    BY <2>1, <2>2 DEF Run
  <2> QED BY <1>2, <2>2, <2>3 DEF Truncated
<1>3. CASE case = "interrupted"
  <2>1. Runs = <<"full", "killed", "resumed">> /\ Len(Runs) = 3
    BY <1>3 DEF Runs
  <2>a. Len(Runs) = 3 /\ Runs[1] = "full" /\ Runs[2] = "killed" /\ Runs[3] = "resumed"
    BY <2>1
  <2>b. \A n \in Nat : n =< 3 /\ n # 3 => n \in {0, 1, 2}
    OBVIOUS
  <2>2. Len(judged) \in {0, 1, 2}
    BY <1>1, <2>a, <2>b
  <2>3. /\ Len(judged) = 0 => Run = "full"
        /\ Len(judged) = 1 => Run = "killed"
        /\ Len(judged) = 2 => Run = "resumed"
    <3>1. 0 + 1 = 1 /\ 1 + 1 = 2 /\ 2 + 1 = 3
      OBVIOUS
    <3> QED BY <2>a, <3>1 DEF Run
  <2> QED BY <1>3, <2>2, <2>3 DEF Truncated
<1> QED BY <1>1, <1>2, <1>3

(* A step that delivers nothing. *)
LEMMA NothingDelivered ==
  ASSUME PassInv, Same, step' # "done", UNCHANGED across,
         exec'.raw = exec.raw, exec'.history = exec.history, failures \subseteq failures'
  PROVE  PassInv'
<1>1. UNCHANGED <<fixture, case, judged>>
  BY DEF Same
<1> QED BY <1>1 DEF PassInv, Drained, Folded, Earned, Clean, History

(* A page delivered. *)
LEMMA PageDelivered ==
  ASSUME TypeOK, PassInv, HistoryRead
  PROVE  PassInv'
<1>1. PICK reply, extra :
        /\ reply.observations \in Seq(Observations)
        /\ Kept(reply.observations) \in Seq(Observations)
        /\ exec'.raw = exec.raw \o reply.observations
        /\ exec'.history = exec.history \o Kept(reply.observations)
        /\ Truncated => across'.fold = across.fold \o Kept(reply.observations)
        /\ ~Truncated => across' = across
        /\ Goto(IF reply.next = Absent THEN "status" ELSE "history")
        /\ Fails(StatusCoverage(extra))
  BY HistoryReadStep
<1> DEFINE sent == reply.observations
           kept == Kept(sent)
<1>2. /\ exec.raw \in Seq(Observations) /\ exec.history \in Seq(Observations)
      /\ judged \in Seq(Executions)
  BY Typed DEF Executions
<1>3. /\ UNCHANGED <<fixture, case, judged>> /\ Working /\ step' # "done"
      /\ failures \subseteq failures'
  BY <1>1 DEF HistoryRead, Same, Working, Goto, Fails
<1>4. Drained(exec)'
  <2> SUFFICES ASSUME Clean(exec'.raw) PROVE exec'.history = exec'.raw
    BY DEF Drained, Clean
  <2>1. Clean(exec.raw) /\ Clean(sent)
    <3>1. Clean(exec.raw \o sent)
      BY <1>1
    <3>2. sent \in Seq(Observations)
      BY <1>1
    <3> HIDE DEF sent
    <3> QED BY <1>2, <3>1, <3>2, Concatenated
  <2>2. kept = sent /\ exec.history = exec.raw
    BY <1>1, <2>1, KeptOf DEF PassInv, Drained
  <2> QED BY <1>1, <2>2
<1>5. Folded'
  <2> SUFFICES ASSUME case = "interrupted" PROVE Folded'
    BY <1>3 DEF Folded
  <2>1. Len(judged) \in 0 .. 2 /\ (Truncated <=> Len(judged) # 0)
    BY <1>3, RunIs
  <2> HIDE DEF sent, kept
  <2>2. CASE Len(judged) = 0
    BY <1>1, <1>3, <2>1, <2>2 DEF PassInv, Folded, kept, sent
  <2>3. CASE Len(judged) = 1
    <3>0. across.fold = exec.history
      BY <2>3 DEF PassInv, Folded
    <3>1. across'.fold = across.fold \o kept /\ across.fold = exec.history
      <4>1. Truncated
        BY <2>1, <2>3
      <4> QED BY <1>1, <3>0, <4>1 DEF kept, sent
    <3>2. across'.fold = exec'.history
      BY <1>1, <3>1 DEF kept, sent
    <3>3. Len(judged') = 1
      BY <1>3, <2>3
    <3> QED BY <3>2, <3>3 DEF Folded
  <2>4. CASE Len(judged) = 2
    <3>1. judged[2] \in Executions
      <4>1. 2 \in 1 .. 2 /\ judged \in Seq(Executions)
        BY <1>2
      <4> QED BY <2>4, <4>1, ElementOfSeq
    <3>2. judged[2].history \in Seq(Observations)
      BY <3>1 DEF Executions
    <3>3. across'.fold = across.fold \o kept /\ across.fold = judged[2].history \o exec.history
      <4>1. Truncated
        BY <2>1, <2>4
      <4>2. across.fold = judged[2].history \o exec.history
        BY <2>4 DEF PassInv, Folded
      <4> QED BY <1>1, <4>1, <4>2 DEF kept, sent
    <3>4. kept \in Seq(Observations) /\ exec'.history = exec.history \o kept
      BY <1>1 DEF kept, sent
    <3>5. across'.fold = judged[2].history \o exec'.history
      <4>1. (judged[2].history \o exec.history) \o kept
              = judged[2].history \o (exec.history \o kept)
        <5>1. /\ judged[2].history \in Seq(Observations) /\ exec.history \in Seq(Observations)
              /\ kept \in Seq(Observations)
          BY <1>2, <3>2, <3>4
        <5>2. \A a, b, c \in Seq(Observations) : (a \o b) \o c = a \o (b \o c)
          BY ConcatAssociative
        <5> QED BY <5>1, <5>2
      <4> QED BY <3>3, <3>4, <4>1
    <3>6. Len(judged') = 2 /\ judged'[2] = judged[2]
      BY <1>3, <2>4
    <3> QED BY <3>5, <3>6 DEF Folded
  <2> QED BY <2>1, <2>2, <2>3, <2>4
<1> QED BY <1>3, <1>4, <1>5 DEF PassInv, Drained, Earned, Clean, History

(* What a judgement without a failure says. *)
LEMMA NothingFailed ==
  ASSUME TypeOK, Working, Drained(exec), Judgement = {}
  PROVE  Earned(exec, Len(judged) + 1)
<1>1. /\ exec.raw \in Seq(Observations) /\ fixture \in Fixtures
      /\ DOMAIN exec.raw = 1 .. Len(exec.raw)
  BY Typed DEF Executions
<1>2. WireSizes(exec.raw) = {} /\ exec.balances = fixture.balances
      /\ ~Differs(Declared, exec.history, Truncated)
      /\ Ids(ToSet(exec.history)) \intersect fixture.omitted = {}
  BY DEF Judgement, If
<1>3. Clean(exec.raw)
  BY <1>2 DEF WireSizes, If, Clean
<1>4. exec.history = exec.raw
  BY <1>3 DEF Drained
<1>5. \A j \in 1 .. Len(exec.raw) : exec.raw[j].id \notin fixture.omitted
  BY <1>1, <1>2, <1>4, IdsOf
<1>6. ASSUME case = "crawl" \/ Len(judged) + 1 = 1
      PROVE  /\ Len(exec.raw) = Len(History)
             /\ \A j \in 1 .. Len(History) : Alike(exec.raw[j], History[j])
  <2>1. ~Truncated
    BY <1>6, RunIs
  <2>2. Len(exec.raw) = Len(Declared)
        /\ \A i \in 1 .. Len(exec.raw) : Matches(exec.raw[i], Declared[0 + i])
    BY <1>1, <1>2, <1>4, <2>1 DEF Differs
  <2>3. /\ Len(History) \in Nat /\ DOMAIN History = 1 .. Len(History)
        /\ \A i \in 1 .. Len(History) : History[i] \in Observations
    BY <1>1, ScriptIs
  <2>4. Declared = [i \in 1 .. Len(History) |->
                      [field \in DOMAIN History[i] \ {"note", "big"} |-> History[i][field]]]
    BY <2>3 DEF Declared, History
  <2>5. Len(Declared) = Len(History)
    BY <2>3, <2>4
  <2>6. ASSUME NEW j \in 1 .. Len(History) PROVE Alike(exec.raw[j], History[j])
    <3>1. {"id", "money", "state"} \subseteq DOMAIN History[j] \ {"note", "big"}
      BY <2>3 DEF Observations
    <3>2. \A field \in DOMAIN History[j] \ {"note", "big"} :
            exec.raw[j][field] = History[j][field]
      BY <2>2, <2>3, <2>4, <2>5 DEF Matches
    <3>3. exec.raw[j]["id"] = History[j]["id"] /\ exec.raw[j]["money"] = History[j]["money"]
          /\ exec.raw[j]["state"] = History[j]["state"]
      BY <3>1, <3>2
    <3> QED BY <3>3 DEF Alike
  <2> QED BY <2>2, <2>5, <2>6
<1> QED BY <1>2, <1>3, <1>5, <1>6 DEF Earned

(* An execution judged. *)
LEMMA JudgePass ==
  ASSUME TypeOK, PassInv, Judge
  PROVE  PassInv'
<1> DEFINE n == Len(judged)
<1>1. /\ UNCHANGED <<fixture, case, across>> /\ Working /\ step' # "done"
      /\ judged' = Append(judged, exec) /\ exec' = NewExecution
      /\ failures' = failures \union Judgement
  BY DEF Judge, Goto, Working, Fails
<1>2. judged \in Seq(Executions) /\ exec \in Executions /\ n \in 0 .. 2
  BY <1>1, Typed, RunIs
<1>3. /\ Len(judged') = n + 1 /\ judged'[n + 1] = exec
      /\ \A i \in 1 .. n : judged'[i] = judged[i]
  BY <1>1, <1>2
<1>4. exec'.raw = <<>> /\ exec'.history = <<>>
  BY <1>1 DEF NewExecution
<1>5. \A i \in 1 .. n + 1 : i \in 1 .. n \/ i = n + 1
  BY <1>2
<1>6. Drained(exec)' /\ \A i \in 1 .. Len(judged') : Drained(judged'[i])
  BY <1>3, <1>4, <1>5 DEF PassInv, Drained
<1>7. Folded'
  <2> SUFFICES ASSUME case = "interrupted" PROVE Folded'
    BY <1>1 DEF Folded
  <2>1. CASE n = 0
    BY <1>1, <1>3, <1>4, <2>1 DEF PassInv, Folded
  <2>2. CASE n = 1
    <3>1. across.fold = exec.history /\ exec.history \in Seq(Observations)
      BY <1>2, <2>2 DEF PassInv, Folded, Executions
    <3>2. exec.history \o <<>> = exec.history
      BY <3>1, ConcatEmptySeq
    <3>3. judged'[2] = exec /\ Len(judged') = 2
      BY <1>3, <2>2
    <3> QED BY <1>1, <1>4, <3>1, <3>2, <3>3 DEF Folded
  <2>3. CASE n = 2
    <3>1. judged'[2] = judged[2] /\ judged'[3] = exec /\ Len(judged') = 3
      BY <1>3, <2>3
    <3>2. across.fold = judged[2].history \o exec.history
      BY <2>3 DEF PassInv, Folded
    <3>3. across'.fold = judged'[2].history \o judged'[3].history
      BY <1>1, <3>1, <3>2
    <3> QED BY <3>1, <3>3 DEF Folded
  <2> QED BY <1>2, <2>1, <2>2, <2>3
<1>8. ASSUME failures' = {} PROVE \A i \in 1 .. Len(judged') : Earned(judged'[i], i)
  <2>1. failures = {} /\ Judgement = {}
    BY <1>1, <1>8
  <2>2. Earned(exec, n + 1)
    BY <1>1, <2>1, NothingFailed DEF PassInv
  <2>3. \A i \in 1 .. n : Earned(judged[i], i)
    BY <2>1 DEF PassInv
  <2> QED BY <1>3, <1>5, <2>2, <2>3
<1>9. (\A i \in 1 .. Len(judged) : Drained(judged[i]))'
  BY <1>6 DEF Drained, Clean
<1>10. (failures = {} => \A i \in 1 .. Len(judged) : Earned(judged[i], i))'
  <2> SUFFICES ASSUME failures' = {}, NEW i \in 1 .. Len(judged') PROVE Earned(judged[i], i)'
    OBVIOUS
  <2>1. Earned(judged'[i], i)
    BY <1>8
  <2> QED BY <1>1, <2>1 DEF Earned, Clean, History
<1> QED BY <1>1, <1>6, <1>7, <1>9, <1>10 DEF PassInv

(* The runs compared. *)
LEMMA ComparePass ==
  ASSUME TypeOK, PassInv, Compare
  PROVE  PassInv'
<1>1. /\ UNCHANGED <<fixture, case, judged, exec, across>>
      /\ failures' = failures \union
           IF case = "crawl" THEN If(Impure(judged[1], judged[2]), "A9") ELSE FamilyFailures
  BY DEF Compare, Same, Fails
<1>2. ASSUME failures' = {} PROVE Agreed
  <2>1. case = "crawl" => ~Impure(judged[1], judged[2])
    BY <1>1, <1>2 DEF If
  <2>2. case = "interrupted" => ~Bracket(judged[1])
    BY <1>1, <1>2 DEF If, FamilyFailures
  <2> QED BY <2>1, <2>2 DEF Agreed, Impure, Bracket
<1>3. failures' = {} => failures = {}
  BY <1>1
<1>4. (failures = {} /\ step = "done" => Agreed)'
  <2> SUFFICES ASSUME failures' = {} PROVE Agreed'
    OBVIOUS
  <2> QED BY <1>1, <1>2 DEF Agreed
<1> QED BY <1>1, <1>3, <1>4 DEF PassInv, Drained, Folded, Earned, Clean, History

(* Every step keeps it. *)
LEMMA NextPass == TypeOK /\ PassInv /\ [Next]_vars => PassInv'
<1> SUFFICES ASSUME TypeOK, PassInv, [Next]_vars PROVE PassInv'
  OBVIOUS
<1>a. exec \in Executions
  BY Typed
<1>1. CASE UNCHANGED vars
  <2>1. UNCHANGED <<fixture, case, step, exec, across, judged, failures>>
    BY <1>1 DEF vars
  <2>2. Agreed => Agreed'
    BY <2>1 DEF Agreed
  <2>3. Folded' /\ Drained(exec)'
    BY <2>1 DEF PassInv, Folded, Drained, Clean
  <2>4. (\A i \in 1 .. Len(judged) : Drained(judged[i]))'
    BY <2>1 DEF PassInv, Drained, Clean
  <2>5. (failures = {} => \A i \in 1 .. Len(judged) : Earned(judged[i], i))'
    BY <2>1 DEF PassInv, Earned, Clean, History
  <2> QED BY <2>1, <2>2, <2>3, <2>4, <2>5 DEF PassInv
<1>2. CASE Spawn \/ SpawnFails \/ TooManyPages \/ Close
  BY <1>2, NothingDelivered
     DEF Spawn, SpawnFails, TooManyPages, Close, Goto, Fails, Same
<1>3. ASSUME NEW op, Asking(op)
      PROVE  exec'.raw = exec.raw /\ exec'.history = exec.history
  BY <1>3, <1>a DEF Asking, Executions
<1>4. CASE ResourcesList \/ ResourcesListFails \/ BalancesReadFails \/ HistoryReadFails \/ StatusRead
  BY <1>3, <1>4, NothingDelivered
     DEF ResourcesList, ResourcesListFails, BalancesReadFails, HistoryReadFails, StatusRead,
         Goto, Fails, Same
<1>5. CASE BalancesRead
  <2>1. exec'.raw = exec.raw /\ exec'.history = exec.history
    BY <1>5, <1>a DEF BalancesRead, Executions
  <2> QED BY <1>5, <2>1, NothingDelivered DEF BalancesRead, Goto, Fails, Same
<1>6. ASSUME NEW op, Crashes(op) PROVE PassInv'
  <2>1. exec'.raw = exec.raw /\ exec'.history = exec.history
    BY <1>6, <1>a DEF Crashes, Executions
  <2> QED BY <1>6, <2>1, NothingDelivered DEF Crashes, Goto, Fails, Same
<1>7. CASE BalancesReadDies \/ HistoryReadDies
  BY <1>6, <1>7 DEF BalancesReadDies, HistoryReadDies
<1> QED BY <1>1, <1>2, <1>4, <1>5, <1>7, PageDelivered, JudgePass, ComparePass DEF Next

(* The place of a record among those of its id tells it from the others. *)
LEMMA PlacesDiffer ==
  ASSUME NEW s \in Seq(Observations), NEW i \in 1 .. Len(s), NEW j \in 1 .. Len(s),
         s[i].id = s[j].id,
         Cardinality({k \in 1 .. i : s[k].id = s[i].id})
           = Cardinality({k \in 1 .. j : s[k].id = s[j].id})
  PROVE  i = j
<1>1. ASSUME NEW a \in 1 .. Len(s), NEW b \in 1 .. Len(s), a < b, s[a].id = s[b].id
      PROVE  Cardinality({k \in 1 .. a : s[k].id = s[a].id})
               # Cardinality({k \in 1 .. b : s[k].id = s[b].id})
  <2> DEFINE A == {k \in 1 .. a : s[k].id = s[a].id}
             B == {k \in 1 .. b : s[k].id = s[b].id}
  <2>1. IsFiniteSet(B)
    <3>1. IsFiniteSet(1 .. b) /\ B \subseteq 1 .. b
      BY FS_Interval
    <3> QED BY <3>1, FS_Subset
  <2>2. A \subseteq B /\ b \in B /\ b \notin A
    BY <1>1
  <2> HIDE DEF A, B
  <2>3. A # B /\ A \in SUBSET B
    BY <2>2
  <2>4. Cardinality(A) < Cardinality(B)
    <3>1. Cardinality(A) =< Cardinality(B) /\ (Cardinality(A) = Cardinality(B) => A = B)
      BY <2>1, <2>3, FS_Subset
    <3>2. Cardinality(A) \in Nat /\ Cardinality(B) \in Nat
      BY <2>1, <2>3, FS_Subset, FS_CardinalityType
    <3> QED BY <2>3, <3>1, <3>2
  <2>5. Cardinality(A) \in Nat /\ Cardinality(B) \in Nat
    BY <2>1, <2>3, FS_Subset, FS_CardinalityType
  <2>6. Cardinality(A) # Cardinality(B)
    BY <2>4, <2>5
  <2> QED BY <2>6 DEF A, B
<1>2. i < j \/ j < i \/ i = j
  OBVIOUS
<1> QED BY <1>1, <1>2

(* Two histories of the same ids, whose records are the same in the same places of
   their ids, are the same. *)
LEMMA SameByLocalId ==
  ASSUME NEW s \in Seq(Observations), NEW t \in Seq(Observations), Len(s) = Len(t),
         \A i \in 1 .. Len(s) : s[i].id = t[i].id, ByLocalId(s) = ByLocalId(t)
  PROVE  s = t
<1> DEFINE Place(u, i) == Cardinality({j \in 1 .. i : u[j].id = u[i].id})
<1>1. DOMAIN s = 1 .. Len(s) /\ DOMAIN t = 1 .. Len(s) /\ Len(s) \in Nat
  OBVIOUS
<1>2. ASSUME NEW i \in 1 .. Len(s) PROVE s[i] = t[i]
  <2>1. <<s[i], Place(s, i)>> \in ByLocalId(t)
    BY <1>1 DEF ByLocalId
  <2>2. PICK j \in 1 .. Len(s) : <<s[i], Place(s, i)>> = <<t[j], Place(t, j)>>
    BY <1>1, <2>1 DEF ByLocalId
  <2>3. s[i] = t[j] /\ Place(s, i) = Place(t, j)
    <3> HIDE DEF Place
    <3> QED BY <2>2
  <2>4. {k \in 1 .. i : s[k].id = s[i].id} = {k \in 1 .. i : t[k].id = t[i].id}
    BY <1>1
  <2>5. Place(t, i) = Place(t, j)
    BY <2>3, <2>4
  <2>6. t[i].id = t[j].id
    BY <2>3
  <2>7. i = j
    BY <2>5, <2>6, PlacesDiffer
  <2> QED BY <2>3, <2>7
<1> QED BY <1>1, <1>2, SeqEqual

(* A record that is like a declared one and under the cap differs from it in its
   notes only. *)
LEMMA AlikeIs ==
  ASSUME NEW o \in Observations, NEW p \in Observations, Alike(o, p), ~o.big, ~p.big
  PROVE  o = [p EXCEPT !.note = o.note]
BY DEF Alike, Observations

(* A case that passes is evidence of what its assertions claim, whatever the adapter
   did on the way (assert_execution, assert_local_id_purity, run_pagination_family):
   no judgement sees all of it. *)
THEOREM SpecPassIsEarned == Spec => []PassIsEarned
<1>1. TypeOK /\ PassInv => PassIsEarned
  <2> SUFFICES ASSUME TypeOK, PassInv, Passed PROVE PassIsEarned
    BY DEF PassIsEarned
  <2>1. /\ Len(judged) = Len(Runs) /\ judged \in Seq(Executions)
        /\ case \in {"crawl", "interrupted"}
        /\ DOMAIN judged = 1 .. Len(judged) /\ fixture \in Fixtures
    BY DEF TypeOK, Passed
  <2>2. /\ \A i \in 1 .. Len(judged) : Earned(judged[i], i) /\ Drained(judged[i])
        /\ Agreed /\ Folded
    BY DEF PassInv, Passed
  <2>3. \A i \in 1 .. Len(judged) :
          /\ judged[i].raw \in Seq(Observations) /\ DOMAIN judged[i].raw = 1 .. Len(judged[i].raw)
          /\ judged[i].history = judged[i].raw
    <3>1. \A i \in 1 .. Len(judged) : judged[i] \in Executions
      BY <2>1
    <3>2. \A i \in 1 .. Len(judged) : judged[i].raw \in Seq(Observations)
      BY <3>1 DEF Executions
    <3> QED BY <2>2, <3>2 DEF Earned, Drained
  <2>4. 1 \in 1 .. Len(judged) /\ 2 \in 1 .. Len(judged)
        /\ (case = "interrupted" => Len(judged) = 3)
    BY <2>1 DEF Runs
  <2>5. \A i \in 1 .. Len(judged) :
          /\ judged[i].balances = fixture.balances
          /\ \A j \in DOMAIN judged[i].raw :
               ~judged[i].raw[j].big /\ judged[i].raw[j].id \notin fixture.omitted
    BY <2>2, <2>3 DEF Earned, Clean
  <2>6. /\ Len(judged[1].raw) = Len(History)
        /\ \A j \in 1 .. Len(History) : Alike(judged[1].raw[j], History[j])
    BY <2>2, <2>4 DEF Earned
  <2>7. \A i \in DOMAIN judged[1].raw :
          judged[1].raw[i] = [History[i] EXCEPT !.note = judged[1].raw[i].note]
    <3> SUFFICES ASSUME NEW i \in DOMAIN judged[1].raw
                 PROVE  judged[1].raw[i] = [History[i] EXCEPT !.note = judged[1].raw[i].note]
      OBVIOUS
    <3>1. i \in 1 .. Len(History) /\ judged[1].raw[i] \in Observations /\ ~judged[1].raw[i].big
      BY <2>3, <2>4, <2>5, <2>6
    <3>2. History[i] \in Observations /\ ~History[i].big
      BY <2>1, <3>1, ScriptIs
    <3> QED BY <2>6, <3>1, <3>2, AlikeIs
  <2>8. ASSUME case = "crawl" PROVE judged[1].raw = judged[2].raw
    <3>1. /\ Len(judged[2].raw) = Len(History)
          /\ \A j \in 1 .. Len(History) : Alike(judged[2].raw[j], History[j])
      BY <2>2, <2>4, <2>8 DEF Earned
    <3>2. \A j \in 1 .. Len(judged[1].raw) : judged[1].raw[j].id = judged[2].raw[j].id
      BY <2>6, <3>1 DEF Alike
    <3>3. ByLocalId(judged[1].raw) = ByLocalId(judged[2].raw)
      BY <2>2, <2>3, <2>4, <2>8 DEF Agreed
    <3> QED BY <2>3, <2>4, <2>6, <3>1, <3>2, <3>3, SameByLocalId
  <2>9. ASSUME case = "interrupted"
        PROVE  Live(judged[2].raw \o judged[3].raw) = Live(judged[1].raw)
    <3>0. Len(judged) = 3 /\ 3 \in 1 .. 3
      BY <2>4, <2>9
    <3>1. 3 \in 1 .. Len(judged) /\ across.fold = judged[2].history \o judged[3].history
      BY <2>2, <2>9, <3>0 DEF Folded
    <3> QED BY <2>2, <2>3, <2>4, <2>9, <3>1 DEF Agreed
  <2> QED BY <2>1, <2>5, <2>6, <2>7, <2>8, <2>9 DEF PassIsEarned, History
<1> QED BY <1>1, InitType, NextType, InitPass, NextPass, PTL DEF Spec

-----------------------------------------------------------------------------
(***************************************************************************)
(* An adapter that plays its fixture right.                                 *)
(***************************************************************************)

(* Where the i-th run of a case begins in the history of fixture f, and where it
   ends. *)
Start(f, i) == IF i = 3 /\ f.resumable = "exact" THEN f.dies ELSE 0

Stop(f, c, i) == IF c = "interrupted" /\ i = 2 THEN f.dies ELSE Len(f.history)

(* The pages between two positions. *)
PagesOf(f, from, to) == {e \in ToSet(f.ends) : from < e /\ e =< to}

Turns(f, from, to) == Cardinality(PagesOf(f, from, to))

(* Execution e has read what is between two positions, page after page. *)
Reads(f, e, from, to) ==
  /\ e.raw = SubSeq(f.history, from + 1, to) /\ e.history = e.raw
  /\ e.frames = Turns(f, from, to)

(* What is asked until n pages are read. *)
Asked(n) ==
  [i \in 1 .. n + 2 |-> IF i = 1 THEN "resources" ELSE IF i = 2 THEN "balances"
                        ELSE IF i = 3 THEN "history" ELSE "page"]

(* Execution e is the i-th run of case c as an adapter that is right plays it. *)
Played(f, c, e, i) ==
  /\ Reads(f, e, Start(f, i), Stop(f, c, i)) /\ e.balances = f.balances
  /\ e.crashed = (c = "interrupted" /\ i = 2)
  /\ c = "crawl" => e.asked = Append(Asked(e.frames), "status")

RunNo == Len(judged) + 1

(* A position in the history at which paging state a goes on. *)
Resumes(f, a, at) ==
  a.resumable = f.resumable /\ (f.resumable = "exact" => a.next = at)

(* How far the run at hand has got. *)
OnScript ==
  /\ step \in {"spawn", "resources"} => exec = NewExecution
  /\ step = "balances" => exec = [NewExecution EXCEPT !.asked = <<"resources">>]
  /\ step \in {"history", "status"} =>
       /\ exec.balances = fixture.balances /\ ~exec.crashed
       /\ case = "crawl" => exec.asked = Asked(exec.frames)
  /\ step = "history" =>
       /\ Reads(fixture, exec, Start(fixture, RunNo), page) /\ pages = exec.frames
       /\ Start(fixture, RunNo) =< page /\ page =< Stop(fixture, case, RunNo)
       /\ page < Len(fixture.history)
  /\ step = "status" =>
       /\ Stop(fixture, case, RunNo) = Len(fixture.history)
       /\ Reads(fixture, exec, Start(fixture, RunNo), Stop(fixture, case, RunNo))
  /\ step \in {"close", "judge"} => Played(fixture, case, exec, RunNo)

(* What the paging state that spans a kill and its resume has recorded. *)
Spanned ==
  case = "interrupted" =>
    /\ Len(judged) = 0 => across.resumable = "unread"
    /\ Len(judged) = 1 /\ step \in {"spawn", "resources", "balances"} =>
         across.resumable = "unread"
    /\ Len(judged) = 1 /\ step = "history" => page = Absent \/ Resumes(fixture, across, page)
    /\ Len(judged) = 1 /\ step \in {"close", "judge"} => Resumes(fixture, across, fixture.dies)
    /\ Len(judged) = 2 /\ step \in {"spawn", "resources", "balances"} =>
         Resumes(fixture, across, fixture.dies)

HonestInv ==
  faults = 0 =>
    /\ failures = {}
    /\ \A i \in 1 .. Len(judged) : Played(fixture, case, judged[i], i)
    /\ OnScript /\ Spanned

(* A page more is one turn more, and there are enough of them. *)
LEMMA OneMoreTurn ==
  ASSUME fixture \in Fixtures, NEW from \in 0 .. Len(History), NEW at \in 0 .. Len(History),
         from =< at, at # Len(History)
  PROVE  /\ Turns(fixture, from, at) \in Nat
         /\ Turns(fixture, from, End(at)) = Turns(fixture, from, at) + 1
         /\ Turns(fixture, from, at) < MaxPages
<1> DEFINE S == PagesOf(fixture, from, at)
           T == PagesOf(fixture, from, End(at))
           All == ToSet(fixture.ends)
<1>1. /\ All \subseteq 1 .. Len(History) /\ Len(History) \in Nat
      /\ End(at) \in All /\ End(at) > at /\ \A d \in All : d > at => End(at) =< d
  BY ScriptIs, EndIsNext
<1>2. IsFiniteSet(All)
  <2>1. IsFiniteSet(1 .. Len(History))
    BY <1>1, FS_Interval
  <2> QED BY <1>1, <2>1, FS_Subset
<1>3. S \in SUBSET All /\ T \in SUBSET All
  BY DEF PagesOf
<1>4. IsFiniteSet(S) /\ Cardinality(S) \in Nat /\ Cardinality(All) \in Nat
  BY <1>2, <1>3, FS_Subset, FS_CardinalityType
<1>5. Cardinality(T) =< Cardinality(All) /\ Cardinality(T) \in Nat
  BY <1>2, <1>3, FS_Subset, FS_CardinalityType
<1>6. T = S \union {End(at)} /\ End(at) \notin S
  <2>1. \A d \in All : d \in Nat /\ End(at) \in Nat
    BY <1>1
  <2>2. \A d \in All : (from < d /\ d =< End(at)) <=> ((from < d /\ d =< at) \/ d = End(at))
    <3> SUFFICES ASSUME NEW d \in All
                 PROVE  (from < d /\ d =< End(at)) <=> ((from < d /\ d =< at) \/ d = End(at))
      OBVIOUS
    <3>1. d > at => End(at) =< d
      BY <1>1
    <3> QED BY <1>1, <2>1, <3>1
  <2>3. ~ (End(at) =< at)
    BY <1>1, <2>1
  <2> QED BY <1>1, <2>2, <2>3 DEF PagesOf
<1>7. Cardinality(T) = Cardinality(S) + 1
  BY <1>4, <1>6, FS_AddElement
<1>8. Cardinality(All) =< MaxPages /\ MaxPages \in Nat
  BY ConformanceAssumption DEF Consistent
<1> QED BY <1>4, <1>5, <1>7, <1>8 DEF Turns

(* Nowhere is no turn, and a page is one. *)
LEMMA NoTurn ==
  ASSUME fixture \in Fixtures, NEW at \in Cursors
  PROVE  /\ Turns(fixture, at, at) = 0
         /\ Turns(fixture, 0, at) = 0 <=> at = 0
<1>1. Cursors \subseteq Nat
  BY ScriptIs DEF Cursors, Absent
<1>2. PagesOf(fixture, at, at) = {}
  BY <1>1, ScriptIs DEF PagesOf
<1>3. Cardinality({}) = 0
  BY FS_EmptySet
<1>4. ASSUME at # 0 PROVE Turns(fixture, 0, at) # 0
  <2>1. at \in PagesOf(fixture, 0, at)
    BY <1>1, <1>4 DEF PagesOf, Cursors, Absent
  <2>2. IsFiniteSet(PagesOf(fixture, 0, at))
    <3>1. PagesOf(fixture, 0, at) \in SUBSET (1 .. Len(History)) /\ Len(History) \in Nat
      BY ScriptIs DEF PagesOf
    <3>2. IsFiniteSet(1 .. Len(History))
      BY <3>1, FS_Interval
    <3> QED BY <3>1, <3>2, FS_Subset
  <2> QED BY <2>1, <2>2, FS_EmptySet DEF Turns
<1> QED BY <1>2, <1>3, <1>4 DEF Turns

(* A slice of the history. *)
LEMMA Slice ==
  ASSUME fixture \in Fixtures, NEW from \in 0 .. Len(History), NEW to \in from .. Len(History)
  PROVE  /\ SubSeq(History, from + 1, to) \in Seq(Observations)
         /\ Len(SubSeq(History, from + 1, to)) = to - from
         /\ \A i \in 1 .. to - from :
              /\ SubSeq(History, from + 1, to)[i] = History[from + i]
              /\ from + i \in 1 .. Len(History)
         /\ Clean(SubSeq(History, from + 1, to))
         /\ \A more \in to .. Len(History) :
              SubSeq(History, from + 1, to) \o SubSeq(History, to + 1, more)
                = SubSeq(History, from + 1, more)
<1>1. /\ History \in Seq(Observations) /\ Len(History) \in Nat
      /\ \A i \in 1 .. Len(History) : History[i] \in Observations /\ ~History[i].big
  BY ScriptIs
<1> HIDE DEF History
<1> DEFINE s == SubSeq(History, from + 1, to)
<1>2. /\ from \in Nat /\ to \in Nat /\ from + 1 \in Int /\ to \in Int
      /\ from + 1 \in 1 .. Len(History) + 1
      /\ \A i \in from + 1 .. to : i \in 1 .. Len(History)
      /\ to \in (from + 1) - 1 .. Len(History) /\ to - (from + 1) + 1 = to - from
      /\ from + 1 =< to => to - from = to - (from + 1) + 1
      /\ ~ (from + 1 =< to) => to - from = 0
      /\ \A i \in 1 .. to - from : (from + 1) + i - 1 = from + i /\ from + i \in 1 .. Len(History)
  BY <1>1
<1>3. \A i \in from + 1 .. to : History[i] \in Observations
  BY <1>1, <1>2
<1>4. /\ s \in Seq(Observations)
      /\ Len(s) = IF from + 1 =< to THEN to - (from + 1) + 1 ELSE 0
      /\ \A i \in 1 .. to - (from + 1) + 1 : s[i] = History[(from + 1) + i - 1]
  BY <1>2, <1>3, SubSeqProperties
<1>5. Len(s) = to - from /\ \A i \in 1 .. to - from : s[i] = History[from + i]
  BY <1>2, <1>4
<1>6. \A more \in to .. Len(History) :
        SubSeq(History, from + 1, to) \o SubSeq(History, to + 1, more)
          = SubSeq(History, from + 1, more)
  BY <1>1, <1>2, ConcatAdjacentSubSeq
<1>7. Clean(s)
  <2>1. DOMAIN s = 1 .. Len(s)
    BY <1>4
  <2> QED BY <1>1, <1>2, <1>5, <2>1 DEF Clean
<1> QED BY <1>2, <1>4, <1>5, <1>6, <1>7

(* The next question. *)
LEMMA AskedNext ==
  ASSUME NEW n \in Nat
  PROVE  /\ Append(Asked(n), IF n = 0 THEN "history" ELSE "page") = Asked(n + 1)
         /\ <<"resources", "balances">> = Asked(0)
<1> DEFINE op == IF n = 0 THEN "history" ELSE "page"
           more == Append(Asked(n), op)
<1>1. /\ Asked(n) \in Seq(Questions) /\ Len(Asked(n)) = n + 2 /\ op \in Questions
      /\ \A i \in 1 .. n + 2 : Asked(n)[i] = IF i = 1 THEN "resources" ELSE IF i = 2 THEN "balances"
                                             ELSE IF i = 3 THEN "history" ELSE "page"
  <2>1. n + 2 \in Nat
    OBVIOUS
  <2> QED BY <2>1, IsASeq DEF Asked, Questions
<1>2. /\ Asked(n + 1) \in Seq(Questions) /\ Len(Asked(n + 1)) = n + 3
      /\ \A i \in 1 .. n + 3 :
           Asked(n + 1)[i] = IF i = 1 THEN "resources" ELSE IF i = 2 THEN "balances"
                             ELSE IF i = 3 THEN "history" ELSE "page"
  <2>1. n + 3 \in Nat /\ (n + 1) + 2 = n + 3
    OBVIOUS
  <2> QED BY <2>1, IsASeq DEF Asked, Questions
<1>3. /\ more \in Seq(Questions) /\ Len(more) = n + 3
      /\ \A i \in 1 .. n + 2 : more[i] = Asked(n)[i]
      /\ more[n + 3] = op
  <2> HIDE DEF op
  <2>1. (n + 2) + 1 = n + 3
    OBVIOUS
  <2> QED BY <1>1, <2>1, AppendProperties
<1>4. ASSUME NEW i \in 1 .. n + 3 PROVE more[i] = Asked(n + 1)[i]
  <2>1. CASE i = n + 3
    <3>1. op = IF i = 3 THEN "history" ELSE "page"
      BY <2>1
    <3>2. i # 1 /\ i # 2
      BY <2>1
    <3> QED BY <1>2, <1>3, <2>1, <3>1, <3>2
  <2>2. CASE i # n + 3
    <3>1. i \in 1 .. n + 2
      BY <2>2
    <3> QED BY <1>1, <1>2, <1>3, <3>1
  <2> QED BY <2>1, <2>2
<1>5. more = Asked(n + 1)
  <2> HIDE DEF more
  <2> QED BY <1>2, <1>3, <1>4, SeqEqual
<1>6. <<"resources", "balances">> = Asked(0)
  BY DEF Asked
<1> QED BY <1>5, <1>6

(* Where the runs begin and end. *)
LEMMA RunSpan ==
  ASSUME fixture \in Fixtures, NEW i \in {1, 2, 3}
  PROVE  /\ Start(fixture, i) \in 0 .. Len(History)
         /\ Stop(fixture, case, i) \in Start(fixture, i) .. Len(History)
         /\ Start(fixture, i) < Len(History)
         /\ Start(fixture, i) \in Cursors /\ Stop(fixture, case, i) \in Cursors
<1>1. /\ fixture.dies \in 1 .. Len(History) /\ fixture.dies < Len(History)
      /\ Len(History) \in Nat \ {0}
      /\ fixture.dies \in ToSet(fixture.ends) /\ Len(History) \in ToSet(fixture.ends)
  BY ScriptIs
<1> QED BY <1>1 DEF Start, Stop, History, Cursors, Absent

(* What a run that was played reads. *)
LEMMA PlayedIs ==
  ASSUME fixture \in Fixtures, NEW i \in {1, 2, 3}, NEW e,
         Reads(fixture, e, Start(fixture, i), Stop(fixture, case, i))
  PROVE  /\ e.history \in Seq(Observations) /\ e.history = e.raw /\ Clean(e.raw)
         /\ DOMAIN e.history = 1 .. Len(e.history)
         /\ Len(e.history) = Stop(fixture, case, i) - Start(fixture, i)
         /\ \A j \in 1 .. Len(e.history) :
              /\ e.history[j] = History[Start(fixture, i) + j]
              /\ Start(fixture, i) + j \in 1 .. Len(History)
         /\ Ids(ToSet(e.history)) \subseteq Ids(ToSet(History))
<1> DEFINE from == Start(fixture, i)
           to == Stop(fixture, case, i)
<1>1. from \in 0 .. Len(History) /\ to \in from .. Len(History)
  BY RunSpan
<1>2. e.history = SubSeq(History, from + 1, to) /\ e.history = e.raw
  BY DEF Reads, History
<1> HIDE DEF from, to
<1>3. /\ e.history \in Seq(Observations) /\ Len(e.history) = to - from /\ Clean(e.history)
      /\ \A j \in 1 .. to - from : e.history[j] = History[from + j] /\ from + j \in 1 .. Len(History)
  BY <1>1, <1>2, Slice
<1>4. Ids(ToSet(e.history)) \subseteq Ids(ToSet(History))
  <2> SUFFICES ASSUME NEW id \in Ids(ToSet(e.history)) PROVE id \in Ids(ToSet(History))
    OBVIOUS
  <2>1. PICK j \in 1 .. Len(e.history) : e.history[j].id = id
    BY <1>3, IdsOf
  <2>2. from + j \in 1 .. Len(History) /\ History[from + j].id = id
    BY <1>3, <2>1
  <2>3. History \in Seq(Observations)
    BY ScriptIs
  <2> QED BY <2>2, <2>3, IdsOf
<1> QED BY <1>2, <1>3, <1>4 DEF from, to

(* The runs of a case that are not killed and the one that is, read as a whole. *)
LEMMA ReadWhole ==
  ASSUME fixture \in Fixtures, NEW i \in {1, 2, 3}, NEW e,
         Reads(fixture, e, Start(fixture, i), Stop(fixture, case, i))
  PROVE  /\ i = 1 => e.history = History
         /\ case = "crawl" /\ i = 2 => e.history = History
         /\ case = "interrupted" /\ i = 2 => e.history = SubSeq(History, 1, fixture.dies)
         /\ i = 3 => e.history = IF fixture.resumable = "exact"
                                 THEN SubSeq(History, fixture.dies + 1, Len(History))
                                 ELSE History
<1>1. e.history = SubSeq(History, Start(fixture, i) + 1, Stop(fixture, case, i))
  BY DEF Reads, History
<1>2. SubSeq(History, 1, Len(History)) = History
  BY ScriptIs, SubSeqFull
<1>3. 0 + 1 = 1
  OBVIOUS
<1>4. /\ i \in {1, 2} => Start(fixture, i) = 0
      /\ i = 3 => Start(fixture, i) = IF fixture.resumable = "exact" THEN fixture.dies ELSE 0
      /\ case = "interrupted" /\ i = 2 => Stop(fixture, case, i) = fixture.dies
      /\ ~ (case = "interrupted" /\ i = 2) => Stop(fixture, case, i) = Len(History)
  BY DEF Start, Stop, History
<1>5. CASE i = 1
  BY <1>1, <1>2, <1>3, <1>4, <1>5
<1>6. CASE i = 2
  <2>1. Start(fixture, i) + 1 = 1
    BY <1>3, <1>4, <1>6
  <2>2. CASE case = "interrupted"
    <3>1. e.history = SubSeq(History, 1, fixture.dies)
      BY <1>1, <1>4, <1>6, <2>1, <2>2
    <3> QED BY <1>6, <2>2, <3>1
  <2>3. CASE case # "interrupted"
    <3>1. e.history = History
      BY <1>1, <1>2, <1>4, <1>6, <2>1, <2>3
    <3> QED BY <1>6, <2>3, <3>1
  <2> QED BY <2>2, <2>3
<1>7. CASE i = 3 /\ fixture.resumable = "exact"
  <2>1. e.history = SubSeq(History, fixture.dies + 1, Len(History))
    <3>1. Start(fixture, i) = fixture.dies
      BY <1>4, <1>7
    <3>2. Stop(fixture, case, i) = Len(History)
      BY <1>4, <1>7
    <3> QED BY <1>1, <3>1, <3>2
  <2> QED BY <1>7, <2>1
<1>8. CASE i = 3 /\ fixture.resumable # "exact"
  BY <1>1, <1>2, <1>3, <1>4, <1>8
<1> QED BY <1>5, <1>6, <1>7, <1>8

(* What the killed run and the one that resumes it leave live is what is live. *)
LEMMA LiveInTheEnd ==
  ASSUME fixture \in Fixtures, case = "interrupted", NEW d, NEW e,
         Reads(fixture, d, Start(fixture, 2), Stop(fixture, case, 2)),
         Reads(fixture, e, Start(fixture, 3), Stop(fixture, case, 3))
  PROVE  Live(d.history \o e.history) = Live(History)
<1>1. d.history = SubSeq(History, 1, fixture.dies)
  BY ReadWhole
<1>2. CASE fixture.resumable = "exact"
  <2>1. e.history = SubSeq(History, fixture.dies + 1, Len(History))
    BY <1>2, ReadWhole
  <2>2. fixture.dies \in 0 .. Len(History) /\ 0 \in 0 .. Len(History)
        /\ Len(History) \in fixture.dies .. Len(History) /\ 0 + 1 = 1
    BY ScriptIs
  <2>3. SubSeq(History, 1, fixture.dies) \o SubSeq(History, fixture.dies + 1, Len(History))
          = SubSeq(History, 1, Len(History))
    BY <2>2, Slice
  <2>4. SubSeq(History, 1, Len(History)) = History
    BY ScriptIs, SubSeqFull
  <2> QED BY <1>1, <2>1, <2>3, <2>4
<1>3. CASE fixture.resumable # "exact"
  <2>1. e.history = History /\ History \in Seq(Observations)
    BY <1>3, ReadWhole, ScriptIs
  <2>2. d.history \in Seq(Observations) /\ Ids(ToSet(d.history)) \subseteq Ids(ToSet(History))
    BY PlayedIs
  <2> QED BY <2>1, <2>2, LiveAfter
<1> QED BY <1>2, <1>3

(* Nothing fails a run that was played. *)
LEMMA PlayedIsJudged ==
  ASSUME TypeOK, Working, Folded, Played(fixture, case, exec, RunNo),
         \A i \in 1 .. Len(judged) : Played(fixture, case, judged[i], i)
  PROVE  Judgement = {}
<1> DEFINE from == Start(fixture, RunNo)
           to == Stop(fixture, case, RunNo)
<1>1. /\ fixture \in Fixtures /\ RunNo \in {1, 2, 3} /\ Len(judged) \in {0, 1, 2}
      /\ case \in {"crawl", "interrupted"}
  BY Typed, RunIs DEF RunNo, TypeOK
<1>2. /\ Truncated <=> case = "interrupted" /\ RunNo # 1
      /\ case = "crawl" => RunNo # 3
  <2>1. Len(judged) # 0 <=> RunNo # 1
    BY <1>1 DEF RunNo
  <2>2. case = "crawl" => Len(judged) # 2
    BY RunIs
  <2>3. Truncated <=> case = "interrupted" /\ Len(judged) # 0
    BY RunIs
  <2>4. RunNo = 3 => Len(judged) = 2
    BY <1>1 DEF RunNo
  <2> QED BY <2>1, <2>2, <2>3, <2>4
<1>3. Reads(fixture, exec, from, to) /\ exec.balances = fixture.balances
  BY DEF Played
<1>4. /\ exec.history \in Seq(Observations) /\ exec.history = exec.raw /\ Clean(exec.raw)
      /\ DOMAIN exec.history = 1 .. Len(exec.history)
      /\ Len(exec.history) = to - from
      /\ \A j \in 1 .. Len(exec.history) :
           exec.history[j] = History[from + j] /\ from + j \in 1 .. Len(History)
      /\ Ids(ToSet(exec.history)) \subseteq Ids(ToSet(History))
  BY <1>1, <1>3, PlayedIs
<1>5. from \in 0 .. Len(History) /\ to \in from .. Len(History)
  BY <1>1, RunSpan
<1>6. /\ Consistent(fixture) /\ History \in Seq(Observations)
      /\ Len(History) \in Nat /\ DOMAIN History = 1 .. Len(History)
  BY <1>1, ScriptIs, ConformanceAssumption
<1>7. WireSizes(exec.raw) = {}
  BY <1>4 DEF WireSizes, If, Clean
<1>8. Ids(ToSet(exec.history)) \intersect fixture.omitted = {}
  BY <1>4, <1>6 DEF Consistent, History
<1>9. ~Differs(Declared, exec.history, Truncated)
  <2>1. Len(Declared) = Len(History)
        /\ \A k \in 1 .. Len(History) :
             Declared[k] = [field \in DOMAIN History[k] \ {"note", "big"} |-> History[k][field]]
    <3>1. Declared = [k \in 1 .. Len(History) |->
                        [field \in DOMAIN History[k] \ {"note", "big"} |-> History[k][field]]]
      BY <1>6 DEF Declared, History
    <3> QED BY <1>6, <3>1
  <2>2. \A k \in 1 .. Len(History) : Matches(History[k], Declared[k])
    BY <2>1 DEF Matches
  <2> HIDE DEF from, to
  <2>3. \A i \in DOMAIN exec.history : Matches(exec.history[i], Declared[from + i])
    BY <1>4, <2>2
  <2>4. Len(exec.history) =< Len(Declared)
    BY <1>4, <1>5, <1>6, <2>1
  <2>5. ~Truncated => from = 0 /\ Len(exec.history) = Len(Declared)
    <3>1. ~Truncated => from = 0 /\ to = Len(History)
      BY <1>1, <1>2 DEF Start, Stop, from, to, History
    <3> QED BY <1>4, <1>6, <2>1, <3>1
  <2>6. from \in 0 .. Len(Declared) - Len(exec.history)
    BY <1>4, <1>5, <1>6, <2>1
  <2> QED BY <2>3, <2>4, <2>5, <2>6 DEF Differs
<1>10. LiveFailures(IF Truncated THEN across.fold ELSE exec.history) = {}
  <2> DEFINE before == SubSeq(fixture.history, 1, fixture.dies)
  <2>1. /\ fixture.live = Ids(Live(History)) /\ Live(before) # {}
        /\ Ids(Live(before)) \subseteq fixture.live
    BY <1>6 DEF Consistent, History
  <2>2. Ids(Live(before)) # {}
    BY <2>1 DEF Ids
  <2>3. fixture.live # {}
    BY <2>1, <2>2
  <2> HIDE DEF before
  <2>4. CASE ~Truncated
    <3>1. exec.history = History
      BY <1>1, <1>2, <1>3, <2>4, ReadWhole
    <3> QED BY <2>1, <2>3, <2>4, <3>1 DEF LiveFailures, If
  <2>5. CASE Truncated /\ RunNo = 2
    <3>1. across.fold = exec.history
      <4>1. Len(judged) = 1
        BY <1>1, <2>5 DEF RunNo
      <4> QED BY <1>2, <2>5, <4>1 DEF Folded
    <3>2. exec.history = before
      BY <1>1, <1>2, <1>3, <2>5, ReadWhole DEF before, History
    <3> QED BY <2>1, <2>2, <2>5, <3>1, <3>2 DEF LiveFailures, If
  <2>6. CASE Truncated /\ RunNo = 3
    <3>0. Len(judged) = 2 /\ case = "interrupted" /\ 2 \in 1 .. 2
      BY <1>1, <1>2, <2>6 DEF RunNo
    <3>1. across.fold = judged[2].history \o exec.history
      BY <3>0 DEF Folded
    <3>2. Reads(fixture, judged[2], Start(fixture, 2), Stop(fixture, case, 2))
      BY <3>0 DEF Played
    <3>3. Live(across.fold) = Live(History)
      BY <1>1, <1>3, <2>6, <3>0, <3>1, <3>2, LiveInTheEnd
    <3> QED BY <2>1, <2>3, <2>6, <3>3 DEF LiveFailures, If
  <2> QED BY <1>1, <1>2, <2>4, <2>5, <2>6
<1> QED BY <1>3, <1>7, <1>8, <1>9, <1>10 DEF Judgement, If

(* Nor is there anything to find when the runs are compared. *)
LEMMA PlayedAreAlike ==
  ASSUME TypeOK, Folded, Len(judged) = Len(Runs),
         \A i \in 1 .. Len(judged) : Played(fixture, case, judged[i], i)
  PROVE  /\ case = "crawl" => ~Impure(judged[1], judged[2])
         /\ case = "interrupted" => FamilyFailures = {}
<1>1. fixture \in Fixtures /\ Consistent(fixture)
  BY Typed, ConformanceAssumption
<1>2. ASSUME case = "crawl" PROVE ~Impure(judged[1], judged[2])
  <2>1. Played(fixture, case, judged[1], 1) /\ Played(fixture, case, judged[2], 2)
    <3>1. Len(judged) = 2
      BY <1>2 DEF Runs
    <3>2. 1 \in 1 .. Len(judged) /\ 2 \in 1 .. Len(judged)
      BY <3>1
    <3> QED BY <3>2
  <2>2. judged[1].history = History /\ judged[2].history = History
    BY <1>1, <1>2, <2>1, ReadWhole DEF Played
  <2>3. Start(fixture, 1) = Start(fixture, 2) /\ Stop(fixture, case, 1) = Stop(fixture, case, 2)
    BY <1>2 DEF Start, Stop
  <2>4. judged[1].frames = judged[2].frames
    BY <2>1, <2>3 DEF Played, Reads
  <2>5. judged[1].asked = judged[2].asked
    BY <1>2, <2>1, <2>4 DEF Played
  <2> QED BY <2>2, <2>5 DEF Impure
<1>3. ASSUME case = "interrupted" PROVE FamilyFailures = {}
  <2>a. Len(judged) = 3
    <3>1. Runs = <<"full", "killed", "resumed">>
      BY <1>3 DEF Runs
    <3> QED BY <3>1
  <2>1. /\ Played(fixture, case, judged[1], 1) /\ Played(fixture, case, judged[2], 2)
        /\ Played(fixture, case, judged[3], 3)
    <3>1. 1 \in 1 .. Len(judged) /\ 2 \in 1 .. Len(judged) /\ 3 \in 1 .. Len(judged)
      BY <2>a
    <3> QED BY <3>1
  <2>2. /\ Reads(fixture, judged[1], Start(fixture, 1), Stop(fixture, case, 1))
        /\ Reads(fixture, judged[2], Start(fixture, 2), Stop(fixture, case, 2))
        /\ Reads(fixture, judged[3], Start(fixture, 3), Stop(fixture, case, 3))
    BY <2>1 DEF Played
  <2>c. judged[2].crashed /\ ~judged[3].crashed
    <3>1. judged[2].crashed = (case = "interrupted" /\ 2 = 2)
          /\ judged[3].crashed = (case = "interrupted" /\ 3 = 2)
      BY <2>1 DEF Played
    <3>2. (case = "interrupted" /\ 2 = 2) = TRUE /\ (case = "interrupted" /\ 3 = 2) = FALSE
      BY <1>3
    <3> QED BY <3>1, <3>2
  <2>3. ~Bracket(judged[1])
    <3>1. across.fold = judged[2].history \o judged[3].history
      BY <1>3, <2>a DEF Folded
    <3>2. Live(across.fold) = Live(History)
      BY <1>1, <1>3, <2>2, <3>1, LiveInTheEnd
    <3>3. judged[1].history = History
      BY <1>1, <2>2, ReadWhole
    <3> QED BY <3>2, <3>3 DEF Bracket
  <2> DEFINE after == SubSeq(fixture.history, fixture.dies + 1, Len(fixture.history))
             emitted == Ids(ToSet(judged[3].history))
  <2>4. emitted = Ids(ToSet(IF fixture.resumable = "exact" THEN after ELSE fixture.history))
    <3>1. judged[3].history = IF fixture.resumable = "exact" THEN after ELSE fixture.history
      BY <1>1, <2>2, ReadWhole DEF History
    <3> HIDE DEF after
    <3> QED BY <3>1
  <2>5. fixture.forbidden \intersect emitted = {} /\ fixture.redelivered \subseteq emitted
    BY <1>1, <2>4 DEF Consistent
  <2>b. fixture.frames \in Nat /\ judged[3].frames \in Nat
    <3>1. fixture \in FixtureFiles
      BY <1>1, ConformanceAssumption
    <3>2. judged[3] \in Executions
      <4>1. 3 \in 1 .. Len(judged) /\ judged \in Seq(Executions)
        BY <2>a, Typed
      <4> QED BY <4>1, ElementOfSeq
    <3> QED BY <3>1, <3>2 DEF FixtureFiles, Executions
  <2>6. ~ (judged[3].frames > fixture.frames)
    <3>1. judged[3].frames = Cardinality(PagesOf(fixture, Start(fixture, 3), Len(History)))
      BY <1>3, <2>2 DEF Reads, Turns, Stop, History
    <3>2. PagesOf(fixture, Start(fixture, 3), Len(History))
            = {e \in ToSet(fixture.ends) : fixture.resumable = "exact" => e > fixture.dies}
      <4>1. \A e \in ToSet(fixture.ends) : e \in Nat /\ 0 < e /\ e =< Len(History)
        BY <1>1, ScriptIs
      <4>2. fixture.dies \in Nat
        BY <1>1, ScriptIs
      <4> QED BY <4>1, <4>2 DEF PagesOf, Start
    <3>3. fixture.frames >= Cardinality({e \in ToSet(fixture.ends) :
                                           fixture.resumable = "exact" => e > fixture.dies})
      BY <1>1 DEF Consistent
    <3>4. judged[3].frames = Cardinality({e \in ToSet(fixture.ends) :
                                            fixture.resumable = "exact" => e > fixture.dies})
      BY <3>1, <3>2
    <3> QED BY <2>b, <3>3, <3>4
  <2> HIDE DEF after
  <2> QED BY <2>c, <2>3, <2>5, <2>6 DEF FamilyFailures, If
<1> QED BY <1>2, <1>3

(* It holds before anything was asked. *)
LEMMA InitHonest == Init => HonestInv
<1> SUFFICES ASSUME Init PROVE HonestInv
  OBVIOUS
<1>1. judged = <<>> /\ Len(judged) = 0
  BY DEF Init
<1>2. step = "spawn" /\ exec = NewExecution /\ failures = {} /\ across.resumable = "unread"
  BY DEF Init, NewResumption
<1> QED BY <1>1, <1>2 DEF HonestInv, OnScript, Spanned

(* Nothing wrong was done, then or before. *)
LEMMA NothingWrong ==
  ASSUME TypeOK, NEW n \in Nat, Wrong(n), faults' = 0
  PROVE  n = 0 /\ faults = 0
BY DEF TypeOK, Wrong

(* The calls that are right as long as nothing is wrong. *)
LEMMA NeverWrong ==
  ASSUME TypeOK, faults' = 0
  PROVE  /\ ~SpawnFails /\ ~ResourcesListFails /\ ~BalancesReadFails /\ ~BalancesReadDies
         /\ ~HistoryReadFails
         /\ HistoryReadDies => Dies
<1>1. ~Wrong(1)
  <2> SUFFICES ASSUME Wrong(1) PROVE FALSE
    OBVIOUS
  <2>1. 1 = 0
    BY NothingWrong
  <2> QED BY <2>1
<1>2. HistoryReadDies => Dies
  <2> SUFFICES ASSUME HistoryReadDies, ~Dies PROVE FALSE
    OBVIOUS
  <2>1. Wrong(1)
    BY DEF HistoryReadDies
  <2> QED BY <1>1, <2>1
<1> QED BY <1>1, <1>2
        DEF SpawnFails, ResourcesListFails, BalancesReadFails, BalancesReadDies, HistoryReadFails

(* The state of an honest run, named once. *)
LEMMA HonestIs ==
  ASSUME TypeOK, HonestInv, faults = 0, Working
  PROVE  /\ failures = {} /\ \A i \in 1 .. Len(judged) : Played(fixture, case, judged[i], i)
         /\ OnScript /\ Spanned
         /\ fixture \in Fixtures /\ exec \in Executions /\ page \in Cursors
         /\ RunNo \in {1, 2, 3} /\ Len(judged) \in {0, 1, 2} /\ RunNo = Len(judged) + 1
         /\ RunNo = 1 <=> Len(judged) = 0
         /\ RunNo = 2 <=> Len(judged) = 1
         /\ RunNo = 3 <=> Len(judged) = 2
         /\ case = "crawl" => Len(judged) # 2
         /\ Truncated <=> case = "interrupted" /\ Len(judged) # 0
         /\ Run = "killed" <=> case = "interrupted" /\ Len(judged) = 1
<1>1. Len(judged) \in 0 .. 2
  BY RunIs
<1>2. Len(judged) \in {0, 1, 2}
  BY <1>1
<1>3. /\ RunNo \in {1, 2, 3} /\ RunNo = Len(judged) + 1
      /\ RunNo = 1 <=> Len(judged) = 0
      /\ RunNo = 2 <=> Len(judged) = 1
      /\ RunNo = 3 <=> Len(judged) = 2
  <2>1. 0 + 1 = 1 /\ 1 + 1 = 2 /\ 2 + 1 = 3
    OBVIOUS
  <2>2. CASE Len(judged) = 0
    BY <2>1, <2>2 DEF RunNo
  <2>3. CASE Len(judged) = 1
    BY <2>1, <2>3 DEF RunNo
  <2>4. CASE Len(judged) = 2
    BY <2>1, <2>4 DEF RunNo
  <2> QED BY <1>2, <2>2, <2>3, <2>4
<1>4. /\ failures = {} /\ \A i \in 1 .. Len(judged) : Played(fixture, case, judged[i], i)
      /\ OnScript /\ Spanned
  BY DEF HonestInv
<1> QED BY <1>2, <1>3, <1>4, RunIs, Typed

(* A step inside an execution. *)
LEMMA WithinHonest ==
  ASSUME HonestInv, faults = 0, Same, failures' = failures, OnScript', Spanned'
  PROVE  HonestInv'
<1>1. fixture' = fixture /\ case' = case /\ judged' = judged
  BY DEF Same
<1>2. (\A i \in 1 .. Len(judged) : Played(fixture, case, judged[i], i))'
  BY <1>1 DEF HonestInv
<1> QED BY <1>2 DEF HonestInv

(* A connection opened, the resources listed. *)
LEMMA ListedHonest ==
  ASSUME TypeOK, HonestInv, Spawn \/ ResourcesList, faults' = 0
  PROVE  HonestInv'
<1>1. /\ UNCHANGED <<fixture, case, judged>> /\ UNCHANGED <<across, failures, faults>>
      /\ Same /\ faults = 0 /\ Working
  BY DEF Spawn, ResourcesList, Same, Working
<1>2. OnScript /\ Spanned
  BY <1>1 DEF HonestInv
<1>3. CASE Spawn
  <2>1. step = "spawn" /\ step' = "resources" /\ exec' = exec
    BY <1>3 DEF Spawn, Goto
  <2>2. OnScript'
    BY <1>2, <2>1 DEF OnScript
  <2>3. Spanned'
    BY <1>1, <1>2, <2>1 DEF Spanned
  <2> QED BY <1>1, <2>2, <2>3, WithinHonest
<1>4. CASE ResourcesList
  <2>1. step = "resources" /\ step' = "balances"
        /\ exec' = [exec EXCEPT !.asked = Append(@, "resources")]
    BY <1>4 DEF ResourcesList, Goto, Asking
  <2>2. exec' = [NewExecution EXCEPT !.asked = <<"resources">>]
    <3>1. exec = NewExecution
      BY <1>2, <2>1 DEF OnScript
    <3>2. Append(<<>>, "resources") = <<"resources">>
      OBVIOUS
    <3> QED BY <2>1, <3>1, <3>2 DEF NewExecution
  <2>3. OnScript'
    BY <2>1, <2>2 DEF OnScript
  <2>4. Spanned'
    BY <1>1, <1>2, <2>1 DEF Spanned
  <2> QED BY <1>1, <2>3, <2>4, WithinHonest
<1> QED BY <1>3, <1>4

(* The balances read, and where the history is read from. *)
LEMMA BalancesHonest ==
  ASSUME TypeOK, HonestInv, BalancesRead, faults' = 0
  PROVE  HonestInv'
<1>1. PICK lines \in {fixture.balances, <<>>} \union {<<m>> : m \in Moneys}, extra \in BOOLEAN :
        /\ Wrong(IF lines = fixture.balances /\ ~extra THEN 0 ELSE 1)
        /\ exec' = [exec EXCEPT !.asked = Append(@, "balances"), !.balances = lines]
        /\ Fails(StatusCoverage(extra))
  BY DEF BalancesRead
<1>2. lines = fixture.balances /\ ~extra /\ faults = 0
  <2>1. (IF lines = fixture.balances /\ ~extra THEN 0 ELSE 1) \in Nat
    OBVIOUS
  <2>2. (IF lines = fixture.balances /\ ~extra THEN 0 ELSE 1) = 0 /\ faults = 0
    BY <1>1, <2>1, NothingWrong
  <2> QED BY <2>2
<1>3. /\ step = "balances" /\ step' = "history" /\ page' = ResumePoint /\ pages' = 0
      /\ UNCHANGED <<across, fixture, case, judged>> /\ Same /\ Working
  BY DEF BalancesRead, Goto, Same, Working
<1>4. failures' = failures
  BY <1>1, <1>2 DEF Fails, StatusCoverage, If
<1>5. /\ OnScript /\ Spanned /\ fixture \in Fixtures /\ RunNo \in {1, 2, 3}
      /\ Len(judged) \in {0, 1, 2} /\ (case = "crawl" => Len(judged) # 2)
      /\ (RunNo = 3 <=> Len(judged) = 2)
      /\ (Truncated <=> case = "interrupted" /\ Len(judged) # 0)
  BY <1>2, <1>3, HonestIs
<1>6. case \in {"crawl", "interrupted"} /\ Absent = 0
  BY DEF TypeOK, Absent
<1>7. page' = Start(fixture, RunNo)
  <2>1. CASE ~Truncated
    <3>1. ResumePoint = Absent /\ RunNo # 3
      BY <1>5, <1>6, <2>1 DEF ResumePoint
    <3> QED BY <1>3, <1>6, <3>1 DEF Start
  <2>2. CASE Truncated /\ Len(judged) = 1
    <3>1. across.resumable = "unread" /\ RunNo # 3
      BY <1>3, <1>5, <2>2 DEF Spanned
    <3> QED BY <1>3, <1>6, <3>1 DEF Start, ResumePoint
  <2>3. CASE Truncated /\ Len(judged) = 2
    <3>1. Resumes(fixture, across, fixture.dies) /\ RunNo = 3
      BY <1>3, <1>5, <2>3 DEF Spanned
    <3> QED BY <1>3, <1>6, <2>3, <3>1 DEF Start, ResumePoint, Resumes
  <2> QED BY <1>5, <2>1, <2>2, <2>3
<1>8. /\ exec'.asked = Asked(0) /\ exec'.raw = <<>> /\ exec'.history = <<>>
      /\ exec'.frames = 0 /\ exec'.balances = fixture.balances /\ exec'.crashed = FALSE
  <2>1. exec = [NewExecution EXCEPT !.asked = <<"resources">>]
    BY <1>3, <1>5 DEF OnScript
  <2>2. Append(<<"resources">>, "balances") = <<"resources", "balances">>
    <3> DEFINE one == <<"resources">>
               two == <<"resources", "balances">>
    <3>1. one \in Seq(Questions) /\ Len(one) = 1 /\ one[1] = "resources"
          /\ two \in Seq(Questions) /\ Len(two) = 2 /\ two[1] = "resources" /\ two[2] = "balances"
          /\ "balances" \in Questions
      BY DEF Questions
    <3> HIDE DEF one, two
    <3>2. /\ Append(one, "balances") \in Seq(Questions) /\ Len(Append(one, "balances")) = 2
          /\ Append(one, "balances")[1] = "resources" /\ Append(one, "balances")[2] = "balances"
      <4>1. Len(one) + 1 = 2 /\ 1 \in 1 .. Len(one)
        BY <3>1
      <4>2. one \in Seq(Questions) /\ "balances" \in Questions
        BY <3>1
      <4>3. /\ Append(one, "balances") \in Seq(Questions)
            /\ Len(Append(one, "balances")) = Len(one) + 1
            /\ \A i \in 1 .. Len(one) : Append(one, "balances")[i] = one[i]
            /\ Append(one, "balances")[Len(one) + 1] = "balances"
        BY <4>2, AppendProperties
      <4> QED BY <3>1, <4>1, <4>3
    <3>3. \A i \in 1 .. 2 : i = 1 \/ i = 2
      OBVIOUS
    <3>4. Append(one, "balances") = two
      BY <3>1, <3>2, <3>3, SeqEqual
    <3> QED BY <3>4 DEF one, two
  <2>3. <<"resources", "balances">> = Asked(0)
    BY AskedNext
  <2> QED BY <1>1, <1>2, <2>1, <2>2, <2>3 DEF NewExecution
<1> DEFINE from == Start(fixture, RunNo)
<1>9. /\ from \in 0 .. Len(History) /\ Stop(fixture, case, RunNo) \in from .. Len(History)
      /\ from < Len(History) /\ from \in Cursors /\ Len(History) \in Nat
  BY <1>5, RunSpan, ScriptIs
<1>10. Reads(fixture, exec', from, from)
  <2>1. Turns(fixture, from, from) = 0
    BY <1>5, <1>9, NoTurn
  <2>2. SubSeq(fixture.history, from + 1, from) = <<>>
    <3>1. from + 1 \in Int /\ from \in Int /\ from < from + 1
      BY <1>9
    <3> HIDE DEF from
    <3> QED BY <3>1, SubSeqEmpty
  <2> HIDE DEF from
  <2> QED BY <1>8, <2>1, <2>2 DEF Reads
<1>11. RunNo' = RunNo
  BY <1>3 DEF RunNo
<1>12. OnScript'
  <2>1. from =< from /\ from =< Stop(fixture, case, RunNo)
    BY <1>9
  <2>2. ~exec'.crashed
    BY <1>8
  <2>3. from < Len(fixture.history)
    BY <1>9 DEF History
  <2> QED BY <1>3, <1>7, <1>8, <1>10, <1>11, <2>1, <2>2, <2>3 DEF OnScript
<1>13. Spanned'
  <2>1. Len(judged) = 1 => page' = Absent
    <3>1. Len(judged) = 1 => RunNo # 3
      BY <1>5
    <3> QED BY <1>6, <1>7, <3>1 DEF Start
  <2>2. Spanned
    BY <1>5
  <2> QED BY <1>3, <2>1, <2>2 DEF Spanned
<1> QED BY <1>2, <1>3, <1>4, <1>12, <1>13, WithinHonest

(* A page read right. *)
LEMMA PageHonest ==
  ASSUME TypeOK, HonestInv, HistoryRead, faults' = 0
  PROVE  HonestInv'
<1>1. PICK reply \in {Scripted(page)} \union Misplayed(page), extra \in BOOLEAN :
        /\ Wrong((IF Dies THEN 1 ELSE 0) + (IF reply = Scripted(page) THEN 0 ELSE 1)
                   + (IF extra THEN 1 ELSE 0))
        /\ reply.observations \in Seq(Observations) /\ reply.next \in Cursors
        /\ exec'.asked = Append(exec.asked, HistoryOp)
        /\ exec'.raw = exec.raw \o reply.observations
        /\ exec'.history = exec.history \o Kept(reply.observations)
        /\ exec'.frames = exec.frames + 1
        /\ exec'.balances = exec.balances /\ exec'.crashed = exec.crashed
        /\ Truncated => across' = [Record(across, fixture.resumable, reply.next)
                                     EXCEPT !.fold = @ \o Kept(reply.observations)]
        /\ ~Truncated => across' = across
        /\ page' = reply.next
        /\ Goto(IF reply.next = Absent THEN "status" ELSE "history")
        /\ Fails(StatusCoverage(extra))
  BY HistoryReadStep
<1>2. reply = Scripted(page) /\ ~Dies /\ ~extra /\ faults = 0
  <2> DEFINE n == (IF Dies THEN 1 ELSE 0) + (IF reply = Scripted(page) THEN 0 ELSE 1)
                    + (IF extra THEN 1 ELSE 0)
  <2>1. n \in Nat
    OBVIOUS
  <2>2. n = 0 => reply = Scripted(page) /\ ~Dies /\ ~extra
    OBVIOUS
  <2>3. Wrong(n)
    BY <1>1
  <2> HIDE DEF n
  <2>4. n = 0 /\ faults = 0
    BY <2>1, <2>3, NothingWrong
  <2> QED BY <2>2, <2>4
<1>3. /\ step = "history" /\ pages' = pages + 1
      /\ UNCHANGED <<fixture, case, judged>> /\ Same /\ Working
  BY DEF HistoryRead, Same, Working
<1>4. failures' = failures
  BY <1>1, <1>2 DEF Fails, StatusCoverage, If
<1>5. /\ OnScript /\ Spanned /\ fixture \in Fixtures /\ RunNo \in {1, 2, 3} /\ page \in Cursors
      /\ (RunNo = 2 <=> Len(judged) = 1) /\ (RunNo = 1 <=> Len(judged) = 0)
      /\ (Truncated <=> case = "interrupted" /\ Len(judged) # 0)
      /\ (Run = "killed" <=> case = "interrupted" /\ Len(judged) = 1)
  BY <1>2, <1>3, HonestIs
<1> DEFINE from == Start(fixture, RunNo)
           to == Stop(fixture, case, RunNo)
           end == End(page)
<1>6. /\ Reads(fixture, exec, from, page) /\ pages = exec.frames
      /\ from =< page /\ page =< to /\ page < Len(fixture.history)
      /\ exec.balances = fixture.balances /\ ~exec.crashed
      /\ case = "crawl" => exec.asked = Asked(exec.frames)
  BY <1>3, <1>5 DEF OnScript
<1>7. /\ from \in 0 .. Len(History) /\ to \in from .. Len(History) /\ to \in Cursors
      /\ Len(History) \in Nat /\ page \in 0 .. Len(History) /\ page # Len(History)
      /\ ToSet(fixture.ends) \subseteq 1 .. Len(History)
      /\ fixture.dies < Len(History)
  <2>1. from \in 0 .. Len(History) /\ to \in from .. Len(History) /\ to \in Cursors
    BY <1>5, RunSpan
  <2>2. /\ ToSet(fixture.ends) \subseteq 1 .. Len(History) /\ Len(History) \in Nat
        /\ fixture.dies < Len(History)
    BY <1>5, ScriptIs
  <2>3. page \in 0 .. Len(History)
    BY <1>5, <2>2 DEF Cursors, Absent
  <2>4. page # Len(History)
    BY <1>6, <2>2, <2>3 DEF History
  <2> QED BY <2>1, <2>2, <2>3, <2>4
<1>8. /\ end \in ToSet(fixture.ends) /\ end > page
      /\ \A d \in ToSet(fixture.ends) : d > page => end =< d
  BY <1>5, <1>7, EndIsNext
<1>9. page < to
  <2>1. CASE case = "interrupted" /\ Len(judged) = 1
    <3>1. to = fixture.dies /\ page # fixture.dies
      BY <1>2, <1>5, <2>1 DEF Dies, Stop
    <3> QED BY <1>6, <1>7, <3>1
  <2>2. CASE ~ (case = "interrupted" /\ Len(judged) = 1)
    <3>1. to = Len(fixture.history)
      BY <1>5, <2>2 DEF Stop
    <3> QED BY <1>6, <3>1
  <2> QED BY <2>1, <2>2
<1> HIDE DEF from, to, end
<1>10. end =< to /\ end \in page .. Len(History) /\ end \in 1 .. Len(History)
  <2>1. to \in ToSet(fixture.ends)
    BY <1>7, <1>9 DEF Cursors, Absent
  <2> QED BY <1>7, <1>8, <1>9, <2>1
<1>11. /\ reply.observations = SubSeq(History, page + 1, end)
       /\ reply.next = IF end = Len(History) THEN Absent ELSE end
  BY <1>2, <1>5, <1>7, ScriptedPage DEF Cursors, end
<1>12. Reads(fixture, exec', from, end)
  <2>1. Clean(reply.observations)
    BY <1>5, <1>7, <1>10, <1>11, Slice
  <2>2. Kept(reply.observations) = reply.observations
    BY <1>1, <2>1, KeptOf
  <2>3. exec.raw = SubSeq(History, from + 1, page) /\ exec.history = exec.raw
        /\ exec.frames = Turns(fixture, from, page)
    BY <1>6 DEF Reads, History
  <2>4. page \in from .. Len(History)
    BY <1>6, <1>7
  <2>5. SubSeq(History, from + 1, page) \o SubSeq(History, page + 1, end)
          = SubSeq(History, from + 1, end)
    BY <1>5, <1>7, <1>10, <2>4, Slice
  <2>6. Turns(fixture, from, end) = Turns(fixture, from, page) + 1
    BY <1>5, <1>6, <1>7, OneMoreTurn DEF end
  <2>7. exec'.raw = SubSeq(History, from + 1, end) /\ exec'.history = exec'.raw
    BY <1>1, <1>11, <2>2, <2>3, <2>5
  <2>8. exec'.frames = Turns(fixture, from, end)
    BY <1>1, <2>3, <2>6
  <2> QED BY <2>7, <2>8 DEF Reads, History
<1>13. case = "crawl" => exec'.asked = Asked(exec'.frames)
  <2> SUFFICES ASSUME case = "crawl" PROVE exec'.asked = Asked(exec'.frames)
    OBVIOUS
  <2>1. from = 0
    <3>1. RunNo # 3
      BY <1>2, <1>3, <1>5, HonestIs
    <3> QED BY <3>1 DEF Start, from
  <2>2. exec.frames = Turns(fixture, 0, page)
    BY <1>6, <2>1 DEF Reads
  <2>3. HistoryOp = IF exec.frames = 0 THEN "history" ELSE "page"
    <3>1. exec.frames = 0 <=> page = 0
      BY <1>5, <2>2, NoTurn
    <3> QED BY <3>1 DEF HistoryOp, Absent
  <2>4. exec.frames \in Nat
    BY Typed DEF Executions
  <2>5. Append(Asked(exec.frames), HistoryOp) = Asked(exec.frames + 1)
    BY <2>3, <2>4, AskedNext
  <2> QED BY <1>1, <1>6, <2>5
<1>14. exec'.balances = fixture.balances /\ ~exec'.crashed
  BY <1>1, <1>6
<1>15. RunNo' = RunNo /\ pages' = exec'.frames
  BY <1>1, <1>3, <1>6 DEF RunNo
<1>16. CASE end = Len(History)
  <2>1. step' = "status" /\ to = Len(History)
    <3>1. reply.next = Absent
      BY <1>11, <1>16
    <3>2. to = Len(History)
      BY <1>7, <1>10, <1>16
    <3> QED BY <1>1, <3>1, <3>2 DEF Goto
  <2>2. OnScript'
    BY <1>3, <1>12, <1>13, <1>14, <1>15, <1>16, <2>1 DEF OnScript, from, to, History
  <2>3. ~ (case = "interrupted" /\ Len(judged) = 1)
    <3> SUFFICES ASSUME case = "interrupted", Len(judged) = 1 PROVE FALSE
      OBVIOUS
    <3>1. to = fixture.dies
      BY <1>5 DEF Stop, to
    <3> QED BY <1>7, <2>1, <3>1
  <2>4. Spanned'
    <3>1. across' = across \/ Len(judged) # 0
      BY <1>1, <1>5
    <3>2. Spanned
      BY <1>5
    <3> QED BY <1>3, <2>1, <2>3, <3>1, <3>2 DEF Spanned
  <2> QED BY <1>2, <1>3, <1>4, <2>2, <2>4, WithinHonest
<1>17. CASE end # Len(History)
  <2>1. page' = end /\ step' = "history"
    <3>1. reply.next = end /\ end # Absent
      BY <1>10, <1>11, <1>17 DEF Absent
    <3> QED BY <1>1, <3>1 DEF Goto
  <2>2. from =< end /\ end =< to /\ end < Len(fixture.history)
    <3>1. from =< end
      BY <1>6, <1>7, <1>10
    <3>2. end < Len(History)
      BY <1>7, <1>10, <1>17
    <3> QED BY <1>10, <3>1, <3>2 DEF History
  <2>3. OnScript'
    BY <1>3, <1>12, <1>13, <1>14, <1>15, <2>1, <2>2 DEF OnScript, from, to
  <2>4. Len(judged) # 0 /\ case = "interrupted" => Resumes(fixture, across', end)
    <3> SUFFICES ASSUME Len(judged) # 0, case = "interrupted" PROVE Resumes(fixture, across', end)
      OBVIOUS
    <3> DEFINE was == Record(across, fixture.resumable, reply.next)
    <3>1. /\ was \in Resumptions /\ was.resumable = fixture.resumable
          /\ fixture.resumable = "exact" => was.next = reply.next
      BY <1>1, RecordType
    <3>2. across' = [was EXCEPT !.fold = @ \o Kept(reply.observations)]
      BY <1>1, <1>5
    <3> HIDE DEF was
    <3>3. across'.resumable = was.resumable /\ across'.next = was.next
      BY <3>1, <3>2 DEF Resumptions
    <3> QED BY <1>1, <2>1, <3>1, <3>3 DEF Resumes
  <2>5. Spanned'
    <3>1. across' = across \/ Len(judged) # 0
      BY <1>1, <1>5
    <3>2. Spanned
      BY <1>5
    <3> QED BY <1>3, <2>1, <2>4, <3>1, <3>2 DEF Spanned
  <2> QED BY <1>2, <1>3, <1>4, <2>3, <2>5, WithinHonest
<1> QED BY <1>16, <1>17

(* Killed where the fixture says. *)
LEMMA KilledHonest ==
  ASSUME TypeOK, HonestInv, HistoryReadDies, faults' = 0
  PROVE  HonestInv'
<1>1. /\ Dies /\ Wrong(0) /\ Crashes(HistoryOp) /\ step = "history"
  BY NeverWrong DEF HistoryReadDies
<1>2. faults = 0 /\ Working
  BY <1>1, NothingWrong DEF Working
<1>3. /\ step' = "close" /\ failures' = failures
      /\ UNCHANGED <<across, fixture, case, judged>> /\ Same
  BY <1>1 DEF Crashes, Goto, Fails, If, Same, Dies
<1>4. /\ OnScript /\ Spanned /\ fixture \in Fixtures /\ exec \in Executions
      /\ case = "interrupted" /\ Len(judged) = 1 /\ RunNo = 2
  BY <1>1, <1>2, HonestIs DEF Dies
<1>5. page = fixture.dies /\ fixture.dies # Absent /\ page \in Cursors
  BY <1>1, <1>4, ScriptIs, Typed DEF Dies, Absent
<1>6. Reads(fixture, exec, 0, fixture.dies) /\ exec.balances = fixture.balances
  BY <1>1, <1>4, <1>5 DEF OnScript, Start
<1>7. /\ exec'.raw = exec.raw /\ exec'.history = exec.history /\ exec'.frames = exec.frames
      /\ exec'.balances = exec.balances /\ exec'.crashed = TRUE
  BY <1>1, <1>4 DEF Crashes, Executions
<1>8. Played(fixture, case, exec', 2)
  <2>1. Start(fixture, 2) = 0 /\ Stop(fixture, case, 2) = fixture.dies
    BY <1>4 DEF Start, Stop
  <2>2. exec'.crashed = (case = "interrupted" /\ 2 = 2)
    <3>1. (case = "interrupted" /\ 2 = 2) = TRUE
      BY <1>4
    <3> QED BY <1>7, <3>1
  <2>3. case # "crawl"
    BY <1>4
  <2>4. Reads(fixture, exec', 0, fixture.dies)
    BY <1>6, <1>7 DEF Reads
  <2> QED BY <1>6, <1>7, <2>1, <2>2, <2>3, <2>4 DEF Played
<1>9. RunNo' = 2
  BY <1>3, <1>4 DEF RunNo
<1>10. OnScript'
  BY <1>3, <1>8, <1>9 DEF OnScript
<1>11. Spanned'
  <2>1. Resumes(fixture, across, fixture.dies)
    BY <1>1, <1>4, <1>5 DEF Spanned
  <2> QED BY <1>3, <1>4, <2>1 DEF Spanned
<1> QED BY <1>2, <1>3, <1>10, <1>11, WithinHonest

(* The status read, the connection closed. *)
LEMMA ClosedHonest ==
  ASSUME TypeOK, HonestInv, StatusRead \/ Close, faults' = 0
  PROVE  HonestInv'
<1>a. \A failed \in BOOLEAN : Wrong(IF failed THEN 1 ELSE 0) => ~failed /\ faults = 0
  <2> SUFFICES ASSUME NEW failed \in BOOLEAN, Wrong(IF failed THEN 1 ELSE 0)
               PROVE  ~failed /\ faults = 0
    OBVIOUS
  <2>1. (IF failed THEN 1 ELSE 0) \in Nat
    OBVIOUS
  <2>2. (IF failed THEN 1 ELSE 0) = 0 /\ faults = 0
    BY <2>1, NothingWrong
  <2> QED BY <2>2
<1>b. UNCHANGED <<across, fixture, case, judged>> /\ Same /\ Working
  BY DEF StatusRead, Close, Same, Working
<1>c. RunNo' = RunNo
  BY <1>b DEF RunNo
<1>1. CASE StatusRead
  <2>1. PICK failed \in BOOLEAN : Wrong(IF failed THEN 1 ELSE 0) /\ Fails(If(failed, "A7"))
    BY <1>1 DEF StatusRead
  <2>2. faults = 0 /\ failures' = failures
    BY <1>a, <2>1 DEF Fails, If
  <2>3. /\ OnScript /\ Spanned /\ fixture \in Fixtures /\ exec \in Executions
        /\ (RunNo = 2 <=> Len(judged) = 1)
    BY <1>b, <2>2, HonestIs
  <2>4. step = "status" /\ step' = "close" /\ Asking("status")
    BY <1>1 DEF StatusRead, Goto
  <2>5. /\ exec.balances = fixture.balances /\ ~exec.crashed
        /\ case = "crawl" => exec.asked = Asked(exec.frames)
        /\ Stop(fixture, case, RunNo) = Len(fixture.history)
        /\ Reads(fixture, exec, Start(fixture, RunNo), Stop(fixture, case, RunNo))
    BY <2>3, <2>4 DEF OnScript
  <2>6. /\ exec'.raw = exec.raw /\ exec'.history = exec.history /\ exec'.frames = exec.frames
        /\ exec'.balances = exec.balances /\ exec'.crashed = exec.crashed
        /\ exec'.asked = Append(exec.asked, "status")
    BY <2>3, <2>4 DEF Asking, Executions
  <2>7. ~ (case = "interrupted" /\ RunNo = 2)
    <3> SUFFICES ASSUME case = "interrupted" /\ RunNo = 2 PROVE FALSE
      OBVIOUS
    <3>1. Stop(fixture, case, RunNo) = fixture.dies
      BY DEF Stop
    <3>2. fixture.dies < Len(History) /\ Len(History) \in Nat
      BY <2>3, ScriptIs
    <3> QED BY <2>5, <3>1, <3>2 DEF History
  <2>8. exec'.crashed = (case = "interrupted" /\ RunNo = 2)
    <3>1. exec.crashed = FALSE
      BY <2>3, <2>5 DEF Executions
    <3>2. (case = "interrupted" /\ RunNo = 2) = FALSE
      BY <2>7
    <3> QED BY <2>6, <3>1, <3>2
  <2>9. Played(fixture, case, exec', RunNo)
    <3>1. Reads(fixture, exec', Start(fixture, RunNo), Stop(fixture, case, RunNo))
      BY <2>5, <2>6 DEF Reads
    <3>2. case = "crawl" => exec'.asked = Append(Asked(exec'.frames), "status")
      BY <2>5, <2>6
    <3> QED BY <2>5, <2>6, <2>8, <3>1, <3>2 DEF Played
  <2>10. OnScript'
    BY <1>b, <1>c, <2>4, <2>9 DEF OnScript
  <2>11. Spanned'
    BY <1>b, <2>3, <2>4, <2>7 DEF Spanned
  <2> QED BY <1>b, <2>2, <2>10, <2>11, WithinHonest
<1>2. CASE Close
  <2>1. PICK violated \in BOOLEAN : Wrong(IF violated THEN 1 ELSE 0) /\ Fails(If(violated, "A11"))
    BY <1>2 DEF Close
  <2>2. faults = 0 /\ failures' = failures
    BY <1>a, <2>1 DEF Fails, If
  <2>3. OnScript /\ Spanned
    BY <1>b, <2>2, HonestIs
  <2>4. step = "close" /\ step' = "judge" /\ exec' = exec
    BY <1>2 DEF Close, Goto
  <2>5. Played(fixture, case, exec, RunNo)
    BY <2>3, <2>4 DEF OnScript
  <2>6. OnScript'
    BY <1>b, <1>c, <2>4, <2>5 DEF OnScript
  <2>7. Spanned'
    BY <1>b, <2>3, <2>4 DEF Spanned
  <2> QED BY <1>b, <2>2, <2>6, <2>7, WithinHonest
<1> QED BY <1>1, <1>2

(* More pages than a drain asks for there are not. *)
LEMMA EnoughPages ==
  ASSUME TypeOK, HonestInv, TooManyPages, faults' = 0
  PROVE  FALSE
<1>1. step = "history" /\ pages = MaxPages /\ faults = 0 /\ Working
  BY DEF TooManyPages, Working
<1>2. OnScript /\ fixture \in Fixtures /\ RunNo \in {1, 2, 3} /\ page \in Cursors
  BY <1>1, HonestIs
<1> DEFINE from == Start(fixture, RunNo)
<1>3. /\ exec.frames = Turns(fixture, from, page) /\ pages = exec.frames
      /\ from =< page /\ page < Len(History)
  BY <1>1, <1>2 DEF OnScript, Reads, History
<1>4. from \in 0 .. Len(History) /\ Len(History) \in Nat /\ page \in 0 .. Len(History)
  BY <1>2, RunSpan, ScriptIs DEF Cursors, Absent
<1>5. page # Len(History) /\ MaxPages \in Nat
  BY <1>3, <1>4, Typed
<1>6. Turns(fixture, from, page) < MaxPages /\ Turns(fixture, from, page) \in Nat
  <2> HIDE DEF from
  <2> QED BY <1>2, <1>3, <1>4, <1>5, OneMoreTurn
<1> QED BY <1>1, <1>3, <1>5, <1>6

(* A run judged. *)
LEMMA JudgeHonest ==
  ASSUME TypeOK, PassInv, HonestInv, Judge, faults' = 0
  PROVE  HonestInv'
<1> DEFINE n == Len(judged)
<1>1. /\ step = "judge" /\ step' \in {"compare", "spawn"} /\ faults = 0 /\ Working
      /\ judged' = Append(judged, exec) /\ exec' = NewExecution
      /\ UNCHANGED <<fixture, case, across>>
      /\ failures' = failures \union Judgement
  BY DEF Judge, Goto, Fails, Working
<1>2. /\ failures = {} /\ \A i \in 1 .. n : Played(fixture, case, judged[i], i)
      /\ OnScript /\ Spanned /\ n \in {0, 1, 2} /\ RunNo = n + 1
  BY <1>1, HonestIs
<1>3. Played(fixture, case, exec, RunNo)
  BY <1>1, <1>2 DEF OnScript
<1>4. failures' = {}
  <2>1. Judgement = {}
    BY <1>1, <1>2, <1>3, PlayedIsJudged DEF PassInv
  <2> QED BY <1>1, <1>2, <2>1
<1>5. /\ Len(judged') = n + 1 /\ judged'[n + 1] = exec
      /\ \A i \in 1 .. n : judged'[i] = judged[i]
      /\ \A i \in 1 .. n + 1 : i \in 1 .. n \/ i = n + 1
  BY <1>1, <1>2, Typed
<1>6. (\A i \in 1 .. Len(judged) : Played(fixture, case, judged[i], i))'
  <2> SUFFICES ASSUME NEW i \in 1 .. Len(judged') PROVE Played(fixture', case', judged'[i], i)
    OBVIOUS
  <2>1. CASE i \in 1 .. n
    BY <1>1, <1>2, <1>5, <2>1
  <2>2. CASE i = n + 1
    BY <1>1, <1>2, <1>3, <1>5, <2>2
  <2> QED BY <1>5, <2>1, <2>2
<1>7. OnScript'
  BY <1>1 DEF OnScript
<1>8. Spanned'
  <2> SUFFICES ASSUME case = "interrupted" PROVE Spanned'
    BY <1>1 DEF Spanned
  <2>1. CASE n = 0
    <3>1. Len(judged') = 1 /\ across'.resumable = "unread"
      BY <1>1, <1>2, <1>5, <2>1 DEF Spanned
    <3> QED BY <1>1, <3>1 DEF Spanned
  <2>2. CASE n = 1
    <3>1. Len(judged') = 2 /\ Resumes(fixture, across, fixture.dies)
      BY <1>1, <1>2, <1>5, <2>2 DEF Spanned
    <3> QED BY <1>1, <3>1 DEF Spanned
  <2>3. CASE n = 2
    <3>1. Len(judged') = 3
      BY <1>5, <2>3
    <3> QED BY <3>1 DEF Spanned
  <2> QED BY <1>2, <2>1, <2>2, <2>3
<1> QED BY <1>4, <1>6, <1>7, <1>8 DEF HonestInv

(* The runs compared. *)
LEMMA CompareHonest ==
  ASSUME TypeOK, PassInv, HonestInv, Compare, faults' = 0
  PROVE  HonestInv'
<1>1. /\ step = "compare" /\ step' = "done" /\ faults = 0
      /\ UNCHANGED <<fixture, case, judged, exec, across>>
      /\ failures' = failures \union
           IF case = "crawl" THEN If(Impure(judged[1], judged[2]), "A9") ELSE FamilyFailures
  BY DEF Compare, Goto, Same, Fails
<1>2. /\ failures = {} /\ \A i \in 1 .. Len(judged) : Played(fixture, case, judged[i], i)
      /\ Spanned /\ case \in {"crawl", "interrupted"} /\ Len(judged) = Len(Runs)
  BY <1>1 DEF HonestInv, TypeOK
<1>3. /\ case = "crawl" => ~Impure(judged[1], judged[2])
      /\ case = "interrupted" => FamilyFailures = {}
  BY <1>2, PlayedAreAlike DEF PassInv
<1>4. failures' = {}
  BY <1>1, <1>2, <1>3 DEF If
<1>5. (\A i \in 1 .. Len(judged) : Played(fixture, case, judged[i], i))'
  BY <1>1, <1>2
<1>6. OnScript'
  BY <1>1 DEF OnScript
<1>7. Spanned'
  <2>1. case = "interrupted" => Len(judged) = 3
    BY <1>2 DEF Runs
  <2> QED BY <1>1, <2>1 DEF Spanned
<1> QED BY <1>4, <1>5, <1>6, <1>7 DEF HonestInv

(* Every step keeps it. *)
LEMMA NextHonest == TypeOK /\ PassInv /\ HonestInv /\ [Next]_vars => HonestInv'
<1> SUFFICES ASSUME TypeOK, PassInv, HonestInv, [Next]_vars, faults' = 0 PROVE HonestInv'
  BY DEF HonestInv
<1>1. CASE UNCHANGED vars
  <2>1. UNCHANGED <<fixture, case, step, page, pages, exec, across, judged, failures, faults>>
    BY <1>1 DEF vars
  <2>2. RunNo' = RunNo
    BY <2>1 DEF RunNo
  <2>3. OnScript => OnScript'
    BY <2>1, <2>2 DEF OnScript
  <2>4. Spanned => Spanned'
    BY <2>1 DEF Spanned
  <2>5. (\A i \in 1 .. Len(judged) : Played(fixture, case, judged[i], i)) =>
          (\A i \in 1 .. Len(judged) : Played(fixture, case, judged[i], i))'
    BY <2>1
  <2> QED BY <2>1, <2>3, <2>4, <2>5 DEF HonestInv
<1>2. CASE Next
  BY <1>2, NeverWrong, ListedHonest, BalancesHonest, PageHonest, KilledHonest, ClosedHonest,
     EnoughPages, JudgeHonest, CompareHonest DEF Next
<1> QED BY <1>1, <1>2

(* An adapter that does nothing wrong fails no assertion: not one that reads a whole
   history, nor one killed after a page and resumed at its cursor, or from the
   beginning (run_crawl, compare_sequence, run_pagination_family). *)
THEOREM SpecHonestPasses == Spec => []HonestPasses
<1>1. HonestInv => HonestPasses
  BY DEF HonestInv, HonestPasses
<1> QED BY <1>1, InitType, NextType, InitPass, NextPass, InitHonest, NextHonest, PTL DEF Spec
=============================================================================
