--------------------------------- MODULE Lemas ---------------------------------
(***************************************************************************)
(* Lemmas about the operators on lists that the modules of this project    *)
(* take from SequencesExt: what they return and what they preserve.        *)
(***************************************************************************)
EXTENDS Integers, SequencesExt, SequenceTheorems, FiniteSetTheorems,
        WellFoundedInduction, TLAPS

\* A non-empty set of naturals has a minimum, and Min returns it.
LEMMA MinimoDe ==
  ASSUME NEW I \in SUBSET Nat, I # {}
  PROVE  Min(I) \in I /\ \A j \in I : Min(I) <= j
<1>1. PICK k \in I : \A j \in I : ~(<<j, k>> \in OpToRel(<, Nat))
  BY NatLessThanWellFounded, WFMin
<1>2. ASSUME NEW j \in I PROVE k <= j
  <2>1. ~(<<j, k>> \in {ss \in Nat \X Nat : ss[1] < ss[2]})
    BY <1>1, Zenon DEF OpToRel
  <2>. QED
    BY <2>1
<1>. QED
  BY <1>2 DEF Min

\* RemoveFirst returns a list over the same set.
LEMMA SacarTipo ==
  ASSUME NEW S, NEW s \in Seq(S), NEW e
  PROVE  RemoveFirst(s, e) \in Seq(S)
<1>1. CASE ~ \E i \in 1..Len(s) : s[i] = e
  BY <1>1 DEF RemoveFirst
<1>2. CASE \E i \in 1..Len(s) : s[i] = e
  <2>. DEFINE I == {i \in 1..Len(s) : s[i] = e}
              m == Min(I)
  <2>1. m \in 1..Len(s)
    <3>1. I \in SUBSET Nat /\ I # {} /\ I \subseteq 1..Len(s)
      BY <1>2
    <3>. QED
      BY <3>1, MinimoDe
  <2>2. RemoveFirst(s, e) = RemoveAt(s, m)
    BY <1>2 DEF RemoveFirst, SelectInSeq
  <2>3. Len(s) \in Nat /\ \A i \in 1..Len(s) : s[i] \in S
    BY ElementOfSeq, LenProperties
  <2>. HIDE DEF m
  <2>4. SubSeq(s, 1, m - 1) \in Seq(S) /\ SubSeq(s, m + 1, Len(s)) \in Seq(S)
    BY <2>1, <2>3, SubSeqProperties
  <2>. QED
    BY <2>2, <2>4, ConcatProperties DEF RemoveAt
<1>. QED
  BY <1>1, <1>2

\* Removing the only element leaves the empty list.
LEMMA SacarUnico ==
  ASSUME NEW e
  PROVE  RemoveFirst(<<e>>, e) = <<>>
<1>. DEFINE s == <<e>>
            I == {i \in 1..Len(s) : s[i] = e}
<1>1. I = {1} /\ Len(s) = 1
  OBVIOUS
<1>2. Min(I) = 1
  BY <1>1, MinimoDe
<1>3. RemoveFirst(s, e) = RemoveAt(s, 1)
  BY <1>1, <1>2 DEF RemoveFirst, SelectInSeq
<1>4. SubSeq(s, 1, 0) = <<>> /\ SubSeq(s, 2, 1) = <<>>
  BY SubSeqEmpty
<1>. QED
  BY <1>1, <1>3, <1>4 DEF RemoveAt

\* InsertAt at a position of the list, or just after its end, adds one element.
LEMMA InsertarLargo ==
  ASSUME NEW S, NEW s \in Seq(S), NEW e \in S, NEW k \in 1..(Len(s) + 1)
  PROVE  /\ InsertAt(s, k, e) \in Seq(S)
         /\ Len(InsertAt(s, k, e)) = Len(s) + 1
<1>. DEFINE a == SubSeq(s, 1, k - 1)
            b == SubSeq(s, k, Len(s))
<1>1. a \in Seq(S) /\ Len(a) = k - 1 /\ b \in Seq(S) /\ Len(b) = Len(s) - k + 1
  BY SubSeqProperties, ElementOfSeq, LenProperties
<1>2. <<e>> \in Seq(S) /\ Len(<<e>>) = 1
  OBVIOUS
<1>3. a \o <<e>> \in Seq(S) /\ Len(a \o <<e>>) = k
  BY <1>1, <1>2, ConcatProperties
<1>4. InsertAt(s, k, e) = (a \o <<e>>) \o b
  BY DEF InsertAt
<1>. HIDE DEF a, b
<1>. DEFINE ae == a \o <<e>>
<1>. HIDE DEF ae
<1>5. ae \in Seq(S) /\ Len(ae) = k
  BY <1>3 DEF ae
<1>6. ae \o b \in Seq(S) /\ Len(ae \o b) = Len(ae) + Len(b)
  BY <1>1, <1>5, ConcatProperties
<1>7. InsertAt(s, k, e) = ae \o b
  BY <1>4 DEF ae
<1>. QED
  BY <1>1, <1>5, <1>6, <1>7, LenProperties

\* RemoveAt takes out one position and brings the rest one place forward.
LEMMA QuitarDe ==
  ASSUME NEW S, NEW s \in Seq(S), NEW k \in 1..Len(s)
  PROVE  /\ RemoveAt(s, k) \in Seq(S)
         /\ Len(RemoveAt(s, k)) = Len(s) - 1
         /\ \A i \in 1..(Len(s) - 1) : RemoveAt(s, k)[i] = IF i < k THEN s[i] ELSE s[i + 1]
<1>. DEFINE a == SubSeq(s, 1, k - 1)
            b == SubSeq(s, k + 1, Len(s))
<1>1. /\ a \in Seq(S) /\ Len(a) = k - 1 /\ \A i \in 1..(k - 1) : a[i] = s[i]
      /\ b \in Seq(S) /\ Len(b) = Len(s) - k /\ \A i \in 1..(Len(s) - k) : b[i] = s[i + k]
  BY SubSeqProperties, ElementOfSeq, LenProperties
<1>2. RemoveAt(s, k) = a \o b
  BY DEF RemoveAt
<1>. HIDE DEF a, b
<1>3. /\ a \o b \in Seq(S) /\ Len(a \o b) = Len(a) + Len(b)
      /\ \A i \in 1..(Len(a) + Len(b)) :
           (a \o b)[i] = IF i <= Len(a) THEN a[i] ELSE b[i - Len(a)]
  BY <1>1, ConcatProperties
<1>. QED
  BY <1>1, <1>2, <1>3, LenProperties

\* Append adds one element, and no repetition if it was not there.
LEMMA AgregarDe ==
  ASSUME NEW S, NEW s \in Seq(S), NEW e \in S
  PROVE  /\ \A x : Contains(Append(s, e), x) <=> Contains(s, x) \/ x = e
         /\ IsInjective(s) /\ ~Contains(s, e) => IsInjective(Append(s, e))
<1>. DEFINE t == Append(s, e)
<1>1. /\ Len(s) \in Nat /\ DOMAIN s = 1..Len(s)
      /\ Len(t) = Len(s) + 1 /\ DOMAIN t = 1..(Len(s) + 1)
      /\ \A i \in 1..Len(s) : t[i] = s[i]
      /\ t[Len(s) + 1] = e
  BY LenProperties, AppendProperties
<1>. HIDE DEF t
<1>2. ASSUME NEW x PROVE Contains(t, x) <=> Contains(s, x) \/ x = e
  <2>1. \A i \in 1..(Len(s) + 1) : i \in 1..Len(s) \/ i = Len(s) + 1
    BY <1>1
  <2>2. 1..Len(s) \subseteq 1..(Len(s) + 1) /\ Len(s) + 1 \in 1..(Len(s) + 1)
    BY <1>1
  <2>. QED
    BY <1>1, <2>1, <2>2 DEF Contains
<1>3. ASSUME IsInjective(s), ~Contains(s, e) PROVE IsInjective(t)
  <2>1. \A i \in 1..(Len(s) + 1) : i \in 1..Len(s) \/ i = Len(s) + 1
    BY <1>1
  <2>. QED
    BY <1>1, <1>3, <2>1 DEF Contains, IsInjective
<1>. QED
  BY <1>2, <1>3 DEF t

\* Taking the first of a list without repetitions takes out that element.
LEMMA ColaDe ==
  ASSUME NEW S, NEW s \in Seq(S), s # <<>>, IsInjective(s)
  PROVE  /\ Contains(s, Head(s))
         /\ \A x : Contains(Tail(s), x) <=> Contains(s, x) /\ x # Head(s)
         /\ IsInjective(Tail(s))
<1>. DEFINE t == Tail(s)
            n == Len(s)
<1>1. /\ n \in Nat /\ DOMAIN s = 1..n /\ n # 0
      /\ Len(t) = n - 1 /\ DOMAIN t = 1..(n - 1)
      /\ \A i \in 1..(n - 1) : t[i] = s[i + 1]
      /\ s[1] = Head(s)
  BY LenProperties, HeadTailProperties, EmptySeq
<1>. HIDE DEF t, n
<1>2. /\ 1 \in 1..n
      /\ \A i \in 1..(n - 1) : i + 1 \in 1..n /\ i + 1 # 1
      /\ \A i \in 1..n : i = 1 \/ (i - 1 \in 1..(n - 1) /\ (i - 1) + 1 = i)
      /\ \A i, j \in 1..(n - 1) : i + 1 = j + 1 => i = j
  BY <1>1
<1>3. Contains(s, Head(s))
  BY <1>1, <1>2 DEF Contains, n
<1>4. ASSUME NEW x PROVE Contains(t, x) <=> Contains(s, x) /\ x # Head(s)
  <2>1. Contains(t, x) <=> \E i \in 1..(n - 1) : t[i] = x
    BY <1>1 DEF Contains
  <2>2. Contains(s, x) <=> \E i \in 1..n : s[i] = x
    BY DEF Contains, n
  <2>3. ASSUME NEW i \in 1..(n - 1) PROVE t[i] # Head(s)
    <3>1. i + 1 \in 1..n /\ i + 1 # 1 /\ t[i] = s[i + 1]
      BY <1>1, <1>2
    <3>2. s[i + 1] # s[1]
      BY <1>1, <1>2, <3>1 DEF IsInjective
    <3>. QED
      BY <1>1, <3>1, <3>2
  <2>4. ASSUME Contains(t, x) PROVE Contains(s, x) /\ x # Head(s)
    BY <1>1, <1>2, <2>1, <2>2, <2>3, <2>4
  <2>5. ASSUME Contains(s, x), x # Head(s) PROVE Contains(t, x)
    <3>1. PICK i \in 1..n : s[i] = x
      BY <2>2, <2>5
    <3>2. i - 1 \in 1..(n - 1) /\ t[i - 1] = s[i]
      BY <1>1, <1>2, <2>5, <3>1
    <3>. QED
      BY <2>1, <3>1, <3>2
  <2>. QED
    BY <2>4, <2>5
<1>5. ASSUME NEW i \in 1..(n - 1), NEW j \in 1..(n - 1), t[i] = t[j] PROVE i = j
  <2>1. i + 1 \in 1..n /\ j + 1 \in 1..n /\ s[i + 1] = s[j + 1]
    BY <1>1, <1>2, <1>5
  <2>2. i + 1 = j + 1
    BY <1>1, <2>1 DEF IsInjective
  <2>. QED
    BY <1>2, <2>2
<1>6. IsInjective(t)
  BY <1>1, <1>5 DEF IsInjective
<1>. QED
  BY <1>3, <1>4, <1>6 DEF t

\* RemoveFirst, from a list without repetitions, takes out that element.
LEMMA SacarDe ==
  ASSUME NEW S, NEW s \in Seq(S), NEW e, IsInjective(s)
  PROVE  /\ \A x : Contains(RemoveFirst(s, e), x) <=> Contains(s, x) /\ x # e
         /\ IsInjective(RemoveFirst(s, e))
<1>1. CASE ~Contains(s, e)
  BY <1>1 DEF RemoveFirst, Contains
<1>2. CASE Contains(s, e)
  <2>. DEFINE I == {i \in 1..Len(s) : s[i] = e}
              m == Min(I)
              n == Len(s)
              t == RemoveAt(s, m)
  <2>1. m \in 1..n /\ s[m] = e
    <3>1. I \in SUBSET Nat /\ I # {} /\ I \subseteq 1..Len(s)
      BY <1>2 DEF Contains
    <3>. QED
      BY <3>1, MinimoDe
  <2>2. RemoveFirst(s, e) = t
    BY <1>2 DEF RemoveFirst, SelectInSeq, Contains
  <2>. HIDE DEF m
  <2>3. /\ n \in Nat /\ DOMAIN s = 1..n
        /\ Len(t) = n - 1 /\ DOMAIN t = 1..(n - 1)
        /\ \A i \in 1..(n - 1) : t[i] = IF i < m THEN s[i] ELSE s[i + 1]
    BY <2>1, QuitarDe, LenProperties
  <2>. HIDE DEF n, t
  <2>4. /\ \A i \in 1..(n - 1) : i \in 1..n /\ i + 1 \in 1..n
        /\ \A i \in 1..n : i < m => i \in 1..(n - 1)
        /\ \A i \in 1..n : i > m => i - 1 \in 1..(n - 1) /\ ~(i - 1 < m) /\ (i - 1) + 1 = i
        /\ \A i \in 1..n : i < m \/ i = m \/ i > m
        /\ \A i \in 1..(n - 1) : i < m => i # m
        /\ \A i \in 1..(n - 1) : ~(i < m) => i + 1 # m
    BY <2>1, <2>3
  <2>5. ASSUME NEW x PROVE Contains(t, x) <=> Contains(s, x) /\ x # e
    <3>1. Contains(t, x) <=> \E i \in 1..(n - 1) : t[i] = x
      BY <2>3 DEF Contains
    <3>2. Contains(s, x) <=> \E i \in 1..n : s[i] = x
      BY DEF Contains, n
    <3>3. ASSUME NEW i \in 1..(n - 1) PROVE t[i] # e /\ Contains(s, t[i])
      <4>1. CASE i < m
        <5>1. t[i] = s[i] /\ i \in 1..n /\ i # m
          BY <2>3, <2>4, <4>1
        <5>. QED
          BY <2>1, <2>3, <5>1 DEF IsInjective, Contains, n
      <4>2. CASE ~(i < m)
        <5>1. t[i] = s[i + 1] /\ i + 1 \in 1..n /\ i + 1 # m
          BY <2>3, <2>4, <4>2
        <5>. QED
          BY <2>1, <2>3, <5>1 DEF IsInjective, Contains, n
      <4>. QED
        BY <4>1, <4>2
    <3>4. ASSUME Contains(s, x), x # e PROVE Contains(t, x)
      <4>1. PICK i \in 1..n : s[i] = x
        BY <3>2, <3>4
      <4>2. i # m
        BY <2>1, <3>4, <4>1
      <4>3. CASE i < m
        BY <2>3, <2>4, <3>1, <4>1, <4>3
      <4>4. CASE i > m
        BY <2>3, <2>4, <3>1, <4>1, <4>4
      <4>. QED
        BY <2>4, <4>2, <4>3, <4>4
    <3>. QED
      BY <3>1, <3>3, <3>4
  <2>6. IsInjective(t)
    <3>1. ASSUME NEW i \in 1..(n - 1), NEW j \in 1..(n - 1), t[i] = t[j] PROVE i = j
      <4>1. CASE i < m /\ j < m
        BY <2>3, <2>4, <3>1, <4>1 DEF IsInjective
      <4>2. CASE ~(i < m) /\ ~(j < m)
        <5>1. i + 1 = j + 1
          BY <2>3, <2>4, <3>1, <4>2 DEF IsInjective
        <5>. QED
          BY <5>1
      <4>3. CASE i < m /\ ~(j < m)
        <5>1. i = j + 1
          BY <2>3, <2>4, <3>1, <4>3 DEF IsInjective
        <5>. QED
          BY <2>1, <2>3, <4>3, <5>1
      <4>4. CASE ~(i < m) /\ j < m
        <5>1. i + 1 = j
          BY <2>3, <2>4, <3>1, <4>4 DEF IsInjective
        <5>. QED
          BY <2>1, <2>3, <4>4, <5>1
      <4>. QED
        BY <4>1, <4>2, <4>3, <4>4
    <3>. QED
      BY <2>3, <3>1 DEF IsInjective
  <2>. QED
    BY <2>2, <2>5, <2>6
<1>. QED
  BY <1>1, <1>2

\* The first of a list is in it, and so is all of the rest, and of what
\* RemoveFirst leaves, which is one less if the element was there.
LEMMA CabezaDe ==
  ASSUME NEW S, NEW s \in Seq(S), s # <<>>
  PROVE  /\ Contains(s, Head(s))
         /\ \A x : Contains(Tail(s), x) => Contains(s, x)
         /\ Tail(s) \in Seq(S) /\ Len(Tail(s)) = Len(s) - 1 /\ Len(s) \in Nat
<1>. DEFINE t == Tail(s)
            n == Len(s)
<1>1. /\ n \in Nat /\ n # 0 /\ t \in Seq(S)
      /\ Len(t) = n - 1
      /\ \A i \in 1..(n - 1) : t[i] = s[i + 1]
      /\ s[1] = Head(s)
  BY LenProperties, HeadTailProperties, EmptySeq
<1>. HIDE DEF t, n
<1>2. 1 \in 1..n /\ \A i \in 1..(n - 1) : i + 1 \in 1..n
  BY <1>1
<1>. QED
  BY <1>1, <1>2 DEF Contains, t, n

\* Taking out one occurrence brings nothing new, and shortens the list by one at most.
LEMMA SacarMenos ==
  ASSUME NEW S, NEW s \in Seq(S), NEW e
  PROVE  /\ \A x : Contains(RemoveFirst(s, e), x) => Contains(s, x)
         /\ Len(s) \in Nat /\ Len(RemoveFirst(s, e)) \in Nat
         /\ Len(RemoveFirst(s, e)) = IF Contains(s, e) THEN Len(s) - 1 ELSE Len(s)
<1>1. CASE ~Contains(s, e)
  BY <1>1, LenProperties DEF RemoveFirst, Contains
<1>2. CASE Contains(s, e)
  <2>. DEFINE I == {i \in 1..Len(s) : s[i] = e}
              m == Min(I)
              n == Len(s)
              t == RemoveAt(s, m)
  <2>1. m \in 1..n
    <3>1. I \in SUBSET Nat /\ I # {} /\ I \subseteq 1..Len(s)
      BY <1>2 DEF Contains
    <3>. QED
      BY <3>1, MinimoDe
  <2>2. RemoveFirst(s, e) = t
    BY <1>2 DEF RemoveFirst, SelectInSeq, Contains
  <2>. HIDE DEF m
  <2>3. /\ n \in Nat /\ Len(t) = n - 1
        /\ \A i \in 1..(n - 1) : t[i] = IF i < m THEN s[i] ELSE s[i + 1]
    BY <2>1, QuitarDe, LenProperties
  <2>. HIDE DEF n, t
  <2>4. n # 0 /\ \A i \in 1..(n - 1) : i \in 1..n /\ i + 1 \in 1..n
    BY <2>1, <2>3
  <2>5. ASSUME NEW x, Contains(t, x) PROVE Contains(s, x)
    BY <2>3, <2>4, <2>5 DEF Contains, n
  <2>6. Len(t) \in Nat
    BY <2>3, <2>4
  <2>. QED
    BY <1>2, <2>2, <2>3, <2>5, <2>6 DEF n
<1>. QED
  BY <1>1, <1>2

\* A concatenation has what is in either list.
LEMMA UnirDe ==
  ASSUME NEW S, NEW s \in Seq(S), NEW t \in Seq(S), NEW x, Contains(s \o t, x)
  PROVE  Contains(s, x) \/ Contains(t, x)
<1>1. /\ Len(s) \in Nat /\ Len(t) \in Nat /\ Len(s \o t) = Len(s) + Len(t)
      /\ \A i \in 1..(Len(s) + Len(t)) : (s \o t)[i] = IF i <= Len(s) THEN s[i] ELSE t[i - Len(s)]
  BY LenProperties, ConcatProperties
<1>2. PICK i \in 1..(Len(s) + Len(t)) : (s \o t)[i] = x
  BY <1>1 DEF Contains
<1>3. i \in 1..Len(s) \/ (i - Len(s) \in 1..Len(t) /\ ~(i <= Len(s)))
  BY <1>1
<1>. QED
  BY <1>1, <1>2, <1>3 DEF Contains

\* InsertAt puts one element at a position and what was from it one place back.
LEMMA InsertarEn ==
  ASSUME NEW S, NEW s \in Seq(S), NEW e \in S, NEW k \in 1..(Len(s) + 1)
  PROVE  \A i \in 1..(Len(s) + 1) :
           InsertAt(s, k, e)[i] = IF i < k THEN s[i] ELSE IF i = k THEN e ELSE s[i - 1]
<1>. DEFINE t == InsertAt(s, k, e)
            n == Len(s)
<1>1. /\ n \in Nat /\ DOMAIN s = 1..n /\ DOMAIN t = 1..(n + 1) /\ Len(t) = n + 1
  BY InsertarLargo, LenProperties
<1>2. \A i \in 1..(n + 1) :
        t[i] = IF i < k THEN s[i] ELSE IF i = k THEN e ELSE s[i - 1]
  <2>. DEFINE a == SubSeq(s, 1, k - 1)
              b == SubSeq(s, k, Len(s))
              ae == Append(a, e)
  <2>1. /\ a \in Seq(S) /\ Len(a) = k - 1 /\ \A i \in 1..(k - 1) : a[i] = s[i]
        /\ b \in Seq(S) /\ Len(b) = n - k + 1 /\ \A i \in 1..(n - k + 1) : b[i] = s[i + k - 1]
    BY SubSeqProperties, ElementOfSeq, LenProperties
  <2>2. t = ae \o b
    <3>1. ae = a \o <<e>>
      BY <2>1, AppendIsConcat
    <3>. QED
      BY <3>1 DEF InsertAt
  <2>3. k \in 1..(n + 1)
    OBVIOUS
  <2>. HIDE DEF a, b, t, n
  <2>4. /\ ae \in Seq(S) /\ Len(ae) = k
        /\ \A i \in 1..(k - 1) : ae[i] = s[i]
        /\ ae[k] = e
    BY <2>1, <2>3, <1>1, AppendProperties
  <2>. HIDE DEF ae
  <2>5. \A i \in 1..(Len(ae) + Len(b)) :
          t[i] = IF i <= Len(ae) THEN ae[i] ELSE b[i - Len(ae)]
    <3>1. \A i \in 1..(Len(ae) + Len(b)) :
            (ae \o b)[i] = IF i <= Len(ae) THEN ae[i] ELSE b[i - Len(ae)]
      <4>1. ae \in Seq(S) /\ b \in Seq(S)
        BY <2>1, <2>4
      <4>. QED
        BY ONLY <4>1, ConcatProperties
    <3>. QED
      BY <2>2, <3>1, Zenon
  <2>6. \A i \in 1..(n + 1) : t[i] = IF i <= k THEN ae[i] ELSE b[i - k]
    BY <1>1, <2>1, <2>3, <2>4, <2>5
  <2>7. ASSUME NEW i \in 1..(n + 1), i < k PROVE t[i] = s[i]
    <3>1. t[i] = ae[i] /\ i \in 1..(k - 1)
      BY <1>1, <2>3, <2>6, <2>7
    <3>. QED
      BY <2>4, <3>1
  <2>8. t[k] = e
    BY <1>1, <2>3, <2>4, <2>6
  <2>9. ASSUME NEW i \in 1..(n + 1), i > k PROVE t[i] = s[i - 1]
    <3>1. t[i] = b[i - k] /\ i - k \in 1..(n - k + 1) /\ (i - k) + k - 1 = i - 1
      BY <1>1, <2>3, <2>6, <2>9
    <3>. QED
      BY <2>1, <3>1
  <2>. QED
    BY <1>1, <2>3, <2>7, <2>8, <2>9
<1>. QED
  BY <1>2

\* InsertAt adds one element, and no repetition if it was not there.
LEMMA InsertarDe ==
  ASSUME NEW S, NEW s \in Seq(S), NEW e \in S, NEW k \in 1..(Len(s) + 1)
  PROVE  /\ \A x : Contains(InsertAt(s, k, e), x) <=> Contains(s, x) \/ x = e
         /\ IsInjective(s) /\ ~Contains(s, e) => IsInjective(InsertAt(s, k, e))
<1>. DEFINE t == InsertAt(s, k, e)
            n == Len(s)
<1>1. /\ n \in Nat /\ DOMAIN s = 1..n /\ DOMAIN t = 1..(n + 1) /\ Len(t) = n + 1
  BY InsertarLargo, LenProperties
<1>2. \A i \in 1..(n + 1) :
        t[i] = IF i < k THEN s[i] ELSE IF i = k THEN e ELSE s[i - 1]
  BY InsertarEn
<1>3. k \in 1..(n + 1)
  OBVIOUS
<1>. HIDE DEF t, n
<1>4. /\ \A i \in 1..n : i < k => i \in 1..(n + 1)
      /\ \A i \in 1..n : ~(i < k) => i + 1 \in 1..(n + 1) /\ i + 1 > k /\ (i + 1) - 1 = i
      /\ \A i \in 1..(n + 1) : i < k => i \in 1..n
      /\ \A i \in 1..(n + 1) : i > k => i - 1 \in 1..n
  BY <1>1, <1>3
<1>5. ASSUME NEW x PROVE Contains(t, x) <=> Contains(s, x) \/ x = e
  <2>1. Contains(t, x) <=> \E i \in 1..(n + 1) : t[i] = x
    BY <1>1 DEF Contains
  <2>2. Contains(s, x) <=> \E i \in 1..n : s[i] = x
    BY DEF Contains, n
  <2>3. ASSUME Contains(t, x) PROVE Contains(s, x) \/ x = e
    <3>1. PICK i \in 1..(n + 1) : t[i] = x
      BY <2>1, <2>3
    <3>2. (i < k /\ t[i] = s[i]) \/ t[i] = e \/ (i > k /\ t[i] = s[i - 1])
      BY <1>1, <1>2, <1>3
    <3>. QED
      BY <1>4, <2>2, <3>1, <3>2
  <2>4. ASSUME Contains(s, x) PROVE Contains(t, x)
    <3>1. PICK i \in 1..n : s[i] = x
      BY <2>2, <2>4
    <3>2. CASE i < k
      BY <1>2, <1>4, <2>1, <3>1, <3>2
    <3>3. CASE ~(i < k)
      <4>1. i + 1 \in 1..(n + 1) /\ t[i + 1] = s[i]
        <5>1. i + 1 \in 1..(n + 1) /\ ~(i + 1 < k) /\ i + 1 # k /\ (i + 1) - 1 = i
          BY <1>1, <1>3, <3>3
        <5>. QED
          BY <1>2, <5>1
      <4>. QED
        BY <2>1, <3>1, <4>1
    <3>. QED
      BY <3>2, <3>3
  <2>5. Contains(t, e)
    <3>1. t[k] = e
      BY <1>1, <1>2, <1>3
    <3>. QED
      BY <1>3, <3>1, <1>1 DEF Contains
  <2>. QED
    BY <2>3, <2>4, <2>5
<1>6. ASSUME IsInjective(s), ~Contains(s, e) PROVE IsInjective(t)
  <2>1. \A i \in 1..n : s[i] # e
    BY <1>6 DEF Contains, n
  <2>2. \A i \in 1..(n + 1) :
          \/ i < k /\ i \in 1..n /\ t[i] = s[i]
          \/ i = k /\ t[i] = e
          \/ i > k /\ i - 1 \in 1..n /\ t[i] = s[i - 1]
    BY <1>1, <1>2, <1>3
  <2>3. ASSUME NEW i \in 1..(n + 1), NEW j \in 1..(n + 1), i < j, t[i] = t[j] PROVE FALSE
    <3>1. CASE j < k
      BY <1>1, <1>6, <2>2, <2>3, <3>1, <1>3 DEF IsInjective
    <3>2. CASE j = k
      BY <2>1, <2>2, <2>3, <3>2, <1>3
    <3>3. CASE i = k
      BY <2>1, <2>2, <2>3, <3>3, <1>3
    <3>4. CASE i < k /\ j > k
      <4>1. i \in 1..n /\ t[i] = s[i] /\ j - 1 \in 1..n /\ t[j] = s[j - 1]
        BY <2>2, <3>4, <1>3
      <4>2. i = j - 1
        BY <1>1, <1>6, <2>3, <4>1 DEF IsInjective
      <4>. QED
        BY <1>3, <3>4, <4>2
    <3>5. CASE i > k
      <4>1. i - 1 \in 1..n /\ t[i] = s[i - 1] /\ j - 1 \in 1..n /\ t[j] = s[j - 1]
        BY <1>3, <2>2, <2>3, <3>5
      <4>2. i - 1 = j - 1
        BY <1>1, <1>6, <2>3, <4>1 DEF IsInjective
      <4>. QED
        BY <2>3, <4>2
    <3>. QED
      BY <1>3, <3>1, <3>2, <3>3, <3>4, <3>5
  <2>4. \A i, j \in 1..(n + 1) : i = j \/ i < j \/ j < i
    BY <1>1
  <2>. QED
    BY <1>1, <2>3, <2>4 DEF IsInjective
<1>. QED
  BY <1>5, <1>6 DEF t

\* A list without repetitions is not longer than the set of its elements.
LEMMA LargoDe ==
  ASSUME NEW S, IsFiniteSet(S), NEW s \in Seq(S), IsInjective(s)
  PROVE  Len(s) <= Cardinality(S)
<1>1. Len(s) \in Nat /\ s \in [1..Len(s) -> S]
  BY LenProperties, ElementOfSeq
<1>2. s \in Injection(1..Len(s), S)
  BY <1>1 DEF Injection
<1>3. Cardinality(1..Len(s)) <= Cardinality(S)
  BY <1>2, FS_Injection
<1>4. Cardinality(1..Len(s)) = Len(s)
  <2>1. 1 \in Int /\ Len(s) \in Int
    BY <1>1
  <2>2. Cardinality(1..Len(s)) = IF 1 > Len(s) THEN 0 ELSE Len(s) - 1 + 1
    BY <2>1, FS_Interval, Zenon
  <2>. QED
    BY <1>1, <2>2
<1>. QED
  BY <1>3, <1>4

\* Two multiples of M are the same or M apart at least.
LEMMA Multiplos ==
  ASSUME NEW M \in Nat \ {0}, NEW k \in Nat, NEW l \in Nat
  PROVE  /\ k * M \in Nat
         /\ k * M < l * M => k * M + M <= l * M
         /\ (k + 1) * M = k * M + M
<1>1. k * M \in Nat /\ (k + 1) * M = k * M + M
  OBVIOUS
<1>2. k < l \/ l <= k
  OBVIOUS
<1>3. l <= k => l * M <= k * M
  OBVIOUS
<1>4. k < l => k * M + M <= l * M
  OBVIOUS
<1>. QED
  BY <1>1, <1>2, <1>3, <1>4

\* The quotient and the remainder are the only pair of a multiple and a rest.
LEMMA DivisionDe ==
  ASSUME NEW e \in Nat \ {0}, NEW n \in Nat
  PROVE  /\ n \div e \in Nat /\ n % e \in 0..(e - 1)
         /\ n = (n \div e) * e + (n % e)
  OBVIOUS

\* Dividing gives back the quotient and the remainder a number is made of.
LEMMA DivisionUnica ==
  ASSUME NEW e \in Nat \ {0}, NEW k \in Nat, NEW r \in 0..(e - 1)
  PROVE  (k * e + r) \div e = k /\ (k * e + r) % e = r
<1>. DEFINE n == k * e + r
            q == n \div e
            s == n % e
<1>1. n \in Nat /\ q \in Nat /\ s \in 0..(e - 1) /\ n = q * e + s
  <2>1. n \in Nat
    OBVIOUS
  <2>. HIDE DEF n
  <2>. QED
    BY <2>1, DivisionDe
<1>2. k * e + r = q * e + s
  BY <1>1
<1>. HIDE DEF q, s
<1>3. q < k => q * e + e <= k * e
  BY <1>1, Multiplos
<1>4. k < q => k * e + e <= q * e
  BY <1>1, Multiplos
<1>. QED
  BY <1>1, <1>2, <1>3, <1>4 DEF q, s

\* The least of two numbers.
LEMMA MinimoDeDos ==
  ASSUME NEW a \in Nat, NEW b \in Nat
  PROVE  Min({a, b}) = IF a <= b THEN a ELSE b
<1>1. {a, b} \in SUBSET Nat /\ {a, b} # {}
  OBVIOUS
<1>2. Min({a, b}) \in {a, b} /\ \A j \in {a, b} : Min({a, b}) <= j
  BY <1>1, MinimoDe
<1>. QED
  BY <1>2

-------------------------------------------------------------------------------
\* Induction on the naturals, for a property that is a set of them.
LEMMA Induccion ==
  ASSUME NEW P, 0 \in P, \A n \in Nat : n \in P => n + 1 \in P
  PROVE  \A n \in Nat : n \in P
<1>. DEFINE M == {n \in Nat : n \notin P}
<1>1. SUFFICES ASSUME M # {} PROVE FALSE
  OBVIOUS
<1>2. Min(M) \in M /\ \A j \in M : Min(M) <= j
  BY <1>1, MinimoDe
<1>3. Min(M) # 0 /\ Min(M) \in Nat
  BY <1>2
<1>4. Min(M) - 1 \in Nat /\ Min(M) - 1 \in P
  BY <1>2, <1>3
<1>. QED
  BY <1>2, <1>4

\* A function c that chooses an element of each part of S, a function F that
\* stays in V, and the function g that goes through a part by recursion with them.
Elige(c, S) == \A s \in SUBSET S : s # {} => c[s] \in s
Cerrada(F, S, V) == \A x \in S : \A v \in V : F[<<x, v>>] \in V
Recorre(g, S, b, c, F) == \A s \in SUBSET S : g[s] = IF s = {} THEN b ELSE F[<<c[s], g[s \ {c[s]}]>>]

\* Induction on the parts of a finite set, taking out one chosen element.
LEMMA InduccionPartes ==
  ASSUME NEW S, IsFiniteSet(S), NEW c, Elige(c, S), NEW Q, {} \in Q,
         \A s \in SUBSET S : s # {} /\ s \ {c[s]} \in Q => s \in Q
  PROVE  \A s \in SUBSET S : s \in Q
<1>. DEFINE P == {n \in Nat : \A s \in SUBSET S : Cardinality(s) = n => s \in Q}
<1>1. 0 \in P
  BY FS_Subset, FS_EmptySet
<1>2. ASSUME NEW n \in Nat, n \in P, NEW s \in SUBSET S, Cardinality(s) = n + 1
      PROVE  s \in Q
  <2>1. IsFiniteSet(s) /\ s # {}
    BY <1>2, FS_Subset, FS_EmptySet
  <2>2. c[s] \in s
    BY <2>1 DEF Elige
  <2>3. Cardinality(s \ {c[s]}) = Cardinality(s) - 1
    BY <2>1, <2>2, FS_RemoveElement
  <2>. QED
    BY <1>2, <2>1, <2>3
<1>3. \A n \in Nat : n \in P
  <2>1. \A n \in Nat : n \in P => n + 1 \in P
    <3>1. ASSUME NEW n \in Nat, n \in P PROVE n + 1 \in P
      BY <3>1, <1>2
    <3>. QED
      BY <3>1
  <2>. HIDE DEF P
  <2>. QED
    BY <1>1, <2>1, Induccion
<1>4. ASSUME NEW s \in SUBSET S PROVE Cardinality(s) \in Nat
  BY FS_Subset, FS_CardinalityType
<1>. QED
  BY <1>3, <1>4

\* A recursive function on the parts of a finite set exists.
LEMMA Recurrencia ==
  ASSUME NEW S, IsFiniteSet(S), NEW V, NEW b \in V, NEW c, NEW F,
         Elige(c, S), Cerrada(F, S, V)
  PROVE  \E g \in [SUBSET S -> V] : Recorre(g, S, b, c, F)
<1>. DEFINE Hasta(n) == {s \in SUBSET S : Cardinality(s) <= n}
            Buena(g, D) == \A s \in D : g[s] = IF s = {} THEN b ELSE F[<<c[s], g[s \ {c[s]}]>>]
            P == {n \in Nat : \E g \in [Hasta(n) -> V] : Buena(g, Hasta(n))}
<1>1. \A s \in SUBSET S : IsFiniteSet(s) /\ Cardinality(s) \in Nat /\ (Cardinality(s) = 0 <=> s = {})
  BY FS_Subset, FS_CardinalityType, FS_EmptySet
<1>2. \A s \in SUBSET S : s # {} => s \ {c[s]} \in SUBSET S /\ Cardinality(s \ {c[s]}) = Cardinality(s) - 1
  BY <1>1, FS_RemoveElement DEF Elige
<1>3. 0 \in P
  <2>. DEFINE g == [s \in Hasta(0) |-> b]
  <2>1. \A s \in Hasta(0) : s = {}
    BY <1>1
  <2>2. g \in [Hasta(0) -> V] /\ Buena(g, Hasta(0))
    BY <2>1
  <2>. QED
    BY <2>2
<1>4. ASSUME NEW n \in Nat, n \in P PROVE n + 1 \in P
  <2>1. PICK g \in [Hasta(n) -> V] : Buena(g, Hasta(n))
    BY <1>4
  <2>. DEFINE h == [s \in Hasta(n + 1) |-> IF s = {} THEN b ELSE F[<<c[s], g[s \ {c[s]}]>>]]
  <2>2. \A s \in Hasta(n + 1) : s # {} => c[s] \in S /\ s \ {c[s]} \in Hasta(n)
    BY <1>1, <1>2 DEF Elige
  <2>3. h \in [Hasta(n + 1) -> V]
    BY <2>1, <2>2 DEF Cerrada
  <2>4. \A s \in Hasta(n) : s \in Hasta(n + 1) /\ h[s] = g[s]
    <3>1. \A s \in Hasta(n) : s \in Hasta(n + 1)
      BY <1>1
    <3>. QED
      BY <2>1, <3>1
  <2>5. Buena(h, Hasta(n + 1))
    <3>1. ASSUME NEW s \in Hasta(n + 1), s # {}
          PROVE  h[s] = F[<<c[s], h[s \ {c[s]}]>>]
      <4>1. s \ {c[s]} \in Hasta(n)
        BY <2>2, <3>1
      <4>2. h[s \ {c[s]}] = g[s \ {c[s]}]
        BY <4>1, <2>4
      <4>. HIDE DEF Hasta
      <4>. QED
        BY <4>2, <3>1
    <3>. HIDE DEF Hasta
    <3>2. \A s \in Hasta(n + 1) : s = {} => h[s] = b
      OBVIOUS
    <3>. HIDE DEF h
    <3>. QED
      BY <3>1, <3>2
  <2>. HIDE DEF h, Hasta, Buena
  <2>6. \E k \in [Hasta(n + 1) -> V] : Buena(k, Hasta(n + 1))
    BY <2>3, <2>5
  <2>. QED
    BY <2>6
<1>5. \A n \in Nat : n \in P
  <2>. HIDE DEF P
  <2>. QED
    BY <1>3, <1>4, Induccion
<1>6. Cardinality(S) \in Nat /\ Hasta(Cardinality(S)) = SUBSET S
  BY FS_Subset, FS_CardinalityType
<1>7. \E g \in [Hasta(Cardinality(S)) -> V] : Buena(g, Hasta(Cardinality(S)))
  BY <1>5, <1>6
<1>. QED
  BY <1>6, <1>7 DEF Recorre

\* A fold of a sequence goes through its positions from the last one.
LEMMA UltimaElige ==
  ASSUME NEW n \in Nat
  PROVE  /\ IsFiniteSet(1..n) /\ Elige([s \in SUBSET (1..n) |-> Max(s)], 1..n)
         /\ \A k \in 1..n : Max(1..k) = k /\ (1..k) \ {k} = 1..(k - 1) /\ 1..k # {}
<1>1. ASSUME NEW s \in SUBSET (1..n), s # {} PROVE Max(s) \in s
  <2>. DEFINE I == {i \in Nat : \E x \in s : i = n - x}
  <2>1. I \in SUBSET Nat /\ I # {}
    <3>1. PICK x \in s : TRUE
      BY <1>1
    <3>2. n - x \in Nat
      OBVIOUS
    <3>. QED
      BY <3>2
  <2>2. Min(I) \in I /\ \A j \in I : Min(I) <= j
    BY <2>1, MinimoDe
  <2>. HIDE DEF I
  <2>3. PICK x \in s : Min(I) = n - x
    BY <2>2 DEF I
  <2>4. ASSUME NEW y \in s PROVE x >= y
    <3>1. n - y \in I
      BY DEF I
    <3>2. n - x <= n - y
      BY <2>2, <2>3, <3>1
    <3>. QED
      BY <3>2
  <2>. QED
    BY <2>4 DEF Max
<1>2. ASSUME NEW k \in 1..n PROVE Max(1..k) = k
  <2>1. k \in 1..k /\ \A y \in 1..k : k >= y
    OBVIOUS
  <2>2. \A x \in 1..k : (\A y \in 1..k : x >= y) => x = k
    OBVIOUS
  <2>. QED
    BY <2>1, <2>2 DEF Max
<1>3. IsFiniteSet(1..n)
  BY FS_Interval
<1>4. \A k \in 1..n : (1..k) \ {k} = 1..(k - 1) /\ 1..k # {}
  OBVIOUS
<1>5. Elige([s \in SUBSET (1..n) |-> Max(s)], 1..n)
  <2>. DEFINE c == [s \in SUBSET (1..n) |-> Max(s)]
  <2>1. \A s \in SUBSET (1..n) : c[s] = Max(s)
    OBVIOUS
  <2>. HIDE DEF c
  <2>2. Elige(c, 1..n)
    BY <1>1, <2>1 DEF Elige
  <2>. QED
    BY <2>2 DEF c
<1>. QED
  BY <1>2, <1>3, <1>4, <1>5

\* Induction on the parts of the first n naturals.
LEMMA InduccionFila ==
  ASSUME NEW n \in Nat, NEW Q, {} \in Q,
         \A s \in SUBSET (1..n) : s # {} /\ s \ {Max(s)} \in Q => s \in Q
  PROVE  \A s \in SUBSET (1..n) : s \in Q
<1>. DEFINE S == 1..n
            c == [s \in SUBSET S |-> Max(s)]
<1>1. IsFiniteSet(S) /\ Elige(c, S)
  BY UltimaElige
<1>2. \A s \in SUBSET S : s # {} /\ s \ {c[s]} \in Q => s \in Q
  OBVIOUS
<1>. HIDE DEF c, S
<1>3. \A s \in SUBSET S : s \in Q
  BY <1>1, <1>2, InduccionPartes
<1>. QED
  BY <1>3 DEF S

\* What a fold of a sequence of n elements gives: g for a part of its positions,
\* r for the first k of them.
Fila(g, r, n, V, b, F) ==
  /\ g \in [SUBSET (1..n) -> V] /\ r \in [0..n -> V]
  /\ \A s \in SUBSET (1..n) : g[s] = IF s = {} THEN b ELSE F[<<Max(s), g[s \ {Max(s)}]>>]
  /\ \A s \in SUBSET (1..n) : s # {} => Max(s) \in 1..n /\ g[s \ {Max(s)}] \in V
  /\ r[n] = g[1..n] /\ r[0] = b
  /\ \A k \in 1..n : r[k - 1] \in V /\ r[k] = F[<<k, r[k - 1]>>]

\* There is a function that goes through a row of n turns, one after the other.
LEMMA FilaRecorre ==
  ASSUME NEW n \in Nat, NEW V, NEW b \in V, NEW F, Cerrada(F, 1..n, V)
  PROVE  \E g, r : Fila(g, r, n, V, b, F)
<1>. DEFINE S == 1..n
            c == [s \in SUBSET S |-> Max(s)]
<1>1. IsFiniteSet(S) /\ Elige(c, S)
  BY UltimaElige
<1>2. \A s \in SUBSET S : c[s] = Max(s)
  OBVIOUS
<1>. HIDE DEF c
<1>3. PICK g \in [SUBSET S -> V] : Recorre(g, S, b, c, F)
  <2>. HIDE DEF S
  <2>1. Cerrada(F, S, V)
    BY DEF S
  <2>. QED
    BY <1>1, <2>1, Recurrencia
<1>4. \A s \in SUBSET S : g[s] = IF s = {} THEN b ELSE F[<<Max(s), g[s \ {Max(s)}]>>]
  <2>. HIDE DEF S
  <2>. QED
    BY <1>2, <1>3 DEF Recorre
<1>5. \A s \in SUBSET S : s # {} => Max(s) \in S /\ g[s \ {Max(s)}] \in V
  <2>. HIDE DEF S
  <2>1. \A s \in SUBSET S : s # {} => Max(s) \in S /\ s \ {Max(s)} \in SUBSET S
    BY <1>1, <1>2 DEF Elige
  <2>. QED
    BY <1>3, <2>1
<1>. DEFINE r == [k \in 0..n |-> g[1..k]]
<1>6. \A k \in 0..n : 1..k \in SUBSET S
  OBVIOUS
<1>7. r \in [0..n -> V]
  BY <1>3, <1>6
<1>8. r[n] = g[1..n]
  OBVIOUS
<1>9. r[0] = b
  <2>1. 1..0 = {} /\ r[0] = g[1..0] /\ {} \in SUBSET S
    OBVIOUS
  <2>2. g[{}] = b
    BY <1>4, <2>1
  <2>. QED
    BY <2>1, <2>2
<1>10. ASSUME NEW k \in 1..n PROVE r[k] = F[<<k, r[k - 1]>>]
  <2>. DEFINE s == 1..k
  <2>1. s \in SUBSET S /\ s # {} /\ Max(s) = k /\ s \ {k} = 1..(k - 1)
    <3>1. Max(1..k) = k /\ (1..k) \ {k} = 1..(k - 1) /\ 1..k # {}
      BY UltimaElige
    <3>. QED
      BY <3>1
  <2>2. r[k] = g[s] /\ r[k - 1] = g[1..(k - 1)]
    OBVIOUS
  <2>. HIDE DEF s, S, r
  <2>3. g[s] = F[<<k, g[1..(k - 1)]>>]
    BY <1>4, <2>1
  <2>. QED
    BY <2>2, <2>3
<1>. HIDE DEF r
<1>11. \A k \in 1..n : r[k - 1] \in V
  BY <1>7
<1>12. Fila(g, r, n, V, b, F)
  BY <1>4, <1>5, <1>7, <1>8, <1>9, <1>10, <1>11 DEF Fila
<1>. QED
  BY <1>12

===============================================================================
