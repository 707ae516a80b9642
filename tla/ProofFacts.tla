----------------------------- MODULE ProofFacts -----------------------------
(* Facts about sequences and numbers that several proofs use.    *)
EXTENDS Sums, SequencesExt, SequenceTheorems, WellFoundedInduction, TLAPS

-----------------------------------------------------------------------------
(* The elements of sequences *)

LEMMA EmptyHasNothing == ToSet(<<>>) = {} /\ IsInjective(<<>>)
  BY DEF ToSet, IsInjective

LEMMA AppendKeepsInjective ==
  ASSUME NEW S, NEW s \in Seq(S), NEW x \in S
  PROVE  /\ ToSet(Append(s, x)) = ToSet(s) \cup {x}
         /\ IsInjective(s) /\ x \notin ToSet(s) => IsInjective(Append(s, x))
  <1>1. /\ Append(s, x) \in Seq(S) /\ Len(Append(s, x)) = Len(s) + 1
        /\ \A i \in 1 .. Len(s) : Append(s, x)[i] = s[i]
        /\ Append(s, x)[Len(s) + 1] = x /\ Len(s) \in Nat
    BY AppendProperties, LenProperties
  <1>2. DOMAIN s = 1 .. Len(s) /\ DOMAIN Append(s, x) = 1 .. Len(s) + 1
    BY <1>1, LenProperties
  <1>3. 1 .. Len(s) + 1 = (1 .. Len(s)) \cup {Len(s) + 1}
    BY <1>1
  <1> QED
    BY <1>1, <1>2, <1>3 DEF ToSet, IsInjective

LEMMA SubSeqKeepsInjective ==
  ASSUME NEW S, NEW s \in Seq(S), NEW m \in Nat \ {0}, NEW n \in 0 .. Len(s)
  PROVE  /\ SubSeq(s, m, n) \in Seq(S)
         /\ Len(SubSeq(s, m, n)) <= Len(s)
         /\ ToSet(SubSeq(s, m, n)) = {s[i] : i \in m .. n}
         /\ ToSet(SubSeq(s, m, n)) \subseteq ToSet(s)
         /\ IsInjective(s) => IsInjective(SubSeq(s, m, n))
  <1> DEFINE t == SubSeq(s, m, n)
  <1>1. Len(s) \in Nat /\ DOMAIN s = 1 .. Len(s) /\ m .. n \subseteq 1 .. Len(s)
    BY LenProperties
  <1>2. \A i \in m .. n : s[i] \in S
    BY <1>1, ElementOfSeq
  <1>3. /\ t \in Seq(S) /\ Len(t) = IF m <= n THEN n - m + 1 ELSE 0
        /\ \A i \in 1 .. n - m + 1 : t[i] = s[m + i - 1]
    BY <1>1, <1>2, SubSeqProperties
  <1>4. DOMAIN t = 1 .. n - m + 1
    BY <1>1, <1>3, LenProperties
  <1> HIDE DEF t
  <1>5. ToSet(t) = {s[i] : i \in m .. n}
    <2>1. \A i \in 1 .. n - m + 1 : m + i - 1 \in m .. n
      BY <1>1
    <2>2. \A i \in m .. n : i - m + 1 \in 1 .. n - m + 1 /\ m + (i - m + 1) - 1 = i
      BY <1>1
    <2>3. ToSet(t) = {t[i] : i \in 1 .. n - m + 1}
      BY <1>4 DEF ToSet
    <2>4. \A x \in ToSet(t) : x \in {s[i] : i \in m .. n}
      BY <1>3, <2>1, <2>3
    <2>5. \A i \in m .. n : s[i] = t[i - m + 1]
      BY <1>3, <2>2
    <2> QED
      BY <2>2, <2>3, <2>4, <2>5
  <1>6. ToSet(t) \subseteq ToSet(s)
    BY <1>1, <1>5 DEF ToSet
  <1>7. IsInjective(s) => IsInjective(t)
    <2> SUFFICES ASSUME IsInjective(s), NEW i \in DOMAIN t, NEW j \in DOMAIN t,
                        t[i] = t[j]
                 PROVE  i = j
      BY DEF IsInjective
    <2>1. m + i - 1 \in DOMAIN s /\ m + j - 1 \in DOMAIN s
      BY <1>1, <1>4
    <2>2. m + i - 1 = m + j - 1
      BY <1>3, <1>4, <2>1 DEF IsInjective
    <2> QED
      BY <1>4, <2>2
  <1> QED
    BY <1>1, <1>3, <1>5, <1>6, <1>7 DEF t

LEMMA TailLeavesRest ==
  ASSUME NEW S, NEW s \in Seq(S), s # <<>>
  PROVE  /\ Head(s) \in S /\ Tail(s) \in Seq(S)
         /\ Head(s) \in ToSet(s) /\ ToSet(Tail(s)) \subseteq ToSet(s)
         /\ IsInjective(s) =>
              IsInjective(Tail(s)) /\ Head(s) \notin ToSet(Tail(s))
  <1>1. /\ Len(s) \in Nat \ {0} /\ DOMAIN s = 1 .. Len(s) /\ 1 \in DOMAIN s
        /\ Head(s) = s[1]
    BY EmptySeq, LenProperties
  <1>2. /\ Tail(s) = SubSeq(s, 2, Len(s)) /\ Head(s) \in S
        /\ Tail(s) \in Seq(S)
    BY TailIsSubSeq, HeadTailProperties
  <1>3. /\ ToSet(Tail(s)) = {s[i] : i \in 2 .. Len(s)}
        /\ ToSet(Tail(s)) \subseteq ToSet(s)
        /\ IsInjective(s) => IsInjective(Tail(s))
    <2>1. 2 \in Nat \ {0} /\ Len(s) \in 0 .. Len(s)
      BY <1>1
    <2>2. /\ ToSet(SubSeq(s, 2, Len(s))) = {s[i] : i \in 2 .. Len(s)}
          /\ ToSet(SubSeq(s, 2, Len(s))) \subseteq ToSet(s)
          /\ IsInjective(s) => IsInjective(SubSeq(s, 2, Len(s)))
      BY <2>1, SubSeqKeepsInjective
    <2> QED
      BY <1>2, <2>2
  <1>4. IsInjective(s) => Head(s) \notin ToSet(Tail(s))
    <2> SUFFICES ASSUME IsInjective(s), NEW i \in 2 .. Len(s), s[i] = s[1]
                 PROVE  FALSE
      BY <1>1, <1>3
    <2> QED
      BY <1>1 DEF IsInjective
  <1> QED
    BY <1>1, <1>2, <1>3, <1>4 DEF ToSet

\* What comes before place k of an injective sequence and what comes behind
\* have nothing in common.
LEMMA PartsApart ==
  ASSUME NEW S, NEW s \in Seq(S), IsInjective(s),
         NEW k \in 0 .. Len(s), NEW m \in Nat, m > k
  PROVE  ToSet(SubSeq(s, 1, k)) \cap ToSet(SubSeq(s, m, Len(s))) = {}
  <1>1. Len(s) \in Nat /\ DOMAIN s = 1 .. Len(s)
    BY LenProperties
  <1>2. /\ ToSet(SubSeq(s, 1, k)) = {s[i] : i \in 1 .. k}
        /\ ToSet(SubSeq(s, m, Len(s))) = {s[i] : i \in m .. Len(s)}
    <2>1. 1 \in Nat \ {0} /\ m \in Nat \ {0} /\ Len(s) \in 0 .. Len(s)
      BY <1>1
    <2> QED
      BY <2>1, SubSeqKeepsInjective
  <1>3. \A i \in 1 .. k, j \in m .. Len(s) :
          i \in DOMAIN s /\ j \in DOMAIN s /\ i # j
    BY <1>1
  <1> QED
    BY <1>2, <1>3 DEF IsInjective
LEMMA ConcatHasBoth ==
  ASSUME NEW S, NEW s \in Seq(S), NEW t \in Seq(S)
  PROVE  ToSet(s \o t) = ToSet(s) \cup ToSet(t)
  <1>1. /\ DOMAIN s = 1 .. Len(s) /\ DOMAIN t = 1 .. Len(t)
        /\ Len(s) \in Nat /\ Len(t) \in Nat
    BY LenProperties
  <1>2. /\ s \o t \in Seq(S) /\ Len(s \o t) = Len(s) + Len(t)
        /\ \A i \in 1 .. Len(s) + Len(t) :
              (s \o t)[i] = IF i <= Len(s) THEN s[i] ELSE t[i - Len(s)]
    BY ConcatProperties
  <1>3. DOMAIN (s \o t) = 1 .. Len(s) + Len(t)
    BY <1>2, LenProperties
  <1>4. \A i \in 1 .. Len(s) : i \in 1 .. Len(s) + Len(t) /\ (s \o t)[i] = s[i]
    BY <1>1, <1>2
  <1>5. \A i \in 1 .. Len(t) :
          Len(s) + i \in 1 .. Len(s) + Len(t) /\ (s \o t)[Len(s) + i] = t[i]
    BY <1>1, <1>2
  <1>6. \A i \in 1 .. Len(s) + Len(t) :
          \/ i \in 1 .. Len(s)
          \/ i - Len(s) \in 1 .. Len(t) /\ (s \o t)[i] = t[i - Len(s)]
    BY <1>1, <1>2
  <1>7. ToSet(s \o t) \subseteq ToSet(s) \cup ToSet(t)
    BY <1>1, <1>3, <1>4, <1>6 DEF ToSet
  <1>8. ToSet(s) \subseteq ToSet(s \o t)
    BY <1>1, <1>3, <1>4 DEF ToSet
  <1>9. ToSet(t) \subseteq ToSet(s \o t)
    BY <1>1, <1>3, <1>5 DEF ToSet
  <1> QED
    BY <1>7, <1>8, <1>9
-----------------------------------------------------------------------------
(* The least and the greatest of a set of numbers *)

\* The least number of a set that is not empty is in it.
LEMMA MinIn ==
  ASSUME NEW S \in SUBSET Nat, S # {}
  PROVE  Min(S) \in S /\ \A y \in S : Min(S) <= y
  <1> DEFINE Less == {ss \in Nat \X Nat : ss[1] < ss[2]}
  <1>1. IsWellFoundedOn(Less, Nat)
    BY NatLessThanWellFounded DEF OpToRel
  <1> HIDE DEF Less
  <1>2. PICK x \in S : \A y \in S : ~(<<y, x>> \in Less)
    BY <1>1, WFMin
  <1>3. ASSUME NEW y \in S
        PROVE  x =< y
    <2>1. <<y, x>> \notin Less
      BY <1>2
    <2>2. <<y, x>> \in Nat \X Nat /\ <<y, x>>[1] = y /\ <<y, x>>[2] = x
      OBVIOUS
    <2>3. ~(y < x)
      BY <2>1, <2>2 DEF Less
    <2> QED
      BY <2>3
  <1> QED
    BY <1>3 DEF Min

\* A set of numbers with a bound has a greatest.
LEMMA GreatestOfBounded ==
  ASSUME NEW S \in SUBSET Nat, S # {}, NEW k \in Nat, \A x \in S : x < k
  PROVE  \E x \in S : \A y \in S : y <= x
  <1> DEFINE D == {k - x : x \in S}
  <1>1. D \in SUBSET Nat /\ D # {}
    <2>1. \A x \in S : x \in Nat /\ x < k /\ k - x \in Nat
      OBVIOUS
    <2> QED
      BY <2>1
  <1>2. Min(D) \in D /\ \A d \in D : Min(D) <= d
    BY <1>1, MinIn
  <1>3. PICK x \in S : Min(D) = k - x
    BY <1>2
  <1>4. ASSUME NEW y \in S PROVE y <= x
    <2>1. k - x <= k - y
      BY <1>2, <1>3
    <2> QED
      BY <2>1
  <1> QED
    BY <1>4

-----------------------------------------------------------------------------
(* Sums *)

\* The sums of the first 0, 1, .. n values of L.
SumsTo(L, n, g) ==
  /\ DOMAIN g = 0 .. n
  /\ g[0] = 0
  /\ \A k \in 1 .. n : g[k] = g[k - 1] + L[k - 1]

LEMMA SumsAgree ==
  ASSUME NEW L, NEW m \in Nat, NEW n \in Nat, NEW g, NEW h,
         SumsTo(L, m, g), SumsTo(L, n, h), m <= n
  PROVE  \A k \in 0 .. m : g[k] = h[k]
  <1> DEFINE Bad == {k \in 0 .. m : g[k] # h[k]}
  <1> SUFFICES ASSUME Bad # {}
               PROVE  FALSE
    OBVIOUS
  <1>1. PICK k \in Bad : \A j \in Bad : k <= j
    <2>1. Bad \in SUBSET Nat
      OBVIOUS
    <2> HIDE DEF Bad
    <2> QED
      BY <2>1, MinIn
  <1>2. k \in 1 .. m /\ k \in 1 .. n
    BY <1>1 DEF SumsTo
  <1>3. k - 1 \in 0 .. m /\ k - 1 \notin Bad
    BY <1>1, <1>2
  <1>4. g[k - 1] = h[k - 1]
    BY <1>3
  <1> QED
    BY <1>1, <1>2, <1>4 DEF SumsTo

LEMMA SumsExist ==
  ASSUME NEW L, NEW n \in Nat
  PROVE  \E g : SumsTo(L, n, g)
  <1> DEFINE Bad == {k \in Nat : \A g : ~SumsTo(L, k, g)}
  <1> SUFFICES ASSUME n \in Bad
               PROVE  FALSE
    OBVIOUS
  <1>1. PICK k \in Bad : \A j \in Bad : k <= j
    <2>1. Bad \in SUBSET Nat
      OBVIOUS
    <2>2. n \in Bad
      OBVIOUS
    <2> HIDE DEF Bad
    <2> QED
      BY <2>1, <2>2, MinIn
  <1>2. k # 0
    <2>1. SumsTo(L, 0, [j \in 0 .. 0 |-> 0])
      BY DEF SumsTo
    <2> QED
      BY <1>1, <2>1
  <1>3. k - 1 \in Nat /\ k - 1 \notin Bad
    BY <1>1, <1>2
  <1>4. PICK g : SumsTo(L, k - 1, g)
    BY <1>3
  <1> DEFINE h == [j \in 0 .. k |-> IF j = k THEN g[k - 1] + L[k - 1] ELSE g[j]]
  <1>5. SumsTo(L, k, h)
    <2>1. DOMAIN h = 0 .. k /\ h[0] = 0 /\ h[k] = g[k - 1] + L[k - 1]
      BY <1>2, <1>4 DEF SumsTo
    <2>2. \A j \in 0 .. k - 1 : h[j] = g[j]
      OBVIOUS
    <2>3. ASSUME NEW j \in 1 .. k
          PROVE  h[j] = h[j - 1] + L[j - 1]
      <3>1. j - 1 \in 0 .. k - 1
        OBVIOUS
      <3>2. j # k => j \in 0 .. k - 1 /\ j \in 1 .. k - 1
        OBVIOUS
      <3> HIDE DEF h
      <3> QED
        BY <1>4, <2>1, <2>2, <3>1, <3>2 DEF SumsTo
    <2> HIDE DEF h
    <2> QED
      BY <2>1, <2>3 DEF SumsTo
  <1> QED
    BY <1>1, <1>5

LEMMA SumStep ==
  ASSUME NEW L
  PROVE  /\ SumOf(L, 0) = 0
         /\ \A n \in Nat : SumOf(L, n + 1) = SumOf(L, n) + L[n]
  <1> DEFINE G(n) == CHOOSE g : SumsTo(L, n, g)
             f == [n \in Nat |-> G(n)[n]]
             Step(s) == [k \in Nat |-> IF k = 0 THEN 0 ELSE s[k - 1] + L[k - 1]]
             sum == CHOOSE s : s = Step(s)
  <1>1. \A n \in Nat : SumsTo(L, n, G(n))
    BY SumsExist
  <1>2. f = Step(f)
    <2> HIDE DEF G
    <2> SUFFICES ASSUME NEW k \in Nat
                 PROVE  f[k] = IF k = 0 THEN 0 ELSE f[k - 1] + L[k - 1]
      <3>1. DOMAIN f = Nat /\ f = [k \in Nat |-> f[k]]
        OBVIOUS
      <3> HIDE DEF f
      <3> QED
        BY <3>1
    <2>1. CASE k = 0
      BY <1>1, <2>1 DEF SumsTo
    <2>2. CASE k # 0
      <3>1. k - 1 \in Nat /\ k - 1 <= k /\ k \in 1 .. k /\ k - 1 \in 0 .. k - 1
        BY <2>2
      <3>2. SumsTo(L, k, G(k)) /\ SumsTo(L, k - 1, G(k - 1))
        BY <1>1, <3>1
      <3>3. f[k] = G(k)[k] /\ f[k - 1] = G(k - 1)[k - 1]
        BY <3>1
      <3> HIDE DEF f
      <3>4. G(k - 1)[k - 1] = G(k)[k - 1]
        BY <3>1, <3>2, SumsAgree
      <3>5. G(k)[k] = G(k)[k - 1] + L[k - 1]
        BY <3>1, <3>2 DEF SumsTo
      <3> QED
        BY <2>2, <3>3, <3>4, <3>5
    <2> QED
      BY <2>1, <2>2
  <1> HIDE DEF f
  <1>3. sum = Step(sum)
    <2> HIDE DEF Step
    <2> QED
      BY <1>2
  <1>4. \A n : SumOf(L, n) = sum[n]
    BY DEF SumOf
  <1> HIDE DEF sum
  <1>5. \A k \in Nat : sum[k] = IF k = 0 THEN 0 ELSE sum[k - 1] + L[k - 1]
    BY <1>3
  <1> QED
    BY <1>4, <1>5

\* Sums of natural numbers
LEMMA SumType ==
  ASSUME NEW L, NEW n \in Nat, \A k \in 0 .. n - 1 : L[k] \in Nat
  PROVE  SumOf(L, n) \in Nat
  <1> DEFINE Bad == {k \in 0 .. n : SumOf(L, k) \notin Nat}
  <1> SUFFICES ASSUME n \in Bad
               PROVE  FALSE
    OBVIOUS
  <1>1. PICK k \in Bad : \A j \in Bad : k <= j
    <2>1. Bad \in SUBSET Nat
      OBVIOUS
    <2>2. n \in Bad
      OBVIOUS
    <2> HIDE DEF Bad
    <2> QED
      BY <2>1, <2>2, MinIn
  <1>2. k # 0
    BY <1>1, SumStep
  <1>3. k - 1 \in Nat /\ k - 1 \in 0 .. n - 1 /\ k - 1 \notin Bad /\ (k - 1) + 1 = k
    BY <1>1, <1>2
  <1>4. SumOf(L, k) = SumOf(L, k - 1) + L[k - 1]
    <2>1. PICK m \in Nat : m = k - 1
      BY <1>3
    <2>2. SumOf(L, m + 1) = SumOf(L, m) + L[m]
      BY SumStep
    <2> QED
      BY <1>3, <2>1, <2>2
  <1>5. SumOf(L, k - 1) \in Nat /\ L[k - 1] \in Nat
    BY <1>3
  <1> QED
    BY <1>1, <1>4, <1>5

\* Changing one value changes the sum by as much.
LEMMA SumChange ==
  ASSUME NEW L, NEW M, NEW n \in Nat, NEW c \in 0 .. n,
         \A k \in 0 .. n - 1 : L[k] \in Nat /\ M[k] \in Nat,
         \A k \in 0 .. n - 1 : k # c => L[k] = M[k]
  PROVE  SumOf(M, n) = IF c = n THEN SumOf(L, n)
                       ELSE SumOf(L, n) - L[c] + M[c]
  <1> DEFINE Right(k) == SumOf(M, k) = IF c >= k THEN SumOf(L, k)
                                       ELSE SumOf(L, k) - L[c] + M[c]
             Bad == {k \in 0 .. n : ~Right(k)}
  <1> SUFFICES ASSUME n \in Bad
               PROVE  FALSE
    OBVIOUS
  <1>1. PICK k \in Bad : \A j \in Bad : k <= j
    <2>1. Bad \in SUBSET Nat
      OBVIOUS
    <2>2. n \in Bad
      OBVIOUS
    <2> HIDE DEF Bad
    <2> QED
      BY <2>1, <2>2, MinIn
  <1>2. k # 0
    BY <1>1, SumStep
  <1>3. PICK m \in 0 .. n - 1 : k = m + 1
    <2>1. k - 1 \in 0 .. n - 1 /\ k = (k - 1) + 1
      BY <1>1, <1>2
    <2> QED
      BY <2>1
  <1>4. Right(m)
    BY <1>1, <1>3
  <1>5. /\ SumOf(L, k) = SumOf(L, m) + L[m]
        /\ SumOf(M, k) = SumOf(M, m) + M[m]
    BY <1>3, SumStep
  <1>6. /\ SumOf(L, m) \in Nat /\ SumOf(M, m) \in Nat
        /\ L[m] \in Nat /\ M[m] \in Nat
        /\ (c < n => L[c] \in Nat /\ M[c] \in Nat)
    BY SumType
  <1>7. ~Right(k)
    BY <1>1
  <1>8. CASE c = m
    BY <1>3, <1>4, <1>5, <1>6, <1>7, <1>8
  <1>9. CASE c # m
    BY <1>3, <1>4, <1>5, <1>6, <1>7, <1>9
  <1> QED
    BY <1>8, <1>9

\* Equal values have equal sums.
LEMMA SumSame ==
  ASSUME NEW L, NEW M, NEW n \in Nat,
         \A k \in 0 .. n - 1 : L[k] \in Nat /\ M[k] \in Nat,
         \A k \in 0 .. n - 1 : L[k] = M[k]
  PROVE  SumOf(M, n) = SumOf(L, n)
  <1>1. n \in 0 .. n
    OBVIOUS
  <1> QED
    BY <1>1, SumChange
=============================================================================
