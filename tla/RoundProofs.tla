------------------------------ MODULE RoundProofs ------------------------------
(***************************************************************************)
(* What a round promises, proved for every value of the constants: that a  *)
(* confirmed contribution is in its round (RoundLedger), and what the      *)
(* aggregate owes to those that contributed, the honest and the others     *)
(* (RobustAggregation).                                                    *)
(***************************************************************************)
EXTENDS RobustAggregation, SequenceTheorems, FunctionTheorems,
        FiniteSetTheorems, WellFoundedInduction, TLAPS

-------------------------------------------------------------------------------
(***************************************************************************)
(* Sums.                                                                   *)
(***************************************************************************)
\* What holds of 0 and of the next number holds of all.
LEMMA UpTo ==
  ASSUME NEW n \in Nat, NEW T \in SUBSET (0 .. n), 0 \in T,
         \A i \in 1 .. n : i - 1 \in T => i \in T
  PROVE  T = 0 .. n
<1> DEFINE R == {ss \in Nat \X Nat : ss[1] < ss[2]}
           B == (0 .. n) \ T
<1>1. SUFFICES ASSUME B # {} PROVE FALSE
  OBVIOUS
<1>2. IsWellFoundedOn(R, Nat)
  BY NatLessThanWellFounded DEF OpToRel
<1>3. \A i, j \in Nat : i < j => <<i, j>> \in R
  OBVIOUS
<1>4. B \subseteq Nat
  OBVIOUS
<1> HIDE DEF R, B
<1>5. PICK m \in B : \A i \in B : <<i, m>> \notin R
  BY <1>1, <1>2, <1>4, WFMin
<1>6. m \in 0 .. n /\ m \notin T
  BY <1>5 DEF B
<1>7. m \in 1 .. n /\ m - 1 \in 0 .. n /\ m - 1 \in Nat /\ m \in Nat /\ m - 1 < m
  BY <1>6
<1>8. m - 1 \notin B
  BY <1>3, <1>5, <1>7
<1>9. m - 1 \in T
  BY <1>7, <1>8 DEF B
<1> QED
  BY <1>6, <1>7, <1>9

\* Values that a step makes of one another, from the first on.
Trace(q, n, first, step) ==
  q = [i \in 0 .. n |-> IF i = 0 THEN first ELSE step[i][q[i - 1]]]

LEMMA TraceExists ==
  ASSUME NEW n \in Nat, NEW Q, NEW first \in Q, NEW step \in [1 .. n -> [Q -> Q]]
  PROVE  \E q \in [0 .. n -> Q] : Trace(q, n, first, step)
<1> DEFINE Has(m) == \E q \in [0 .. m -> Q] : Trace(q, m, first, step)
           T == {m \in 0 .. n : Has(m)}
<1>1. 0 \in T
  <2> DEFINE q == [i \in 0 .. 0 |-> first]
  <2>1. q \in [0 .. 0 -> Q] /\ Trace(q, 0, first, step)
    BY DEF Trace
  <2>2. Has(0)
    BY <2>1
  <2> QED
    BY <2>2
<1>2. ASSUME NEW m \in 1 .. n, m - 1 \in T
      PROVE  m \in T
  <2>1. PICK q \in [0 .. m - 1 -> Q] : Trace(q, m - 1, first, step)
    BY <1>2
  <2> DEFINE p == [i \in 0 .. m |-> IF i = m THEN step[m][q[m - 1]] ELSE q[i]]
  <2>2. m - 1 \in 0 .. m - 1 /\ step[m] \in [Q -> Q] /\ m \in 1 .. n
    OBVIOUS
  <2>3. step[m][q[m - 1]] \in Q
    BY <2>1, <2>2
  <2>4. \A i \in 0 .. m : i = m \/ i \in 0 .. m - 1
    OBVIOUS
  <2>5. p \in [0 .. m -> Q]
    BY <2>1, <2>3, <2>4
  <2>6. \A i \in 0 .. m : p[i] = IF i = 0 THEN first ELSE step[i][p[i - 1]]
    <3> SUFFICES ASSUME NEW i \in 0 .. m
                 PROVE  p[i] = IF i = 0 THEN first ELSE step[i][p[i - 1]]
      OBVIOUS
    <3>1. CASE i = m
      <4>1. p[m] = step[m][q[m - 1]] /\ p[m - 1] = q[m - 1] /\ m # 0
        OBVIOUS
      <4> HIDE DEF p
      <4> QED
        BY <3>1, <4>1
    <3>2. CASE i # m
      <4>1. i \in 0 .. m - 1 /\ p[i] = q[i]
        BY <3>2
      <4>2. q[i] = IF i = 0 THEN first ELSE step[i][q[i - 1]]
        BY <2>1, <4>1 DEF Trace
      <4>3. i # 0 => i - 1 \in 0 .. m /\ i - 1 # m
        BY <4>1
      <4>4. i # 0 => p[i - 1] = q[i - 1]
        BY <4>3
      <4> HIDE DEF p
      <4> QED
        BY <4>1, <4>2, <4>4
    <3> QED
      BY <3>1, <3>2
  <2> HIDE DEF p
  <2>7. p = [i \in 0 .. m |-> IF i = 0 THEN first ELSE step[i][p[i - 1]]]
    BY <2>5, <2>6
  <2>8. Has(m)
    BY <2>5, <2>7 DEF Trace
  <2> QED
    BY <2>8
<1>3. n \in T
  <2> HIDE DEF T
  <2>1. T \in SUBSET (0 .. n)
    BY DEF T
  <2> QED
    BY <1>1, <1>2, <2>1, UpTo
<1> QED
  BY <1>3

LEMMA LengthIs ==
  ASSUME NEW n \in Nat, NEW s \in [1 .. n -> Int]
  PROVE  Len(s) = n /\ \A i \in 1 .. n : s[i] \in Int
<1>1. s \in Seq(Int)
  BY SeqDef
<1>2. Len(s) \in Nat /\ 1 .. Len(s) = 1 .. n
  BY <1>1, LenProperties
<1>3. n \in 1 .. n \/ n = 0
  OBVIOUS
<1>4. Len(s) \in 1 .. Len(s) \/ Len(s) = 0
  BY <1>2
<1> QED
  BY <1>2, <1>3, <1>4

\* p has the sums of the first members of s.
PartialSums(p, s, n) ==
  /\ p \in [0 .. n -> Int]
  /\ p[0] = 0 /\ \A i \in 1 .. n : p[i] = p[i - 1] + s[i]

LEMMA TotalUnfolds ==
  ASSUME NEW s, NEW n \in Nat, Len(s) = n, \A i \in 1 .. n : s[i] \in Int
  PROVE  \E p : PartialSums(p, s, n) /\ Total(s) = p[n]
<1> DEFINE Sums(g) == g = [i \in 0 .. n |-> IF i = 0 THEN 0 ELSE g[i - 1] + s[i]]
           step == [i \in 1 .. n |-> [x \in Int |-> x + s[i]]]
<1>1. step \in [1 .. n -> [Int -> Int]]
  OBVIOUS
<1>2. PICK q \in [0 .. n -> Int] : Trace(q, n, 0, step)
  <2> DEFINE Q == Int
  <2>1. 0 \in Q /\ step \in [1 .. n -> [Q -> Q]]
    BY <1>1
  <2> HIDE DEF step, Sums, Q
  <2>2. \E q \in [0 .. n -> Q] : Trace(q, n, 0, step)
    BY <2>1, TraceExists
  <2> QED
    BY <2>2 DEF Q
<1>3. Sums(q)
  <2>1. \A i \in 0 .. n : q[i] = IF i = 0 THEN 0 ELSE step[i][q[i - 1]]
    BY <1>2 DEF Trace
  <2>2. \A i \in 0 .. n : i # 0 => i \in 1 .. n /\ q[i - 1] \in Int
    OBVIOUS
  <2>3. \A i \in 1 .. n, x \in Int : step[i][x] = x + s[i]
    OBVIOUS
  <2> HIDE DEF step
  <2>4. \A i \in 0 .. n : q[i] = IF i = 0 THEN 0 ELSE q[i - 1] + s[i]
    BY <2>1, <2>2, <2>3
  <2> QED
    BY <2>4
<1> DEFINE F == CHOOSE g : Sums(g)
<1>4. Sums(F)
  <2> HIDE DEF Sums
  <2> QED
    BY <1>3, Zenon
<1>5. Total(s) = F[n]
  BY DEF Total
<1> HIDE DEF F
<1>6. DOMAIN F = 0 .. n /\ F[0] = 0 /\ \A i \in 1 .. n : F[i] = F[i - 1] + s[i]
  <2>1. DOMAIN F = 0 .. n /\ \A i \in 0 .. n : F[i] = IF i = 0 THEN 0 ELSE F[i - 1] + s[i]
    BY <1>4
  <2> HIDE DEF Sums
  <2> QED
    BY <2>1
<1>7. F = [i \in 0 .. n |-> F[i]]
  BY <1>4
<1> HIDE DEF Sums
<1> DEFINE T == {i \in 0 .. n : F[i] \in Int}
<1>8. 0 \in T
  BY <1>6
<1>9. ASSUME NEW i \in 1 .. n, i - 1 \in T PROVE i \in T
  BY <1>6, <1>9
<1>10. T \in SUBSET (0 .. n)
  OBVIOUS
<1>11. T = 0 .. n
  <2> HIDE DEF T, step
  <2> QED
    BY <1>8, <1>9, <1>10, UpTo
<1>12. F \in [0 .. n -> Int]
  BY <1>7, <1>11
<1> QED
  BY <1>5, <1>6, <1>12 DEF PartialSums

LEMMA TotalSteps ==
  ASSUME NEW n \in Nat, NEW s \in [1 .. n -> Int]
  PROVE  \E p : PartialSums(p, s, n) /\ Total(s) = p[n]
BY LengthIs, TotalUnfolds

LEMMA TotalType ==
  ASSUME NEW n \in Nat, NEW s \in [1 .. n -> Int]
  PROVE  Total(s) \in Int
<1>1. PICK p : PartialSums(p, s, n) /\ Total(s) = p[n]
  BY TotalSteps
<1> QED
  BY <1>1 DEF PartialSums

\* The greater the terms, the greater the sum.
LEMMA TotalGrows ==
  ASSUME NEW n \in Nat, NEW s \in [1 .. n -> Int], NEW t \in [1 .. n -> Int],
         \A i \in 1 .. n : s[i] <= t[i]
  PROVE  Total(s) <= Total(t)
<1>1. PICK p : PartialSums(p, s, n) /\ Total(s) = p[n]
  BY TotalSteps
<1>2. PICK q : PartialSums(q, t, n) /\ Total(t) = q[n]
  BY TotalSteps
<1> DEFINE T == {i \in 0 .. n : p[i] <= q[i]}
<1>3. 0 \in T
  BY <1>1, <1>2 DEF PartialSums
<1>4. ASSUME NEW i \in 1 .. n, i - 1 \in T PROVE i \in T
  <2>1. /\ p[i] = p[i - 1] + s[i] /\ q[i] = q[i - 1] + t[i]
        /\ p[i - 1] \in Int /\ q[i - 1] \in Int /\ s[i] \in Int /\ t[i] \in Int
    BY <1>1, <1>2 DEF PartialSums
  <2> QED
    BY <1>4, <2>1
<1>5. T \in SUBSET (0 .. n) /\ n \in 0 .. n
  OBVIOUS
<1> HIDE DEF T
<1>6. n \in T
  BY <1>3, <1>4, <1>5, UpTo
<1> QED
  BY <1>1, <1>2, <1>6 DEF T

\* A common factor.
LEMMA TotalTimes ==
  ASSUME NEW n \in Nat, NEW s \in [1 .. n -> Int], NEW a \in Int, NEW t \in [1 .. n -> Int],
         \A i \in 1 .. n : t[i] = a * s[i]
  PROVE  Total(t) = a * Total(s)
<1>1. PICK p : PartialSums(p, s, n) /\ Total(s) = p[n]
  BY TotalSteps
<1>2. PICK q : PartialSums(q, t, n) /\ Total(t) = q[n]
  BY TotalSteps
<1> DEFINE T == {i \in 0 .. n : q[i] = a * p[i]}
<1>3. 0 \in T
  BY <1>1, <1>2 DEF PartialSums
<1>4. ASSUME NEW i \in 1 .. n, i - 1 \in T PROVE i \in T
  <2>1. /\ p[i] = p[i - 1] + s[i] /\ q[i] = q[i - 1] + a * s[i]
        /\ p[i - 1] \in Int /\ s[i] \in Int
    BY SMTT(30), <1>1, <1>2 DEF PartialSums
  <2>2. q[i - 1] = a * p[i - 1]
    BY <1>4
  <2>3. \A x, y \in Int : a * x + a * y = a * (x + y)
    OBVIOUS
  <2>4. q[i] = a * p[i]
    BY <2>1, <2>2, <2>3
  <2> QED
    BY <2>4
<1>5. T \in SUBSET (0 .. n) /\ n \in 0 .. n
  OBVIOUS
<1> HIDE DEF T
<1>6. n \in T
  BY <1>3, <1>4, <1>5, UpTo
<1> QED
  BY <1>1, <1>2, <1>6 DEF T

\* One for each member of S.
Ones(S, n) == [i \in 1 .. n |-> IF i \in S THEN 1 ELSE 0]

LEMMA TotalOfOnes ==
  ASSUME NEW n \in Nat, NEW S \in SUBSET (1 .. n)
  PROVE  Total(Ones(S, n)) = Cardinality(S) /\ IsFiniteSet(S)
<1> DEFINE s == Ones(S, n)
           upTo(i) == S \cap (1 .. i)
<1>1. s \in [1 .. n -> Int] /\ \A i \in 1 .. n : s[i] = IF i \in S THEN 1 ELSE 0
  BY DEF Ones
<1> HIDE DEF s
<1>2. PICK p : PartialSums(p, s, n) /\ Total(s) = p[n]
  BY <1>1, TotalSteps
<1>3. \A i \in 0 .. n : IsFiniteSet(upTo(i))
  <2> SUFFICES ASSUME NEW i \in 0 .. n PROVE IsFiniteSet(upTo(i))
    OBVIOUS
  <2>1. IsFiniteSet(1 .. i)
    BY FS_Interval
  <2> QED
    BY <2>1, FS_Intersection
<1> DEFINE T == {i \in 0 .. n : p[i] = Cardinality(upTo(i))}
<1>4. 0 \in T
  <2>1. upTo(0) = {}
    OBVIOUS
  <2>2. Cardinality(upTo(0)) = 0
    BY <2>1, FS_EmptySet
  <2> QED
    BY <1>2, <2>2 DEF PartialSums
<1>5. ASSUME NEW i \in 1 .. n, i - 1 \in T PROVE i \in T
  <2>1. p[i] = p[i - 1] + s[i] /\ p[i - 1] = Cardinality(upTo(i - 1)) /\ p[i - 1] \in Int
    BY <1>2, <1>5 DEF PartialSums
  <2>2. CASE i \in S
    <3>1. upTo(i) = upTo(i - 1) \cup {i} /\ i \notin upTo(i - 1)
      BY <2>2
    <3>2. IsFiniteSet(upTo(i - 1))
      BY <1>3
    <3> HIDE DEF upTo
    <3>3. Cardinality(upTo(i)) = Cardinality(upTo(i - 1)) + 1
      BY <3>1, <3>2, FS_AddElement
    <3> QED
      BY <1>1, <2>1, <2>2, <3>3
  <2>3. CASE i \notin S
    <3>1. upTo(i) = upTo(i - 1)
      BY <2>3
    <3> HIDE DEF upTo
    <3> QED
      BY <1>1, <2>1, <2>3, <3>1
  <2> QED
    BY <2>2, <2>3
<1>6. T \in SUBSET (0 .. n) /\ n \in 0 .. n
  OBVIOUS
<1>7. S = upTo(n)
  OBVIOUS
<1> HIDE DEF T
<1>8. n \in T
  BY <1>4, <1>5, <1>6, UpTo
<1>9. p[n] = Cardinality(upTo(n))
  BY <1>8 DEF T
<1> HIDE DEF upTo
<1> QED
  BY <1>2, <1>3, <1>6, <1>7, <1>9 DEF s

\* A sum of a value for each member of S lies between bounds of the value.
LEMMA WithinIs ==
  ASSUME NEW n \in Nat, NEW S, NEW s \in [1 .. n -> Int]
  PROVE  /\ Within(S, s) \in [1 .. n -> Int]
         /\ \A i \in 1 .. n : Within(S, s)[i] = IF i \in S THEN s[i] ELSE 0
         /\ Total(Within(S, s)) \in Int
<1>1. /\ Within(S, s) \in [1 .. n -> Int]
      /\ \A i \in 1 .. n : Within(S, s)[i] = IF i \in S THEN s[i] ELSE 0
  BY DEF Within
<1> QED
  BY <1>1, TotalType

LEMMA TotalIsAtLeast ==
  ASSUME NEW n \in Nat, NEW S \in SUBSET (1 .. n), NEW s \in [1 .. n -> Int], NEW a \in Int,
         \A i \in S : a <= s[i]
  PROVE  a * Cardinality(S) <= Total(Within(S, s))
<1> DEFINE t == [i \in 1 .. n |-> a * Ones(S, n)[i]]
<1>1. Ones(S, n) \in [1 .. n -> Int] /\ \A i \in 1 .. n : Ones(S, n)[i] = IF i \in S THEN 1 ELSE 0
  BY DEF Ones
<1>2. t \in [1 .. n -> Int] /\ \A i \in 1 .. n : t[i] = IF i \in S THEN a ELSE 0
  BY <1>1
<1>3. Total(t) = a * Cardinality(S)
  <2>1. Total(t) = a * Total(Ones(S, n))
    BY <1>1, <1>2, TotalTimes
  <2> QED
    BY <2>1, TotalOfOnes
<1> HIDE DEF t
<1>4. Within(S, s) \in [1 .. n -> Int]
  BY WithinIs
<1>5. \A i \in 1 .. n : t[i] <= Within(S, s)[i]
  <2> SUFFICES ASSUME NEW i \in 1 .. n PROVE t[i] <= Within(S, s)[i]
    OBVIOUS
  <2>1. Within(S, s)[i] = IF i \in S THEN s[i] ELSE 0
    BY WithinIs
  <2>2. t[i] = IF i \in S THEN a ELSE 0
    BY <1>2
  <2> QED
    BY <2>1, <2>2
<1> QED
  BY <1>2, <1>3, <1>4, <1>5, TotalGrows

LEMMA TotalIsAtMost ==
  ASSUME NEW n \in Nat, NEW S \in SUBSET (1 .. n), NEW s \in [1 .. n -> Int], NEW a \in Int,
         \A i \in S : s[i] <= a
  PROVE  Total(Within(S, s)) <= a * Cardinality(S)
<1> DEFINE t == [i \in 1 .. n |-> a * Ones(S, n)[i]]
<1>1. Ones(S, n) \in [1 .. n -> Int] /\ \A i \in 1 .. n : Ones(S, n)[i] = IF i \in S THEN 1 ELSE 0
  BY DEF Ones
<1>2. t \in [1 .. n -> Int] /\ \A i \in 1 .. n : t[i] = IF i \in S THEN a ELSE 0
  BY <1>1
<1>3. Total(t) = a * Cardinality(S)
  <2>1. Total(t) = a * Total(Ones(S, n))
    BY <1>1, <1>2, TotalTimes
  <2> QED
    BY <2>1, TotalOfOnes
<1> HIDE DEF t
<1>4. Within(S, s) \in [1 .. n -> Int]
  BY WithinIs
<1>5. \A i \in 1 .. n : Within(S, s)[i] <= t[i]
  <2> SUFFICES ASSUME NEW i \in 1 .. n PROVE Within(S, s)[i] <= t[i]
    OBVIOUS
  <2>1. Within(S, s)[i] = IF i \in S THEN s[i] ELSE 0
    BY WithinIs
  <2>2. t[i] = IF i \in S THEN a ELSE 0
    BY <1>2
  <2> QED
    BY <2>1, <2>2
<1> QED
  BY <1>2, <1>3, <1>4, <1>5, TotalGrows

-------------------------------------------------------------------------------
(***************************************************************************)
(* Orders and extremes.                                                    *)
(***************************************************************************)
StrictOrder(D, before) ==
  /\ \A x \in D : <<x, x>> \notin before
  /\ \A x, y \in D : x = y \/ <<x, y>> \in before \/ <<y, x>> \in before
  /\ \A x, y, z \in D : <<x, y>> \in before /\ <<y, z>> \in before => <<x, z>> \in before

LEMMA FirstNumbers ==
  ASSUME NEW m \in Nat
  PROVE  IsFiniteSet(0 .. m - 1) /\ Cardinality(0 .. m - 1) = m
<1>1. m - 1 \in Int /\ 0 \in Int
  OBVIOUS
<1>2. /\ IsFiniteSet(0 .. m - 1)
      /\ Cardinality(0 .. m - 1) = IF 0 > m - 1 THEN 0 ELSE (m - 1) - 0 + 1
  BY <1>1, FS_Interval
<1> QED
  BY <1>2

\* The ranks of D are 0, 1, ... , one for each member.
LEMMA RanksAre ==
  ASSUME NEW D, IsFiniteSet(D), NEW before, StrictOrder(D, before)
  PROVE  /\ \A x \in D : RankIn(D, before, x) \in 0 .. Cardinality(D) - 1
         /\ \A x, y \in D : <<x, y>> \in before => RankIn(D, before, x) < RankIn(D, before, y)
         /\ \A x, y \in D : RankIn(D, before, x) = RankIn(D, before, y) => x = y
         /\ \A i \in 0 .. Cardinality(D) - 1 : \E x \in D : RankIn(D, before, x) = i
<1> DEFINE below(x) == {y \in D : <<y, x>> \in before}
           r == [x \in D |-> RankIn(D, before, x)]
           R == 0 .. Cardinality(D) - 1
<1>1. Cardinality(D) \in Nat /\ IsFiniteSet(R) /\ Cardinality(R) = Cardinality(D)
  <2>1. Cardinality(D) \in Nat
    BY FS_CardinalityType
  <2> QED
    BY <2>1, FirstNumbers
<1>2. \A x \in D : /\ IsFiniteSet(below(x)) /\ Cardinality(below(x)) \in Nat
                   /\ RankIn(D, before, x) = Cardinality(below(x))
  <2> SUFFICES ASSUME NEW x \in D
               PROVE  /\ IsFiniteSet(below(x)) /\ Cardinality(below(x)) \in Nat
                      /\ RankIn(D, before, x) = Cardinality(below(x))
    OBVIOUS
  <2>1. IsFiniteSet(below(x))
    BY FS_Subset
  <2> QED
    BY <2>1, FS_CardinalityType DEF RankIn
<1>3. ASSUME NEW x \in D PROVE RankIn(D, before, x) \in R
  <2>1. below(x) \subseteq D \ {x}
    BY DEF StrictOrder
  <2>2. IsFiniteSet(D \ {x}) /\ Cardinality(D \ {x}) = Cardinality(D) - 1
    BY FS_RemoveElement
  <2> HIDE DEF below
  <2>3. Cardinality(below(x)) <= Cardinality(D \ {x})
    BY <2>1, <2>2, FS_Subset
  <2>4. Cardinality(below(x)) <= Cardinality(D) - 1
    BY <2>2, <2>3
  <2>5. RankIn(D, before, x) \in Nat /\ RankIn(D, before, x) <= Cardinality(D) - 1
    BY <1>2, <2>4
  <2> QED
    BY <1>1, <2>5
<1>4. ASSUME NEW x \in D, NEW y \in D, <<x, y>> \in before
      PROVE  RankIn(D, before, x) < RankIn(D, before, y)
  <2>1. below(x) \subseteq below(y) \ {x} /\ x \in below(y)
    BY <1>4 DEF StrictOrder
  <2>2. /\ IsFiniteSet(below(y) \ {x})
        /\ Cardinality(below(y) \ {x}) = Cardinality(below(y)) - 1
    BY <1>2, <2>1, FS_RemoveElement
  <2> HIDE DEF below
  <2>3. Cardinality(below(x)) <= Cardinality(below(y)) - 1
    BY <2>1, <2>2, FS_Subset
  <2>4. \A a, b \in Nat : a <= b - 1 => a < b
    OBVIOUS
  <2> QED
    BY <1>2, <2>3, <2>4
<1>5. ASSUME NEW x \in D, NEW y \in D, RankIn(D, before, x) = RankIn(D, before, y)
      PROVE  x = y
  <2>1. RankIn(D, before, x) \in Int
    BY <1>3
  <2>2. <<x, y>> \notin before /\ <<y, x>> \notin before
    BY <1>4, <1>5, <2>1
  <2> QED
    BY <2>2 DEF StrictOrder
<1>6. r \in [D -> R]
  BY <1>3
<1>7. r \in Injection(D, R)
  <2>1. \A x, y \in D : r[x] = r[y] => x = y
    BY <1>5
  <2> HIDE DEF r, R
  <2> QED
    BY <1>6, <2>1, Fun_IsInj
<1>8. r \in Surjection(D, R)
  <2> HIDE DEF r, R
  <2> QED
    BY <1>1, <1>7, FS_Injection
<1>9. ASSUME NEW i \in R PROVE \E x \in D : RankIn(D, before, x) = i
  <2>1. \E x \in D : r[x] = i
    <3> HIDE DEF r, R
    <3> QED
      BY <1>8 DEF Surjection
  <2> QED
    BY <2>1
<1> QED
  BY <1>3, <1>4, <1>5, <1>9

\* There are m ranks below m.
LEMMA FirstRanks ==
  ASSUME NEW D, IsFiniteSet(D), NEW before, StrictOrder(D, before),
         NEW m \in 0 .. Cardinality(D)
  PROVE  LET L == {x \in D : RankIn(D, before, x) < m} IN IsFiniteSet(L) /\ Cardinality(L) = m
<1> DEFINE L == {x \in D : RankIn(D, before, x) < m}
           r == [x \in L |-> RankIn(D, before, x)]
           R == 0 .. m - 1
<1>1. Cardinality(D) \in Nat
  BY FS_CardinalityType
<1>2. \A x \in D : RankIn(D, before, x) \in 0 .. Cardinality(D) - 1
  BY RanksAre
<1>3. \A x, y \in D : RankIn(D, before, x) = RankIn(D, before, y) => x = y
  BY RanksAre
<1>4. r \in [L -> R]
  BY <1>1, <1>2
<1>5. \A x, y \in L : r[x] = r[y] => x = y
  BY <1>3
<1>6. \A i \in R : \E x \in L : r[x] = i
  <2> SUFFICES ASSUME NEW i \in R PROVE \E x \in L : r[x] = i
    OBVIOUS
  <2>1. i \in 0 .. Cardinality(D) - 1 /\ i < m
    BY <1>1
  <2>2. PICK x \in D : RankIn(D, before, x) = i
    BY <2>1, RanksAre
  <2> QED
    BY <2>1, <2>2
<1>7. IsFiniteSet(L)
  BY FS_Subset
<1>8. IsFiniteSet(R) /\ Cardinality(R) = m
  BY <1>1, FirstNumbers
<1> HIDE DEF L, r, R
<1>9. r \in Injection(L, R)
  BY <1>4, <1>5, Fun_IsInj
<1>10. r \in Surjection(L, R)
  BY <1>4, <1>6, Fun_IsSurj
<1>11. Cardinality(L) = Cardinality(R)
  BY <1>8, <1>9, <1>10, FS_Injection
<1> QED
  BY <1>7, <1>8, <1>11 DEF L

LEMMA ImageIsFinite ==
  ASSUME NEW S, IsFiniteSet(S), NEW g
  PROVE  IsFiniteSet({g[x] : x \in S})
<1> DEFINE T == {g[x] : x \in S}
           h == [x \in S |-> g[x]]
<1>1. h \in [S -> T] /\ \A y \in T : \E x \in S : h[x] = y
  OBVIOUS
<1> HIDE DEF h, T
<1>2. h \in Surjection(S, T)
  BY <1>1, Fun_IsSurj
<1>3. IsFiniteSet(T)
  BY <1>2, FS_Surjection
<1> QED
  BY <1>3 DEF T

\* A finite set of integers has a least and a greatest member.
LEMMA ExtremesAre ==
  ASSUME NEW S \in SUBSET Int, IsFiniteSet(S), S # {}
  PROVE  /\ Max(S) \in S /\ \A x \in S : x <= Max(S)
         /\ Min(S) \in S /\ \A x \in S : Min(S) <= x
<1>0. PICK n \in Nat : ExistsSurjection(1 .. n, S)
  BY FS_NatSurjection
<1>1. PICK g \in [1 .. n -> S] : \A x \in S : \E i \in 1 .. n : g[i] = x
  BY <1>0 DEF ExistsSurjection, Surjection
<1>2. n > 0 /\ n \in 0 .. n
  <2>1. 1 .. n # {}
    BY <1>1
  <2> QED
    BY <2>1
<1> DEFINE T == {i \in 0 .. n :
                   i = 0 \/ \E a, b \in 1 .. i : \A j \in 1 .. i : g[a] <= g[j] /\ g[j] <= g[b]}
<1>3. 0 \in T
  OBVIOUS
<1>4. ASSUME NEW i \in 1 .. n, i - 1 \in T PROVE i \in T
  <2>1. \A j \in 1 .. i : g[j] \in Int /\ (j = i \/ j \in 1 .. i - 1)
    <3> SUFFICES ASSUME NEW j \in 1 .. i PROVE g[j] \in Int /\ (j = i \/ j \in 1 .. i - 1)
      OBVIOUS
    <3>1. j \in 1 .. n /\ (j = i \/ j \in 1 .. i - 1)
      OBVIOUS
    <3>2. g[j] \in S
      BY <1>1, <3>1
    <3> QED
      BY <3>1, <3>2
  <2>2. CASE i = 1
    <3>1. \A j \in 1 .. i : j = 1
      BY <2>2
    <3>2. g[1] <= g[1] /\ 1 \in 1 .. i
      BY <2>1, <2>2
    <3>3. \A j \in 1 .. i : g[1] <= g[j] /\ g[j] <= g[1]
      BY <3>1, <3>2
    <3> QED
      BY <3>2, <3>3
  <2>3. CASE i # 1
    <3>1. PICK a \in 1 .. i - 1, b \in 1 .. i - 1 :
            \A j \in 1 .. i - 1 : g[a] <= g[j] /\ g[j] <= g[b]
      BY <1>4, <2>3
    <3>2. a \in 1 .. i /\ b \in 1 .. i /\ i \in 1 .. i
      OBVIOUS
    <3>3. \E c \in 1 .. i : g[c] <= g[a] /\ g[c] <= g[i]
      BY <2>1, <3>2
    <3>4. PICK c \in 1 .. i : g[c] <= g[a] /\ g[c] <= g[i]
      BY <3>3
    <3>5. \E d \in 1 .. i : g[b] <= g[d] /\ g[i] <= g[d]
      BY <2>1, <3>2
    <3>6. PICK d \in 1 .. i : g[b] <= g[d] /\ g[i] <= g[d]
      BY <3>5
    <3>7. \A j \in 1 .. i : g[c] <= g[j] /\ g[j] <= g[d]
      BY <2>1, <3>1, <3>2, <3>4, <3>6
    <3> QED
      BY <3>7
  <2> QED
    BY <2>2, <2>3
<1>5. T \in SUBSET (0 .. n)
  OBVIOUS
<1> HIDE DEF T
<1>6. n \in T
  BY <1>2, <1>3, <1>4, <1>5, UpTo
<1>7. PICK a \in 1 .. n, b \in 1 .. n : \A j \in 1 .. n : g[a] <= g[j] /\ g[j] <= g[b]
  BY <1>2, <1>6 DEF T
<1>8. /\ g[a] \in S /\ \A x \in S : g[a] <= x
      /\ g[b] \in S /\ \A x \in S : g[b] >= x
  BY <1>1, <1>7
<1>9. Max(S) \in S /\ \A x \in S : Max(S) >= x
  BY <1>8 DEF Max
<1>10. Min(S) \in S /\ \A x \in S : Min(S) <= x
  BY <1>8 DEF Min
<1> QED
  BY <1>9, <1>10

-------------------------------------------------------------------------------
(***************************************************************************)
(* The audit of a round.                                                   *)
(***************************************************************************)
\* How many rows a try that is this far has written itself.
OfThisTry(wrote, rows) == IF wrote THEN rows = 1 ELSE rows = 0

AuditInv ==
  /\ tier \in {"district", "city"} /\ repeated \in BOOLEAN
  /\ pc \in {"start", "scored", "selected", "aggregated", "summarised", "audited", "done", "failed"}
  /\ summaries \in Nat /\ agentRows \in Nat
  /\ agentRows <= summaries /\ (pc = "summarised" => agentRows < summaries)
  /\ pc = "done" /\ tier = "district" /\ cohort # <<>> /\ ~repeated =>
       summaries = 1 /\ agentRows = 1
  /\ pc # "done" /\ ~repeated =>
       /\ OfThisTry(pc \in {"summarised", "audited"}, summaries)
       /\ OfThisTry(pc = "audited", agentRows)
  /\ pc \in {"scored", "selected", "aggregated", "summarised", "audited"} => tier = "district"

LEMMA AuditInit == Init => AuditInv
<1> SUFFICES ASSUME Init PROVE AuditInv
  OBVIOUS
<1>1. /\ tier \in {"district", "city"} /\ repeated = FALSE /\ pc = "start"
      /\ summaries = 0 /\ agentRows = 0
  BY DEF Init
<1>2. OfThisTry(pc \in {"summarised", "audited"}, summaries) /\ OfThisTry(pc = "audited", agentRows)
  BY <1>1 DEF OfThisTry
<1>3. repeated \in BOOLEAN
  BY <1>1
<1> QED
  BY <1>1, <1>2, <1>3 DEF AuditInv

LEMMA AuditStep == AuditInv /\ [Next]_vars => AuditInv'
<1> SUFFICES ASSUME AuditInv, [Next]_vars PROVE AuditInv'
  OBVIOUS
<1> USE DEF AuditInv, OfThisTry, input
<1>1. CASE NothingIn
  BY <1>1 DEF NothingIn
<1>2. CASE ScoreAll
  BY <1>2 DEF ScoreAll
<1>3. ASSUME NEW S \in Selections, Select(S) PROVE AuditInv'
  BY <1>3 DEF Select
<1>4. CASE Aggregate
  BY <1>4 DEF Aggregate
<1>5. CASE WriteSummary
  BY <1>5 DEF WriteSummary
<1>6. CASE WriteAgentRows
  BY <1>6 DEF WriteAgentRows, RowsMayGo
<1>7. CASE Finalize
  BY <1>7 DEF Finalize
<1>8. CASE JobFails
  BY <1>8 DEF JobFails
<1>9. CASE Retry
  BY <1>9 DEF Retry
<1>10. CASE CityAverages
  BY <1>10 DEF CityAverages
<1>11. CASE UNCHANGED vars
  BY <1>11 DEF vars
<1> QED
  BY <1>1, <1>2, <1>3, <1>4, <1>5, <1>6, <1>7, <1>8, <1>9, <1>10, <1>11 DEF Next

(***************************************************************************)
(* The audit has the agents' rows only with their summary, and those of a  *)
(* closed round once, unless a try failed that had written rows, for any   *)
(* number of tries (run_spark_byzantine_round; a round that failed is      *)
(* tried again by the next upload).                                        *)
(***************************************************************************)
THEOREM RoundIsAuditedOnce == Spec => []AuditedOnce
<1>1. AuditInv => AuditedOnce
  BY DEF AuditInv, AuditedOnce
<1> QED
  BY <1>1, AuditInit, AuditStep, PTL DEF Spec

-------------------------------------------------------------------------------
(***************************************************************************)
(* The cohort, and what a try has made of it.                              *)
(***************************************************************************)
CohortInv ==
  /\ N \in Nat /\ Indices = 1 .. N
  /\ \A i \in Indices : cohort[i].value \in Int /\ cohort[i].present \in BOOLEAN
  /\ f \in Nat /\ trim \in 0 .. 4
  /\ accepted \subseteq Indices

LEMMA CohortInit == Init => CohortInv
<1> SUFFICES ASSUME Init PROVE CohortInv
  OBVIOUS
<1>1. PICK n \in 0 .. MaxAgents : cohort \in [1 .. n -> Sent]
  BY DEF Init, Cohorts
<1>2. n \in Nat /\ DOMAIN cohort = 1 .. n /\ cohort \in Seq(Sent)
  BY <1>1, AggregationAssumption, SeqDef
<1>3. Len(cohort) = n
  <2>1. Len(cohort) \in Nat /\ 1 .. Len(cohort) = 1 .. n
    BY <1>2, LenProperties
  <2>2. n \in 1 .. n \/ n = 0
    BY <1>2
  <2>3. Len(cohort) \in 1 .. Len(cohort) \/ Len(cohort) = 0
    BY <2>1
  <2> QED
    BY <1>2, <2>1, <2>2, <2>3
<1>4. \A x \in Sent : x.value \in Int /\ x.present \in BOOLEAN
  <2>1. \A x \in [value : Values, present : {TRUE}] : x.value \in Int /\ x.present \in BOOLEAN
    BY AggregationAssumption
  <2> DEFINE missing == [value |-> 0, present |-> FALSE]
  <2>2. missing.value = 0 /\ missing.present = FALSE
    OBVIOUS
  <2>3. \A x \in Sent : x \in [value : Values, present : {TRUE}] \/ x = missing
    BY DEF Sent
  <2>4. missing.value \in Int /\ missing.present \in BOOLEAN
    BY <2>2
  <2> HIDE DEF missing
  <2> QED
    BY <2>1, <2>3, <2>4
<1>5. \A i \in 1 .. n : cohort[i].value \in Int /\ cohort[i].present \in BOOLEAN
  BY <1>1, <1>4
<1>6. f \in Nat /\ trim \in 0 .. 4 /\ accepted = {}
  BY AggregationAssumption DEF Init
<1> QED
  BY <1>2, <1>3, <1>5, <1>6 DEF CohortInv, N, Indices

LEMMA CohortStep == CohortInv /\ [Next]_vars => CohortInv'
<1> SUFFICES ASSUME CohortInv, [Next]_vars PROVE CohortInv'
  OBVIOUS
<1>1. ASSUME NEW S \in Selections, Select(S)
      PROVE  UNCHANGED <<cohort, f, trim>> /\ accepted' \subseteq Indices
  <2>1. S \subseteq Indices
    BY <1>1 DEF Selections, kSubset
  <2> QED
    BY <1>1, <2>1 DEF Select, input
<1>2. ASSUME \/ NothingIn \/ ScoreAll \/ Aggregate \/ WriteSummary \/ WriteAgentRows
             \/ Finalize \/ JobFails \/ Retry \/ CityAverages \/ UNCHANGED vars
      PROVE  UNCHANGED <<cohort, f, trim>> /\ accepted' \subseteq Indices
  <2>1. UNCHANGED <<cohort, f, trim>> /\ (accepted' = accepted \/ accepted' = {})
    BY <1>2 DEF NothingIn, ScoreAll, Aggregate, WriteSummary, WriteAgentRows, Finalize, JobFails,
       Retry, CityAverages, vars, input
  <2> QED
    BY <2>1 DEF CohortInv
<1>3. UNCHANGED <<cohort, f, trim>> /\ accepted' \subseteq Indices
  BY <1>1, <1>2 DEF Next
<1> QED
  BY <1>3 DEF CohortInv, N, Indices

LEMMA CohortAlways == Spec => []CohortInv
BY CohortInit, CohortStep, PTL DEF Spec

-------------------------------------------------------------------------------
(***************************************************************************)
(* What is computed of a cohort stays what it is while the cohort does.    *)
(***************************************************************************)
LEMMA ScoreStays ==
  ASSUME cohort' = cohort, f' = f
  PROVE  /\ N' = N /\ Indices' = Indices /\ KrumRaises' = KrumRaises
         /\ \A i \in Indices : Score(i)' = Score(i)
<1>1. N' = N /\ Indices' = Indices /\ Neighbours' = Neighbours
  BY DEF N, Indices, Neighbours
<1>2. \A i : Clipped(i)' = Clipped(i)
  BY DEF Clipped
<1>3. \A i, j : Distance(i, j)' = Distance(i, j)
  BY <1>2 DEF Distance
<1>4. \A i, j, k : Nearer(i, j, k)' <=> Nearer(i, j, k)
  BY <1>3 DEF Nearer
<1>5. ASSUME NEW i \in Indices PROVE Nearest(i)' = Nearest(i)
  <2> DEFINE others == Indices \ {i}
             nearer == {kj \in others \X others : Nearer(i, kj[1], kj[2])}
             nearest == {j \in others : RankIn(others, nearer, j) < Neighbours}
  <2>1. others' = others
    BY <1>1
  <2>2. nearer' = nearer
    BY <1>4, <2>1
  <2> HIDE DEF others, nearer
  <2>3. nearest' = nearest
    BY <1>1, <2>1, <2>2
  <2> QED
    BY <2>3 DEF Nearest, others, nearer
<1>6. ASSUME NEW i \in Indices PROVE Score(i)' = Score(i)
  <2> DEFINE s == [j \in Indices |-> Distance(i, j)]
  <2>1. s' = s
    BY <1>1, <1>3
  <2>2. Nearest(i)' = Nearest(i)
    BY <1>5
  <2> HIDE DEF s
  <2> QED
    BY <1>1, <2>1, <2>2 DEF Score, s
<1> QED
  BY <1>1, <1>6 DEF KrumRaises

LEMMA MeanStays ==
  ASSUME cohort' = cohort, trim' = trim, accepted' = accepted
  PROVE  TrimmedMean' = TrimmedMean
<1>1. Indices' = Indices /\ Contributors' = Contributors
  BY DEF Indices, Contributors
<1>2. \A i : Clipped(i)' = Clipped(i)
  BY DEF Clipped
<1>3. Less' = Less
  BY <1>1, <1>2 DEF Less
<1>4. \A i : Rank(i)' = Rank(i)
  BY <1>1, <1>3 DEF Rank
<1>5. Cut' = Cut
  BY <1>1 DEF Cut
<1>6. Kept' = Kept
  BY <1>1, <1>4, <1>5 DEF Kept
<1> DEFINE s == [i \in Indices |-> Clipped(i)]
<1>7. s' = s
  BY <1>1, <1>2
<1> HIDE DEF s
<1> QED
  BY <1>6, <1>7 DEF TrimmedMean, s

LEMMA CityMeanStays ==
  ASSUME cohort' = cohort
  PROVE  WeightedMean' = WeightedMean
<1>1. Indices' = Indices /\ Effective' = Effective
  BY DEF Indices, Effective
<1> DEFINE s == [i \in Indices |-> Weight(i) * cohort[i].value]
           t == [i \in Indices |-> Weight(i)]
<1>2. s' = s /\ t' = t
  BY <1>1 DEF Weight
<1> HIDE DEF s, t
<1> QED
  BY <1>1, <1>2 DEF WeightedMean, s, t

-------------------------------------------------------------------------------
(***************************************************************************)
(* What the steps of a try leave for those after them.                     *)
(***************************************************************************)
\* The best by their scores: what Selections is when the scores are these.
Best(S) ==
  f > 0 => /\ S \in kSubset(N - f, Indices)
           /\ \A i \in S, j \in Indices \ S : Score(i) <= Score(j)

RoundInv ==
  /\ pc \in {"scored", "selected"} => ~KrumRaises
  /\ pc = "scored" => scores = [i \in Indices |-> Score(i)]
  /\ pc = "selected" => Best(accepted)
  /\ pc = "aggregated" => result = TrimmedMean
  /\ tier = "city" => pc \in {"start", "done"} /\ (result = None \/ result = WeightedMean)

LEMMA RoundInit == Init => RoundInv
<1> SUFFICES ASSUME Init PROVE RoundInv
  OBVIOUS
<1>1. pc = "start" /\ result = None
  BY DEF Init
<1> QED
  BY <1>1 DEF RoundInv

\* Whose place it is that decides what the invariant says of it.
LEMMA RoundStays ==
  ASSUME RoundInv, UNCHANGED <<tier, cohort, f, trim, scores, accepted, result>>, pc' = pc
  PROVE  RoundInv'
<1>1. /\ N' = N /\ Indices' = Indices /\ KrumRaises' = KrumRaises
      /\ \A i \in Indices : Score(i)' = Score(i)
  BY ScoreStays
<1>2. TrimmedMean' = TrimmedMean /\ WeightedMean' = WeightedMean
  BY MeanStays, CityMeanStays
<1>3. Best(accepted) => Best(accepted)'
  <2> SUFFICES ASSUME Best(accepted), f > 0
               PROVE  /\ accepted \in kSubset(N - f, Indices)
                      /\ \A i \in accepted, j \in Indices \ accepted : Score(i)' <= Score(j)'
    BY <1>1 DEF Best
  <2>1. /\ accepted \in kSubset(N - f, Indices)
        /\ \A i \in accepted, j \in Indices \ accepted : Score(i) <= Score(j)
    BY DEF Best
  <2>2. accepted \subseteq Indices
    BY <2>1 DEF kSubset
  <2> QED
    BY <1>1, <2>1, <2>2
<1>4. pc = "scored" => scores' = [i \in Indices' |-> Score(i)']
  BY <1>1 DEF RoundInv
<1> QED
  BY <1>1, <1>2, <1>3, <1>4 DEF RoundInv

LEMMA RoundStep == AuditInv /\ CohortInv /\ RoundInv /\ [Next]_vars => RoundInv'
<1> SUFFICES ASSUME AuditInv, CohortInv, RoundInv, [Next]_vars PROVE RoundInv'
  OBVIOUS
<1> USE DEF input
<1>1. CASE ScoreAll
  <2>1. /\ UNCHANGED <<cohort, f, tier>> /\ pc' = "scored" /\ tier = "district" /\ ~KrumRaises
        /\ scores' = [i \in Indices |-> Score(i)]
    BY <1>1 DEF ScoreAll
  <2>2. /\ Indices' = Indices /\ KrumRaises' = KrumRaises
        /\ \A i \in Indices : Score(i)' = Score(i)
    BY <2>1, ScoreStays
  <2>3. scores' = [i \in Indices' |-> Score(i)']
    BY <2>1, <2>2
  <2> QED
    BY <2>1, <2>2, <2>3 DEF RoundInv
<1>2. ASSUME NEW S \in Selections, pc = "scored", Select(S) PROVE RoundInv'
  <2>1. UNCHANGED <<cohort, f, tier>> /\ pc' = "selected" /\ accepted' = S
    BY <1>2 DEF Select
  <2>2. /\ N' = N /\ Indices' = Indices /\ KrumRaises' = KrumRaises
        /\ \A i \in Indices : Score(i)' = Score(i)
    BY <2>1, ScoreStays
  <2>3. tier = "district" /\ ~KrumRaises /\ scores = [i \in Indices |-> Score(i)]
    BY <1>2 DEF AuditInv, RoundInv
  <2>4. CASE f > 0
    <3>1. /\ S \in kSubset(N - f, Indices)
          /\ \A i \in S, j \in Indices \ S : scores[i] <= scores[j]
      BY <1>2, <2>4 DEF Selections
    <3>2. S \subseteq Indices
      BY <3>1 DEF kSubset
    <3>3. \A i \in S, j \in Indices \ S : Score(i)' <= Score(j)'
      BY <2>2, <2>3, <3>1, <3>2
    <3>4. Best(accepted)'
      BY <2>1, <2>2, <3>1, <3>3 DEF Best
    <3> QED
      BY <2>1, <2>2, <2>3, <3>4 DEF RoundInv
  <2>5. CASE ~(f > 0)
    <3>1. Best(accepted)'
      BY <2>1, <2>5 DEF Best
    <3> QED
      BY <2>1, <2>2, <2>3, <3>1 DEF RoundInv
  <2> QED
    BY <2>4, <2>5
<1>3. CASE Aggregate
  <2>1. /\ UNCHANGED <<cohort, trim, accepted, tier>> /\ pc' = "aggregated"
        /\ pc = "selected" /\ result' = TrimmedMean
    BY <1>3 DEF Aggregate
  <2>2. TrimmedMean' = TrimmedMean
    BY <2>1, MeanStays
  <2> QED
    BY <2>1, <2>2 DEF RoundInv
<1>4. CASE CityAverages
  <2>1. UNCHANGED <<cohort, tier>> /\ pc' = "done" /\ tier = "city" /\ result' = WeightedMean
    BY <1>4 DEF CityAverages
  <2>2. WeightedMean' = WeightedMean
    BY <2>1, CityMeanStays
  <2> QED
    BY <2>1, <2>2 DEF RoundInv
<1>5. CASE NothingIn \/ WriteSummary \/ WriteAgentRows \/ Finalize \/ JobFails \/ Retry
  <2>1. /\ tier' = tier /\ pc' \notin {"scored", "selected", "aggregated"}
        /\ tier = "district"
    BY <1>5 DEF NothingIn, WriteSummary, WriteAgentRows, RowsMayGo, Finalize, JobFails, Retry,
       RoundInv, AuditInv
  <2> QED
    BY <2>1 DEF RoundInv
<1>6. CASE UNCHANGED vars
  BY <1>6, RoundStays DEF vars
<1> QED
  BY <1>1, <1>2, <1>3, <1>4, <1>5, <1>6 DEF Next

LEMMA RoundAlways == Spec => [](AuditInv /\ CohortInv /\ RoundInv)
BY AuditInit, AuditStep, CohortInit, CohortStep, RoundInit, RoundStep, PTL DEF Spec

-------------------------------------------------------------------------------
(***************************************************************************)
(* The City's mean.                                                        *)
(***************************************************************************)
LEMMA CityMeanBounds ==
  ASSUME CohortInv
  PROVE  LET sent == {cohort[i].value : i \in {j \in Indices : cohort[j].present /\ Weight(j) > 0}}
         IN /\ WeightedMean.count = 0 <=> sent = {}
            /\ sent # {} => /\ Min(sent) * WeightedMean.count <= WeightedMean.sum
                            /\ WeightedMean.sum <= Max(sent) * WeightedMean.count
<1> DEFINE D == {j \in Indices : cohort[j].present /\ Weight(j) > 0}
           sent == {cohort[i].value : i \in D}
           value == [i \in Indices |-> Weight(i) * cohort[i].value]
           weight == [i \in Indices |-> Weight(i)]
           ws == Within(Effective, weight)
           vs == Within(Effective, value)
<1>1. /\ N \in Nat /\ Indices = 1 .. N
      /\ \A i \in 1 .. N : cohort[i].value \in Int /\ Weight(i) \in Nat
  BY DEF CohortInv, Weight
<1>2. weight \in [1 .. N -> Int] /\ value \in [1 .. N -> Int]
  BY <1>1
<1>3. WeightedMean.sum = Total(vs) /\ WeightedMean.count = Total(ws)
  BY DEF WeightedMean
<1>4. /\ ws \in [1 .. N -> Int] /\ vs \in [1 .. N -> Int]
      /\ Total(ws) \in Int /\ Total(vs) \in Int
  BY <1>1, <1>2, WithinIs
<1>5. \A i \in 1 .. N : /\ i \in D => ws[i] = Weight(i) /\ vs[i] = Weight(i) * cohort[i].value
                        /\ i \notin D => ws[i] = 0 /\ vs[i] = 0
  <2> SUFFICES ASSUME NEW i \in 1 .. N
               PROVE  /\ i \in D => ws[i] = Weight(i) /\ vs[i] = Weight(i) * cohort[i].value
                      /\ i \notin D => ws[i] = 0 /\ vs[i] = 0
    OBVIOUS
  <2>1. /\ ws[i] = IF i \in Effective THEN weight[i] ELSE 0
        /\ vs[i] = IF i \in Effective THEN value[i] ELSE 0
    <3> HIDE DEF weight, value
    <3>1. N \in Nat
      BY <1>1
    <3>2. Within(Effective, weight)[i] = IF i \in Effective THEN weight[i] ELSE 0
      BY <3>1, <1>2, WithinIs
    <3>3. Within(Effective, value)[i] = IF i \in Effective THEN value[i] ELSE 0
      BY <3>1, <1>2, WithinIs
    <3> QED
      BY <3>2, <3>3
  <2>2. weight[i] = Weight(i) /\ value[i] = Weight(i) * cohort[i].value
    BY <1>1
  <2>3. i \in D => i \in Effective
    BY <1>1 DEF Effective
  <2>4. i \notin D /\ i \in Effective => Weight(i) = 0
    BY <1>1 DEF Effective
  <2>5. 0 * cohort[i].value = 0
    BY <1>1
  <2> HIDE DEF ws, vs, weight, value, D
  <2> QED
    BY <2>1, <2>2, <2>3, <2>4, <2>5
<1> HIDE DEF ws, vs, weight, value
<1>6. \A i \in D : i \in 1 .. N /\ Weight(i) \in Nat /\ Weight(i) >= 1 /\ cohort[i].value \in Int
  BY <1>1
<1>7. IsFiniteSet(1 .. N) /\ D \subseteq 1 .. N
  BY <1>1, FS_Interval
<1>8. IsFiniteSet(D) /\ sent \subseteq Int
  BY <1>6, <1>7, FS_Subset
<1>9. IsFiniteSet(sent)
  <2> DEFINE g == [i \in D |-> cohort[i].value]
  <2>1. sent = {g[i] : i \in D}
    OBVIOUS
  <2> HIDE DEF sent, D, g
  <2> QED
    BY <1>8, <2>1, ImageIsFinite
<1>10. sent # {} => \E i \in D : TRUE
  OBVIOUS
<1> HIDE DEF D
<1>11. CASE sent = {}
  <2>1. D = {}
    BY <1>11
  <2>2. \A i \in 1 .. N : ws[i] = 0
    BY <1>5, <2>1
  <2>3. Total(ws) = 0
    <3>1. \A i \in 1 .. N : ws[i] = 0 * ws[i]
      BY <1>4, <2>2
    <3>2. Total(ws) = 0 * Total(ws)
      BY SMTT(30), <1>1, <1>4, <3>1, TotalTimes
    <3> QED
      BY <1>4, <3>2
  <2> QED
    BY <1>3, <1>11, <2>3 DEF D
<1>12. CASE sent # {}
  <2>1. PICK i \in D : TRUE
    BY <1>10, <1>12
  <2>2. i \in 1 .. N /\ {i} \subseteq 1 .. N
    BY <1>7
  <2>3. \A j \in 1 .. N : Ones({i}, N)[j] <= ws[j]
    <3> SUFFICES ASSUME NEW j \in 1 .. N PROVE Ones({i}, N)[j] <= ws[j]
      OBVIOUS
    <3>1. Ones({i}, N)[j] = IF j = i THEN 1 ELSE 0
      BY DEF Ones
    <3>2. j \in D => ws[j] >= 1 /\ ws[j] \in Int
      BY <1>5, <1>6
    <3>3. j \notin D => ws[j] = 0
      BY <1>5
    <3> QED
      BY <2>1, <3>1, <3>2, <3>3
  <2>4. Ones({i}, N) \in [1 .. N -> Int]
    BY DEF Ones
  <2>5. Total(Ones({i}, N)) <= Total(ws)
    BY <1>1, <1>4, <2>3, <2>4, TotalGrows
  <2>6. Total(ws) >= 1
    BY <1>1, <1>4, <2>2, <2>5, TotalOfOnes, FS_Singleton
  <2>7. /\ Max(sent) \in Int /\ Min(sent) \in Int
        /\ \A j \in D : Min(sent) <= cohort[j].value /\ cohort[j].value <= Max(sent)
    <3>1. \A j \in D : cohort[j].value \in sent
      OBVIOUS
    <3> HIDE DEF sent
    <3> QED
      BY <1>8, <1>9, <1>12, <3>1, ExtremesAre
  <2> DEFINE lo == Min(sent)
             hi == Max(sent)
             los == [j \in 1 .. N |-> lo * ws[j]]
             his == [j \in 1 .. N |-> hi * ws[j]]
  <2> HIDE DEF sent, lo, hi
  <2>8. \A j \in 1 .. N : lo * ws[j] <= vs[j] /\ vs[j] <= hi * ws[j]
    <3> SUFFICES ASSUME NEW j \in 1 .. N PROVE lo * ws[j] <= vs[j] /\ vs[j] <= hi * ws[j]
      OBVIOUS
    <3>1. lo \in Int /\ hi \in Int
      BY <2>7 DEF lo, hi
    <3>2. CASE j \in D
      <4>1. /\ ws[j] = Weight(j) /\ vs[j] = Weight(j) * cohort[j].value
            /\ Weight(j) \in Nat /\ cohort[j].value \in Int
            /\ lo <= cohort[j].value /\ cohort[j].value <= hi
        BY <1>5, <1>6, <2>7, <3>2 DEF lo, hi
      <4>2. \A w \in Nat, a, b \in Int : a <= b => a * w <= w * b /\ w * a <= b * w
        OBVIOUS
      <4> QED
        BY <3>1, <4>1, <4>2
    <3>3. CASE j \notin D
      <4>1. ws[j] = 0 /\ vs[j] = 0
        BY <1>5, <3>3
      <4> QED
        BY <3>1, <4>1
    <3> QED
      BY <3>2, <3>3
  <2>9. los \in [1 .. N -> Int] /\ his \in [1 .. N -> Int]
    BY <1>4, <2>7 DEF lo, hi
  <2>10. Total(los) = lo * Total(ws) /\ Total(his) = hi * Total(ws)
    <3>1. lo \in Int /\ hi \in Int
      BY <2>7 DEF lo, hi
    <3>2. \A j \in 1 .. N : los[j] = lo * ws[j]
      OBVIOUS
    <3>5. \A j \in 1 .. N : his[j] = hi * ws[j]
      OBVIOUS
    <3> HIDE DEF los, his
    <3>3. Total(los) = lo * Total(ws)
      BY <1>1, <1>4, <2>9, <3>1, <3>2, TotalTimes
    <3>4. Total(his) = hi * Total(ws)
      BY <1>1, <1>4, <2>9, <3>1, <3>5, TotalTimes
    <3> QED
      BY <3>3, <3>4
  <2>11. Total(los) <= Total(vs) /\ Total(vs) <= Total(his)
    <3>1. \A j \in 1 .. N : los[j] <= vs[j] /\ vs[j] <= his[j]
      BY <2>8
    <3> HIDE DEF los, his
    <3> QED
      BY <1>1, <1>4, <2>9, <3>1, TotalGrows
  <2> HIDE DEF los, his
  <2>12. WeightedMean.count # 0
    BY <1>3, <1>4, <2>6
  <2>13. lo * WeightedMean.count <= WeightedMean.sum /\ WeightedMean.sum <= hi * WeightedMean.count
    BY <1>3, <2>10, <2>11
  <2> QED
    BY <1>12, <2>12, <2>13 DEF lo, hi, sent, D
<1> QED
  BY <1>11, <1>12

(***************************************************************************)
(* The City's mean of a coordinate lies between what the districts with    *)
(* samples that sent it have sent, for any districts and any values        *)
(* (masked_weighted_fedavg).                                               *)
(***************************************************************************)
THEOREM CityMeanOfSenders == Spec => []CityMeanIsBetween
<1>1. CohortInv /\ RoundInv => CityMeanIsBetween
  <2> SUFFICES ASSUME CohortInv, RoundInv, tier = "city", result # None
               PROVE  LET sent == {cohort[i].value : i \in {j \in Indices :
                                     cohort[j].present /\ Weight(j) > 0}} IN
                        /\ result.count = 0 <=> sent = {}
                        /\ sent # {} => /\ Min(sent) * result.count <= result.sum
                                        /\ result.sum <= Max(sent) * result.count
    BY DEF CityMeanIsBetween
  <2>1. result = WeightedMean
    BY DEF RoundInv
  <2> QED
    BY <2>1, CityMeanBounds
<1> QED
  BY <1>1, RoundAlways, PTL

-------------------------------------------------------------------------------
(***************************************************************************)
(* The trimmed mean.                                                       *)
(***************************************************************************)
LEMMA ClippedType == CohortInv => \A i \in Indices : Clipped(i) \in Int
<1> SUFFICES ASSUME CohortInv, NEW i \in Indices PROVE Clipped(i) \in Int
  OBVIOUS
<1> DEFINE x == cohort[i].value
           least == {Threshold, x}
           most == {-Threshold, Min(least)}
<1>1. x \in Int /\ Threshold \in Int /\ -Threshold \in Int
  BY AggregationAssumption DEF CohortInv
<1> HIDE DEF x
<1>2. IsFiniteSet(least) /\ least \in SUBSET Int /\ least # {}
  <2>1. IsFiniteSet({x}) /\ least = {x} \cup {Threshold}
    BY FS_Singleton
  <2>2. IsFiniteSet(least)
    BY <2>1, FS_AddElement
  <2> QED
    BY <1>1, <2>2
<1> HIDE DEF least
<1>3. Min(least) \in Int
  BY <1>2, ExtremesAre
<1>4. IsFiniteSet(most) /\ most \in SUBSET Int /\ most # {}
  <2>1. IsFiniteSet({Min(least)}) /\ most = {Min(least)} \cup {-Threshold}
    BY FS_Singleton
  <2>2. IsFiniteSet(most)
    BY <2>1, FS_AddElement
  <2> QED
    BY <1>1, <1>3, <2>2
<1> HIDE DEF most
<1>5. Max(most) \in Int
  BY <1>4, ExtremesAre
<1> QED
  BY <1>5 DEF Clipped, most, least, x

LEMMA ContributorsAre ==
  ASSUME CohortInv
  PROVE  /\ Contributors \subseteq 1 .. N /\ IsFiniteSet(Contributors)
         /\ Cardinality(Contributors) \in Nat
         /\ StrictOrder(Contributors, Less)
<1>1. Contributors \subseteq 1 .. N /\ N \in Nat /\ \A i \in Contributors : Clipped(i) \in Int
  BY ClippedType DEF Contributors, CohortInv
<1>2. IsFiniteSet(1 .. N)
  BY <1>1, FS_Interval
<1>3. IsFiniteSet(Contributors)
  BY <1>1, <1>2, FS_Subset
<1>4. \A i, j \in Contributors :
        <<i, j>> \in Less
          <=> \/ Clipped(i) < Clipped(j)
              \/ Clipped(i) = Clipped(j) /\ i < j
  BY DEF Less
<1>5. \A i \in Contributors : i \in Int
  BY <1>1
<1>6. StrictOrder(Contributors, Less)
  <2>1. ASSUME NEW i \in Contributors, NEW j \in Contributors
        PROVE  /\ <<i, i>> \notin Less
               /\ i = j \/ <<i, j>> \in Less \/ <<j, i>> \in Less
    BY <1>1, <1>4, <1>5
  <2>2. ASSUME NEW i \in Contributors, NEW j \in Contributors, NEW l \in Contributors,
               <<i, j>> \in Less, <<j, l>> \in Less
        PROVE  <<i, l>> \in Less
    BY <1>1, <1>4, <1>5, <2>2
  <2> QED
    BY <2>1, <2>2 DEF StrictOrder
<1> QED
  BY <1>1, <1>3, <1>6, FS_CardinalityType

LEMMA CutIs ==
  ASSUME CohortInv
  PROVE  /\ Cut \in Nat
         /\ Contributors # {} => Cardinality(Contributors) - 2 * Cut >= 1
<1> DEFINE count == Cardinality(Contributors)
           cut == (trim * count) \div 10
<1>1. count \in Nat /\ (Contributors # {} => count > 0)
  BY ContributorsAre, FS_EmptySet
<1>2. cut \in Nat
  <2>1. trim * count \in Nat
    BY <1>1 DEF CohortInv
  <2> DEFINE x == trim * count
  <2> HIDE DEF x
  <2>2. x \in Nat => x \div 10 \in Nat
    OBVIOUS
  <2> QED
    BY <2>1, <2>2 DEF x
<1>3. Cut = IF count - 2 * cut < 1 THEN 0 ELSE cut
  BY DEF Cut
<1> HIDE DEF count, cut
<1>4. Cut \in Nat /\ (Contributors # {} => count - 2 * Cut >= 1)
  BY <1>1, <1>2, <1>3
<1> QED
  BY <1>4 DEF count

\* A value that is kept has on either side more values than are cut.
LEMMA KeptIsBetween ==
  ASSUME CohortInv, NEW A \in SUBSET Contributors, Cardinality(A) <= Cut, NEW i \in Kept
  PROVE  /\ \E j \in Contributors \ A : Clipped(j) <= Clipped(i)
         /\ \E j \in Contributors \ A : Clipped(i) <= Clipped(j)
<1> DEFINE C == Contributors
           count == Cardinality(Contributors)
           low == {j \in C : RankIn(C, Less, j) < Rank(i) + 1}
           lower == {j \in C : RankIn(C, Less, j) < Rank(i)}
           high == C \ lower
<1>1. IsFiniteSet(C) /\ StrictOrder(C, Less) /\ C \subseteq Indices /\ count \in Nat
  BY ContributorsAre DEF CohortInv
<1>2. Cut \in Nat /\ i \in C /\ Cut <= Rank(i) /\ Rank(i) < count - Cut
  BY CutIs DEF Kept
<1>3. \A j \in C : Rank(j) \in 0 .. count - 1 /\ Clipped(j) \in Int
  BY <1>1, ClippedType, RanksAre DEF Rank
<1>4. \A j, l \in C : Clipped(j) < Clipped(l) => Rank(j) < Rank(l)
  <2>1. \A j, l \in C : <<j, l>> \in Less => Rank(j) < Rank(l)
    BY <1>1, RanksAre DEF Rank
  <2> QED
    BY <2>1 DEF Less
<1>5. \A j, l \in C : Rank(j) <= Rank(l) => Clipped(j) <= Clipped(l)
  BY <1>3, <1>4
<1>6. IsFiniteSet(A) /\ Cardinality(A) \in Nat
  BY <1>1, FS_Subset, FS_CardinalityType
<1>7. Rank(i) + 1 \in 0 .. count /\ Rank(i) \in 0 .. count
  <2>1. Rank(i) \in 0 .. count - 1
    BY <1>2, <1>3
  <2> HIDE DEF count
  <2> QED
    BY <1>1, <2>1
<1>8. \E j \in C \ A : Rank(j) <= Rank(i)
  <2>1. Rank(i) + 1 \in 0 .. count
    BY <1>7
  <2>2. Cardinality(low) = Rank(i) + 1
    BY <1>1, <2>1, FirstRanks
  <2>3. ~(low \subseteq A)
    <3> HIDE DEF low
    <3> SUFFICES ASSUME low \subseteq A PROVE FALSE
      OBVIOUS
    <3>1. Cardinality(low) <= Cardinality(A)
      BY <1>6, FS_Subset
    <3> QED
      BY <1>2, <1>3, <1>6, <2>2, <3>1
  <2>4. PICK j \in low : j \notin A
    BY <2>3
  <2>5. j \in C /\ Rank(j) < Rank(i) + 1
    BY <2>4 DEF Rank
  <2> QED
    BY <1>2, <1>3, <2>4, <2>5
<1>9. \E j \in C \ A : Rank(i) <= Rank(j)
  <2>1. Rank(i) \in 0 .. count
    BY <1>7
  <2>2. Cardinality(lower) = Rank(i)
    BY <1>1, <2>1, FirstRanks
  <2>3. Cardinality(high) = count - Rank(i)
    <3>1. C \cap lower = lower
      OBVIOUS
    <3> HIDE DEF lower
    <3>2. Cardinality(C \ lower) = Cardinality(C) - Cardinality(C \cap lower)
      BY <1>1, FS_Difference
    <3> QED
      BY <2>2, <3>1, <3>2
  <2>4. ~(high \subseteq A)
    <3> HIDE DEF high
    <3> SUFFICES ASSUME high \subseteq A PROVE FALSE
      OBVIOUS
    <3>1. Cardinality(high) <= Cardinality(A)
      BY <1>6, FS_Subset
    <3> QED
      BY <1>1, <1>2, <1>3, <1>6, <2>3, <3>1
  <2>5. PICK j \in high : j \notin A
    BY <2>4
  <2>6. j \in C /\ ~(Rank(j) < Rank(i))
    BY <2>5 DEF Rank
  <2> QED
    BY <1>2, <1>3, <2>5, <2>6
<1> QED
  BY <1>2, <1>5, <1>8, <1>9

LEMMA KeptIsSome ==
  ASSUME CohortInv
  PROVE  /\ Kept \subseteq 1 .. N /\ IsFiniteSet(Kept)
         /\ Kept = {} <=> Contributors = {}
<1>1. Kept \subseteq Contributors
  BY DEF Kept
<1>2. ASSUME Contributors # {} PROVE Kept # {}
  <2> DEFINE count == Cardinality(Contributors)
  <2>1. Cut \in Nat /\ count \in Nat /\ count - 2 * Cut >= 1
    BY <1>2, CutIs, ContributorsAre
  <2>2. Cut \in 0 .. count - 1 /\ Cut < count - Cut
    BY <2>1
  <2>3. PICK i \in Contributors : Rank(i) = Cut
    BY <2>2, ContributorsAre, RanksAre DEF Rank
  <2> QED
    BY <2>1, <2>2, <2>3 DEF Kept
<1> QED
  BY <1>1, <1>2, ContributorsAre, FS_Subset

LEMMA TrimmedMeanBounds ==
  ASSUME CohortInv, NEW A \in SUBSET Contributors, Cardinality(A) <= Cut, A # Contributors
  PROVE  LET honest == {Clipped(i) : i \in Contributors \ A} IN
           /\ Min(honest) * TrimmedMean.count <= TrimmedMean.sum
           /\ TrimmedMean.sum <= Max(honest) * TrimmedMean.count
<1> DEFINE honest == {Clipped(i) : i \in Contributors \ A}
           value == [i \in Indices |-> Clipped(i)]
<1>1. /\ N \in Nat /\ Indices = 1 .. N
      /\ Kept \in SUBSET (1 .. N) /\ Kept \subseteq Contributors /\ Contributors \subseteq 1 .. N
  BY KeptIsSome, ContributorsAre DEF CohortInv, Kept
<1>2. \A i \in 1 .. N : Clipped(i) \in Int
  BY <1>1, ClippedType
<1>3. value \in [1 .. N -> Int] /\ \A i \in Kept : value[i] = Clipped(i)
  BY <1>1, <1>2
<1>4. honest \in SUBSET Int /\ honest # {} /\ \A j \in Contributors \ A : Clipped(j) \in honest
  BY <1>1, <1>2
<1>5. IsFiniteSet(honest)
  <2>1. IsFiniteSet(Contributors \ A)
    BY ContributorsAre, FS_Subset
  <2>2. honest = {value[i] : i \in Contributors \ A}
    BY <1>1
  <2> HIDE DEF honest, value
  <2> QED
    BY <2>1, <2>2, ImageIsFinite
<1> DEFINE lo == Min(honest)
           hi == Max(honest)
<1>6. lo \in Int /\ hi \in Int /\ \A x \in honest : lo <= x /\ x <= hi
  <2> HIDE DEF honest
  <2> QED
    BY <1>4, <1>5, ExtremesAre
<1> HIDE DEF honest, lo, hi
<1>7. \A i \in Kept : lo <= value[i] /\ value[i] <= hi
  <2> SUFFICES ASSUME NEW i \in Kept PROVE lo <= value[i] /\ value[i] <= hi
    OBVIOUS
  <2>1. PICK j \in Contributors \ A : Clipped(j) <= Clipped(i)
    BY KeptIsBetween
  <2>2. PICK l \in Contributors \ A : Clipped(i) <= Clipped(l)
    BY KeptIsBetween
  <2>3. /\ lo <= Clipped(j) /\ Clipped(l) <= hi
        /\ Clipped(i) \in Int /\ Clipped(j) \in Int /\ Clipped(l) \in Int
    BY <1>1, <1>2, <1>4, <1>6
  <2>4. lo <= Clipped(i) /\ Clipped(i) <= hi
    BY <1>6, <2>1, <2>2, <2>3
  <2> QED
    BY <1>3, <2>4
<1>8. TrimmedMean.sum = Total(Within(Kept, value)) /\ TrimmedMean.count = Cardinality(Kept)
  BY DEF TrimmedMean
<1> HIDE DEF value
<1>9. lo * Cardinality(Kept) <= Total(Within(Kept, value))
  BY <1>1, <1>3, <1>6, <1>7, TotalIsAtLeast
<1>10. Total(Within(Kept, value)) <= hi * Cardinality(Kept)
  BY <1>1, <1>3, <1>6, <1>7, TotalIsAtMost
<1> QED
  BY <1>8, <1>9, <1>10 DEF lo, hi, honest

(***************************************************************************)
(* As many survivors as are cut from either end cannot move a coordinate   *)
(* beyond what the others have sent for it, for any cohort, any values and *)
(* any share that is trimmed (masked_trimmed_mean).                        *)
(***************************************************************************)
THEOREM TrimmedMeanIsRobust == Spec => []OutliersCannotMoveMean
<1>1. CohortInv /\ RoundInv => OutliersCannotMoveMean
  <2> SUFFICES ASSUME CohortInv, RoundInv, pc = "aggregated"
               PROVE  /\ result.count = 0 <=> Contributors = {}
                      /\ \A A \in SUBSET Contributors :
                           Cardinality(A) <= Cut /\ A # Contributors =>
                             LET honest == {Clipped(i) : i \in Contributors \ A} IN
                               /\ Min(honest) * result.count <= result.sum
                               /\ result.sum <= Max(honest) * result.count
    BY DEF OutliersCannotMoveMean
  <2>1. result = TrimmedMean
    BY DEF RoundInv
  <2>2. TrimmedMean.count = Cardinality(Kept)
    BY DEF TrimmedMean
  <2>3. result.count = 0 <=> Contributors = {}
    BY <2>1, <2>2, KeptIsSome, FS_EmptySet
  <2> QED
    BY <2>1, <2>3, TrimmedMeanBounds
<1> QED
  BY <1>1, RoundAlways, PTL

-------------------------------------------------------------------------------
(***************************************************************************)
(* Multi-Krum.                                                             *)
(***************************************************************************)
LEMMA DistanceType ==
  ASSUME CohortInv, NEW i \in Indices, NEW j \in Indices
  PROVE  Distance(i, j) \in Nat
<1>1. Clipped(i) \in Int /\ Clipped(j) \in Int
  BY ClippedType
<1>2. \A x \in Int : x * x \in Nat
  <2> SUFFICES ASSUME NEW x \in Int PROVE x * x \in Nat
    OBVIOUS
  <2>1. CASE x >= 0
    BY <2>1
  <2>2. CASE x < 0
    BY <2>2
  <2> QED
    BY <2>1, <2>2
<1>3. Clipped(i) - Clipped(j) \in Int
  BY <1>1
<1> QED
  BY <1>2, <1>3 DEF Distance

\* Too small a cohort for f attackers is refused.
LEMMA EnoughAgents ==
  ASSUME CohortInv, ~KrumRaises, N > 0, f > 0
  PROVE  N \in Nat /\ f \in Nat /\ N >= 2 * f + 3 /\ Neighbours = N - f - 2
BY DEF CohortInv, KrumRaises, Neighbours

\* Each agent has as many neighbours as count for its score.
LEMMA NearestAre ==
  ASSUME CohortInv, NEW i \in Indices, Neighbours \in 0 .. N - 1
  PROVE  LET others == Indices \ {i}
             nearer == {kj \in others \X others : Nearer(i, kj[1], kj[2])}
         IN /\ StrictOrder(others, nearer) /\ IsFiniteSet(others)
            /\ Cardinality(others) = N - 1
            /\ Nearest(i) \subseteq others
            /\ IsFiniteSet(Nearest(i)) /\ Cardinality(Nearest(i)) = Neighbours
<1> DEFINE others == Indices \ {i}
           nearer == {kj \in others \X others : Nearer(i, kj[1], kj[2])}
<1>1. N \in Nat /\ Indices = 1 .. N /\ IsFiniteSet(Indices) /\ Cardinality(Indices) = N
  <2>1. N \in Nat /\ Indices = 1 .. N
    BY DEF CohortInv
  <2>2. /\ IsFiniteSet(1 .. N)
        /\ Cardinality(1 .. N) = IF 1 > N THEN 0 ELSE N - 1 + 1
    BY <2>1, FS_Interval
  <2> QED
    BY <2>1, <2>2
<1>2. IsFiniteSet(others) /\ Cardinality(others) = N - 1
  BY <1>1, FS_RemoveElement
<1>3. \A j \in others : Distance(i, j) \in Nat /\ j \in Int
  BY <1>1, DistanceType
<1>4. \A j, l \in others :
        <<j, l>> \in nearer
          <=> \/ Distance(i, j) < Distance(i, l)
              \/ Distance(i, j) = Distance(i, l) /\ j < l
  <2> HIDE DEF others
  <2>1. \A j, l \in others : <<j, l>> \in nearer <=> Nearer(i, j, l)
    OBVIOUS
  <2> HIDE DEF nearer
  <2> QED
    BY <2>1 DEF Nearer
<1>5. Nearest(i) = {j \in others : RankIn(others, nearer, j) < Neighbours}
  BY DEF Nearest
<1> HIDE DEF others, nearer
<1>6. StrictOrder(others, nearer)
  <2>1. ASSUME NEW j \in others, NEW l \in others
        PROVE  /\ <<j, j>> \notin nearer
               /\ j = l \/ <<j, l>> \in nearer \/ <<l, j>> \in nearer
    <3>1. Distance(i, j) \in Nat /\ Distance(i, l) \in Nat /\ j \in Int /\ l \in Int
      BY <1>3
    <3>2. /\ Distance(i, j) < Distance(i, l) => <<j, l>> \in nearer
          /\ Distance(i, l) < Distance(i, j) => <<l, j>> \in nearer
          /\ Distance(i, j) = Distance(i, l) /\ j < l => <<j, l>> \in nearer
          /\ Distance(i, j) = Distance(i, l) /\ l < j => <<l, j>> \in nearer
      BY <1>4
    <3>3. <<j, j>> \notin nearer
      BY <1>4, <3>1
    <3> QED
      BY <3>1, <3>2, <3>3
  <2>2. ASSUME NEW j \in others, NEW l \in others, NEW k \in others,
               <<j, l>> \in nearer, <<l, k>> \in nearer
        PROVE  <<j, k>> \in nearer
    BY <1>3, <1>4, <2>2
  <2> QED
    BY <2>1, <2>2 DEF StrictOrder
<1>7. IsFiniteSet(Nearest(i)) /\ Cardinality(Nearest(i)) = Neighbours
  BY <1>2, <1>5, <1>6, FirstRanks
<1>8. Nearest(i) \subseteq others
  BY <1>5
<1> QED
  BY <1>2, <1>6, <1>7, <1>8 DEF others, nearer

\* A neighbour that counts is no farther than anyone who does not.
LEMMA NearestAreNearest ==
  ASSUME CohortInv, NEW i \in Indices, Neighbours \in 0 .. N - 1,
         NEW j \in Nearest(i), NEW l \in Indices \ {i}, l \notin Nearest(i)
  PROVE  Distance(i, j) <= Distance(i, l)
<1> DEFINE others == Indices \ {i}
           nearer == {kj \in others \X others : Nearer(i, kj[1], kj[2])}
<1>1. StrictOrder(others, nearer) /\ IsFiniteSet(others) /\ Nearest(i) \subseteq others
  BY NearestAre
<1>2. j \in others /\ l \in others
  BY <1>1
<1>3. RankIn(others, nearer, j) < Neighbours /\ ~(RankIn(others, nearer, l) < Neighbours)
  BY <1>2 DEF Nearest
<1>4. Distance(i, l) < Distance(i, j) => <<l, j>> \in nearer
  BY <1>2 DEF Nearer
<1>5. Distance(i, l) \in Nat /\ Distance(i, j) \in Nat
  BY <1>2, DistanceType
<1> HIDE DEF others, nearer
<1>6. /\ RankIn(others, nearer, j) \in 0 .. Cardinality(others) - 1
      /\ RankIn(others, nearer, l) \in 0 .. Cardinality(others) - 1
  BY <1>1, <1>2, RanksAre
<1>7. <<l, j>> \in nearer => RankIn(others, nearer, l) < RankIn(others, nearer, j)
  BY <1>1, <1>2, RanksAre
<1>8. Neighbours \in Int /\ Cardinality(others) \in Nat
  BY <1>1, FS_CardinalityType DEF CohortInv
<1> QED
  BY <1>3, <1>4, <1>5, <1>6, <1>7, <1>8

LEMMA IndicesAre ==
  ASSUME CohortInv
  PROVE  N \in Nat /\ Indices = 1 .. N /\ IsFiniteSet(Indices) /\ Cardinality(Indices) = N
<1>1. N \in Nat /\ Indices = 1 .. N
  BY DEF CohortInv
<1>2. /\ IsFiniteSet(1 .. N)
      /\ Cardinality(1 .. N) = IF 1 > N THEN 0 ELSE N - 1 + 1
  BY <1>1, FS_Interval
<1> QED
  BY <1>1, <1>2

\* The distances between the members of two sets of agents.
Between(A, B) == {Distance(i, j) : i \in A, j \in B}

LEMMA DistancesAre ==
  ASSUME CohortInv, NEW A \in SUBSET Indices, NEW B \in SUBSET Indices, A # {}, B # {}
  PROVE  /\ Max(Between(A, B)) \in Nat /\ Min(Between(A, B)) \in Nat
         /\ \A i \in A, j \in B : /\ Min(Between(A, B)) <= Distance(i, j)
                                  /\ Distance(i, j) <= Max(Between(A, B))
<1> DEFINE between == {Distance(i, j) : i \in A, j \in B}
           g == [ij \in A \X B |-> Distance(ij[1], ij[2])]
<1>1. IsFiniteSet(A \X B)
  BY IndicesAre, FS_Subset, FS_Product
<1>2. between = {g[ij] : ij \in A \X B}
  <2>1. \A i \in A, j \in B : <<i, j>> \in A \X B /\ g[<<i, j>>] = Distance(i, j)
    OBVIOUS
  <2>2. \A ij \in A \X B : ij[1] \in A /\ ij[2] \in B /\ g[ij] = Distance(ij[1], ij[2])
    OBVIOUS
  <2> HIDE DEF g
  <2>3. ASSUME NEW x \in between PROVE x \in {g[ij] : ij \in A \X B}
    <3>1. PICK i \in A, j \in B : x = Distance(i, j)
      OBVIOUS
    <3>2. <<i, j>> \in A \X B /\ g[<<i, j>>] = x
      BY <2>1, <3>1
    <3> QED
      BY <3>2
  <2>4. \A x \in {g[ij] : ij \in A \X B} : x \in between
    BY <2>2
  <2> QED
    BY <2>3, <2>4
<1>3. \A i \in A, j \in B : Distance(i, j) \in between /\ Distance(i, j) \in Nat
  BY DistanceType
<1>4. between \subseteq Nat /\ between # {}
  <2>1. PICK i \in A, j \in B : TRUE
    OBVIOUS
  <2>2. Distance(i, j) \in between
    OBVIOUS
  <2>3. \A x \in between : x \in Nat
    BY <1>3
  <2> HIDE DEF between
  <2> QED
    BY <2>2, <2>3
<1> HIDE DEF between, g
<1>5. IsFiniteSet(between)
  BY <1>1, <1>2, ImageIsFinite
<1>6. between \in SUBSET Int
  BY <1>4
<1>7. /\ Max(between) \in between /\ \A x \in between : x <= Max(between)
      /\ Min(between) \in between /\ \A x \in between : Min(between) <= x
  BY <1>4, <1>5, <1>6, ExtremesAre
<1>8. /\ Max(between) \in Nat /\ Min(between) \in Nat
      /\ \A i \in A, j \in B : Min(between) <= Distance(i, j) /\ Distance(i, j) <= Max(between)
  BY <1>3, <1>4, <1>7
<1> QED
  BY <1>8 DEF between, Between

\* An honest agent has so many honest others that none but they count for it.
LEMMA HonestScore ==
  ASSUME CohortInv, f > 0, N >= 2 * f + 3, Neighbours = N - f - 2,
         NEW A \in SUBSET Indices, Cardinality(A) <= f,
         NEW h \in Indices \ A, NEW near \in Nat,
         \A i, j \in Indices \ A : Distance(i, j) <= near
  PROVE  Score(h) \in Int /\ Score(h) <= near * Neighbours
<1> DEFINE H == Indices \ A
           s == [j \in Indices |-> Distance(h, j)]
<1>1. N \in Nat /\ f \in Nat /\ Indices = 1 .. N /\ IsFiniteSet(Indices) /\ Cardinality(Indices) = N
  BY IndicesAre DEF CohortInv
<1>2. Neighbours \in 0 .. N - 1
  BY <1>1
<1>3. /\ Nearest(h) \subseteq Indices \ {h}
      /\ IsFiniteSet(Nearest(h)) /\ Cardinality(Nearest(h)) = Neighbours
  BY <1>2, NearestAre
<1>4. \E l \in H \ {h} : l \notin Nearest(h)
  <2> SUFFICES ASSUME H \ {h} \subseteq Nearest(h) PROVE FALSE
    OBVIOUS
  <2>1. IsFiniteSet(A) /\ Cardinality(A) \in Nat
    BY <1>1, FS_Subset, FS_CardinalityType
  <2>2. IsFiniteSet(H) /\ Cardinality(H) = N - Cardinality(A)
    <3>1. Indices \cap A = A
      OBVIOUS
    <3> QED
      BY ZenonT(60), <1>1, <3>1, FS_Difference
  <2>3. Cardinality(H \ {h}) = Cardinality(H) - 1
    BY <2>2, FS_RemoveElement
  <2> HIDE DEF H
  <2>4. Cardinality(H \ {h}) <= Neighbours
    BY <1>3, FS_Subset
  <2> QED
    BY <1>1, <2>1, <2>2, <2>3, <2>4
<1>5. \A j \in Nearest(h) : Distance(h, j) <= near
  <2> SUFFICES ASSUME NEW j \in Nearest(h) PROVE Distance(h, j) <= near
    OBVIOUS
  <2>1. PICK l \in H \ {h} : l \notin Nearest(h)
    BY <1>4
  <2>2. Distance(h, j) <= Distance(h, l)
    BY <1>2, <2>1, NearestAreNearest
  <2>3. Distance(h, l) <= near
    BY <2>1
  <2>4. Distance(h, j) \in Nat /\ Distance(h, l) \in Nat
    BY <1>3, <2>1, DistanceType
  <2> QED
    BY <2>2, <2>3, <2>4
<1>6. s \in [1 .. N -> Int] /\ \A j \in 1 .. N : s[j] = Distance(h, j)
  <2>1. \A j \in 1 .. N : Distance(h, j) \in Int
    BY <1>1, DistanceType
  <2> QED
    BY <1>1, <2>1
<1>7. Score(h) = Total(Within(Nearest(h), s))
  BY DEF Score
<1> HIDE DEF s
<1>8. Nearest(h) \in SUBSET (1 .. N) /\ \A j \in Nearest(h) : s[j] <= near
  BY <1>1, <1>3, <1>5, <1>6
<1>9. Total(Within(Nearest(h), s)) <= near * Cardinality(Nearest(h))
  <2>1. near \in Int /\ s \in [1 .. N -> Int] /\ N \in Nat
    BY <1>1, <1>6
  <2> QED
    BY <1>8, <2>1, TotalIsAtMost
<1>10. Total(Within(Nearest(h), s)) \in Int
  BY <1>1, <1>6, WithinIs
<1> QED
  BY <1>3, <1>7, <1>9, <1>10

\* An attacker has so few accomplices that many of the honest count for it.
LEMMA AttackerScore ==
  ASSUME CohortInv, f > 0, N >= 2 * f + 3, Neighbours = N - f - 2,
         NEW A \in SUBSET Indices, Cardinality(A) <= f,
         NEW a \in A, NEW far \in Nat,
         \A j \in Indices \ A : far <= Distance(a, j)
  PROVE  Score(a) \in Int /\ far * (N - 2 * f - 1) <= Score(a)
<1> DEFINE G == Nearest(a) \ A
           s == [j \in Indices |-> Distance(a, j)]
<1>1. N \in Nat /\ f \in Nat /\ Indices = 1 .. N /\ IsFiniteSet(Indices) /\ Cardinality(Indices) = N
  BY IndicesAre DEF CohortInv
<1>2. Neighbours \in 0 .. N - 1
  BY <1>1
<1>3. /\ Nearest(a) \subseteq Indices \ {a}
      /\ IsFiniteSet(Nearest(a)) /\ Cardinality(Nearest(a)) = Neighbours
  BY <1>2, NearestAre
<1>4. Cardinality(G) \in Nat /\ N - 2 * f - 1 <= Cardinality(G)
  <2>1. IsFiniteSet(A) /\ Cardinality(A) \in Nat
    BY <1>1, FS_Subset, FS_CardinalityType
  <2>2. IsFiniteSet(A \ {a}) /\ Cardinality(A \ {a}) = Cardinality(A) - 1
    BY <2>1, FS_RemoveElement
  <2>3. Nearest(a) \cap A \subseteq A \ {a}
    BY <1>3
  <2>4. Cardinality(Nearest(a) \cap A) <= Cardinality(A) - 1
    BY <2>2, <2>3, FS_Subset
  <2>5. IsFiniteSet(G) /\ Cardinality(G) = Neighbours - Cardinality(Nearest(a) \cap A)
    BY <1>3, FS_Difference
  <2>6. Cardinality(G) \in Nat /\ Cardinality(Nearest(a) \cap A) \in Nat
    BY <1>3, <2>5, FS_Intersection, FS_CardinalityType
  <2> HIDE DEF G
  <2> QED
    BY <1>1, <2>1, <2>4, <2>5, <2>6
<1>5. s \in [1 .. N -> Int] /\ \A j \in 1 .. N : s[j] = Distance(a, j) /\ s[j] \in Nat
  <2>1. \A j \in 1 .. N : Distance(a, j) \in Nat
    BY <1>1, DistanceType
  <2> QED
    BY <1>1, <2>1
<1>6. Score(a) = Total(Within(Nearest(a), s))
  BY DEF Score
<1> HIDE DEF s
<1>7. G \in SUBSET (1 .. N) /\ \A j \in G : far <= s[j]
  BY <1>1, <1>3, <1>5
<1>8. G \subseteq Nearest(a)
  OBVIOUS
<1> HIDE DEF G
<1>9. far * Cardinality(G) <= Total(Within(G, s))
  <2>1. far \in Int /\ s \in [1 .. N -> Int] /\ N \in Nat
    BY <1>1, <1>5
  <2> QED
    BY <1>7, <2>1, TotalIsAtLeast
<1>10. /\ Within(G, s) \in [1 .. N -> Int] /\ Total(Within(G, s)) \in Int
       /\ Within(Nearest(a), s) \in [1 .. N -> Int] /\ Total(Within(Nearest(a), s)) \in Int
  BY <1>1, <1>5, WithinIs
<1>11. \A j \in 1 .. N : Within(G, s)[j] <= Within(Nearest(a), s)[j]
  <2> SUFFICES ASSUME NEW j \in 1 .. N PROVE Within(G, s)[j] <= Within(Nearest(a), s)[j]
    OBVIOUS
  <2>1. Within(G, s)[j] = IF j \in G THEN s[j] ELSE 0
    BY <1>1, <1>5, WithinIs
  <2>2. Within(Nearest(a), s)[j] = IF j \in Nearest(a) THEN s[j] ELSE 0
    BY <1>1, <1>5, WithinIs
  <2>3. s[j] \in Nat
    BY <1>5
  <2> QED
    BY <1>8, <2>1, <2>2, <2>3
<1>12. Total(Within(G, s)) <= Total(Within(Nearest(a), s))
  BY <1>1, <1>10, <1>11, TotalGrows
<1>13. far * (N - 2 * f - 1) <= far * Cardinality(G)
  <2>1. \A x, y \in Int : x <= y => far * x <= far * y
    OBVIOUS
  <2>2. N - 2 * f - 1 \in Int
    BY <1>1
  <2> QED
    BY <1>4, <2>1, <2>2
<1>14. far * (N - 2 * f - 1) \in Int /\ far * Cardinality(G) \in Int
  <2>1. \A x \in Int : far * x \in Int
    OBVIOUS
  <2>2. N - 2 * f - 1 \in Int
    BY <1>1
  <2> QED
    BY <1>4, <2>1, <2>2
<1> QED
  BY <1>6, <1>9, <1>10, <1>12, <1>13, <1>14

LEMMA ScoresTell ==
  ASSUME CohortInv, f > 0, N >= 2 * f + 3, Neighbours = N - f - 2,
         NEW A \in SUBSET Indices, A # {}, Cardinality(A) <= f, Far(A),
         NEW a \in A, NEW h \in Indices \ A
  PROVE  Score(a) \in Int /\ Score(h) \in Int /\ Score(h) < Score(a)
<1> DEFINE H == Indices \ A
           near == Max({Distance(i, j) : i, j \in H})
           far == Min({Distance(i, j) : i \in A, j \in H})
<1>1. near \in Nat /\ \A i, j \in H : Distance(i, j) <= near
  <2>1. H \in SUBSET Indices /\ H # {}
    OBVIOUS
  <2> HIDE DEF H
  <2>2. near = Max(Between(H, H))
    BY DEF Between
  <2> HIDE DEF near
  <2> QED
    BY <2>1, <2>2, DistancesAre
<1>2. far \in Nat /\ \A i \in A, j \in H : far <= Distance(i, j)
  <2>1. H \in SUBSET Indices /\ H # {}
    OBVIOUS
  <2> HIDE DEF H
  <2>2. far = Min(Between(A, H))
    BY DEF Between
  <2> HIDE DEF far
  <2> QED
    BY <2>1, <2>2, DistancesAre
<1>3. (N - 2 * f - 1) * far > (N - f - 2) * near
  BY DEF Far
<1> HIDE DEF near, far
<1>4. Score(h) \in Int /\ Score(h) <= near * Neighbours
  BY <1>1, HonestScore
<1>5. Score(a) \in Int /\ far * (N - 2 * f - 1) <= Score(a)
  BY <1>2, AttackerScore
<1>6. N \in Nat /\ f \in Nat
  BY DEF CohortInv
<1> DEFINE x == N - 2 * f - 1
           y == N - f - 2
<1>7. x \in Int /\ y \in Int
  BY <1>6
<1>8. Score(h) <= near * y /\ far * x <= Score(a) /\ x * far > y * near
  BY <1>3, <1>4, <1>5
<1> HIDE DEF x, y
<1>9. \A p, q \in Int : p * q = q * p /\ p * q \in Int
  OBVIOUS
<1>10. near * y = y * near /\ far * x = x * far /\ near * y \in Int /\ far * x \in Int
  BY <1>1, <1>2, <1>7, <1>9
<1> QED
  BY <1>4, <1>5, <1>8, <1>10

(***************************************************************************)
(* No attacker is accepted: for any cohort, any f and any f or fewer       *)
(* attackers that may agree on what they send, if they are far from all    *)
(* others (krum_scores and multi_krum_select; the bound is the one of      *)
(* Krum's N >= 2f + 3).                                                    *)
(***************************************************************************)
THEOREM KrumRejectsColluders == Spec => []ColludersAreRejected
<1>1. CohortInv /\ RoundInv => ColludersAreRejected
  <2> SUFFICES ASSUME CohortInv, RoundInv, pc = "selected", f > 0,
                      NEW n \in 1 .. f, NEW A \in kSubset(n, Indices), Far(A),
                      NEW a \in A, a \in accepted
               PROVE  FALSE
    BY DEF ColludersAreRejected
  <2>1. /\ N \in Nat /\ f \in Nat /\ IsFiniteSet(Indices) /\ Cardinality(Indices) = N
        /\ Indices = 1 .. N
    BY IndicesAre DEF CohortInv
  <2>2. A \in SUBSET Indices /\ Cardinality(A) = n /\ n <= f /\ n >= 1
    BY <2>1 DEF kSubset
  <2>3. N > 0
    BY <2>1, <2>2
  <2>4. N >= 2 * f + 3 /\ Neighbours = N - f - 2
    BY <2>3, EnoughAgents DEF RoundInv
  <2>5. /\ accepted \subseteq Indices /\ Cardinality(accepted) = N - f
        /\ \A i \in accepted, j \in Indices \ accepted : Score(i) <= Score(j)
    BY DEF RoundInv, Best, kSubset
  <2> DEFINE H == Indices \ A
  <2>6. H \subseteq accepted
    <3> SUFFICES ASSUME NEW h \in H, h \notin accepted PROVE FALSE
      OBVIOUS
    <3>1. Score(a) <= Score(h)
      BY <2>5
    <3>2. Score(a) \in Int /\ Score(h) \in Int /\ Score(h) < Score(a)
      BY <2>2, <2>4, ScoresTell
    <3> QED
      BY <3>1, <3>2
  <2>7. Cardinality(H) = N - n /\ IsFiniteSet(H)
    <3>1. Indices \cap A = A
      BY <2>2
    <3>2. /\ IsFiniteSet(Indices \ A)
          /\ Cardinality(Indices \ A) = Cardinality(Indices) - Cardinality(Indices \cap A)
      BY <2>1, FS_Difference
    <3> QED
      BY <2>1, <2>2, <3>1, <3>2
  <2>8. a \notin H /\ H \cup {a} \subseteq accepted
    BY <2>6
  <2> HIDE DEF H
  <2>9. Cardinality(H \cup {a}) = N - n + 1
    BY <2>7, <2>8, FS_AddElement
  <2>10. Cardinality(H \cup {a}) <= Cardinality(accepted)
    <3>1. IsFiniteSet(accepted)
      BY <2>1, <2>5, FS_Subset
    <3> QED
      BY <2>8, <3>1, FS_Subset
  <2> QED
    BY <2>1, <2>2, <2>5, <2>9, <2>10
<1> QED
  BY <1>1, RoundAlways, PTL

-------------------------------------------------------------------------------
(***************************************************************************)
(* The ledger, for any members, payloads and quorums.  Whatever implements *)
(* it inherits its promise: the City and the District do (CityIsLedger,    *)
(* DistrictIsLedger).                                                      *)
(***************************************************************************)
CONSTANTS Members, Payloads, Quorums
VARIABLES history, offered, acked

Ledger == INSTANCE RoundLedger

\* What the promise rests on: confirmations concern rounds reached so far.
LedgerInv ==
  /\ history \in Seq(Ledger!Cohort)
  /\ acked \subseteq Nat \X Members
  /\ \A a \in acked : a[1] <= Ledger!Round
  /\ Ledger!AckedIsFolded

LEMMA LedgerInvInit == Ledger!Init => LedgerInv
  BY DEF Ledger!Init, LedgerInv, Ledger!AckedIsFolded

LEMMA LedgerInvReceive == LedgerInv /\ Ledger!Receive => LedgerInv'
<1> SUFFICES ASSUME LedgerInv, Ledger!Receive PROVE LedgerInv'
  OBVIOUS
<1>1. history' = history /\ Ledger!Round' = Ledger!Round
  BY DEF Ledger!Receive, Ledger!Round
<1>2. \A a \in acked' \ acked : a[1] = Ledger!Round \/ Ledger!Folded(a[1], a[2])
  BY DEF Ledger!Receive, Ledger!Welcome
<1>3. \A a \in acked' :
        /\ a[1] <= Ledger!Round
        /\ a[1] < Ledger!Round => history[a[1] + 1][a[2]] # None
  BY <1>2 DEF LedgerInv, Ledger!AckedIsFolded, Ledger!Folded, Ledger!Round
<1>4. Ledger!AckedIsFolded'
  BY <1>1, <1>3 DEF Ledger!AckedIsFolded
<1>5. history' \in Seq(Ledger!Cohort) /\ acked' \subseteq Nat \X Members
  BY <1>1 DEF LedgerInv, Ledger!Receive
<1> QED
  BY <1>1, <1>3, <1>4, <1>5 DEF LedgerInv

LEMMA LedgerInvFold ==
  ASSUME NEW c \in Ledger!Cohort, LedgerInv, Ledger!Fold(c)
  PROVE  LedgerInv'
<1>1. /\ history' \in Seq(Ledger!Cohort)
      /\ Ledger!Round' = Ledger!Round + 1 /\ Ledger!Round \in Nat
      /\ \A i \in 1 .. Ledger!Round : history'[i] = history[i]
      /\ history'[Ledger!Round + 1] = c
  BY DEF LedgerInv, Ledger!Fold, Ledger!Round
<1>2. ASSUME NEW a \in acked
      PROVE  a[1] <= Ledger!Round' /\ (a[1] < Ledger!Round' => history'[a[1] + 1][a[2]] # None)
  <2>1. a[1] \in Nat /\ a[2] \in Members /\ a = <<a[1], a[2]>> /\ a[1] <= Ledger!Round
    BY DEF LedgerInv
  <2>2. CASE a[1] = Ledger!Round
    <3>1. <<Ledger!Round, a[2]>> \in acked
      BY <2>1, <2>2
    <3>2. c[a[2]] # None
      BY <3>1, <2>1 DEF Ledger!Fold
    <3> QED
      BY <1>1, <2>2, <3>2
  <2>3. CASE a[1] < Ledger!Round
    BY <1>1, <2>1, <2>3 DEF LedgerInv, Ledger!AckedIsFolded
  <2> QED
    BY <2>1, <2>2, <2>3, <1>1
<1>3. ASSUME NEW a \in acked' \ acked
      PROVE  a[1] <= Ledger!Round' /\ (a[1] < Ledger!Round' => history'[a[1] + 1][a[2]] # None)
  BY <1>1, <1>3 DEF Ledger!Fold, Ledger!Folded, Ledger!Round
<1> QED
  BY <1>1, <1>2, <1>3 DEF LedgerInv, Ledger!AckedIsFolded, Ledger!Fold

(***************************************************************************)
(* A confirmed contribution to a closed round is in the cohort of that     *)
(* round, in every behaviour of the ledger.                                *)
(***************************************************************************)
THEOREM LedgerKeepsPromise == Ledger!Spec => []Ledger!AckedIsFolded
<1>1. LedgerInv /\ [Ledger!Next]_(Ledger!ledgerVars) => LedgerInv'
  <2> SUFFICES ASSUME LedgerInv, [Ledger!Next]_(Ledger!ledgerVars) PROVE LedgerInv'
    OBVIOUS
  <2>1. CASE Ledger!Receive
    BY <2>1, LedgerInvReceive
  <2>2. CASE \E c \in Ledger!Cohort : Ledger!Fold(c)
    BY <2>2, LedgerInvFold
  <2>3. CASE UNCHANGED Ledger!ledgerVars
    BY <2>3 DEF Ledger!ledgerVars, LedgerInv, Ledger!AckedIsFolded, Ledger!Round
  <2> QED
    BY <2>1, <2>2, <2>3 DEF Ledger!Next
<1>2. LedgerInv => Ledger!AckedIsFolded
  BY DEF LedgerInv
<1> QED
  BY LedgerInvInit, <1>1, <1>2, PTL DEF Ledger!Spec

================================================================================
