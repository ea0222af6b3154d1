----------------------------- MODULE Sums_proofs -----------------------------
(***************************************************************************)
(* Induction over the natural numbers and over sums.                       *)
(*                                                                         *)
(* The induction theorems of the library take a predicate as a parameter.  *)
(* Induction over a set does not: strict inclusion is well founded on the  *)
(* finite sets, so a nonempty set of numbers has a least one, because the  *)
(* intervals 0..m do; and a set with 0 that is closed under successors has *)
(* all the numbers.  What a recursive function computes is then proved by  *)
(* induction over the set of the arguments where it does.                  *)
(***************************************************************************)
EXTENDS Sums, FiniteSetTheorems, TLAPS

-----------------------------------------------------------------------------
\* A nonempty set of natural numbers has a least element.
LEMMA LeastNumber == ASSUME NEW T, T \subseteq Nat, T # {} PROVE \E m \in T : \A k \in T : m <= k
  <1> DEFINE below(m) == 0..m
             family == {below(m) : m \in T}
  <1>1. \A m \in T : IsFiniteSet(below(m)) /\ below(m) \subseteq Nat
    <2>1. TAKE m \in T
    <2>2. m \in Int /\ 0 \in Int
      OBVIOUS
    <2>3. IsFiniteSet(0..m)
      BY <2>2, FS_Interval
    <2> QED BY <2>3
  <1>2. family \subseteq FiniteSubsetsOf(Nat)
    BY <1>1 DEF FiniteSubsetsOf
  <1>3. family # {}
    OBVIOUS
  <1>4. \E x \in family : \A y \in family : ~(<<y, x>> \in StrictSubsetOrdering(Nat))
    <2>1. IsWellFoundedOn(StrictSubsetOrdering(Nat), FiniteSubsetsOf(Nat))
      BY FS_StrictSubsetOrderingWellFounded
    <2> HIDE DEF family
    <2> QED BY <2>1, <1>2, <1>3, WFMin
  <1>5. PICK m \in T : \A k \in T : ~(<<below(k), below(m)>> \in StrictSubsetOrdering(Nat))
    BY <1>4
  <1>6. ASSUME NEW k \in T, k < m PROVE FALSE
    <2>1. below(k) \subseteq below(m) /\ below(k) # below(m)
      <3>1. m \in below(m) /\ m \notin below(k)
        BY <1>6
      <3>2. \A j \in 0..k : j \in 0..m
        BY <1>6
      <3> QED BY <3>1, <3>2
    <2>2. <<below(k), below(m)>> \in StrictSubsetOrdering(Nat)
      BY <2>1, <1>1 DEF StrictSubsetOrdering
    <2> QED BY <1>5, <2>2
  <1>7. QED BY <1>5, <1>6

\* Induction: a set with 0 and the successor of each number it has holds them all.
LEMMA NatInductionSet ==
    ASSUME NEW S, 0 \in S, \A k \in Nat : k \in S => k + 1 \in S
    PROVE  Nat \subseteq S
  <1> DEFINE T == Nat \ S
  <1> SUFFICES ASSUME T # {} PROVE FALSE
    OBVIOUS
  <1>1. PICK m \in T : \A k \in T : m <= k
    <2>1. T \subseteq Nat
      OBVIOUS
    <2> HIDE DEF T
    <2> QED BY <2>1, LeastNumber
  <1>2. m # 0 /\ m \in Nat
    OBVIOUS
  <1>3. m - 1 \in Nat /\ m - 1 \notin T
    BY <1>1, <1>2
  <1>4. (m - 1) + 1 \in S
    BY <1>3
  <1>5. m \in S
    BY <1>4, <1>2
  <1>6. QED BY <1>5

-----------------------------------------------------------------------------
\* The recursive definition of the partial sums has a solution, of any length.
LEMMA PartialSumsExist ==
    ASSUME NEW f, NEW n \in Nat
    PROVE  \E g : g = [k \in 0..n |-> IF k = 0 THEN 0 ELSE f[k] + g[k - 1]]
  <1> DEFINE S == {m \in Nat : \E g : g = [k \in 0..m |-> IF k = 0 THEN 0 ELSE f[k] + g[k - 1]]}
  <1>1. 0 \in S
    <2> DEFINE g == [k \in 0..0 |-> 0]
    <2>1. g = [k \in 0..0 |-> IF k = 0 THEN 0 ELSE f[k] + g[k - 1]]
      OBVIOUS
    <2> HIDE DEF g
    <2> QED BY <2>1
  <1>2. ASSUME NEW m \in Nat, m \in S PROVE m + 1 \in S
    <2>1. PICK g : g = [k \in 0..m |-> IF k = 0 THEN 0 ELSE f[k] + g[k - 1]]
      BY <1>2
    <2> DEFINE h == [k \in 0..(m + 1) |-> IF k = m + 1 THEN f[m + 1] + g[m] ELSE g[k]]
    <2>2. \A k \in 0..(m + 1) : h[k] = IF k = 0 THEN 0 ELSE f[k] + h[k - 1]
      <3> TAKE k \in 0..(m + 1)
      <3>1. CASE k = m + 1
        BY <3>1
      <3>2. CASE k # m + 1
        <4>1. k \in 0..m /\ h[k] = g[k]
          BY <3>2
        <4>2. g[k] = IF k = 0 THEN 0 ELSE f[k] + g[k - 1]
          BY <2>1, <4>1
        <4>3. k # 0 => k - 1 \in 0..(m + 1) /\ k - 1 # m + 1 /\ h[k - 1] = g[k - 1]
          BY <4>1
        <4> HIDE DEF h
        <4> QED BY <4>1, <4>2, <4>3
      <3> QED BY <3>1, <3>2
    <2>3. h = [k \in 0..(m + 1) |-> h[k]]
      OBVIOUS
    <2> HIDE DEF h
    <2>4. h = [k \in 0..(m + 1) |-> IF k = 0 THEN 0 ELSE f[k] + h[k - 1]]
      BY <2>2, <2>3
    <2> QED BY <2>4
  <1>3. Nat \subseteq S
    <2> HIDE DEF S
    <2> QED BY <1>1, <1>2, NatInductionSet
  <1>4. QED BY <1>3

\* What the partial sums of a sequence are: zero at first, then an element more each.
LEMMA PartialSums ==
    ASSUME NEW f, Len(f) \in Nat
    PROVE  LET s == partialSums(f) IN
           /\ DOMAIN s = 0..Len(f)
           /\ s[0] = 0
           /\ \A k \in 1..Len(f) : s[k] = f[k] + s[k - 1]
  <1> DEFINE s == partialSums(f)
  <1>1. s = [k \in 0..Len(f) |-> IF k = 0 THEN 0 ELSE f[k] + s[k - 1]]
    BY PartialSumsExist DEF partialSums
  <1> HIDE DEF s
  <1>2. DOMAIN s = 0..Len(f) /\ s[0] = 0
    BY <1>1
  <1>3. \A k \in 1..Len(f) : k \in 0..Len(f) /\ k # 0
    OBVIOUS
  <1>4. \A k \in 1..Len(f) : s[k] = f[k] + s[k - 1]
    BY <1>1, <1>3
  <1>5. QED BY <1>2, <1>4 DEF s

\* Whatever starts at zero and grows by the elements of a sequence ends at its sum.
LEMMA SumIs ==
    ASSUME NEW f, Len(f) \in Nat, NEW g, g[0] = 0, \A k \in 1..Len(f) : g[k] = f[k] + g[k - 1]
    PROVE  SumOver(f) = g[Len(f)]
  <1> DEFINE s == partialSums(f)
             S == {k \in Nat : k <= Len(f) => s[k] = g[k]}
  <1>1. s[0] = 0 /\ \A k \in 1..Len(f) : s[k] = f[k] + s[k - 1]
    BY PartialSums
  <1> HIDE DEF s
  <1>2. 0 \in S
    BY <1>1
  <1>3. ASSUME NEW k \in Nat, k \in S PROVE k + 1 \in S
    <2>1. CASE k + 1 <= Len(f)
      <3>1. k + 1 \in 1..Len(f) /\ (k + 1) - 1 = k
        BY <2>1
      <3>2. s[k + 1] = f[k + 1] + s[k] /\ g[k + 1] = f[k + 1] + g[k]
        BY <1>1, <3>1
      <3> QED BY <1>3, <3>1, <3>2, <2>1
    <2>2. CASE ~(k + 1 <= Len(f))
      BY <2>2
    <2> QED BY <2>1, <2>2
  <1>4. Nat \subseteq S
    <2> HIDE DEF S
    <2> QED BY <1>2, <1>3, NatInductionSet
  <1>5. QED BY <1>4 DEF SumOver, s

\* The partial sums of integers are integers.
LEMMA SumType ==
    ASSUME NEW f \in Seq(Int)
    PROVE  \A k \in 0..Len(f) : partialSums(f)[k] \in Int
  <1> DEFINE s == partialSums(f)
             S == {k \in Nat : k <= Len(f) => s[k] \in Int}
  <1>1. s[0] = 0 /\ \A k \in 1..Len(f) : s[k] = f[k] + s[k - 1]
    BY PartialSums
  <1> HIDE DEF s
  <1>2. 0 \in S
    BY <1>1
  <1>3. ASSUME NEW k \in Nat, k \in S PROVE k + 1 \in S
    <2>1. CASE k + 1 <= Len(f)
      <3>1. k + 1 \in 1..Len(f) /\ (k + 1) - 1 = k
        BY <2>1
      <3>2. s[k + 1] = f[k + 1] + s[k] /\ f[k + 1] \in Int
        BY <1>1, <3>1
      <3> QED BY <1>3, <3>1, <3>2, <2>1
    <2>2. CASE ~(k + 1 <= Len(f))
      BY <2>2
    <2> QED BY <2>1, <2>2
  <1>4. Nat \subseteq S
    <2> HIDE DEF S
    <2> QED BY <1>2, <1>3, NatInductionSet
  <1>5. QED BY <1>4 DEF s

\* The sum of integers is an integer.
LEMMA SumInt == ASSUME NEW f \in Seq(Int) PROVE SumOver(f) \in Int
  BY SumType DEF SumOver

\* A common factor of all elements is one of the sum.
LEMMA SumScaled ==
    ASSUME NEW f \in Seq(Int), NEW c \in Int, NEW g, Len(g) = Len(f),
           \A i \in 1..Len(f) : g[i] = c * f[i]
    PROVE  SumOver(g) = c * SumOver(f)
  <1> DEFINE s == partialSums(f)
             t == [k \in 0..Len(f) |-> c * s[k]]
  <1>1. s[0] = 0 /\ \A k \in 1..Len(f) : s[k] = f[k] + s[k - 1]
    BY PartialSums
  <1>2. \A k \in 0..Len(f) : s[k] \in Int
    BY SumType
  <1> HIDE DEF s
  <1>3. t[0] = 0
    BY <1>1
  <1>4. ASSUME NEW k \in 1..Len(g) PROVE t[k] = g[k] + t[k - 1]
    <2>1. k \in 0..Len(f) /\ k - 1 \in 0..Len(f) /\ k \in 1..Len(f) /\ f[k] \in Int
      OBVIOUS
    <2>2. t[k] = c * (f[k] + s[k - 1]) /\ t[k - 1] = c * s[k - 1] /\ g[k] = c * f[k]
      BY <2>1, <1>1
    <2>3. s[k - 1] \in Int
      BY <2>1, <1>2
    <2>4. \A x, y \in Int : c * (x + y) = c * x + c * y
      OBVIOUS
    <2> QED BY <2>1, <2>2, <2>3, <2>4
  <1>5. Len(g) \in Nat /\ t[Len(g)] = c * s[Len(f)]
    OBVIOUS
  <1> HIDE DEF t
  <1>6. SumOver(g) = t[Len(g)]
    BY <1>3, <1>4, <1>5, SumIs
  <1>7. QED BY <1>5, <1>6 DEF SumOver, s

\* The sum of elements no larger than c, either way.
LEMMA SumBounded ==
    ASSUME NEW f \in Seq(Int), NEW c \in Nat, \A k \in 1..Len(f) : -c <= f[k] /\ f[k] <= c
    PROVE  -(c * Len(f)) <= SumOver(f) /\ SumOver(f) <= c * Len(f)
  <1> DEFINE s == partialSums(f)
             S == {k \in Nat : k <= Len(f) => -(c * k) <= s[k] /\ s[k] <= c * k}
  <1>1. s[0] = 0 /\ \A k \in 1..Len(f) : s[k] = f[k] + s[k - 1]
    BY PartialSums
  <1>2. \A k \in 0..Len(f) : s[k] \in Int
    BY SumType
  <1> HIDE DEF s
  <1>3. 0 \in S
    <2>1. c * 0 = 0
      OBVIOUS
    <2> QED BY <1>1, <2>1
  <1>4. ASSUME NEW k \in Nat, k \in S PROVE k + 1 \in S
    <2>1. CASE k + 1 <= Len(f)
      <3>1. k + 1 \in 1..Len(f) /\ (k + 1) - 1 = k /\ k \in 0..Len(f)
        BY <2>1
      <3>2. s[k + 1] = f[k + 1] + s[k] /\ f[k + 1] \in Int /\ s[k] \in Int
        BY <1>1, <1>2, <3>1
      <3>3. PICK y, z : y = c * k /\ z = c * (k + 1)
        OBVIOUS
      <3>4. y \in Int /\ z = y + c
        <4>1. \A a, b \in Nat : a * b \in Int /\ a * (b + 1) = a * b + a
          OBVIOUS
        <4> QED BY <3>3, <4>1
      <3>5. -y <= s[k] /\ s[k] <= y
        BY <1>4, <3>1, <3>3
      <3>6. -z <= s[k + 1] /\ s[k + 1] <= z
        BY <3>1, <3>2, <3>4, <3>5
      <3> QED BY <3>3, <3>6
    <2>2. CASE ~(k + 1 <= Len(f))
      BY <2>2
    <2> QED BY <2>1, <2>2
  <1>5. Nat \subseteq S
    <2> HIDE DEF S
    <2> QED BY <1>3, <1>4, NatInductionSet
  <1>6. Len(f) \in S
    BY <1>5
  <1> QED BY <1>6 DEF SumOver, s

\* The sum of nothing.
LEMMA SumEmpty == ASSUME NEW f, Len(f) = 0 PROVE SumOver(f) = 0
  <1>1. partialSums(f)[0] = 0
    BY PartialSums
  <1>2. QED
    BY <1>1 DEF SumOver

\* An element more.
LEMMA SumLonger ==
    ASSUME NEW f \in Seq(Int), NEW x \in Int, NEW g, Len(g) = Len(f) + 1,
           g[Len(f) + 1] = x, \A k \in 1..Len(f) : g[k] = f[k]
    PROVE  SumOver(g) = SumOver(f) + x
  <1> DEFINE s == partialSums(f)
             t == [k \in 0..Len(g) |-> IF k <= Len(f) THEN s[k] ELSE s[Len(f)] + x]
  <1>1. Len(f) \in Nat
    OBVIOUS
  <1>2. s[0] = 0 /\ \A k \in 1..Len(f) : s[k] = f[k] + s[k - 1]
    BY PartialSums
  <1>3. \A k \in 0..Len(f) : s[k] \in Int
    BY SumType
  <1> HIDE DEF s
  <1>4. t[0] = 0 /\ t[Len(g)] = s[Len(f)] + x
    BY <1>1, <1>2
  <1>5. ASSUME NEW k \in 1..Len(g) PROVE t[k] = g[k] + t[k - 1]
    <2>1. CASE k <= Len(f)
      BY <2>1, <1>1, <1>2
    <2>2. CASE k = Len(f) + 1
      BY <2>2, <1>1, <1>3
    <2> QED BY <2>1, <2>2, <1>1
  <1> HIDE DEF t
  <1>6. Len(g) \in Nat /\ \A k \in 1..Len(g) : t[k] = g[k] + t[k - 1]
    BY <1>1, <1>5
  <1>7. SumOver(g) = t[Len(g)]
    BY <1>4, <1>6, SumIs
  <1>8. QED
    BY <1>4, <1>7 DEF SumOver, s

LEMMA SumAppend ==
    ASSUME NEW f \in Seq(Int), NEW x \in Int
    PROVE  SumOver(Append(f, x)) = SumOver(f) + x
  <1> DEFINE g == Append(f, x)
  <1>1. /\ Len(g) = Len(f) + 1 /\ g[Len(f) + 1] = x
        /\ \A k \in 1..Len(f) : g[k] = f[k]
    OBVIOUS
  <1> HIDE DEF g
  <1>2. SumOver(g) = SumOver(f) + x
    BY <1>1, SumLonger
  <1>3. QED
    BY <1>2 DEF g

\* The sum of the sums of two sequences.
LEMMA SumsAdd ==
    ASSUME NEW f \in Seq(Int), NEW g \in Seq(Int), NEW h, Len(g) = Len(f), Len(h) = Len(f),
           \A i \in 1..Len(f) : h[i] = f[i] + g[i]
    PROVE  SumOver(h) = SumOver(f) + SumOver(g)
  <1> DEFINE s == partialSums(f)
             t == partialSums(g)
             w == [k \in 0..Len(f) |-> s[k] + t[k]]
  <1>1. /\ s[0] = 0 /\ \A k \in 1..Len(f) : s[k] = f[k] + s[k - 1]
        /\ t[0] = 0 /\ \A k \in 1..Len(f) : t[k] = g[k] + t[k - 1]
    BY PartialSums
  <1>2. \A k \in 0..Len(f) : s[k] \in Int /\ t[k] \in Int
    BY SumType
  <1>3. SumOver(f) = s[Len(f)] /\ SumOver(g) = t[Len(f)]
    BY DEF SumOver
  <1> HIDE DEF s, t
  <1>4. Len(f) \in Nat /\ \A i \in 1..Len(f) : f[i] \in Int /\ g[i] \in Int
    OBVIOUS
  <1>5. w[0] = 0
    BY <1>1, <1>4
  <1>6. \A k \in 1..Len(h) : w[k] = h[k] + w[k - 1]
    <2> SUFFICES ASSUME NEW k \in 1..Len(f) PROVE w[k] = h[k] + w[k - 1]
      OBVIOUS
    <2>1. k \in 0..Len(f) /\ k - 1 \in 0..Len(f)
      BY <1>4
    <2>2. w[k] = s[k] + t[k] /\ w[k - 1] = s[k - 1] + t[k - 1]
      BY <2>1
    <2>3. s[k - 1] \in Int /\ t[k - 1] \in Int
      BY <1>2, <2>1
    <2> HIDE DEF w
    <2> QED BY <1>1, <1>4, <2>2, <2>3
  <1>7. w[Len(h)] = s[Len(f)] + t[Len(f)]
    BY <1>4
  <1> HIDE DEF w
  <1>8. SumOver(h) = w[Len(h)]
    BY <1>4, <1>5, <1>6, SumIs
  <1> QED BY <1>3, <1>7, <1>8

\* Another element at one place.
LEMMA SumReplaced ==
    ASSUME NEW f \in Seq(Int), NEW i \in 1..Len(f), NEW x \in Int, NEW h, Len(h) = Len(f),
           h[i] = x, \A k \in 1..Len(f) : k # i => h[k] = f[k]
    PROVE  SumOver(h) = SumOver(f) + (x - f[i])
  <1> DEFINE s == partialSums(f)
             w == [k \in 0..Len(f) |-> IF k < i THEN s[k] ELSE s[k] + (x - f[i])]
  <1>1. s[0] = 0 /\ \A k \in 1..Len(f) : s[k] = f[k] + s[k - 1]
    BY PartialSums
  <1>2. \A k \in 0..Len(f) : s[k] \in Int
    BY SumType
  <1>3. SumOver(f) = s[Len(f)]
    BY DEF SumOver
  <1> HIDE DEF s
  <1>4. Len(f) \in Nat /\ \A k \in 1..Len(f) : f[k] \in Int
    OBVIOUS
  <1>5. w[0] = 0
    BY <1>1, <1>4
  <1>6. \A k \in 1..Len(h) : w[k] = h[k] + w[k - 1]
    <2> SUFFICES ASSUME NEW k \in 1..Len(f) PROVE w[k] = h[k] + w[k - 1]
      OBVIOUS
    <2>1. k \in 0..Len(f) /\ k - 1 \in 0..Len(f)
      BY <1>4
    <2>2. /\ w[k] = IF k < i THEN s[k] ELSE s[k] + (x - f[i])
          /\ w[k - 1] = IF k - 1 < i THEN s[k - 1] ELSE s[k - 1] + (x - f[i])
      BY <2>1
    <2>3. s[k - 1] \in Int /\ s[k] = f[k] + s[k - 1]
      BY <1>1, <1>2, <2>1
    <2> HIDE DEF w
    <2>4. CASE k < i
      BY <1>4, <2>2, <2>3, <2>4
    <2>5. CASE k = i
      BY <1>4, <2>2, <2>3, <2>5
    <2>6. CASE k > i
      BY <1>4, <2>2, <2>3, <2>6
    <2> QED BY <2>4, <2>5, <2>6
  <1>7. w[Len(h)] = s[Len(f)] + (x - f[i])
    BY <1>4
  <1> HIDE DEF w
  <1>8. SumOver(h) = w[Len(h)]
    BY <1>4, <1>5, <1>6, SumIs
  <1> QED BY <1>3, <1>7, <1>8
=============================================================================
