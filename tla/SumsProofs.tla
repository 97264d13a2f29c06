----------------------------- MODULE SumsProofs -----------------------------
(* Laws of SumTo.  The induction theorems of the library take an operator  *)
(* as a parameter; here induction over the naturals is stated for a set,   *)
(* from the well-foundedness of < on Nat.                                  *)
EXTENDS Sums, WellFoundedInduction, TLAPS

LEMMA NatSetInduction ==
  ASSUME NEW S, 0 \in S, \A n \in Nat : n \in S => n + 1 \in S
  PROVE  Nat \subseteq S
<1> DEFINE T == Nat \ S
<1> DEFINE R == {ss \in Nat \X Nat : ss[1] < ss[2]}
<1>1. SUFFICES ASSUME T # {} PROVE FALSE
  OBVIOUS
<1>2. IsWellFoundedOn(R, Nat)
  BY NatLessThanWellFounded DEF OpToRel
<1>3. PICK x \in T : \A y \in T : ~ (<<y, x>> \in R)
  <2>1. T \subseteq Nat
    OBVIOUS
  <2> HIDE DEF T, R
  <2> QED
    BY <1>1, <1>2, <2>1, WFMin
<1>4. x # 0
  BY <1>3
<1>5. x - 1 \in Nat /\ x - 1 + 1 = x
  BY <1>4
<1>6. x - 1 \in T
  BY <1>5
<1>7. <<x - 1, x>> \in R
  BY <1>5
<1> QED
  BY <1>3, <1>6, <1>7

LEMMA NatHasLeast ==
  ASSUME NEW S, S \subseteq Nat, S # {}
  PROVE  \E x \in S : \A y \in S : x <= y
<1> DEFINE R == {ss \in Nat \X Nat : ss[1] < ss[2]}
<1>1. IsWellFoundedOn(R, Nat)
  BY NatLessThanWellFounded DEF OpToRel
<1>2. PICK x \in S : \A y \in S : ~ (<<y, x>> \in R)
  <2> HIDE DEF R
  <2> QED BY <1>1, WFMin
<1>3. \A y \in S : x <= y
  <2> SUFFICES ASSUME NEW y \in S, y < x PROVE FALSE
    OBVIOUS
  <2>1. <<y, x>> \in R
    OBVIOUS
  <2> QED BY <1>2, <2>1
<1> QED BY <1>3

-----------------------------------------------------------------------------
(* The recursive function PartialSums(f) exists.                           *)

IsPrefixSum(s, f, n) ==
  s = [i \in 0 .. n |-> IF i = 0 THEN 0 ELSE s[i - 1] + f[i]]

LEMMA PrefixSumExists ==
  ASSUME NEW f
  PROVE  \A n \in Nat : \E s : IsPrefixSum(s, f, n)
<1> DEFINE S == {n \in Nat : \E s : IsPrefixSum(s, f, n)}
<1>1. 0 \in S
  <2> DEFINE z == [i \in 0 .. 0 |-> 0]
  <2>1. z = [i \in 0 .. 0 |-> IF i = 0 THEN 0 ELSE z[i - 1] + f[i]]
    OBVIOUS
  <2> QED
    BY <2>1 DEF IsPrefixSum
<1>2. ASSUME NEW n \in Nat, n \in S PROVE n + 1 \in S
  <2>1. PICK s : IsPrefixSum(s, f, n)
    BY <1>2
  <2> DEFINE t == [i \in 0 .. (n + 1) |-> IF i = n + 1 THEN s[n] + f[n + 1] ELSE s[i]]
  <2>2. \A i \in 0 .. (n + 1) : t[i] = IF i = 0 THEN 0 ELSE t[i - 1] + f[i]
    <3> TAKE i \in 0 .. (n + 1)
    <3>1. CASE i = 0
      BY <3>1, <2>1 DEF IsPrefixSum
    <3>2. CASE i \in 1 .. n
      BY <3>2, <2>1 DEF IsPrefixSum
    <3>3. CASE i = n + 1
      BY <3>3
    <3> QED
      BY <3>1, <3>2, <3>3
  <2>3. IsPrefixSum(t, f, n + 1)
    BY <2>2 DEF IsPrefixSum
  <2> QED
    BY <2>3
<1> HIDE DEF S
<1>3. Nat \subseteq S
  BY <1>1, <1>2, NatSetInduction
<1> QED
  BY <1>3 DEF S

LEMMA PrefixSumUnique ==
  ASSUME NEW f, NEW m \in Nat, NEW n \in Nat, m <= n,
         NEW s, NEW t, IsPrefixSum(s, f, m), IsPrefixSum(t, f, n)
  PROVE  \A i \in 0 .. m : s[i] = t[i]
<1> DEFINE S == {i \in Nat : i <= m => s[i] = t[i]}
<1>1. 0 \in S
  BY DEF IsPrefixSum
<1>2. ASSUME NEW i \in Nat, i \in S PROVE i + 1 \in S
  <2>1. ASSUME i + 1 <= m PROVE s[i + 1] = t[i + 1]
    <3>1. s[i] = t[i]
      BY <1>2, <2>1
    <3>2. s[i + 1] = s[i] + f[i + 1]
      BY <2>1 DEF IsPrefixSum
    <3>3. t[i + 1] = t[i] + f[i + 1]
      BY <2>1 DEF IsPrefixSum
    <3> QED
      BY <3>1, <3>2, <3>3
  <2> QED
    BY <2>1
<1> HIDE DEF S
<1>3. Nat \subseteq S
  BY <1>1, <1>2, NatSetInduction
<1> QED
  BY <1>3 DEF S

LEMMA PartialSumsUnfold ==
  ASSUME NEW f
  PROVE  PartialSums(f) = [i \in Nat |-> IF i = 0 THEN 0 ELSE PartialSums(f)[i - 1] + f[i]]
<1> DEFINE D(g) == [i \in Nat |-> IF i = 0 THEN 0 ELSE g[i - 1] + f[i]]
<1>1. PartialSums(f) = CHOOSE g : g = D(g)
  BY DEF PartialSums
<1>2. \E g : g = D(g)
  <2> DEFINE P(n) == CHOOSE s : IsPrefixSum(s, f, n)
  <2> DEFINE g == [i \in Nat |-> P(i)[i]]
  <2>1. \A n \in Nat : IsPrefixSum(P(n), f, n)
    BY PrefixSumExists
  <2>2. \A i \in Nat : g[i] = IF i = 0 THEN 0 ELSE g[i - 1] + f[i]
    <3> TAKE i \in Nat
    <3> HIDE DEF P
    <3>1. CASE i = 0
      <4>1. IsPrefixSum(P(0), f, 0)
        BY <2>1
      <4>2. P(0)[0] = 0
        BY <4>1 DEF IsPrefixSum
      <4> QED
        BY <3>1, <4>2
    <3>2. CASE i # 0
      <4>1. IsPrefixSum(P(i), f, i) /\ IsPrefixSum(P(i - 1), f, i - 1)
        BY <2>1, <3>2
      <4>2. P(i)[i] = P(i)[i - 1] + f[i]
        BY <4>1, <3>2 DEF IsPrefixSum
      <4>3. P(i - 1)[i - 1] = P(i)[i - 1]
        BY <4>1, <3>2, PrefixSumUnique
      <4> QED
        BY <4>2, <4>3, <3>2
    <3> QED
      BY <3>1, <3>2
  <2>3. g = [i \in Nat |-> g[i]]
    OBVIOUS
  <2>4. g = D(g)
    <3> HIDE DEF g
    <3> QED
      BY <2>2, <2>3
  <2> QED
    BY <2>4
<1> QED
  BY <1>1, <1>2

-----------------------------------------------------------------------------
(* Laws of SumTo.                                                          *)

LEMMA SumToZero ==
  ASSUME NEW f PROVE SumTo(f, 0) = 0
BY PartialSumsUnfold DEF SumTo

LEMMA SumToNext ==
  ASSUME NEW f, NEW n \in Nat
  PROVE  SumTo(f, n + 1) = SumTo(f, n) + f[n + 1]
<1>1. PartialSums(f)[n + 1] = PartialSums(f)[n] + f[n + 1]
  BY PartialSumsUnfold
<1> QED
  BY <1>1 DEF SumTo

LEMMA SumToType ==
  ASSUME NEW f, NEW n \in Nat, \A i \in 1 .. n : f[i] \in Int
  PROVE  \A k \in 0 .. n : SumTo(f, k) \in Int
<1> DEFINE S == {k \in Nat : k <= n => SumTo(f, k) \in Int}
<1>1. 0 \in S
  BY SumToZero
<1>2. ASSUME NEW k \in Nat, k \in S PROVE k + 1 \in S
  BY <1>2, SumToNext
<1> HIDE DEF S
<1>3. Nat \subseteq S
  BY <1>1, <1>2, NatSetInduction
<1> QED
  BY <1>3 DEF S

\* Functions that agree on 1 .. n have the same sum.
LEMMA SumToSame ==
  ASSUME NEW f, NEW g, NEW n \in Nat, \A i \in 1 .. n : f[i] = g[i]
  PROVE  SumTo(f, n) = SumTo(g, n)
<1> DEFINE S == {k \in Nat : k <= n => SumTo(f, k) = SumTo(g, k)}
<1>1. 0 \in S
  BY SumToZero
<1>2. ASSUME NEW k \in Nat, k \in S PROVE k + 1 \in S
  BY <1>2, SumToNext
<1> HIDE DEF S
<1>3. Nat \subseteq S
  BY <1>1, <1>2, NatSetInduction
<1> QED
  BY <1>3 DEF S

\* Changing one summand changes the sum by the difference.
LEMMA SumToUpdate ==
  ASSUME NEW f, NEW g, NEW n \in Nat, NEW m \in 1 .. n,
         \A i \in 1 .. n : f[i] \in Int /\ g[i] \in Int,
         \A i \in 1 .. n : i # m => f[i] = g[i]
  PROVE  SumTo(g, n) = SumTo(f, n) + g[m] - f[m]
<1> DEFINE S == {k \in Nat : k <= n =>
                   SumTo(g, k) = SumTo(f, k) + (IF m <= k THEN g[m] - f[m] ELSE 0)}
<1>0. \A k \in 0 .. n : SumTo(f, k) \in Int /\ SumTo(g, k) \in Int
  BY SumToType
<1>1. 0 \in S
  BY SumToZero
<1>2. ASSUME NEW k \in Nat, k \in S PROVE k + 1 \in S
  <2>1. SUFFICES ASSUME k + 1 <= n
                 PROVE  SumTo(g, k + 1) = SumTo(f, k + 1) + (IF m <= k + 1 THEN g[m] - f[m] ELSE 0)
    OBVIOUS
  <2>2. SumTo(g, k) = SumTo(f, k) + (IF m <= k THEN g[m] - f[m] ELSE 0)
    BY <1>2, <2>1
  <2>3. SumTo(g, k + 1) = SumTo(g, k) + g[k + 1] /\ SumTo(f, k + 1) = SumTo(f, k) + f[k + 1]
    BY SumToNext
  <2>4. SumTo(f, k) \in Int /\ SumTo(g, k) \in Int /\ f[k + 1] \in Int /\ g[k + 1] \in Int
    BY <1>0, <2>1
  <2>5. k + 1 # m => f[k + 1] = g[k + 1]
    BY <2>1
  <2> QED
    BY <2>2, <2>3, <2>4, <2>5
<1> HIDE DEF S
<1>3. Nat \subseteq S
  BY <1>1, <1>2, NatSetInduction
<1> QED
  BY <1>3 DEF S

\* A sum of naturals is at least each of its summands.
LEMMA SumToBound ==
  ASSUME NEW f, NEW n \in Nat, NEW m \in 1 .. n, \A i \in 1 .. n : f[i] \in Nat
  PROVE  SumTo(f, n) \in Nat /\ f[m] <= SumTo(f, n)
<1> DEFINE S == {k \in Nat : k <= n => SumTo(f, k) \in Nat /\ (m <= k => f[m] <= SumTo(f, k))}
<1>1. 0 \in S
  BY SumToZero
<1>2. ASSUME NEW k \in Nat, k \in S PROVE k + 1 \in S
  BY <1>2, SumToNext
<1> HIDE DEF S
<1>3. Nat \subseteq S
  BY <1>1, <1>2, NatSetInduction
<1> QED
  BY <1>3 DEF S
=============================================================================
