-------------------------- MODULE PriceLevelProofs --------------------------
(***************************************************************************)
(* The price-level array of OrderBook: what its operators return for every *)
(* array that is sorted and whose orders are at their own price.           *)
(***************************************************************************)
EXTENDS OrderBook, SumsProofs

-----------------------------------------------------------------------------
(* The first index of a set, and the compaction of a level.                *)

LEMMA FirstIsLeast ==
  ASSUME NEW S, S \subseteq Nat, S # {}
  PROVE  First(S) \in S /\ \A j \in S : First(S) <= j
  BY NatHasLeast DEF First

IsKept(kept, ids, m) ==
  kept = [n \in 0 .. m |->
            IF n = 0 THEN <<>>
            ELSE IF IsLive(ids[n]) THEN Append(kept[n - 1], ids[n]) ELSE kept[n - 1]]

LEMMA KeptExists ==
  ASSUME NEW ids PROVE \A m \in Nat : \E kept : IsKept(kept, ids, m)
<1> DEFINE S == {m \in Nat : \E kept : IsKept(kept, ids, m)}
<1>1. 0 \in S
  <2> DEFINE z == [n \in 0 .. 0 |-> <<>>]
  <2>1. IsKept(z, ids, 0)
    BY DEF IsKept
  <2> QED BY <2>1
<1>2. ASSUME NEW m \in Nat, m \in S PROVE m + 1 \in S
  <2>1. PICK kept : IsKept(kept, ids, m)
    BY <1>2
  <2> DEFINE last == IF IsLive(ids[m + 1]) THEN Append(kept[m], ids[m + 1]) ELSE kept[m]
  <2> DEFINE more == [n \in 0 .. (m + 1) |-> IF n = m + 1 THEN last ELSE kept[n]]
  <2>2. \A n \in 0 .. (m + 1) :
          more[n] = IF n = 0 THEN <<>>
                    ELSE IF IsLive(ids[n]) THEN Append(more[n - 1], ids[n]) ELSE more[n - 1]
    <3> TAKE n \in 0 .. (m + 1)
    <3>1. CASE n = m + 1
      BY <3>1
    <3>2. CASE n \in 0 .. m
      <4>1. more[n] = kept[n] /\ (n # 0 => more[n - 1] = kept[n - 1])
        BY <3>2
      <4>2. kept[n] = IF n = 0 THEN <<>>
                      ELSE IF IsLive(ids[n]) THEN Append(kept[n - 1], ids[n]) ELSE kept[n - 1]
        BY <2>1, <3>2, Zenon DEF IsKept
      <4> HIDE DEF more
      <4> QED BY <4>1, <4>2
    <3> QED BY <3>1, <3>2
  <2>3. IsKept(more, ids, m + 1)
    BY <2>2, Zenon DEF IsKept
  <2> QED BY <2>3
<1> HIDE DEF S
<1>3. Nat \subseteq S
  BY <1>1, <1>2, NatSetInduction
<1> QED BY <1>3 DEF S

\* What is left of ids after compaction: its live entries at the places that the
\* function at names, in their old order.
Compacts(ids, left, m, at) ==
  /\ left \in Seq(Nat)
  /\ at \in [1 .. Len(left) -> 1 .. m]
  /\ \A j \in 1 .. Len(left) : left[j] = ids[at[j]] /\ IsLive(left[j])
  /\ \A j, k \in 1 .. Len(left) : j < k => at[j] < at[k]
  /\ \A i \in 1 .. m : IsLive(ids[i]) => \E j \in 1 .. Len(left) : at[j] = i

LEMMA CompactsLive ==
  ASSUME NEW ids \in Seq(Nat), NEW m \in Nat, m + 1 <= Len(ids), IsLive(ids[m + 1]),
         NEW left, NEW at, Compacts(ids, left, m, at)
  PROVE  \E to : Compacts(ids, Append(left, ids[m + 1]), m + 1, to)
<1> DEFINE n == Len(left)
<1> DEFINE more == Append(left, ids[m + 1])
<1> DEFINE to == [j \in 1 .. n + 1 |-> IF j = n + 1 THEN m + 1 ELSE at[j]]
<1>1. /\ left \in Seq(Nat) /\ n \in Nat /\ at \in [1 .. n -> 1 .. m]
      /\ \A j \in 1 .. n : left[j] = ids[at[j]] /\ IsLive(left[j])
      /\ \A j, k \in 1 .. n : j < k => at[j] < at[k]
      /\ \A i \in 1 .. m : IsLive(ids[i]) => \E j \in 1 .. n : at[j] = i
  BY DEF Compacts
<1>2. /\ more \in Seq(Nat) /\ Len(more) = n + 1 /\ more[n + 1] = ids[m + 1]
      /\ \A j \in 1 .. n : more[j] = left[j]
  BY <1>1
<1>3. \A j \in 1 .. n : at[j] \in 1 .. m
  BY <1>1
<1>4. DOMAIN to = 1 .. n + 1 /\ to[n + 1] = m + 1 /\ \A j \in 1 .. n : to[j] = at[j]
  BY <1>1
<1>5. to \in [1 .. n + 1 -> 1 .. m + 1]
  BY <1>1, <1>3
<1>0. n \in Nat /\ n + 1 \in 1 .. n + 1
  BY <1>1
<1> HIDE DEF to, more
<1>6. \A j \in 1 .. n + 1 : more[j] = ids[to[j]] /\ IsLive(more[j])
  <2> TAKE j \in 1 .. n + 1
  <2>1. CASE j = n + 1
    BY <2>1, <1>2, <1>4
  <2>2. CASE j \in 1 .. n
    BY <2>2, <1>1, <1>2, <1>4
  <2> QED BY <1>1, <2>1, <2>2
<1>7. \A j, k \in 1 .. n + 1 : j < k => to[j] < to[k]
  <2> SUFFICES ASSUME NEW j \in 1 .. n + 1, NEW k \in 1 .. n + 1, j < k PROVE to[j] < to[k]
    OBVIOUS
  <2>1. j \in 1 .. n
    BY <1>1
  <2>2. CASE k = n + 1
    BY <2>1, <2>2, <1>1, <1>3, <1>4
  <2>3. CASE k \in 1 .. n
    BY <2>1, <2>3, <1>1, <1>4
  <2>4. k = n + 1 \/ k \in 1 .. n
    BY <1>0
  <2> QED BY <2>2, <2>3, <2>4
<1>8. \A i \in 1 .. m + 1 : IsLive(ids[i]) => \E j \in 1 .. n + 1 : to[j] = i
  <2> SUFFICES ASSUME NEW i \in 1 .. m + 1, IsLive(ids[i]) PROVE \E j \in 1 .. n + 1 : to[j] = i
    OBVIOUS
  <2>1. CASE i = m + 1
    BY <2>1, <1>0, <1>4
  <2>2. CASE i \in 1 .. m
    <3>1. PICK j \in 1 .. n : at[j] = i
      BY <2>2, <1>1
    <3>2. j \in 1 .. n + 1 /\ to[j] = i
      BY <3>1, <1>1, <1>4
    <3> QED BY <3>2
  <2> QED BY <2>1, <2>2
<1>9. Compacts(ids, more, m + 1, to)
  BY <1>2, <1>5, <1>6, <1>7, <1>8 DEF Compacts
<1> QED BY <1>9 DEF more

LEMMA CompactsTombstone ==
  ASSUME NEW ids, NEW m \in Nat, ~ IsLive(ids[m + 1]),
         NEW left, NEW at, Compacts(ids, left, m, at)
  PROVE  Compacts(ids, left, m + 1, at)
<1>1. Len(left) \in Nat /\ at \in [1 .. Len(left) -> 1 .. m + 1]
  BY DEF Compacts
<1>2. \A i \in 1 .. m + 1 : IsLive(ids[i]) => \E j \in 1 .. Len(left) : at[j] = i
  BY DEF Compacts
<1> QED BY <1>1, <1>2 DEF Compacts

LEMMA LiveIdsCompacts ==
  ASSUME NEW ids \in Seq(Nat)
  PROVE  \E at : Compacts(ids, LiveIds(ids), Len(ids), at)
<1>1. PICK kept : IsKept(kept, ids, Len(ids)) /\ LiveIds(ids) = kept[Len(ids)]
  <2> DEFINE D(f) == [n \in 0 .. Len(ids) |->
            IF n = 0 THEN <<>>
            ELSE IF IsLive(ids[n]) THEN Append(f[n - 1], ids[n]) ELSE f[n - 1]]
  <2> DEFINE kept == CHOOSE f : f = D(f)
  <2>1. LiveIds(ids) = kept[Len(ids)]
    BY Zenon DEF LiveIds
  <2>2. \E f : f = D(f)
    <3>1. PICK f : IsKept(f, ids, Len(ids))
      BY KeptExists, Len(ids) \in Nat
    <3>2. f = D(f)
      BY <3>1, Zenon DEF IsKept
    <3> HIDE DEF D
    <3> QED BY <3>2
  <2>3. kept = D(kept)
    <3> HIDE DEF D
    <3> QED BY <2>2, Zenon
  <2> QED BY <2>1, <2>3, Zenon DEF IsKept
<1> DEFINE S == {m \in Nat : m <= Len(ids) => \E at : Compacts(ids, kept[m], m, at)}
<1>2. 0 \in S
  <2>1. kept[0] = <<>>
    BY <1>1 DEF IsKept
  <2>2. Compacts(ids, kept[0], 0, [j \in 1 .. 0 |-> 0])
    BY <2>1 DEF Compacts
  <2> QED BY <2>2
<1>3. ASSUME NEW m \in Nat, m \in S PROVE m + 1 \in S
  <2> SUFFICES ASSUME m + 1 <= Len(ids) PROVE \E at : Compacts(ids, kept[m + 1], m + 1, at)
    OBVIOUS
  <2>1. PICK at : Compacts(ids, kept[m], m, at)
    BY <1>3
  <2> HIDE DEF S
  <2>2. kept[m + 1] = IF IsLive(ids[m + 1]) THEN Append(kept[m], ids[m + 1]) ELSE kept[m]
    <3>1. m + 1 \in 0 .. Len(ids) /\ m + 1 # 0 /\ m + 1 - 1 = m
      OBVIOUS
    <3>2. \A n \in 0 .. Len(ids) :
            kept[n] = IF n = 0 THEN <<>>
                      ELSE IF IsLive(ids[n]) THEN Append(kept[n - 1], ids[n]) ELSE kept[n - 1]
      BY <1>1, Zenon DEF IsKept
    <3> QED BY <3>1, <3>2
  <2> QED BY <2>1, <2>2, CompactsLive, CompactsTombstone
<1> HIDE DEF S
<1>4. Nat \subseteq S
  BY <1>2, <1>3, NatSetInduction
<1>5. Len(ids) \in Nat
  OBVIOUS
<1> QED BY <1>1, <1>4, <1>5 DEF S

-----------------------------------------------------------------------------
(* The binary search.                                                      *)

\* Prices in the order of the array, as numbers.
Sorted(s, levels) ==
  /\ levels \in Seq(Level)
  /\ LevelSorted(s, levels)

\* r is where a level of this price is among the positions lo + 1 .. hi, or
\* where such a level belongs.
LocatesAt(levels, price, lo, hi, r) ==
  \E p \in lo + 1 .. hi : r = [found |-> TRUE, pos |-> p] /\ levels[p].price = price

LocatesBefore(levels, s, price, lo, hi, r) ==
  \E p \in lo + 1 .. hi + 1 :
    /\ r = [found |-> FALSE, pos |-> p]
    /\ \A i \in lo + 1 .. p - 1 : Better(s, levels[i].price, price)
    /\ \A i \in p .. hi : Better(s, price, levels[i].price)

Locates(levels, s, price, lo, hi, r) ==
  IF lo > hi THEN r = [found |-> FALSE, pos |-> lo + 1]
  ELSE LocatesAt(levels, price, lo, hi, r) \/ LocatesBefore(levels, s, price, lo, hi, r)

LEMMA BetterIsOrder ==
  ASSUME NEW s, NEW p \in Int, NEW q \in Int, NEW r \in Int
  PROVE  /\ ~ Better(s, p, p)
         /\ Better(s, p, q) /\ Better(s, q, r) => Better(s, p, r)
         /\ Better(s, p, q) \/ p = q \/ Better(s, q, p)
         /\ GoRight(s, p, q) <=> Better(s, p, q)
<1>1. CASE s = "bid"
  BY <1>1 DEF Better, GoRight
<1>2. CASE s # "bid"
  BY <1>2 DEF Better, GoRight
<1> QED BY <1>1, <1>2

LEMMA PricesAreNumbers ==
  ASSUME NEW levels \in Seq(Level)
  PROVE  \A i \in 1 .. Len(levels) : levels[i].price \in Int
<1> TAKE i \in 1 .. Len(levels)
<1>1. levels[i] \in Level
  OBVIOUS
<1>2. levels[i].price \in Prices
  BY <1>1 DEF Level
<1>3. \A p \in Prices : p \in Int
  BY BookAssumption
<1> QED BY <1>2, <1>3

LEMMA LocatesExists ==
  ASSUME NEW s, NEW levels, Sorted(s, levels), NEW price \in Int,
         NEW lo \in 0 .. Len(levels), NEW hi \in 0 .. Len(levels)
  PROVE  \E r : Locates(levels, s, price, lo, hi, r)
<1>0. Len(levels) \in Nat /\ DOMAIN levels = 1 .. Len(levels)
  BY DEF Sorted
<1>n. \A i \in 1 .. Len(levels) : levels[i].price \in Int
  BY PricesAreNumbers DEF Sorted
<1>1. CASE lo > hi
  <2>1. Locates(levels, s, price, lo, hi, [found |-> FALSE, pos |-> lo + 1])
    BY <1>0, <1>1 DEF Locates
  <2> QED BY <2>1
<1>2. CASE lo <= hi
  <2> DEFINE S == {i \in lo + 1 .. hi : ~ Better(s, levels[i].price, price)}
  <2>1. CASE S = {}
    <3>1. PICK p \in lo + 1 .. hi + 1 : p = hi + 1
      BY <1>0, <1>2
    <3>2. /\ \A i \in lo + 1 .. p - 1 : Better(s, levels[i].price, price)
          /\ \A i \in p .. hi : Better(s, price, levels[i].price)
      BY <1>0, <2>1, <3>1
    <3>3. LocatesBefore(levels, s, price, lo, hi, [found |-> FALSE, pos |-> p])
      BY <3>2, Zenon DEF LocatesBefore
    <3> QED BY <1>2, <3>3 DEF Locates
  <2>2. CASE S # {}
    <3>0. S \subseteq Nat
      OBVIOUS
    <3>1. PICK p \in S : \A j \in S : p <= j
      <4> HIDE DEF S
      <4> QED BY <2>2, <3>0, FirstIsLeast
    <3>2. p \in lo + 1 .. hi /\ p \in 1 .. Len(levels) /\ p \in lo + 1 .. hi + 1
      BY <1>0, <3>1
    <3>3. \A i \in lo + 1 .. p - 1 : Better(s, levels[i].price, price)
      <4> SUFFICES ASSUME NEW i \in lo + 1 .. p - 1, ~ Better(s, levels[i].price, price) PROVE FALSE
        OBVIOUS
      <4>1. i \in S /\ i < p
        BY <1>0, <3>2
      <4> QED BY <1>0, <3>1, <3>2, <4>1
    <3>4. ~ Better(s, levels[p].price, price)
      OBVIOUS
    <3> HIDE DEF S
    <3>5. CASE levels[p].price = price
      <4>1. LocatesAt(levels, price, lo, hi, [found |-> TRUE, pos |-> p])
        BY <3>2, <3>5, Zenon DEF LocatesAt
      <4> QED BY <1>2, <4>1 DEF Locates
    <3>6. CASE levels[p].price # price
      <4>1. Better(s, price, levels[p].price)
        BY <1>n, <3>2, <3>4, <3>6, BetterIsOrder
      <4>2. \A i \in p .. hi : Better(s, price, levels[i].price)
        <5> TAKE i \in p .. hi
        <5>1. i \in 1 .. Len(levels) /\ (i = p \/ p < i)
          BY <1>0, <3>2
        <5>2. i = p \/ Better(s, levels[p].price, levels[i].price)
          BY <1>0, <3>2, <5>1 DEF Sorted, LevelSorted
        <5> QED BY <1>n, <3>2, <4>1, <5>1, <5>2, BetterIsOrder
      <4>3. LocatesBefore(levels, s, price, lo, hi, [found |-> FALSE, pos |-> p])
        BY <3>2, <3>3, <4>2, Zenon DEF LocatesBefore
      <4> QED BY <1>2, <4>3 DEF Locates
    <3> QED BY <3>5, <3>6
  <2> QED BY <2>1, <2>2
<1> QED BY <1>0, <1>1, <1>2

LEMMA LocatesUnique ==
  ASSUME NEW s, NEW levels, Sorted(s, levels), NEW price \in Int,
         NEW lo \in 0 .. Len(levels), NEW hi \in 0 .. Len(levels),
         NEW r, NEW t, Locates(levels, s, price, lo, hi, r), Locates(levels, s, price, lo, hi, t)
  PROVE  r = t
<1>0. Len(levels) \in Nat /\ DOMAIN levels = 1 .. Len(levels)
  BY DEF Sorted
<1>n. \A i \in 1 .. Len(levels) : levels[i].price \in Int
  BY PricesAreNumbers DEF Sorted
<1>1. CASE lo > hi
  BY <1>0, <1>1 DEF Locates
<1>2. CASE lo <= hi
  <2> DEFINE Found(x, p) == x = [found |-> TRUE, pos |-> p] /\ levels[p].price = price
  <2> DEFINE Missing(x, p) == /\ x = [found |-> FALSE, pos |-> p]
                              /\ \A i \in lo + 1 .. p - 1 : Better(s, levels[i].price, price)
                              /\ \A i \in p .. hi : Better(s, price, levels[i].price)
  <2>1. \A x \in {r, t} : \/ \E p \in lo + 1 .. hi : Found(x, p)
                          \/ \E p \in lo + 1 .. hi + 1 : Missing(x, p)
    BY <1>0, <1>2 DEF Locates, LocatesAt, LocatesBefore
  <2>2. ASSUME NEW p \in lo + 1 .. hi, NEW q \in lo + 1 .. hi, levels[p].price = price, levels[q].price = price
        PROVE  p = q
    <3>1. p \in 1 .. Len(levels) /\ q \in 1 .. Len(levels)
      BY <1>0
    <3>2. (p < q => Better(s, price, price)) /\ (q < p => Better(s, price, price))
      BY <1>0, <2>2, <3>1 DEF Sorted, LevelSorted
    <3> QED BY <3>1, <3>2, BetterIsOrder
  <2>3. ASSUME NEW p \in lo + 1 .. hi, NEW q \in lo + 1 .. hi + 1, NEW x, levels[p].price = price, Missing(x, q)
        PROVE  FALSE
    <3>1. p \in lo + 1 .. q - 1 \/ p \in q .. hi
      BY <1>0
    <3>2. Better(s, price, price)
      BY <2>3, <3>1
    <3> QED BY <3>2, BetterIsOrder
  <2>4. ASSUME NEW p \in lo + 1 .. hi + 1, NEW q \in lo + 1 .. hi + 1, NEW x, NEW y,
               Missing(x, p), Missing(y, q), p < q
        PROVE  FALSE
    <3>1. p \in lo + 1 .. q - 1 /\ p \in p .. hi /\ p \in 1 .. Len(levels)
      BY <1>0, <2>4
    <3>2. Better(s, levels[p].price, price) /\ Better(s, price, levels[p].price)
      BY <2>4, <3>1
    <3> QED BY <1>n, <3>1, <3>2, BetterIsOrder
  <2> QED
    <3>1. CASE \E p \in lo + 1 .. hi : Found(r, p)
      BY <2>1, <2>2, <2>3, <3>1
    <3>2. CASE \E p \in lo + 1 .. hi + 1 : Missing(r, p)
      <4>1. PICK p \in lo + 1 .. hi + 1 : Missing(r, p)
        BY <3>2
      <4>2. PICK q \in lo + 1 .. hi + 1 : Missing(t, q)
        BY <2>1, <2>3, <4>1
      <4>3. ~ (p < q) /\ ~ (q < p)
        BY <2>4, <4>1, <4>2
      <4>4. p = q
        BY <1>0, <4>3
      <4> QED BY <4>1, <4>2, <4>4
    <3> QED BY <2>1, <3>1, <3>2
<1> QED BY <1>0, <1>1, <1>2

LEMMA LocatesStep ==
  ASSUME NEW s, NEW levels, Sorted(s, levels), NEW price \in Int,
         NEW lo \in 0 .. Len(levels), NEW hi \in 0 .. Len(levels), NEW mid \in lo .. hi - 1
  PROVE  /\ levels[mid + 1].price = price =>
              Locates(levels, s, price, lo, hi, [found |-> TRUE, pos |-> mid + 1])
         /\ levels[mid + 1].price # price /\ GoRight(s, levels[mid + 1].price, price) =>
              \A r : Locates(levels, s, price, mid + 1, hi, r) => Locates(levels, s, price, lo, hi, r)
         /\ levels[mid + 1].price # price /\ ~ GoRight(s, levels[mid + 1].price, price) =>
              \A r : Locates(levels, s, price, lo, mid, r) => Locates(levels, s, price, lo, hi, r)
<1> DEFINE m == levels[mid + 1].price
<1>0. /\ Len(levels) \in Nat /\ DOMAIN levels = 1 .. Len(levels)
      /\ mid + 1 \in 1 .. Len(levels) /\ mid + 1 \in lo + 1 .. hi
      /\ ~ (lo > hi) /\ ~ (mid + 1 > hi) /\ ~ (lo > mid)
  BY DEF Sorted
<1>n. \A i \in 1 .. Len(levels) : levels[i].price \in Int
  BY PricesAreNumbers DEF Sorted
<1>m. m \in Int
  BY <1>0, <1>n
<1>1. ASSUME m = price
      PROVE  LocatesAt(levels, price, lo, hi, [found |-> TRUE, pos |-> mid + 1])
  BY <1>0, <1>1, Zenon DEF LocatesAt
<1>2. ASSUME Better(s, m, price), NEW r, Locates(levels, s, price, mid + 1, hi, r)
      PROVE  Locates(levels, s, price, lo, hi, r)
  <2>1. CASE LocatesAt(levels, price, mid + 1, hi, r)
    <3>1. PICK p \in mid + 1 + 1 .. hi : r = [found |-> TRUE, pos |-> p] /\ levels[p].price = price
      BY <2>1 DEF LocatesAt
    <3>2. p \in lo + 1 .. hi
      BY <1>0
    <3>3. LocatesAt(levels, price, lo, hi, r)
      BY <3>1, <3>2, Zenon DEF LocatesAt
    <3> QED BY <1>0, <3>3 DEF Locates
  <2>2. CASE LocatesBefore(levels, s, price, mid + 1, hi, r)
    <3>1. PICK p \in mid + 1 + 1 .. hi + 1 :
                 /\ r = [found |-> FALSE, pos |-> p]
                 /\ \A i \in mid + 1 + 1 .. p - 1 : Better(s, levels[i].price, price)
                 /\ \A i \in p .. hi : Better(s, price, levels[i].price)
      BY <2>2 DEF LocatesBefore
    <3>2. p \in lo + 1 .. hi + 1
      BY <1>0
    <3>3. \A i \in lo + 1 .. p - 1 : Better(s, levels[i].price, price)
      <4> TAKE i \in lo + 1 .. p - 1
      <4>1. CASE i \in mid + 1 + 1 .. p - 1
        BY <3>1, <4>1
      <4>2. CASE i = mid + 1
        BY <1>2, <4>2
      <4>3. CASE i < mid + 1
        <5>1. i \in 1 .. Len(levels)
          BY <1>0, <3>2
        <5>2. Better(s, levels[i].price, m)
          BY <1>0, <4>3, <5>1 DEF Sorted, LevelSorted
        <5> QED BY <1>2, <1>n, <1>m, <5>1, <5>2, BetterIsOrder
      <4> QED BY <1>0, <3>2, <4>1, <4>2, <4>3
    <3>4. LocatesBefore(levels, s, price, lo, hi, r)
      BY <3>1, <3>2, <3>3, Zenon DEF LocatesBefore
    <3> QED BY <1>0, <3>4 DEF Locates
  <2> QED BY <1>0, <1>2, <2>1, <2>2 DEF Locates
<1>3. ASSUME Better(s, price, m), NEW r, Locates(levels, s, price, lo, mid, r)
      PROVE  Locates(levels, s, price, lo, hi, r)
  <2>1. CASE LocatesAt(levels, price, lo, mid, r)
    <3>1. PICK p \in lo + 1 .. mid : r = [found |-> TRUE, pos |-> p] /\ levels[p].price = price
      BY <2>1 DEF LocatesAt
    <3>2. p \in lo + 1 .. hi
      BY <1>0
    <3>3. LocatesAt(levels, price, lo, hi, r)
      BY <3>1, <3>2, Zenon DEF LocatesAt
    <3> QED BY <1>0, <3>3 DEF Locates
  <2>2. CASE LocatesBefore(levels, s, price, lo, mid, r)
    <3>1. PICK p \in lo + 1 .. mid + 1 :
                 /\ r = [found |-> FALSE, pos |-> p]
                 /\ \A i \in lo + 1 .. p - 1 : Better(s, levels[i].price, price)
                 /\ \A i \in p .. mid : Better(s, price, levels[i].price)
      BY <2>2 DEF LocatesBefore
    <3>2. p \in lo + 1 .. hi + 1
      BY <1>0
    <3>3. \A i \in p .. hi : Better(s, price, levels[i].price)
      <4> TAKE i \in p .. hi
      <4>1. CASE i \in p .. mid
        BY <3>1, <4>1
      <4>2. CASE i = mid + 1
        BY <1>3, <4>2
      <4>3. CASE i > mid + 1
        <5>1. i \in 1 .. Len(levels)
          BY <1>0, <3>2
        <5>2. Better(s, m, levels[i].price)
          BY <1>0, <4>3, <5>1 DEF Sorted, LevelSorted
        <5> QED BY <1>3, <1>n, <1>m, <5>1, <5>2, BetterIsOrder
      <4> QED BY <1>0, <3>2, <4>1, <4>2, <4>3
    <3>4. LocatesBefore(levels, s, price, lo, hi, r)
      BY <3>1, <3>2, <3>3, Zenon DEF LocatesBefore
    <3> QED BY <1>0, <3>4 DEF Locates
  <2> QED BY <1>0, <1>3, <2>1, <2>2 DEF Locates
<1>4. m # price => (Better(s, m, price) <=> GoRight(s, m, price)) /\ (Better(s, m, price) \/ Better(s, price, m))
  BY <1>m, BetterIsOrder
<1>5. m = price => Locates(levels, s, price, lo, hi, [found |-> TRUE, pos |-> mid + 1])
  BY <1>0, <1>1 DEF Locates
<1> QED BY <1>2, <1>3, <1>4, <1>5

\* One pass of the search's loop; f answers for the parts it continues in.
Probe(levels, s, price, f, lo, hi) ==
  LET mid == (lo + hi) \div 2
      p   == levels[mid + 1].price
  IN  IF lo >= hi THEN [found |-> FALSE, pos |-> lo + 1]
      ELSE IF p = price THEN [found |-> TRUE, pos |-> mid + 1]
      ELSE IF GoRight(s, p, price) THEN f[<<mid + 1, hi>>]
      ELSE f[<<lo, mid>>]

LEMMA ProbeLocates ==
  ASSUME NEW s, NEW levels, Sorted(s, levels), NEW price \in Int, NEW f,
         NEW lo \in 0 .. Len(levels), NEW hi \in 0 .. Len(levels),
         \A mid \in lo .. hi - 1 : /\ Locates(levels, s, price, mid + 1, hi, f[<<mid + 1, hi>>])
                                   /\ Locates(levels, s, price, lo, mid, f[<<lo, mid>>])
  PROVE  Locates(levels, s, price, lo, hi, Probe(levels, s, price, f, lo, hi))
<1>0. Len(levels) \in Nat
  BY DEF Sorted
<1>1. CASE lo > hi
  BY <1>0, <1>1 DEF Locates, Probe
<1>2. CASE lo = hi
  <2>1. PICK p \in lo + 1 .. hi + 1 : p = lo + 1
    BY <1>0, <1>2
  <2>2. /\ \A i \in lo + 1 .. p - 1 : Better(s, levels[i].price, price)
        /\ \A i \in p .. hi : Better(s, price, levels[i].price)
    BY <1>0, <1>2, <2>1
  <2>3. LocatesBefore(levels, s, price, lo, hi, [found |-> FALSE, pos |-> p])
    BY <2>2, Zenon DEF LocatesBefore
  <2>4. Probe(levels, s, price, f, lo, hi) = [found |-> FALSE, pos |-> p]
    BY <1>0, <1>2, <2>1 DEF Probe
  <2>5. ~ (lo > hi)
    BY <1>0, <1>2
  <2> QED BY <2>3, <2>4, <2>5 DEF Locates
<1>3. CASE lo < hi
  <2>1. PICK mid \in lo .. hi - 1 : mid = (lo + hi) \div 2
    BY <1>0, <1>3
  <2>2. Probe(levels, s, price, f, lo, hi)
          = IF levels[mid + 1].price = price THEN [found |-> TRUE, pos |-> mid + 1]
            ELSE IF GoRight(s, levels[mid + 1].price, price) THEN f[<<mid + 1, hi>>]
            ELSE f[<<lo, mid>>]
    BY <1>0, <1>3, <2>1 DEF Probe
  <2>3. /\ Locates(levels, s, price, mid + 1, hi, f[<<mid + 1, hi>>])
        /\ Locates(levels, s, price, lo, mid, f[<<lo, mid>>])
    OBVIOUS
  <2>4. CASE levels[mid + 1].price = price
    <3>1. Locates(levels, s, price, lo, hi, [found |-> TRUE, pos |-> mid + 1])
      BY <2>4, LocatesStep
    <3> QED BY <2>2, <2>4, <3>1
  <2>5. CASE levels[mid + 1].price # price /\ GoRight(s, levels[mid + 1].price, price)
    <3>1. \A r : Locates(levels, s, price, mid + 1, hi, r) => Locates(levels, s, price, lo, hi, r)
      BY <2>5, LocatesStep
    <3> QED BY <2>2, <2>3, <2>5, <3>1
  <2>6. CASE levels[mid + 1].price # price /\ ~ GoRight(s, levels[mid + 1].price, price)
    <3>1. \A r : Locates(levels, s, price, lo, mid, r) => Locates(levels, s, price, lo, hi, r)
      BY <2>6, LocatesStep
    <3> QED BY <2>2, <2>3, <2>6, <3>1
  <2> QED BY <2>4, <2>5, <2>6
<1> QED BY <1>0, <1>1, <1>2, <1>3

\* The recursion of the binary search has a solution, so the function defined by
\* it satisfies its equation.
LEMMA SearchUnfold ==
  ASSUME NEW s, NEW levels, Sorted(s, levels), NEW price \in Int
  PROVE  \E search :
           /\ BsearchLevels(levels, s, price) = search[<<0, Len(levels)>>]
           /\ \A lo, hi \in 0 .. Len(levels) :
                search[<<lo, hi>>] = Probe(levels, s, price, search, lo, hi)
<1> DEFINE n == Len(levels)
<1> DEFINE Parts == (0 .. n) \X (0 .. n)
<1> DEFINE D(f) == [part \in Parts |-> Probe(levels, s, price, f, part[1], part[2])]
<1> DEFINE search == CHOOSE f : f = D(f)
<1>1. BsearchLevels(levels, s, price) = search[<<0, n>>]
  BY Zenon DEF BsearchLevels, Probe
<1>2. \E f : f = D(f)
  <2> DEFINE g == [part \in Parts |-> CHOOSE r : Locates(levels, s, price, part[1], part[2], r)]
  <2>1. \A lo, hi \in 0 .. n : Locates(levels, s, price, lo, hi, g[<<lo, hi>>])
    <3> TAKE lo, hi \in 0 .. n
    <3>1. <<lo, hi>> \in Parts
      OBVIOUS
    <3>2. g[<<lo, hi>>] = CHOOSE r : Locates(levels, s, price, lo, hi, r)
      BY <3>1
    <3> HIDE DEF g
    <3> QED BY <3>2, LocatesExists
  <2>2. \A lo, hi \in 0 .. n : g[<<lo, hi>>] = Probe(levels, s, price, g, lo, hi)
    <3> TAKE lo, hi \in 0 .. n
    <3> HIDE DEF g
    <3>1. \A mid \in lo .. hi - 1 : mid + 1 \in 0 .. n /\ mid \in 0 .. n
      BY DEF Sorted
    <3>2. Locates(levels, s, price, lo, hi, Probe(levels, s, price, g, lo, hi))
      BY <2>1, <3>1, ProbeLocates
    <3> QED BY <2>1, <3>2, LocatesUnique
  <2>3. \A part \in Parts : g[part] = Probe(levels, s, price, g, part[1], part[2])
    <3> TAKE part \in Parts
    <3>1. part = <<part[1], part[2]>> /\ part[1] \in 0 .. n /\ part[2] \in 0 .. n
      OBVIOUS
    <3> HIDE DEF g
    <3> QED BY <2>2, <3>1
  <2>4. g = [part \in Parts |-> g[part]]
    OBVIOUS
  <2>5. g = D(g)
    <3> HIDE DEF g, Parts
    <3> QED BY <2>3, <2>4
  <2> QED BY <2>5
<1>3. search = D(search)
  BY <1>2
<1>4. \A lo, hi \in 0 .. n : search[<<lo, hi>>] = Probe(levels, s, price, search, lo, hi)
  <2> TAKE lo, hi \in 0 .. n
  <2>1. <<lo, hi>> \in Parts
    OBVIOUS
  <2> HIDE DEF search, Parts
  <2> QED BY <1>3, <2>1
<1> QED BY <1>1, <1>4

\* The binary search finds the level of a price, or where it belongs.
LEMMA BsearchLocates ==
  ASSUME NEW s, NEW levels, Sorted(s, levels), NEW price \in Int
  PROVE  Locates(levels, s, price, 0, Len(levels), BsearchLevels(levels, s, price))
<1>1. PICK search : /\ BsearchLevels(levels, s, price) = search[<<0, Len(levels)>>]
                    /\ \A lo, hi \in 0 .. Len(levels) :
                         search[<<lo, hi>>] = Probe(levels, s, price, search, lo, hi)
  BY SearchUnfold
<1>2. Len(levels) \in Nat
  BY DEF Sorted
<1> DEFINE S == {m \in Nat : \A lo, hi \in 0 .. Len(levels) :
                   hi - lo <= m => Locates(levels, s, price, lo, hi, search[<<lo, hi>>])}
<1>3. 0 \in S
  <2> SUFFICES ASSUME NEW lo \in 0 .. Len(levels), NEW hi \in 0 .. Len(levels), hi - lo <= 0
               PROVE  Locates(levels, s, price, lo, hi, search[<<lo, hi>>])
    OBVIOUS
  <2>1. ~ \E mid \in lo .. hi - 1 : TRUE
    BY <1>2
  <2> QED BY <1>1, <2>1, ProbeLocates
<1>4. ASSUME NEW m \in Nat, m \in S PROVE m + 1 \in S
  <2> SUFFICES ASSUME NEW lo \in 0 .. Len(levels), NEW hi \in 0 .. Len(levels), hi - lo <= m + 1
               PROVE  Locates(levels, s, price, lo, hi, search[<<lo, hi>>])
    OBVIOUS
  <2>1. \A mid \in lo .. hi - 1 : /\ mid + 1 \in 0 .. Len(levels) /\ mid \in 0 .. Len(levels)
                                  /\ hi - (mid + 1) <= m /\ mid - lo <= m
    BY <1>2
  <2>2. \A mid \in lo .. hi - 1 : /\ Locates(levels, s, price, mid + 1, hi, search[<<mid + 1, hi>>])
                                  /\ Locates(levels, s, price, lo, mid, search[<<lo, mid>>])
    BY <1>4, <2>1
  <2>3. Locates(levels, s, price, lo, hi, Probe(levels, s, price, search, lo, hi))
    BY <2>2, ProbeLocates
  <2> QED BY <1>1, <2>3
<1> HIDE DEF S
<1>5. Nat \subseteq S
  BY <1>3, <1>4, NatSetInduction
<1>6. Len(levels) \in S /\ 0 \in 0 .. Len(levels) /\ Len(levels) \in 0 .. Len(levels)
      /\ Len(levels) - 0 <= Len(levels)
  BY <1>2, <1>5
<1> QED BY <1>1, <1>6 DEF S

-----------------------------------------------------------------------------
(* One queue of orders: what it holds, and who is before whom.             *)

In(q, a) == \E j \in DOMAIN q : q[j] = a

Before(q, a, b) == \E x, y \in DOMAIN q : x < y /\ q[x] = a /\ q[y] = b

Once(q) == \A j, k \in DOMAIN q : q[j] = q[k] /\ IsLive(q[j]) => j = k

\* The queue r has the live orders of q in the order of q.
KeepsQueue(q, r) ==
  /\ r \in Seq(Nat)
  /\ \A a : IsLive(a) => (In(r, a) <=> In(q, a))
  /\ \A a, b : IsLive(a) /\ IsLive(b) => (Before(r, a, b) <=> Before(q, a, b))
  /\ Once(q) => Once(r)

LEMMA CompactsKeeps ==
  ASSUME NEW q \in Seq(Nat), NEW r, NEW at, Compacts(q, r, Len(q), at)
  PROVE  KeepsQueue(q, r)
<1>1. /\ r \in Seq(Nat) /\ Len(q) \in Nat /\ Len(r) \in Nat
      /\ DOMAIN q = 1 .. Len(q) /\ DOMAIN r = 1 .. Len(r)
      /\ \A j \in DOMAIN r : at[j] \in DOMAIN q /\ at[j] \in Int
      /\ \A j \in DOMAIN r : r[j] = q[at[j]] /\ IsLive(r[j])
      /\ \A j, k \in DOMAIN r : j < k => at[j] < at[k]
      /\ \A i \in DOMAIN q : IsLive(q[i]) => \E j \in DOMAIN r : at[j] = i
  <2>1. /\ r \in Seq(Nat) /\ Len(q) \in Nat /\ Len(r) \in Nat
        /\ DOMAIN q = 1 .. Len(q) /\ DOMAIN r = 1 .. Len(r)
    BY DEF Compacts
  <2>2. /\ at \in [1 .. Len(r) -> 1 .. Len(q)]
        /\ \A j \in 1 .. Len(r) : r[j] = q[at[j]] /\ IsLive(r[j])
        /\ \A j, k \in 1 .. Len(r) : j < k => at[j] < at[k]
        /\ \A i \in 1 .. Len(q) : IsLive(q[i]) => \E j \in 1 .. Len(r) : at[j] = i
    BY Zenon DEF Compacts
  <2>3. \A j \in 1 .. Len(r) : at[j] \in 1 .. Len(q) /\ at[j] \in Int
    BY <2>1, <2>2
  <2> QED BY <2>1, <2>2, <2>3
<1>2. ASSUME NEW a, IsLive(a) PROVE In(r, a) <=> In(q, a)
  <2>1. ASSUME In(r, a) PROVE In(q, a)
    <3>1. PICK j \in DOMAIN r : r[j] = a
      BY <2>1 DEF In
    <3>2. at[j] \in DOMAIN q /\ q[at[j]] = a
      BY <1>1, <3>1
    <3> QED BY <3>2 DEF In
  <2>2. ASSUME In(q, a) PROVE In(r, a)
    <3>1. PICK i \in DOMAIN q : q[i] = a
      BY <2>2 DEF In
    <3>2. PICK j \in DOMAIN r : at[j] = i
      BY <1>1, <1>2, <3>1
    <3>3. r[j] = a
      BY <1>1, <3>1, <3>2
    <3> QED BY <3>3 DEF In
  <2> QED BY <2>1, <2>2
<1>3. ASSUME NEW a, NEW b, IsLive(a), IsLive(b) PROVE Before(r, a, b) <=> Before(q, a, b)
  <2>1. ASSUME Before(r, a, b) PROVE Before(q, a, b)
    <3>1. PICK x \in DOMAIN r, y \in DOMAIN r : x < y /\ r[x] = a /\ r[y] = b
      BY <2>1 DEF Before
    <3>2. at[x] \in DOMAIN q /\ at[y] \in DOMAIN q /\ at[x] < at[y] /\ q[at[x]] = a /\ q[at[y]] = b
      BY <1>1, <3>1
    <3> QED BY <3>2 DEF Before
  <2>2. ASSUME Before(q, a, b) PROVE Before(r, a, b)
    <3>1. PICK i \in DOMAIN q, k \in DOMAIN q : i < k /\ q[i] = a /\ q[k] = b
      BY <2>2 DEF Before
    <3>2. PICK x \in DOMAIN r : at[x] = i
      BY <1>1, <1>3, <3>1
    <3>3. PICK y \in DOMAIN r : at[y] = k
      BY <1>1, <1>3, <3>1
    <3>4. r[x] = a /\ r[y] = b
      BY <1>1, <3>1, <3>2, <3>3
    <3>5. x \in Int /\ y \in Int /\ i \in Int /\ k \in Int
      BY <1>1
    <3>6. ~ (y < x)
      <4> SUFFICES ASSUME y < x PROVE FALSE
        OBVIOUS
      <4>1. k < i
        BY <1>1, <3>2, <3>3
      <4> QED BY <3>1, <3>5, <4>1
    <3>7. x # y
      BY <3>1, <3>2, <3>3, <3>5
    <3>8. x < y
      BY <3>5, <3>6, <3>7
    <3> QED BY <3>4, <3>8 DEF Before
  <2> QED BY <2>1, <2>2
<1>4. ASSUME Once(q) PROVE Once(r)
  <2> SUFFICES ASSUME NEW j \in DOMAIN r, NEW k \in DOMAIN r, r[j] = r[k] PROVE j = k
    BY DEF Once
  <2>1. at[j] = at[k]
    BY <1>1, <1>4 DEF Once
  <2>2. ~ (j < k) /\ ~ (k < j) /\ j \in Int /\ k \in Int
    BY <1>1, <2>1
  <2> QED BY <2>2
<1> QED BY <1>1, <1>2, <1>3, <1>4 DEF KeepsQueue

LEMMA RoomAtKeeps ==
  ASSUME NEW level \in Level
  PROVE  KeepsQueue(level.orders, RoomAt(level))
<1>0. level.orders \in Seq(Nat)
  BY DEF Level
<1>1. KeepsQueue(level.orders, level.orders)
  BY <1>0 DEF KeepsQueue
<1>2. KeepsQueue(level.orders, LiveIds(level.orders))
  BY <1>0, LiveIdsCompacts, CompactsKeeps
<1> QED BY <1>1, <1>2 DEF RoomAt

LEMMA AppendQueue ==
  ASSUME NEW q \in Seq(Nat), NEW id \in Nat
  PROVE  /\ Append(q, id) \in Seq(Nat)
         /\ \A a : In(Append(q, id), a) <=> In(q, a) \/ a = id
         /\ \A a, b : Before(Append(q, id), a, b) <=> Before(q, a, b) \/ (In(q, a) /\ b = id)
         /\ Once(q) /\ ~ In(q, id) => Once(Append(q, id))
<1> DEFINE r == Append(q, id)
<1> DEFINE n == Len(q)
<1>1. /\ r \in Seq(Nat) /\ n \in Nat /\ Len(r) = n + 1
      /\ DOMAIN q = 1 .. n /\ DOMAIN r = 1 .. n + 1
      /\ r[n + 1] = id /\ \A j \in 1 .. n : r[j] = q[j]
  OBVIOUS
<1> HIDE DEF r, n
<1>2. \A j \in DOMAIN r : j \in DOMAIN q \/ j = n + 1
  BY <1>1
<1>3. n + 1 \in DOMAIN r /\ \A j \in DOMAIN q : j \in DOMAIN r /\ r[j] = q[j] /\ j < n + 1
  BY <1>1
<1>4. \A a : In(r, a) <=> In(q, a) \/ a = id
  BY <1>1, <1>2, <1>3 DEF In
<1>5. ASSUME NEW a, NEW b PROVE Before(r, a, b) <=> Before(q, a, b) \/ (In(q, a) /\ b = id)
  <2>1. ASSUME Before(r, a, b) PROVE Before(q, a, b) \/ (In(q, a) /\ b = id)
    <3>1. PICK x \in DOMAIN r, y \in DOMAIN r : x < y /\ r[x] = a /\ r[y] = b
      BY <2>1 DEF Before
    <3>2. x \in DOMAIN q
      BY <1>1, <3>1
    <3>3. CASE y \in DOMAIN q
      BY <1>3, <3>1, <3>2, <3>3 DEF Before
    <3>4. CASE y = n + 1
      BY <1>1, <1>3, <3>1, <3>2, <3>4 DEF In
    <3> QED BY <1>2, <3>3, <3>4
  <2>2. ASSUME Before(q, a, b) PROVE Before(r, a, b)
    BY <1>3, <2>2 DEF Before
  <2>3. ASSUME In(q, a), b = id PROVE Before(r, a, b)
    BY <1>1, <1>3, <2>3 DEF Before, In
  <2> QED BY <2>1, <2>2, <2>3
<1>6. ASSUME Once(q), ~ In(q, id) PROVE Once(r)
  <2> SUFFICES ASSUME NEW j \in DOMAIN r, NEW k \in DOMAIN r, r[j] = r[k], IsLive(r[j]) PROVE j = k
    BY DEF Once
  <2>1. CASE j \in DOMAIN q /\ k \in DOMAIN q
    BY <1>3, <1>6, <2>1 DEF Once
  <2>2. CASE j = n + 1 \/ k = n + 1
    BY <1>1, <1>2, <1>3, <1>6, <2>2 DEF In
  <2> QED BY <1>2, <2>1, <2>2
<1> QED BY <1>1, <1>4, <1>5, <1>6 DEF r

IsSuffix(q, i, r) == r = SubSeq(q, i + 1, Len(q))

LEMMA SubSeqFrom ==
  ASSUME NEW S, NEW s \in Seq(S), NEW h \in Nat, NEW n \in Nat, NEW j \in 1 .. n - h
  PROVE  SubSeq(s, h + 1, n)[j] = s[j + h]
<1>1. PICK m \in Nat : m = h + 1
  OBVIOUS
<1>2. j \in 1 .. (1 + n) - m /\ (j + m) - 1 = j + h
  BY <1>1
<1> QED BY <1>1, <1>2

\* Taking the first live order out, and the tombstones in front of it.
LEMMA RestOfQueue ==
  ASSUME NEW q \in Seq(Nat), Once(q), NEW head \in DOMAIN q, IsLive(q[head]),
         \A j \in DOMAIN q : j < head => ~ IsLive(q[j]),
         NEW r, IsSuffix(q, head, r)
  PROVE  /\ r \in Seq(Nat) /\ Len(r) < Len(q)
         /\ \A a : IsLive(a) => (In(r, a) <=> In(q, a) /\ a # q[head])
         /\ \A a, b : IsLive(a) /\ IsLive(b) => (Before(r, a, b) <=> Before(q, a, b) /\ a # q[head])
         /\ \A a : IsLive(a) => ~ Before(q, a, q[head])
         /\ Once(r)
<1>1. /\ Len(q) \in Nat /\ DOMAIN q = 1 .. Len(q) /\ head \in 1 .. Len(q)
      /\ r \in Seq(Nat) /\ Len(r) = Len(q) - head /\ DOMAIN r = 1 .. Len(q) - head
      /\ \A j \in DOMAIN r : j \in Int /\ j + head \in DOMAIN q /\ r[j] = q[j + head]
  <2>1. Len(q) \in Nat /\ DOMAIN q = 1 .. Len(q) /\ head \in 1 .. Len(q)
    OBVIOUS
  <2>2. r \in Seq(Nat) /\ Len(r) = Len(q) - head
    BY <2>1 DEF IsSuffix
  <2>3. DOMAIN r = 1 .. Len(q) - head
    BY <2>2
  <2>4. \A j \in 1 .. Len(q) - head : r[j] = q[j + head]
    <3>1. PICK n \in Nat : n = Len(q)
      BY <2>1
    <3>2. PICK m \in Nat : m = head + 1 /\ m >= 1
      BY <2>1
    <3>3. r = SubSeq(q, m, n)
      BY <3>1, <3>2 DEF IsSuffix
    <3> SUFFICES ASSUME NEW j \in 1 .. n - head PROVE r[j] = q[j + head]
      BY <3>1
    <3>4. \A S, h : q \in Seq(S) /\ h \in Nat /\ j \in 1 .. n - h => SubSeq(q, h + 1, n)[j] = q[j + h]
      BY SubSeqFrom
    <3> QED BY <2>1, <3>2, <3>3, <3>4
  <2>5. \A j \in 1 .. Len(q) - head : j \in Int /\ j + head \in 1 .. Len(q)
    BY <2>1
  <2> QED BY <2>1, <2>2, <2>3, <2>4, <2>5
<1>2. \A k \in DOMAIN q : k > head => k - head \in DOMAIN r /\ r[k - head] = q[k]
  <2> TAKE k \in DOMAIN q
  <2> HAVE k > head
  <2>1. PICK n \in Nat : n = Len(q)
    BY <1>1
  <2>2. k \in 1 .. n /\ head \in Nat /\ DOMAIN r = 1 .. n - head
    BY <1>1, <2>1
  <2>3. k - head \in 1 .. n - head /\ (k - head) + head = k
    BY <2>2
  <2> QED BY <1>1, <2>2, <2>3
<1>a. \A i, k \in Int : (i < k => i + head < k + head) /\ (i > 0 => i + head # head)
  <2>1. head \in Int
    BY <1>1
  <2> QED BY <2>1
<1>3. \A k \in DOMAIN q : IsLive(q[k]) => (k > head \/ k = head) /\ k \in Int
  BY <1>1
<1>4. \A k \in DOMAIN q : q[k] = q[head] => k = head
  BY DEF Once
<1>5. ASSUME NEW a, IsLive(a) PROVE In(r, a) <=> In(q, a) /\ a # q[head]
  <2>1. ASSUME In(r, a) PROVE In(q, a) /\ a # q[head]
    <3>1. PICK j \in DOMAIN r : r[j] = a
      BY <2>1 DEF In
    <3>2. j + head \in DOMAIN q /\ q[j + head] = a /\ j + head # head
      BY <1>1, <3>1
    <3> QED BY <1>4, <3>2 DEF In
  <2>2. ASSUME In(q, a), a # q[head] PROVE In(r, a)
    <3>1. PICK k \in DOMAIN q : q[k] = a
      BY <2>2 DEF In
    <3> QED BY <1>2, <1>3, <1>5, <2>2, <3>1 DEF In
  <2> QED BY <2>1, <2>2
<1>6. ASSUME NEW a, IsLive(a) PROVE ~ Before(q, a, q[head])
  <2> SUFFICES ASSUME NEW x \in DOMAIN q, NEW y \in DOMAIN q, x < y, q[x] = a, q[y] = q[head]
               PROVE  FALSE
    BY DEF Before
  <2>1. y = head
    BY <1>4
  <2> QED BY <1>6, <2>1
<1>7. ASSUME NEW a, NEW b, IsLive(a), IsLive(b)
      PROVE  Before(r, a, b) <=> Before(q, a, b) /\ a # q[head]
  <2>1. ASSUME Before(r, a, b) PROVE Before(q, a, b) /\ a # q[head]
    <3>1. PICK x \in DOMAIN r, y \in DOMAIN r : x < y /\ r[x] = a /\ r[y] = b
      BY <2>1 DEF Before
    <3>0. x \in Int /\ y \in Int /\ x > 0 /\ head \in Int
      BY <1>1
    <3>2. /\ x + head \in DOMAIN q /\ y + head \in DOMAIN q
          /\ q[x + head] = a /\ q[y + head] = b
      BY <1>1, <3>1
    <3>3. x + head < y + head /\ x + head # head
      BY <1>a, <3>0, <3>1
    <3> QED BY <1>4, <3>2, <3>3 DEF Before
  <2>2. ASSUME Before(q, a, b), a # q[head] PROVE Before(r, a, b)
    <3>1. PICK x \in DOMAIN q, y \in DOMAIN q : x < y /\ q[x] = a /\ q[y] = b
      BY <2>2 DEF Before
    <3>2. x > head /\ y > head
      BY <1>1, <1>3, <1>7, <2>2, <3>1
    <3>3. x - head \in DOMAIN r /\ r[x - head] = a /\ y - head \in DOMAIN r /\ r[y - head] = b
      BY <1>2, <3>1, <3>2
    <3>4. x - head < y - head
      BY <1>1, <3>1
    <3> QED BY <3>3, <3>4 DEF Before
  <2> QED BY <2>1, <2>2
<1>8. Once(r)
  <2> SUFFICES ASSUME NEW j \in DOMAIN r, NEW k \in DOMAIN r, r[j] = r[k], IsLive(r[j]) PROVE j = k
    BY DEF Once
  <2>1. j + head = k + head
    BY <1>1 DEF Once
  <2> QED BY <1>1, <2>1
<1>9. Len(r) < Len(q)
  BY <1>1
<1> QED BY <1>1, <1>5, <1>6, <1>7, <1>8, <1>9

\* Writing tombstones over an order.
LEMMA BuriedQueue ==
  ASSUME NEW q \in Seq(Nat), Once(q), NEW id \in Nat, IsLive(id), NEW r,
         r = [j \in DOMAIN q |-> IF q[j] = id THEN Tombstone ELSE q[j]]
  PROVE  /\ r \in Seq(Nat) /\ Len(r) = Len(q)
         /\ \A a : IsLive(a) => (In(r, a) <=> In(q, a) /\ a # id)
         /\ \A a, b : IsLive(a) /\ IsLive(b) =>
              (Before(r, a, b) <=> Before(q, a, b) /\ a # id /\ b # id)
         /\ Once(r)
<1>0. Len(q) \in Nat /\ DOMAIN q = 1 .. Len(q) /\ \A j \in 1 .. Len(q) : q[j] \in Nat
  OBVIOUS
<1>1. r \in [1 .. Len(q) -> Nat]
  BY <1>0 DEF Tombstone
<1>2. r \in Seq(Nat) /\ Len(r) = Len(q)
  BY <1>0, <1>1
<1>3. /\ DOMAIN r = DOMAIN q
      /\ \A j \in DOMAIN q : IsLive(r[j]) => r[j] = q[j] /\ q[j] # id
      /\ \A j \in DOMAIN q : q[j] # id => r[j] = q[j]
      /\ \A j \in DOMAIN q : r[j] # id
  BY DEF IsLive
<1>4. \A a : IsLive(a) => (In(r, a) <=> In(q, a) /\ a # id)
  BY <1>3 DEF In
<1>5. \A a, b : IsLive(a) /\ IsLive(b) =>
        (Before(r, a, b) <=> Before(q, a, b) /\ a # id /\ b # id)
  BY <1>3 DEF Before
<1>6. Once(r)
  BY <1>3 DEF Once
<1> QED BY <1>2, <1>4, <1>5, <1>6

-----------------------------------------------------------------------------
(* The array as a set of levels, one per price.                            *)

LevelsOf(levels) == {levels[i] : i \in DOMAIN levels}

LEMMA RestingByLevel ==
  ASSUME NEW levels
  PROVE  \A a : a \in Resting(levels) <=> IsLive(a) /\ \E l \in LevelsOf(levels) : In(l.orders, a)
<1> TAKE a
<1> DEFINE Ids(i) == {levels[i].orders[j] : j \in DOMAIN levels[i].orders}
<1>0. Resting(levels) = (UNION {Ids(i) : i \in DOMAIN levels}) \ {Tombstone}
  BY DEF Resting
<1>2. \A i : a \in Ids(i) <=> In(levels[i].orders, a)
  BY DEF In
<1> HIDE DEF Ids
<1>1. a \in Resting(levels) <=> IsLive(a) /\ \E i \in DOMAIN levels : a \in Ids(i)
  BY <1>0 DEF IsLive
<1>3. (\E l \in LevelsOf(levels) : In(l.orders, a)) <=> \E i \in DOMAIN levels : In(levels[i].orders, a)
  BY DEF LevelsOf
<1> QED BY <1>1, <1>2, <1>3

LEMMA AheadByLevel ==
  ASSUME NEW levels
  PROVE  \A a, b : Ahead(levels, a, b) <=> \E l \in LevelsOf(levels) : Before(l.orders, a, b)
  BY DEF Ahead, LevelsOf, Before

LEMMA OneLevelPerPrice ==
  ASSUME NEW s, NEW levels, Sorted(s, levels)
  PROVE  /\ \A l \in LevelsOf(levels) : l \in Level /\ l.price \in Int
         /\ \A l, m \in LevelsOf(levels) : l.price = m.price => l = m
<1>1. Len(levels) \in Nat /\ DOMAIN levels = 1 .. Len(levels) /\ levels \in Seq(Level)
  BY DEF Sorted
<1>2. \A i \in 1 .. Len(levels) : levels[i] \in Level /\ levels[i].price \in Int
  BY <1>1, PricesAreNumbers
<1>3. ASSUME NEW i \in 1 .. Len(levels), NEW k \in 1 .. Len(levels), levels[i].price = levels[k].price
      PROVE  i = k
  <2>1. ~ (i < k) /\ ~ (k < i)
    BY <1>1, <1>2, <1>3, BetterIsOrder DEF Sorted, LevelSorted
  <2> QED BY <1>1, <2>1
<1> QED BY <1>1, <1>2, <1>3 DEF LevelsOf

LEMMA ConcatFacts ==
  ASSUME NEW S, NEW a \in Seq(S), NEW c \in Seq(S)
  PROVE  /\ a \o c \in Seq(S) /\ Len(a \o c) = Len(a) + Len(c)
         /\ \A i \in 1 .. Len(a) : (a \o c)[i] = a[i]
         /\ \A i \in 1 .. Len(c) : (a \o c)[Len(a) + i] = c[i]
  OBVIOUS

LEMMA SuffixFacts ==
  ASSUME NEW S, NEW q \in Seq(S), NEW i \in 1 .. Len(q)
  PROVE  /\ SubSeq(q, i + 1, Len(q)) \in Seq(S)
         /\ Len(SubSeq(q, i + 1, Len(q))) = Len(q) - i
         /\ DOMAIN SubSeq(q, i + 1, Len(q)) = 1 .. Len(q) - i
         /\ \A k \in 1 .. Len(q) - i : SubSeq(q, i + 1, Len(q))[k] = q[k + i]
<1>0. Len(q) \in Nat
  OBVIOUS
<1>1. Len(SubSeq(q, i + 1, Len(q))) = Len(q) - i
  BY <1>0
<1>2. SubSeq(q, i + 1, Len(q)) \in Seq(S)
  OBVIOUS
<1>3. DOMAIN SubSeq(q, i + 1, Len(q)) = 1 .. Len(q) - i
  BY <1>1, <1>2
<1>4. ASSUME NEW k \in 1 .. Len(q) - i PROVE SubSeq(q, i + 1, Len(q))[k] = q[k + i]
  BY <1>0
<1> QED BY <1>1, <1>2, <1>3, <1>4

\* A level put in between those with better and those with worse prices.
IsSplice(levels, p, level, more) ==
  more = SubSeq(levels, 1, p - 1) \o <<level>> \o SubSeq(levels, p, Len(levels))

LEMMA Spliced ==
  ASSUME NEW s, NEW levels, Sorted(s, levels), NEW level \in Level, NEW p \in 1 .. Len(levels) + 1,
         \A i \in 1 .. p - 1 : Better(s, levels[i].price, level.price),
         \A i \in p .. Len(levels) : Better(s, level.price, levels[i].price),
         NEW more, IsSplice(levels, p, level, more)
  PROVE  /\ Sorted(s, more)
         /\ Len(more) = Len(levels) + 1
         /\ LevelsOf(more) = LevelsOf(levels) \union {level}
         /\ \A l \in LevelsOf(levels) : l.price # level.price
<1> DEFINE n == Len(levels)
<1>1. n \in Nat /\ DOMAIN levels = 1 .. n /\ levels \in Seq(Level) /\ p \in 1 .. n + 1
  BY DEF Sorted
<1>2. /\ more \in Seq(Level) /\ Len(more) = n + 1 /\ DOMAIN more = 1 .. n + 1
      /\ \A i \in 1 .. p - 1 : more[i] = levels[i]
      /\ more[p] = level
      /\ \A i \in p + 1 .. n + 1 : more[i] = levels[i - 1]
  <2> DEFINE a == SubSeq(levels, 1, p - 1)
  <2> DEFINE c == SubSeq(levels, p, n)
  <2>1. a \in Seq(Level) /\ Len(a) = p - 1 /\ \A i \in 1 .. p - 1 : a[i] = levels[i]
    BY <1>1
  <2>2. c \in Seq(Level) /\ Len(c) = n + 1 - p /\ \A i \in 1 .. n + 1 - p : c[i] = levels[p + i - 1]
    BY <1>1
  <2>3. more = a \o <<level>> \o c
    BY DEF IsSplice
  <2> HIDE DEF a, c
  <2> DEFINE d == a \o <<level>>
  <2>4. /\ d \in Seq(Level) /\ Len(d) = p /\ d[p] = level
        /\ \A i \in 1 .. p - 1 : d[i] = a[i]
    BY <1>1, <2>1
  <2> HIDE DEF d
  <2>5. /\ more \in Seq(Level) /\ Len(more) = n + 1
        /\ \A i \in 1 .. p : more[i] = d[i]
        /\ \A i \in 1 .. n + 1 - p : more[p + i] = c[i]
    <3>1. more = d \o c
      BY <2>3 DEF d
    <3>2. p + (n + 1 - p) = n + 1
      BY <1>1
    <3>3. /\ d \o c \in Seq(Level) /\ Len(d \o c) = Len(d) + Len(c)
          /\ \A i \in 1 .. Len(d) : (d \o c)[i] = d[i]
          /\ \A i \in 1 .. Len(c) : (d \o c)[Len(d) + i] = c[i]
      BY <2>2, <2>4, ConcatFacts
    <3> QED BY <2>2, <2>4, <3>1, <3>2, <3>3, Zenon
  <2>6. \A i \in p + 1 .. n + 1 : more[i] = levels[i - 1]
    <3> TAKE i \in p + 1 .. n + 1
    <3>1. i - p \in 1 .. n + 1 - p /\ p + (i - p) = i /\ p + (i - p) - 1 = i - 1
      BY <1>1
    <3>2. more[p + (i - p)] = c[i - p]
      BY <2>5, <3>1
    <3> QED BY <2>2, <3>1, <3>2
  <2>7. DOMAIN more = 1 .. n + 1
    <3>1. DOMAIN more = 1 .. Len(more)
      BY <2>5
    <3> QED BY <2>5, <3>1
  <2>8. \A i \in 1 .. p - 1 : i \in 1 .. p
    BY <1>1
  <2>9. p \in 1 .. p
    BY <1>1
  <2>10. \A i \in 1 .. p - 1 : more[i] = levels[i]
    BY <2>1, <2>4, <2>5, <2>8
  <2> QED BY <2>4, <2>5, <2>6, <2>7, <2>9, <2>10
<1>3. \A i \in 1 .. n + 1 : i \in 1 .. p - 1 \/ i = p \/ i \in p + 1 .. n + 1
  BY <1>1
<1>4. \A i \in 1 .. n : (i \in 1 .. p - 1 \/ i + 1 \in p + 1 .. n + 1) /\ (i + 1) - 1 = i
  BY <1>1
<1>5. /\ \A i \in 1 .. p - 1 : i \in 1 .. n /\ i \in 1 .. n + 1
      /\ \A i \in p + 1 .. n + 1 : i - 1 \in 1 .. n /\ i \in 1 .. n + 1 /\ i - 1 \in p .. n
      /\ p \in 1 .. n + 1
  BY <1>1
<1>6. LevelsOf(more) = LevelsOf(levels) \union {level}
  <2>1. \A i \in 1 .. n + 1 : more[i] \in LevelsOf(levels) \union {level}
    BY <1>1, <1>2, <1>3, <1>5 DEF LevelsOf
  <2>2. \A i \in 1 .. n : \E k \in 1 .. n + 1 : more[k] = levels[i]
    BY <1>2, <1>4, <1>5
  <2>3. level \in LevelsOf(more)
    BY <1>2, <1>5 DEF LevelsOf
  <2>4. \A i \in 1 .. n : levels[i] \in LevelsOf(more)
    BY <1>2, <2>2 DEF LevelsOf
  <2> QED BY <1>1, <1>2, <2>1, <2>3, <2>4 DEF LevelsOf
<1>7. LevelSorted(s, more)
  <2> SUFFICES ASSUME NEW i \in 1 .. n + 1, NEW k \in 1 .. n + 1, i < k
               PROVE  Better(s, more[i].price, more[k].price)
    BY <1>2 DEF LevelSorted
  <2>0. \A x, y \in 1 .. n : x < y => Better(s, levels[x].price, levels[y].price)
    BY <1>1 DEF Sorted, LevelSorted
  <2>1. CASE i \in 1 .. p - 1 /\ k \in 1 .. p - 1
    BY <1>2, <1>5, <2>0, <2>1
  <2>2. CASE i \in 1 .. p - 1 /\ k = p
    BY <1>2, <2>2
  <2>3. CASE i \in 1 .. p - 1 /\ k \in p + 1 .. n + 1
    <3>1. i \in 1 .. n /\ k - 1 \in 1 .. n /\ i < k - 1
      BY <1>1, <2>3
    <3> QED BY <1>2, <2>0, <2>3, <3>1
  <2>4. CASE i = p /\ k \in p + 1 .. n + 1
    BY <1>2, <1>5, <2>4
  <2>5. CASE i \in p + 1 .. n + 1 /\ k \in p + 1 .. n + 1
    <3>1. i - 1 \in 1 .. n /\ k - 1 \in 1 .. n /\ i - 1 < k - 1
      BY <1>1, <2>5
    <3> QED BY <1>2, <2>0, <2>5, <3>1
  <2>6. ~ (i = p /\ k \in 1 .. p) /\ ~ (i \in p + 1 .. n + 1 /\ k \in 1 .. p)
    BY <1>1
  <2>7. k \in 1 .. p - 1 => k \in 1 .. p
    BY <1>1
  <2>8. p \in 1 .. p
    BY <1>1
  <2> QED BY <1>3, <2>1, <2>2, <2>3, <2>4, <2>5, <2>6, <2>7, <2>8
<1>8. \A l \in LevelsOf(levels) : l.price # level.price
  <2> SUFFICES ASSUME NEW i \in 1 .. n, levels[i].price = level.price PROVE FALSE
    BY <1>1 DEF LevelsOf
  <2>1. levels[i].price \in Int
    BY <1>1, PricesAreNumbers
  <2>2. i \in 1 .. p - 1 \/ i \in p .. n
    BY <1>1
  <2> QED BY <2>1, <2>2, BetterIsOrder
<1> QED BY <1>2, <1>6, <1>7, <1>8 DEF Sorted

\* A level replaced by one with the same price.
IsReplacement(levels, p, level, more) == more = [levels EXCEPT ![p] = level]

LEMMA Replaced ==
  ASSUME NEW s, NEW levels, Sorted(s, levels), NEW level \in Level, NEW p \in 1 .. Len(levels),
         levels[p].price = level.price, NEW more, IsReplacement(levels, p, level, more)
  PROVE  /\ Sorted(s, more)
         /\ Len(more) = Len(levels)
         /\ LevelsOf(more) = (LevelsOf(levels) \ {levels[p]}) \union {level}
<1> DEFINE n == Len(levels)
<1>1. n \in Nat /\ DOMAIN levels = 1 .. n /\ levels \in Seq(Level) /\ p \in 1 .. n
  BY DEF Sorted
<1>2. /\ more \in Seq(Level) /\ Len(more) = n /\ DOMAIN more = 1 .. n
      /\ more[p] = level /\ \A i \in 1 .. n : i # p => more[i] = levels[i]
  BY <1>1 DEF IsReplacement
<1>3. \A i \in 1 .. n : more[i].price = levels[i].price
  BY <1>2
<1>4. LevelSorted(s, more)
  BY <1>1, <1>2, <1>3 DEF Sorted, LevelSorted
<1>5. \A i \in 1 .. n : i # p => levels[i] # levels[p]
  <2> SUFFICES ASSUME NEW i \in 1 .. n, i # p, levels[i].price = levels[p].price PROVE FALSE
    OBVIOUS
  <2>1. levels[p].price \in Int /\ (i < p \/ p < i)
    BY <1>1, PricesAreNumbers
  <2> QED BY <1>1, <2>1, BetterIsOrder DEF Sorted, LevelSorted
<1>6. LevelsOf(more) = (LevelsOf(levels) \ {levels[p]}) \union {level}
  <2>1. \A i \in 1 .. n : more[i] \in (LevelsOf(levels) \ {levels[p]}) \union {level}
    BY <1>1, <1>2, <1>5 DEF LevelsOf
  <2>2. level \in LevelsOf(more) /\ \A i \in 1 .. n : i # p => levels[i] \in LevelsOf(more)
    BY <1>2 DEF LevelsOf
  <2> QED BY <1>1, <1>2, <2>1, <2>2 DEF LevelsOf
<1> QED BY <1>2, <1>4, <1>6 DEF Sorted

\* The levels behind one of them.
LEMMA Suffix ==
  ASSUME NEW s, NEW levels, Sorted(s, levels), NEW i \in 1 .. Len(levels),
         NEW tail, IsSuffix(levels, i, tail)
  PROVE  /\ Sorted(s, tail)
         /\ Len(tail) < Len(levels)
         /\ LevelsOf(tail) = {l \in LevelsOf(levels) : Better(s, levels[i].price, l.price)}
         /\ \A k \in 1 .. Len(tail) : Better(s, levels[i].price, tail[k].price)
<1> DEFINE n == Len(levels)
<1>1. n \in Nat /\ DOMAIN levels = 1 .. n /\ levels \in Seq(Level) /\ i \in 1 .. n
  BY DEF Sorted
<1>2. tail \in Seq(Level) /\ Len(tail) = n - i /\ DOMAIN tail = 1 .. n - i
  BY <1>1, SuffixFacts DEF IsSuffix
<1>3. \A k \in 1 .. n - i : tail[k] = levels[k + i]
  BY <1>1, SuffixFacts DEF IsSuffix
<1>4. /\ \A k \in 1 .. n - i : k + i \in 1 .. n /\ i < k + i
      /\ \A j, k \in 1 .. n - i : j < k => j + i < k + i
      /\ \A k \in 1 .. n : i < k => k - i \in 1 .. n - i /\ (k - i) + i = k
  BY <1>1
<1>5. \A x, y \in 1 .. n : x < y => Better(s, levels[x].price, levels[y].price)
  BY <1>1 DEF Sorted, LevelSorted
<1>6. LevelSorted(s, tail)
  <2> SUFFICES ASSUME NEW j \in 1 .. n - i, NEW k \in 1 .. n - i, j < k
               PROVE  Better(s, tail[j].price, tail[k].price)
    BY <1>2 DEF LevelSorted
  <2>1. j + i \in 1 .. n /\ k + i \in 1 .. n /\ j + i < k + i
    BY <1>4
  <2> QED BY <1>3, <1>5, <2>1
<1>7. \A k \in 1 .. n - i : Better(s, levels[i].price, tail[k].price)
  BY <1>1, <1>3, <1>4, <1>5
<1>8. \A k \in 1 .. n : Better(s, levels[i].price, levels[k].price) => i < k
  <2> SUFFICES ASSUME NEW k \in 1 .. n, Better(s, levels[i].price, levels[k].price), k = i \/ k < i
               PROVE  FALSE
    BY <1>1
  <2>1. levels[i].price \in Int /\ levels[k].price \in Int
    BY <1>1, PricesAreNumbers
  <2>2. k = i \/ Better(s, levels[k].price, levels[i].price)
    BY <1>1, <1>5
  <2> QED BY <2>1, <2>2, BetterIsOrder
<1>9. LevelsOf(tail) = {l \in LevelsOf(levels) : Better(s, levels[i].price, l.price)}
  <2>1. \A k \in 1 .. n - i : /\ tail[k] \in LevelsOf(levels)
                              /\ Better(s, levels[i].price, tail[k].price)
    <3> TAKE k \in 1 .. n - i
    <3>1. k + i \in 1 .. n /\ tail[k] = levels[k + i]
      BY <1>3, <1>4
    <3> QED BY <1>1, <1>7, <3>1 DEF LevelsOf
  <2>2. \A k \in 1 .. n : Better(s, levels[i].price, levels[k].price) => levels[k] \in LevelsOf(tail)
    <3> TAKE k \in 1 .. n
    <3> HAVE Better(s, levels[i].price, levels[k].price)
    <3>1. k - i \in 1 .. n - i /\ (k - i) + i = k
      BY <1>4, <1>8
    <3>2. tail[k - i] = levels[k]
      BY <1>3, <3>1
    <3> QED BY <1>2, <3>1, <3>2 DEF LevelsOf
  <2> QED BY <1>1, <1>2, <2>1, <2>2 DEF LevelsOf
<1>10. Len(tail) < n
  <2>1. n - i < n
    BY <1>1
  <2> QED BY <1>2, <2>1
<1> QED BY <1>2, <1>6, <1>7, <1>9, <1>10 DEF Sorted

-----------------------------------------------------------------------------
(* What the operations do to the orders of an array.                       *)

\* A level of that side: within its array, its orders at their own price, each
\* of them once.
LevelSound(orders, s, level) ==
  /\ Len(level.orders) \in 1 .. OrdersPerLevel
  /\ \A a : IsLive(a) /\ In(level.orders, a) =>
       a \in DOMAIN orders /\ orders[a].side = s /\ orders[a].price = level.price
  /\ Once(level.orders)

Sound(orders, s, levels) ==
  /\ Sorted(s, levels)
  /\ Len(levels) <= MaxLevels
  /\ \A l \in LevelsOf(levels) : LevelSound(orders, s, l)

LEMMA LevelUpdate ==
  ASSUME NEW level \in Level, NEW q
  PROVE  [level EXCEPT !.orders = q] = [price |-> level.price, orders |-> q]
  BY DEF Level

\* Where the new order goes: behind the queue q of its price, which is what
\* compaction leaves of the level, or empty for a new level.
Inserts(levels, more, id, price) ==
  \E q \in Seq(Nat) :
    /\ Len(q) < OrdersPerLevel
    /\ \/ /\ q = <<>>
          /\ \A l \in LevelsOf(levels) : l.price # price
          /\ LevelsOf(more) = LevelsOf(levels) \union {[price |-> price, orders |-> Append(q, id)]}
       \/ \E l \in LevelsOf(levels) :
            /\ l.price = price
            /\ KeepsQueue(l.orders, q)
            /\ LevelsOf(more) = (LevelsOf(levels) \ {l})
                                \union {[price |-> price, orders |-> Append(q, id)]}

LEMMA InsertShape ==
  ASSUME NEW s, NEW levels, Sorted(s, levels), Len(levels) <= MaxLevels,
         NEW id \in Nat, NEW price \in Prices,
         InsertOrder(levels, s, id, price).ok,
         NEW more, more = InsertOrder(levels, s, id, price).levels
  PROVE  /\ Sorted(s, more)
         /\ Len(more) <= MaxLevels
         /\ Inserts(levels, more, id, price)
<1> DEFINE at == BsearchLevels(levels, s, price)
<1>0. /\ Len(levels) \in Nat /\ DOMAIN levels = 1 .. Len(levels) /\ levels \in Seq(Level)
      /\ price \in Int /\ MaxLevels \in Nat /\ OrdersPerLevel \in Nat \ {0}
  BY BookAssumption DEF Sorted
<1>1. LocatesAt(levels, price, 0, Len(levels), at) \/ LocatesBefore(levels, s, price, 0, Len(levels), at)
  <2>1. Locates(levels, s, price, 0, Len(levels), at)
    BY <1>0, BsearchLocates
  <2>2. ~ (0 > Len(levels))
    BY <1>0
  <2> QED BY <2>1, <2>2 DEF Locates
<1>2. CASE LocatesAt(levels, price, 0, Len(levels), at)
  <2> HIDE DEF at
  <2>1. PICK p \in 0 + 1 .. Len(levels) : at = [found |-> TRUE, pos |-> p] /\ levels[p].price = price
    BY <1>2, Zenon DEF LocatesAt
  <2>p. p \in 1 .. Len(levels) /\ p \in DOMAIN levels
    BY <1>0
  <2> DEFINE q == RoomAt(levels[p])
  <2> DEFINE level == [price |-> price, orders |-> Append(q, id)]
  <2>2. levels[p] \in Level /\ levels[p] \in LevelsOf(levels) /\ KeepsQueue(levels[p].orders, q) /\ q \in Seq(Nat)
    <3>1. levels[p] \in Level
      BY <1>0, <2>p
    <3>2. levels[p] \in LevelsOf(levels)
      BY <2>p DEF LevelsOf
    <3>3. KeepsQueue(levels[p].orders, q)
      BY <3>1, RoomAtKeeps
    <3> QED BY <3>1, <3>2, <3>3 DEF KeepsQueue
  <2>3. at.found /\ at.pos = p
    BY <2>1
  <2>4. InsertOrder(levels, s, id, price)
          = IF Len(q) < OrdersPerLevel
            THEN [ok |-> TRUE, levels |-> [levels EXCEPT ![p].orders = Append(q, id)]]
            ELSE [ok |-> FALSE, levels |-> levels]
    BY <2>3, Zenon DEF InsertOrder, at
  <2>5. Len(q) < OrdersPerLevel /\ more = [levels EXCEPT ![p].orders = Append(q, id)]
    BY <2>4
  <2> HIDE DEF q
  <2>6. level \in Level
    BY <2>2 DEF Level
  <2>7. IsReplacement(levels, p, level, more)
    <3>1. [levels[p] EXCEPT !.orders = Append(q, id)] = level
      BY <2>1, <2>2, LevelUpdate
    <3>2. [levels EXCEPT ![p].orders = Append(q, id)]
            = [levels EXCEPT ![p] = [levels[p] EXCEPT !.orders = Append(q, id)]]
      OBVIOUS
    <3> QED BY <2>5, <3>1, <3>2 DEF IsReplacement
  <2>8. /\ Sorted(s, more) /\ Len(more) = Len(levels)
        /\ LevelsOf(more) = (LevelsOf(levels) \ {levels[p]}) \union {level}
    <3>1. levels[p].price = level.price
      BY <2>1
    <3> HIDE DEF level
    <3> QED BY <2>p, <2>6, <2>7, <3>1, Replaced
  <2>9. Inserts(levels, more, id, price)
    BY <2>1, <2>2, <2>5, <2>8, Zenon DEF Inserts
  <2> QED BY <1>0, <2>8, <2>9
<1>3. CASE LocatesBefore(levels, s, price, 0, Len(levels), at)
  <2> HIDE DEF at
  <2>a. PICK p \in 0 + 1 .. Len(levels) + 1 :
               /\ at = [found |-> FALSE, pos |-> p]
               /\ \A i \in 0 + 1 .. p - 1 : Better(s, levels[i].price, price)
               /\ \A i \in p .. Len(levels) : Better(s, price, levels[i].price)
    BY <1>3, Zenon DEF LocatesBefore
  <2>p. 0 + 1 = 1 /\ p \in 1 .. Len(levels) + 1
    BY <1>0
  <2>1. /\ at = [found |-> FALSE, pos |-> p]
        /\ \A i \in 1 .. p - 1 : Better(s, levels[i].price, price)
        /\ \A i \in p .. Len(levels) : Better(s, price, levels[i].price)
    BY <2>a, <2>p
  <2> DEFINE q == <<>>
  <2> DEFINE level == [price |-> price, orders |-> <<id>>]
  <2> DEFINE spliced == SubSeq(levels, 1, p - 1) \o <<level>> \o SubSeq(levels, p, Len(levels))
  <2>3. ~ at.found /\ at.pos = p
    BY <2>1
  <2>4. InsertOrder(levels, s, id, price)
          = IF Len(levels) < MaxLevels THEN [ok |-> TRUE, levels |-> spliced]
            ELSE [ok |-> FALSE, levels |-> levels]
    BY <2>3, Zenon DEF InsertOrder, at
  <2>5. Len(levels) < MaxLevels /\ more = spliced
    <3> HIDE DEF spliced
    <3> QED BY <2>4
  <2>6. level \in Level /\ level.price = price
    BY DEF Level
  <2>7. /\ Sorted(s, more) /\ Len(more) = Len(levels) + 1
        /\ LevelsOf(more) = LevelsOf(levels) \union {level}
        /\ \A l \in LevelsOf(levels) : l.price # price
    <3>1. IsSplice(levels, p, level, more)
      BY <2>5, Zenon DEF IsSplice
    <3> HIDE DEF level
    <3> QED BY <2>1, <2>p, <2>6, <3>1, Spliced
  <2>8. Append(q, id) = <<id>> /\ q \in Seq(Nat) /\ Len(q) < OrdersPerLevel
    <3>1. Len(q) = 0 /\ q \in Seq(Nat) /\ Append(q, id) = <<id>>
      OBVIOUS
    <3>2. 0 < OrdersPerLevel
      BY <1>0
    <3> QED BY <3>1, <3>2
  <2>9. Len(more) <= MaxLevels
    <3>1. Len(levels) + 1 <= MaxLevels
      BY <1>0, <2>5
    <3> QED BY <2>7, <3>1
  <2>10. Inserts(levels, more, id, price)
    BY <2>7, <2>8, Zenon DEF Inserts
  <2> QED BY <2>7, <2>9, <2>10
<1> QED BY <1>1, <1>2, <1>3

\* An inserted order joins the resting ones behind those at its price, and
\* moves none of them.
Joins(levels, more, id) ==
  /\ Resting(more) = Resting(levels) \union {id}
  /\ \A a, b \in Resting(levels) : Ahead(more, a, b) <=> Ahead(levels, a, b)
  /\ \A a \in Resting(more) : ~ Ahead(more, id, a)

LEMMA InsertWorks ==
  ASSUME NEW orders, NEW s, NEW levels, Sound(orders, s, levels),
         NEW id \in Nat, IsLive(id), id \notin Resting(levels), id \in DOMAIN orders,
         orders[id].side = s, orders[id].price \in Prices,
         InsertOrder(levels, s, id, orders[id].price).ok
  PROVE  LET more == InsertOrder(levels, s, id, orders[id].price).levels
         IN  Sound(orders, s, more) /\ Joins(levels, more, id)
<1> DEFINE price == orders[id].price
<1> DEFINE more == InsertOrder(levels, s, id, price).levels
<1>2. Sorted(s, more) /\ Len(more) <= MaxLevels /\ Inserts(levels, more, id, price)
  <2>1. Sorted(s, levels) /\ Len(levels) <= MaxLevels
    BY DEF Sound
  <2> QED BY <2>1, InsertShape
<1> HIDE DEF more, price
<1>1. PICK q \in Seq(Nat) :
        /\ Len(q) < OrdersPerLevel
        /\ \/ /\ q = <<>> /\ \A l \in LevelsOf(levels) : l.price # price
              /\ LevelsOf(more) = LevelsOf(levels)
                                  \union {[price |-> price, orders |-> Append(q, id)]}
           \/ \E l \in LevelsOf(levels) :
                /\ l.price = price /\ KeepsQueue(l.orders, q)
                /\ LevelsOf(more) = (LevelsOf(levels) \ {l})
                                    \union {[price |-> price, orders |-> Append(q, id)]}
  BY <1>2, Zenon DEF Inserts
<1> DEFINE level == [price |-> price, orders |-> Append(q, id)]
<1>3. /\ Append(q, id) \in Seq(Nat)
      /\ \A a : In(Append(q, id), a) <=> In(q, a) \/ a = id
      /\ \A a, b : Before(Append(q, id), a, b) <=> Before(q, a, b) \/ (In(q, a) /\ b = id)
      /\ Once(q) /\ ~ In(q, id) => Once(Append(q, id))
  BY AppendQueue
<1>4. level.price = price /\ level.orders = Append(q, id)
  OBVIOUS
<1>5. /\ \A a : a \in Resting(levels) <=> IsLive(a) /\ \E l \in LevelsOf(levels) : In(l.orders, a)
      /\ \A a : a \in Resting(more) <=> IsLive(a) /\ \E l \in LevelsOf(more) : In(l.orders, a)
      /\ \A a, b : Ahead(levels, a, b) <=> \E l \in LevelsOf(levels) : Before(l.orders, a, b)
      /\ \A a, b : Ahead(more, a, b) <=> \E l \in LevelsOf(more) : Before(l.orders, a, b)
  BY RestingByLevel, AheadByLevel
<1>6. \A l \in LevelsOf(levels) : LevelSound(orders, s, l)
  BY DEF Sound
<1>7. Len(Append(q, id)) \in 1 .. OrdersPerLevel
  BY <1>1, BookAssumption
<1>8. \A l : \A a, b : Before(l, a, b) => In(l, a) /\ In(l, b)
  BY DEF Before, In
<1> HIDE DEF level
<1>9. ASSUME q = <<>>, \A l \in LevelsOf(levels) : l.price # price,
             LevelsOf(more) = LevelsOf(levels) \union {level}
      PROVE  Sound(orders, s, more) /\ Joins(levels, more, id)
  <2>1. \A a : ~ In(q, a)
    BY <1>9 DEF In
  <2>2. Once(q)
    BY <1>9 DEF Once
  <2>3. \A a : In(level.orders, a) <=> a = id
    BY <1>3, <1>4, <2>1
  <2>4. LevelSound(orders, s, level)
    BY <1>3, <1>4, <1>7, <2>1, <2>2, <2>3 DEF LevelSound, price
  <2>5. Sound(orders, s, more)
    BY <1>2, <1>6, <1>9, <2>4 DEF Sound
  <2>6. Resting(more) = Resting(levels) \union {id}
    BY <1>5, <1>9, <2>3
  <2>7. \A l \in LevelsOf(levels) : ~ In(l.orders, id)
    BY <1>5
  <2>8. \A a, b : Before(level.orders, a, b) => a = id /\ b = id
    BY <1>8, <2>3
  <2>9. \A a : ~ Ahead(more, id, a)
    <3>1. \A a, b : ~ Before(level.orders, a, b)
      BY <1>3, <1>4, <1>8, <2>1
    <3> QED BY <1>5, <1>8, <1>9, <2>7, <3>1
  <2>10. \A a, b \in Resting(levels) : Ahead(more, a, b) <=> Ahead(levels, a, b)
    <3> TAKE a, b \in Resting(levels)
    <3>1. a # id
      OBVIOUS
    <3> QED BY <1>5, <1>9, <2>8, <3>1
  <2> QED BY <2>5, <2>6, <2>9, <2>10 DEF Joins
<1>10. ASSUME NEW l \in LevelsOf(levels), l.price = price, KeepsQueue(l.orders, q),
              LevelsOf(more) = (LevelsOf(levels) \ {l}) \union {level}
       PROVE  Sound(orders, s, more) /\ Joins(levels, more, id)
  <2>1. LevelSound(orders, s, l)
    BY <1>6
  <2>2. /\ \A a : IsLive(a) => (In(q, a) <=> In(l.orders, a))
        /\ \A a, b : IsLive(a) /\ IsLive(b) => (Before(q, a, b) <=> Before(l.orders, a, b))
        /\ Once(q)
    BY <1>10, <2>1 DEF KeepsQueue, LevelSound
  <2>3. \A m \in LevelsOf(levels) : ~ In(m.orders, id)
    BY <1>5
  <2>4. ~ In(q, id)
    BY <2>2, <2>3
  <2>5. LevelSound(orders, s, level)
    <3>1. \A a : IsLive(a) /\ In(level.orders, a) => a \in DOMAIN orders /\ orders[a].side = s /\ orders[a].price = level.price
      BY <1>3, <1>4, <1>10, <2>1, <2>2 DEF LevelSound, price
    <3> QED BY <1>3, <1>4, <1>7, <2>2, <2>4, <3>1 DEF LevelSound
  <2>6. Sound(orders, s, more)
    BY <1>2, <1>6, <1>10, <2>5 DEF Sound
  <2>7. \A a : IsLive(a) => (In(level.orders, a) <=> In(l.orders, a) \/ a = id)
    BY <1>3, <1>4, <2>2
  <2>8. Resting(more) = Resting(levels) \union {id}
    BY <1>5, <1>10, <2>7
  <2>9. \A a, b : IsLive(a) /\ IsLive(b) =>
           (Before(level.orders, a, b) <=> Before(l.orders, a, b) \/ (In(l.orders, a) /\ b = id))
    BY <1>3, <1>4, <2>2
  <2>10. \A a, b \in Resting(levels) : Ahead(more, a, b) <=> Ahead(levels, a, b)
    <3> TAKE a, b \in Resting(levels)
    <3>1. IsLive(a) /\ IsLive(b) /\ b # id
      BY <1>5
    <3>2. Before(level.orders, a, b) <=> Before(l.orders, a, b)
      BY <2>9, <3>1
    <3> QED BY <1>5, <1>10, <3>2
  <2>11. \A a \in Resting(more) : ~ Ahead(more, id, a)
    <3> TAKE a \in Resting(more)
    <3>1. IsLive(a)
      BY <1>5
    <3>2. ~ Before(level.orders, id, a)
      BY <1>8, <2>3, <2>9, <3>1
    <3> QED BY <1>5, <1>8, <1>10, <2>3, <3>2
  <2> QED BY <2>6, <2>8, <2>10, <2>11 DEF Joins
<1>11. \/ /\ q = <<>> /\ \A l \in LevelsOf(levels) : l.price # price
          /\ LevelsOf(more) = LevelsOf(levels) \union {level}
       \/ \E l \in LevelsOf(levels) :
            /\ l.price = price /\ KeepsQueue(l.orders, q)
            /\ LevelsOf(more) = (LevelsOf(levels) \ {l}) \union {level}
  BY <1>1, Zenon DEF level
<1>12. Sound(orders, s, more) /\ Joins(levels, more, id)
  BY <1>9, <1>10, <1>11, Zenon
<1> QED BY <1>12, Zenon DEF more, price

\* Taking the best order: the first live one, at head of the level l, with the
\* levels in front of l and what is in front of it in l.
Pops(s, levels, popped, l, head) ==
  LET rest == SubSeq(l.orders, head + 1, Len(l.orders))
      behind == {m \in LevelsOf(levels) : Better(s, l.price, m.price)}
  IN  /\ l \in LevelsOf(levels) /\ l.price = BestPrice(levels)
      /\ head \in DOMAIN l.orders /\ IsLive(l.orders[head])
      /\ \A j \in DOMAIN l.orders : j < head => ~ IsLive(l.orders[j])
      /\ popped.order = l.orders[head]
      /\ \A m \in LevelsOf(levels) : Better(s, m.price, l.price) => \A a : In(m.orders, a) => ~ IsLive(a)
      /\ Sorted(s, popped.levels)
      /\ \/ /\ rest = <<>>
            /\ LevelsOf(popped.levels) = behind
            /\ Len(popped.levels) < Len(levels)
         \/ /\ rest # <<>>
            /\ LevelsOf(popped.levels) = behind \union {[price |-> l.price, orders |-> rest]}
            /\ Len(popped.levels) <= Len(levels)

LEMMA Prepended ==
  ASSUME NEW s, NEW tail, Sorted(s, tail), NEW level \in Level,
         \A k \in 1 .. Len(tail) : Better(s, level.price, tail[k].price)
  PROVE  /\ Sorted(s, <<level>> \o tail)
         /\ Len(<<level>> \o tail) = Len(tail) + 1
         /\ LevelsOf(<<level>> \o tail) = LevelsOf(tail) \union {level}
<1>1. tail \in Seq(Level) /\ Len(tail) \in Nat
  BY DEF Sorted
<1> DEFINE none == SubSeq(tail, 1, 1 - 1)
<1>2. none \o <<level>> = <<level>>
  <2>1. none \in Seq(Level) /\ Len(none) = 0 /\ none = <<>>
    BY <1>1
  <2> HIDE DEF none
  <2> QED BY <2>1
<1>3. SubSeq(tail, 1, Len(tail)) = tail
  BY <1>1
<1>4. IsSplice(tail, 1, level, <<level>> \o tail)
  BY <1>2, <1>3, Zenon DEF IsSplice
<1>5. 1 \in 1 .. Len(tail) + 1 /\ ~ \E i \in 1 .. 1 - 1 : TRUE
  BY <1>1
<1> QED BY <1>4, <1>5, Spliced

LEMMA PopShape ==
  ASSUME NEW s, NEW levels, Sorted(s, levels), LiveLevels(levels) # {}
  PROVE  \E l, head : Pops(s, levels, PopBest(levels), l, head)
<1>0. Len(levels) \in Nat /\ DOMAIN levels = 1 .. Len(levels) /\ levels \in Seq(Level)
  BY DEF Sorted
<1>1. PICK i \in 1 .. Len(levels) : /\ i = First(LiveLevels(levels))
                                    /\ i \in LiveLevels(levels)
                                    /\ \A k \in LiveLevels(levels) : i <= k
  <2>1. LiveLevels(levels) \subseteq Nat /\ LiveLevels(levels) \subseteq 1 .. Len(levels)
    BY <1>0 DEF LiveLevels
  <2> QED BY <2>1, FirstIsLeast
<1>l. PICK l : l = levels[i]
  OBVIOUS
<1>2. l \in Level
  BY <1>0, <1>1, <1>l
<1>i. PICK ids : ids = l.orders
  OBVIOUS
<1>3. ids \in Seq(Nat) /\ DOMAIN ids = 1 .. Len(ids) /\ Len(ids) \in Nat
  BY <1>2, <1>i DEF Level
<1> DEFINE H == {j \in DOMAIN ids : IsLive(ids[j])}
<1>4. PICK head \in H : head = First(H) /\ \A j \in H : head <= j
  <2>1. H # {} /\ H \subseteq Nat
    <3>1. \E j \in DOMAIN ids : IsLive(ids[j])
      BY <1>1, <1>l, <1>i DEF LiveLevels
    <3> QED BY <1>3, <3>1
  <2> HIDE DEF H
  <2> QED BY <2>1, FirstIsLeast
<1>r. PICK rest : rest = SubSeq(ids, head + 1, Len(ids))
  OBVIOUS
<1>t. PICK tail : tail = SubSeq(levels, i + 1, Len(levels))
  OBVIOUS
<1>f. PICK left : left = [l EXCEPT !.orders = rest]
  OBVIOUS
<1>5. PopBest(levels) = [order |-> ids[head],
                         levels |-> (IF rest = <<>> THEN <<>> ELSE <<left>>) \o tail]
  BY <1>1, <1>l, <1>i, <1>4, <1>r, <1>t, <1>f, Zenon DEF PopBest
<1>6. /\ Sorted(s, tail) /\ Len(tail) < Len(levels)
      /\ LevelsOf(tail) = {m \in LevelsOf(levels) : Better(s, l.price, m.price)}
      /\ \A k \in 1 .. Len(tail) : Better(s, l.price, tail[k].price)
  <2>1. IsSuffix(levels, i, tail)
    BY <1>t DEF IsSuffix
  <2> QED BY <1>l, <2>1, Suffix
<1>7. l \in LevelsOf(levels) /\ BestPrice(levels) = l.price
  BY <1>0, <1>1, <1>l DEF LevelsOf, BestPrice
<1>8. head \in DOMAIN ids /\ IsLive(ids[head]) /\ \A j \in DOMAIN ids : j < head => ~ IsLive(ids[j])
  <2>1. head \in DOMAIN ids /\ IsLive(ids[head])
    BY <1>4
  <2> SUFFICES ASSUME NEW j \in DOMAIN ids, j < head, IsLive(ids[j]) PROVE FALSE
    BY <2>1
  <2>2. j \in H
    OBVIOUS
  <2> HIDE DEF H
  <2> QED BY <1>3, <1>4, <2>1, <2>2
<1>9. ASSUME NEW m \in LevelsOf(levels), Better(s, m.price, l.price), NEW a, In(m.orders, a)
      PROVE  ~ IsLive(a)
  <2> SUFFICES ASSUME IsLive(a) PROVE FALSE
    OBVIOUS
  <2>1. PICK k \in 1 .. Len(levels) : m = levels[k]
    BY <1>0 DEF LevelsOf
  <2>2. k \in LiveLevels(levels)
    BY <1>0, <1>9, <2>1 DEF LiveLevels, In
  <2>3. i = k \/ i < k
    BY <1>0, <1>1, <2>2
  <2>4. i = k \/ Better(s, l.price, m.price)
    BY <1>0, <1>1, <1>l, <2>1, <2>3 DEF Sorted, LevelSorted
  <2>5. l.price \in Int /\ m.price \in Int
    BY <1>0, <1>1, <1>l, <2>1, PricesAreNumbers
  <2>6. ~ Better(s, m.price, m.price) /\ ~ (Better(s, l.price, m.price) /\ Better(s, m.price, l.price))
    BY <2>5, BetterIsOrder
  <2> QED BY <1>9, <1>l, <2>1, <2>4, <2>6
<1>10. rest \in Seq(Nat)
  BY <1>3, <1>8, <1>r, SuffixFacts
<1>11. left = [price |-> l.price, orders |-> rest] /\ left \in Level
  <2>1. left = [price |-> l.price, orders |-> rest]
    BY <1>2, <1>f, LevelUpdate
  <2>2. [price |-> l.price, orders |-> rest] \in Level
    BY <1>2, <1>10 DEF Level
  <2> QED BY <2>1, <2>2
<1>12. CASE rest = <<>>
  <2>1. PopBest(levels).order = ids[head] /\ PopBest(levels).levels = tail
    <3>1. PopBest(levels).levels = <<>> \o tail
      BY <1>5, <1>12
    <3>2. tail \in Seq(Level)
      BY <1>6 DEF Sorted
    <3>3. <<>> \o tail = tail
      BY <3>2
    <3> QED BY <1>5, <3>1, <3>3
  <2>2. Pops(s, levels, PopBest(levels), l, head)
    BY <1>6, <1>7, <1>8, <1>9, <1>12, <1>i, <1>r, <2>1, Zenon DEF Pops
  <2> QED BY <2>2
<1>13. CASE rest # <<>>
  <2>1. PopBest(levels).order = ids[head] /\ PopBest(levels).levels = <<left>> \o tail
    BY <1>5, <1>13
  <2>2. /\ Sorted(s, <<left>> \o tail)
        /\ Len(<<left>> \o tail) = Len(tail) + 1
        /\ LevelsOf(<<left>> \o tail) = LevelsOf(tail) \union {left}
    <3>1. left.price = l.price
      BY <1>11
    <3> QED BY <1>6, <1>11, <3>1, Prepended
  <2>3. Len(tail) + 1 <= Len(levels)
    <3>1. Len(tail) \in Nat
      BY <1>6 DEF Sorted
    <3> QED BY <1>0, <1>6, <3>1
  <2>4. Pops(s, levels, PopBest(levels), l, head)
    BY <1>6, <1>7, <1>8, <1>9, <1>11, <1>13, <1>i, <1>r, <2>1, <2>2, <2>3, Zenon DEF Pops
  <2> QED BY <2>4
<1> QED BY <1>12, <1>13

\* The popped order was the first of the best price; the others stay as they were.
Leaves(orders, s, levels, less, id) ==
  /\ id \in Resting(levels)
  /\ orders[id].price = BestPrice(levels)
  /\ \A a \in Resting(levels) : ~ Better(s, orders[a].price, orders[id].price) /\ ~ Ahead(levels, a, id)
  /\ Resting(less) = Resting(levels) \ {id}
  /\ \A a, b \in Resting(less) : Ahead(less, a, b) <=> Ahead(levels, a, b)

LEMMA RestingAtLevel ==
  ASSUME NEW orders, NEW s, NEW levels, Sound(orders, s, levels)
  PROVE  /\ \A l \in LevelsOf(levels) : \A a : IsLive(a) /\ In(l.orders, a) =>
              /\ a \in Resting(levels) /\ a \in DOMAIN orders
              /\ orders[a].side = s /\ orders[a].price = l.price
         /\ \A a \in Resting(levels) : /\ IsLive(a) /\ a \in Nat /\ a \in DOMAIN orders
                                       /\ orders[a].side = s
                                       /\ orders[a].price \in Prices /\ orders[a].price \in Int
<1>1. \A a : a \in Resting(levels) <=> IsLive(a) /\ \E l \in LevelsOf(levels) : In(l.orders, a)
  BY RestingByLevel
<1>2. \A l \in LevelsOf(levels) : LevelSound(orders, s, l) /\ l \in Level /\ l.price \in Int
  BY OneLevelPerPrice DEF Sound
<1>3. \A l \in LevelsOf(levels) : \A a : IsLive(a) /\ In(l.orders, a) =>
         a \in DOMAIN orders /\ orders[a].side = s /\ orders[a].price = l.price
  BY <1>2 DEF LevelSound
<1>4. \A l \in LevelsOf(levels) : l.price \in Prices /\ \A a : In(l.orders, a) => a \in Nat
  BY <1>2 DEF Level, In
<1> QED BY <1>1, <1>2, <1>3, <1>4

LEMMA PopWorks ==
  ASSUME NEW orders, NEW s, NEW levels, Sound(orders, s, levels), LiveLevels(levels) # {}
  PROVE  LET popped == PopBest(levels)
         IN  Sound(orders, s, popped.levels) /\ Leaves(orders, s, levels, popped.levels, popped.order)
<1>1. PICK l, head : Pops(s, levels, PopBest(levels), l, head)
  BY PopShape DEF Sound
<1>2. PICK less : less = PopBest(levels).levels
  OBVIOUS
<1>3. PICK id : id = PopBest(levels).order
  OBVIOUS
<1>4. PICK rest : rest = SubSeq(l.orders, head + 1, Len(l.orders))
  OBVIOUS
<1>5. PICK behind : behind = {m \in LevelsOf(levels) : Better(s, l.price, m.price)}
  OBVIOUS
<1>6. PICK left : left = [price |-> l.price, orders |-> rest]
  OBVIOUS
<1>7. /\ l \in LevelsOf(levels) /\ l.price = BestPrice(levels)
      /\ head \in DOMAIN l.orders /\ IsLive(l.orders[head])
      /\ \A j \in DOMAIN l.orders : j < head => ~ IsLive(l.orders[j])
      /\ id = l.orders[head]
      /\ \A m \in LevelsOf(levels) : Better(s, m.price, l.price) => \A a : In(m.orders, a) => ~ IsLive(a)
      /\ Sorted(s, less)
      /\ \/ rest = <<>> /\ LevelsOf(less) = behind /\ Len(less) < Len(levels)
         \/ rest # <<>> /\ LevelsOf(less) = behind \union {left} /\ Len(less) <= Len(levels)
  BY <1>1, <1>2, <1>3, <1>4, <1>5, <1>6, Zenon DEF Pops
<1>8. /\ \A a : a \in Resting(levels) <=> IsLive(a) /\ \E m \in LevelsOf(levels) : In(m.orders, a)
      /\ \A a : a \in Resting(less) <=> IsLive(a) /\ \E m \in LevelsOf(less) : In(m.orders, a)
      /\ \A a, b : Ahead(levels, a, b) <=> \E m \in LevelsOf(levels) : Before(m.orders, a, b)
      /\ \A a, b : Ahead(less, a, b) <=> \E m \in LevelsOf(less) : Before(m.orders, a, b)
  BY RestingByLevel, AheadByLevel
<1>9. \A m \in LevelsOf(levels) : LevelSound(orders, s, m) /\ m \in Level /\ m.price \in Int
  BY OneLevelPerPrice DEF Sound
<1>10. l.orders \in Seq(Nat) /\ Once(l.orders) /\ Len(l.orders) \in 1 .. OrdersPerLevel
  BY <1>7, <1>9 DEF LevelSound, Level
<1>11. /\ rest \in Seq(Nat) /\ Len(rest) < Len(l.orders)
       /\ \A a : IsLive(a) => (In(rest, a) <=> In(l.orders, a) /\ a # id)
       /\ \A a, b : IsLive(a) /\ IsLive(b) => (Before(rest, a, b) <=> Before(l.orders, a, b) /\ a # id)
       /\ \A a : IsLive(a) => ~ Before(l.orders, a, id)
       /\ Once(rest)
  <2>1. IsSuffix(l.orders, head, rest)
    BY <1>4 DEF IsSuffix
  <2> QED BY <1>7, <1>10, <2>1, RestOfQueue
<1>12. \A m \in LevelsOf(levels) : \A a : IsLive(a) /\ In(m.orders, a) =>
          /\ a \in Resting(levels) /\ orders[a].price = m.price
          /\ m = l \/ m \in behind
  <2> TAKE m \in LevelsOf(levels)
  <2> TAKE a
  <2> HAVE IsLive(a) /\ In(m.orders, a)
  <2>1. a \in Resting(levels) /\ orders[a].price = m.price
    BY RestingAtLevel
  <2>2. ~ Better(s, m.price, l.price)
    BY <1>7
  <2>3. m.price = l.price \/ Better(s, l.price, m.price)
    BY <1>7, <1>9, <2>2, BetterIsOrder
  <2>4. m.price = l.price => m = l
    BY <1>7, OneLevelPerPrice DEF Sound
  <2> QED BY <1>5, <2>1, <2>3, <2>4
<1>13. In(l.orders, id) /\ IsLive(id) /\ id \in Resting(levels) /\ orders[id].price = BestPrice(levels)
  <2>1. In(l.orders, id) /\ IsLive(id)
    BY <1>7 DEF In
  <2> QED BY <1>7, <1>12, <2>1
<1>14. \A m \in behind : m \in LevelsOf(levels) /\ m # l /\ \A a : IsLive(a) /\ In(m.orders, a) => a # id
  <2> TAKE m \in behind
  <2>1. m \in LevelsOf(levels) /\ Better(s, l.price, m.price)
    BY <1>5
  <2>2. m.price # l.price
    BY <1>9, <2>1, BetterIsOrder
  <2> QED BY <1>7, <1>12, <1>13, <2>1, <2>2
<1>15. left.price = l.price /\ left.orders = rest
  BY <1>6
<1>16. \A m \in LevelsOf(less) : m \in behind \/ (m = left /\ rest # <<>>)
  BY <1>7
<1>17. behind \subseteq LevelsOf(less) /\ (rest # <<>> => left \in LevelsOf(less))
  BY <1>7
<1>18. \A a : In(rest, a) => rest # <<>>
  BY DEF In
<1>19. Resting(less) = Resting(levels) \ {id}
  <2>1. ASSUME NEW a \in Resting(less) PROVE a \in Resting(levels) /\ a # id
    <3>1. PICK m \in LevelsOf(less) : IsLive(a) /\ In(m.orders, a)
      BY <1>8
    <3>2. CASE m \in behind
      BY <1>8, <1>14, <3>1, <3>2
    <3>3. CASE m = left
      BY <1>7, <1>8, <1>11, <1>15, <3>1, <3>3
    <3> QED BY <1>16, <3>2, <3>3
  <2>2. ASSUME NEW a \in Resting(levels), a # id PROVE a \in Resting(less)
    <3>1. PICK m \in LevelsOf(levels) : IsLive(a) /\ In(m.orders, a)
      BY <1>8
    <3>2. CASE m \in behind
      BY <1>8, <1>17, <3>1, <3>2
    <3>3. CASE m = l
      <4>1. In(rest, a)
        BY <1>11, <2>2, <3>1, <3>3
      <4> QED BY <1>8, <1>15, <1>17, <1>18, <3>1, <4>1
    <3> QED BY <1>12, <3>1, <3>2, <3>3
  <2> QED BY <2>1, <2>2
<1>20. \A q : \A a, b : Before(q, a, b) => In(q, a) /\ In(q, b)
  BY DEF Before, In
<1>21. \A a, b \in Resting(less) : Ahead(less, a, b) <=> Ahead(levels, a, b)
  <2> TAKE a, b \in Resting(less)
  <2>1. IsLive(a) /\ IsLive(b) /\ a # id /\ b # id
    BY <1>8, <1>19
  <2>2. Before(rest, a, b) <=> Before(l.orders, a, b)
    BY <1>11, <2>1
  <2>3. ASSUME Ahead(less, a, b) PROVE Ahead(levels, a, b)
    <3>1. PICK m \in LevelsOf(less) : Before(m.orders, a, b)
      BY <1>8, <2>3
    <3>2. m \in behind \/ Before(rest, a, b)
      BY <1>15, <1>16, <3>1
    <3> QED BY <1>7, <1>8, <1>14, <2>2, <3>1, <3>2
  <2>4. ASSUME Ahead(levels, a, b) PROVE Ahead(less, a, b)
    <3>1. PICK m \in LevelsOf(levels) : Before(m.orders, a, b)
      BY <1>8, <2>4
    <3>2. m \in behind \/ m = l
      BY <1>12, <1>20, <2>1, <3>1
    <3>3. CASE m \in behind
      BY <1>8, <1>17, <3>1, <3>3
    <3>4. CASE m = l
      <4>1. Before(rest, a, b) /\ rest # <<>>
        BY <1>18, <1>20, <2>2, <3>1, <3>4
      <4> QED BY <1>8, <1>15, <1>17, <4>1
    <3> QED BY <3>2, <3>3, <3>4
  <2> QED BY <2>3, <2>4
<1>22. \A a \in Resting(levels) : ~ Better(s, orders[a].price, orders[id].price) /\ ~ Ahead(levels, a, id)
  <2> TAKE a \in Resting(levels)
  <2>1. PICK m \in LevelsOf(levels) : IsLive(a) /\ In(m.orders, a)
    BY <1>8
  <2>2. ~ Better(s, m.price, l.price)
    BY <1>7, <2>1
  <2>3. orders[a].price = m.price /\ orders[id].price = l.price
    BY <1>7, <1>12, <1>13, <2>1
  <2>4. ~ Ahead(levels, a, id)
    <3> SUFFICES ASSUME NEW k \in LevelsOf(levels), Before(k.orders, a, id) PROVE FALSE
      BY <1>8
    <3>1. In(k.orders, id)
      BY <1>20
    <3>2. k = l
      BY <1>12, <1>13, <1>14, <3>1
    <3> QED BY <1>11, <2>1, <3>2
  <2> QED BY <2>2, <2>3, <2>4
<1>23. Sound(orders, s, less)
  <2>1. \A m \in LevelsOf(less) : LevelSound(orders, s, m)
    <3> TAKE m \in LevelsOf(less)
    <3>1. CASE m \in behind
      BY <1>9, <1>14, <3>1
    <3>2. CASE m = left /\ rest # <<>>
      <4>1. Len(rest) \in 1 .. OrdersPerLevel
        <5>1. Len(rest) \in Nat /\ Len(rest) # 0
          BY <1>11, <3>2
        <5>2. OrdersPerLevel \in Nat /\ Len(l.orders) \in Nat /\ Len(l.orders) <= OrdersPerLevel
          BY <1>10, BookAssumption
        <5> QED BY <1>11, <5>1, <5>2
      <4>2. \A a : IsLive(a) /\ In(rest, a) => a \in DOMAIN orders /\ orders[a].side = s /\ orders[a].price = l.price
        BY <1>7, <1>9, <1>11 DEF LevelSound
      <4> QED BY <1>11, <1>15, <3>2, <4>1, <4>2 DEF LevelSound
    <3> QED BY <1>16, <3>1, <3>2
  <2>2. Len(less) <= MaxLevels
    <3>1. Len(levels) <= MaxLevels /\ Len(levels) \in Nat /\ Len(less) \in Nat /\ MaxLevels \in Nat
      BY <1>7, BookAssumption DEF Sound, Sorted
    <3> QED BY <1>7, <3>1
  <2> QED BY <1>7, <2>1, <2>2 DEF Sound
<1>24. Leaves(orders, s, levels, less, id)
  BY <1>13, <1>19, <1>21, <1>22 DEF Leaves
<1> QED BY <1>2, <1>3, <1>23, <1>24

\* There is always room for an order that was just taken out.
LEMMA PutBackFits ==
  ASSUME NEW orders, NEW s, NEW levels, Sound(orders, s, levels), LiveLevels(levels) # {}
  PROVE  LET popped == PopBest(levels)
         IN  InsertOrder(popped.levels, s, popped.order, orders[popped.order].price).ok
<1>1. PICK l, head : Pops(s, levels, PopBest(levels), l, head)
  BY PopShape DEF Sound
<1>2. PICK less : less = PopBest(levels).levels
  OBVIOUS
<1>3. PICK id : id = PopBest(levels).order
  OBVIOUS
<1>4. PICK rest : rest = SubSeq(l.orders, head + 1, Len(l.orders))
  OBVIOUS
<1>5. PICK behind : behind = {m \in LevelsOf(levels) : Better(s, l.price, m.price)}
  OBVIOUS
<1>6. PICK left : left = [price |-> l.price, orders |-> rest]
  OBVIOUS
<1>7. /\ l \in LevelsOf(levels) /\ l.price = BestPrice(levels)
      /\ head \in DOMAIN l.orders /\ IsLive(l.orders[head])
      /\ \A j \in DOMAIN l.orders : j < head => ~ IsLive(l.orders[j])
      /\ id = l.orders[head]
      /\ Sorted(s, less)
      /\ \/ rest = <<>> /\ LevelsOf(less) = behind /\ Len(less) < Len(levels)
         \/ rest # <<>> /\ LevelsOf(less) = behind \union {left} /\ Len(less) <= Len(levels)
  BY <1>1, <1>2, <1>3, <1>4, <1>5, <1>6, Zenon DEF Pops
<1>8. l \in Level /\ LevelSound(orders, s, l) /\ l.price \in Int
  BY <1>7, OneLevelPerPrice DEF Sound
<1>9. orders[id].price = l.price
  <2>1. In(l.orders, id)
    BY <1>7 DEF In
  <2> QED BY <1>7, <1>8, <2>1 DEF LevelSound
<1>10. /\ l.orders \in Seq(Nat) /\ Len(rest) \in Nat /\ rest \in Seq(Nat)
       /\ Len(rest) < Len(l.orders) /\ Len(l.orders) <= OrdersPerLevel
       /\ Len(l.orders) \in Nat /\ OrdersPerLevel \in Nat
  <2>1. l.orders \in Seq(Nat) /\ Len(l.orders) \in 1 .. OrdersPerLevel /\ Once(l.orders)
    BY <1>8 DEF Level, LevelSound
  <2>2. IsSuffix(l.orders, head, rest)
    BY <1>4 DEF IsSuffix
  <2>3. rest \in Seq(Nat) /\ Len(rest) < Len(l.orders)
    BY <1>7, <2>1, <2>2, RestOfQueue
  <2> QED BY <2>1, <2>3, BookAssumption
<1>11. PICK at : at = BsearchLevels(less, s, l.price)
  OBVIOUS
<1>12. less \in Seq(Level) /\ Len(less) \in Nat /\ DOMAIN less = 1 .. Len(less)
  BY <1>7 DEF Sorted
<1>13. LocatesAt(less, l.price, 0, Len(less), at) \/ LocatesBefore(less, s, l.price, 0, Len(less), at)
  <2>1. Locates(less, s, l.price, 0, Len(less), at)
    BY <1>7, <1>8, <1>11, BsearchLocates
  <2>2. ~ (0 > Len(less))
    BY <1>12
  <2> QED BY <2>1, <2>2 DEF Locates
<1>14. ASSUME NEW m \in LevelsOf(less), m.price = l.price PROVE m = left
  <2>1. m \notin behind
    <3> SUFFICES ASSUME Better(s, l.price, m.price) PROVE FALSE
      BY <1>5
    <3> QED BY <1>8, <1>14, BetterIsOrder
  <2> QED BY <1>7, <2>1
<1>15. CASE LocatesAt(less, l.price, 0, Len(less), at)
  <2>1. PICK p \in 0 + 1 .. Len(less) : at = [found |-> TRUE, pos |-> p] /\ less[p].price = l.price
    BY <1>15, Zenon DEF LocatesAt
  <2>2. less[p] = left
    <3>1. p \in DOMAIN less
      BY <1>12
    <3> QED BY <1>14, <2>1, <3>1 DEF LevelsOf
  <2>3. RoomAt(less[p]) = rest /\ Len(rest) < OrdersPerLevel
    <3>1. Len(rest) < OrdersPerLevel
      BY <1>10
    <3>2. left.orders = rest
      BY <1>6
    <3> QED BY <2>2, <3>1, <3>2 DEF RoomAt
  <2>4. at.found /\ at.pos = p
    BY <2>1
  <2>5. InsertOrder(less, s, id, l.price)
          = IF Len(RoomAt(less[p])) < OrdersPerLevel
            THEN [ok |-> TRUE, levels |-> [less EXCEPT ![p].orders = Append(RoomAt(less[p]), id)]]
            ELSE [ok |-> FALSE, levels |-> less]
    BY <1>11, <2>4, Zenon DEF InsertOrder
  <2>6. InsertOrder(less, s, id, l.price).ok
    BY <2>3, <2>5
  <2> QED BY <1>2, <1>3, <1>9, <2>6
<1>16. CASE LocatesBefore(less, s, l.price, 0, Len(less), at)
  <2>1. PICK p \in 0 + 1 .. Len(less) + 1 :
               /\ at = [found |-> FALSE, pos |-> p]
               /\ \A i \in 0 + 1 .. p - 1 : Better(s, less[i].price, l.price)
               /\ \A i \in p .. Len(less) : Better(s, l.price, less[i].price)
    BY <1>16, Zenon DEF LocatesBefore
  <2>2. \A m \in LevelsOf(less) : m.price # l.price
    <3> SUFFICES ASSUME NEW i \in 1 .. Len(less), less[i].price = l.price PROVE FALSE
      BY <1>12 DEF LevelsOf
    <3>1. i \in 0 + 1 .. p - 1 \/ i \in p .. Len(less)
      BY <1>12
    <3>2. Better(s, l.price, l.price)
      BY <2>1, <3>1
    <3> QED BY <1>8, <3>2, BetterIsOrder
  <2>3. left \notin LevelsOf(less)
    BY <1>6, <2>2
  <2>4. Len(less) < MaxLevels
    <3>1. Len(less) < Len(levels)
      BY <1>7, <2>3
    <3>2. Len(levels) <= MaxLevels /\ Len(levels) \in Nat /\ MaxLevels \in Nat
      BY BookAssumption DEF Sound, Sorted
    <3> QED BY <1>12, <3>1, <3>2
  <2>5. ~ at.found
    BY <2>1
  <2>6. InsertOrder(less, s, id, l.price).ok
    <3>1. InsertOrder(less, s, id, l.price)
            = IF Len(less) < MaxLevels
              THEN [ok |-> TRUE,
                    levels |-> SubSeq(less, 1, at.pos - 1)
                               \o <<[price |-> l.price, orders |-> <<id>>]>>
                               \o SubSeq(less, at.pos, Len(less))]
              ELSE [ok |-> FALSE, levels |-> less]
      BY <1>11, <2>5, Zenon DEF InsertOrder
    <3>2. PICK spliced : spliced = SubSeq(less, 1, at.pos - 1)
                                   \o <<[price |-> l.price, orders |-> <<id>>]>>
                                   \o SubSeq(less, at.pos, Len(less))
      OBVIOUS
    <3>3. InsertOrder(less, s, id, l.price) = [ok |-> TRUE, levels |-> spliced]
      BY <2>4, <3>1, <3>2, Zenon
    <3> QED BY <3>3
  <2> QED BY <1>2, <1>3, <1>9, <2>6
<1> QED BY <1>13, <1>15, <1>16

\* The array after the best order of it was taken out and put back: nothing is
\* lost, but the order is now the last of its price.
PutBack(orders, s, levels) ==
  LET popped == PopBest(levels)
  IN  InsertOrder(popped.levels, s, popped.order, orders[popped.order].price).levels

LEMMA PutBackWorks ==
  ASSUME NEW orders, NEW s, NEW levels, Sound(orders, s, levels), LiveLevels(levels) # {}
  PROVE  LET back == PutBack(orders, s, levels)
             id == PopBest(levels).order
         IN  /\ Sound(orders, s, back)
             /\ Resting(back) = Resting(levels)
             /\ \A a, b \in Resting(levels) \ {id} : Ahead(back, a, b) <=> Ahead(levels, a, b)
             /\ \A a \in Resting(levels) : ~ Ahead(back, id, a)
<1>1. PICK less : less = PopBest(levels).levels
  OBVIOUS
<1>2. PICK id : id = PopBest(levels).order
  OBVIOUS
<1>3. PICK back : back = InsertOrder(less, s, id, orders[id].price).levels
  OBVIOUS
<1>4. Sound(orders, s, less) /\ Leaves(orders, s, levels, less, id)
  BY <1>1, <1>2, PopWorks
<1>5. InsertOrder(less, s, id, orders[id].price).ok
  BY <1>1, <1>2, PutBackFits
<1>6. id \in Resting(levels) /\ Resting(less) = Resting(levels) \ {id}
      /\ \A a, b \in Resting(less) : Ahead(less, a, b) <=> Ahead(levels, a, b)
  BY <1>4 DEF Leaves
<1>7. /\ IsLive(id) /\ id \in Nat /\ id \in DOMAIN orders
      /\ orders[id].side = s /\ orders[id].price \in Prices
  BY <1>6, RestingAtLevel
<1>8. Sound(orders, s, back) /\ Joins(less, back, id)
  BY <1>3, <1>4, <1>5, <1>6, <1>7, InsertWorks
<1>9. back = PutBack(orders, s, levels)
  BY <1>1, <1>2, <1>3 DEF PutBack
<1>10. Resting(back) = Resting(levels)
  BY <1>6, <1>8 DEF Joins
<1>11. \A a, b \in Resting(levels) \ {id} : Ahead(back, a, b) <=> Ahead(levels, a, b)
  BY <1>6, <1>8 DEF Joins
<1>12. \A a \in Resting(levels) : ~ Ahead(back, id, a)
  BY <1>8, <1>10 DEF Joins
<1> QED BY <1>2, <1>8, <1>9, <1>10, <1>11, <1>12

\* A cancelled order is gone and the others stay as they were.
LEMMA TombstoneWorks ==
  ASSUME NEW orders, NEW s, NEW levels, Sound(orders, s, levels), NEW id \in Nat, IsLive(id)
  PROVE  LET less == TombstoneOrder(levels, id)
         IN  /\ Sound(orders, s, less)
             /\ Resting(less) = Resting(levels) \ {id}
             /\ \A a, b \in Resting(less) : Ahead(less, a, b) <=> Ahead(levels, a, b)
<1>0. Len(levels) \in Nat /\ DOMAIN levels = 1 .. Len(levels) /\ levels \in Seq(Level)
  BY DEF Sound, Sorted
<1> DEFINE Bury(q) == [j \in DOMAIN q |-> IF q[j] = id THEN Tombstone ELSE q[j]]
<1>1. PICK less : less = TombstoneOrder(levels, id)
  OBVIOUS
<1>2. \A i \in DOMAIN levels : levels[i] \in Level
  BY <1>0
<1>3. DOMAIN less = DOMAIN levels
  BY <1>1 DEF TombstoneOrder
<1>4. \A i \in DOMAIN levels : less[i] = [price |-> levels[i].price, orders |-> Bury(levels[i].orders)]
  <2> TAKE i \in DOMAIN levels
  <2>1. less[i] = [levels[i] EXCEPT !.orders = Bury(levels[i].orders)]
    BY <1>1 DEF TombstoneOrder
  <2> HIDE DEF Bury
  <2> QED BY <1>2, <2>1, LevelUpdate
<1>5. \A i \in DOMAIN levels : less[i].price = levels[i].price /\ less[i].orders = Bury(levels[i].orders)
  <2> TAKE i \in DOMAIN levels
  <2> HIDE DEF Bury
  <2>1. PICK buried : buried = Bury(levels[i].orders)
    OBVIOUS
  <2>2. less[i] = [price |-> levels[i].price, orders |-> buried]
    BY <1>4, <2>1, Zenon
  <2> QED BY <2>1, <2>2
<1>6. ASSUME NEW i \in DOMAIN levels
      PROVE  LET q == levels[i].orders
                 r == less[i].orders
             IN  /\ r \in Seq(Nat) /\ Len(r) = Len(q)
                 /\ \A a : IsLive(a) => (In(r, a) <=> In(q, a) /\ a # id)
                 /\ \A a, b : IsLive(a) /\ IsLive(b) =>
                      (Before(r, a, b) <=> Before(q, a, b) /\ a # id /\ b # id)
                 /\ Once(r)
  <2>1. levels[i].orders \in Seq(Nat)
    BY <1>2 DEF Level
  <2>2. Once(levels[i].orders)
    BY DEF Sound, LevelSound, LevelsOf
  <2> QED BY <1>5, <2>1, <2>2, BuriedQueue
<1> HIDE DEF Bury
<1>7. \A i \in DOMAIN levels : less[i] \in Level
  <2> TAKE i \in DOMAIN levels
  <2>1. less[i].orders \in Seq(Nat)
    BY <1>6
  <2>2. less[i] = [price |-> levels[i].price, orders |-> less[i].orders]
    BY <1>4, <1>5
  <2>3. levels[i].price \in Prices
    BY <1>2 DEF Level
  <2> QED BY <2>1, <2>2, <2>3 DEF Level
<1>8. Sorted(s, less) /\ Len(less) = Len(levels)
  <2>1. less = [i \in 1 .. Len(levels) |-> less[i]]
    BY <1>0, <1>1, <1>3 DEF TombstoneOrder
  <2>2. less \in Seq(Level) /\ Len(less) = Len(levels)
    BY <1>0, <1>7, <2>1
  <2>3. LevelSorted(s, less)
    BY <1>0, <1>3, <1>5 DEF Sound, Sorted, LevelSorted
  <2> QED BY <2>2, <2>3 DEF Sorted
<1>9. \A m \in LevelsOf(less) : LevelSound(orders, s, m)
  <2> SUFFICES ASSUME NEW i \in DOMAIN levels PROVE LevelSound(orders, s, less[i])
    BY <1>3 DEF LevelsOf
  <2>1. LevelSound(orders, s, levels[i])
    BY DEF Sound, LevelsOf
  <2> QED BY <1>5, <1>6, <2>1 DEF LevelSound
<1>10. Sound(orders, s, less)
  BY <1>8, <1>9 DEF Sound
<1>11. /\ \A a : a \in Resting(levels) <=> IsLive(a) /\ \E i \in DOMAIN levels : In(levels[i].orders, a)
       /\ \A a : a \in Resting(less) <=> IsLive(a) /\ \E i \in DOMAIN levels : In(less[i].orders, a)
  BY <1>3, RestingByLevel DEF LevelsOf
<1>12. /\ \A a, b : Ahead(levels, a, b) <=> \E i \in DOMAIN levels : Before(levels[i].orders, a, b)
       /\ \A a, b : Ahead(less, a, b) <=> \E i \in DOMAIN levels : Before(less[i].orders, a, b)
  BY <1>3, AheadByLevel DEF LevelsOf
<1>13. Resting(less) = Resting(levels) \ {id}
  BY <1>6, <1>11
<1>14. \A a, b \in Resting(less) : Ahead(less, a, b) <=> Ahead(levels, a, b)
  <2> TAKE a, b \in Resting(less)
  <2>1. IsLive(a) /\ IsLive(b) /\ a # id /\ b # id
    BY <1>11, <1>13
  <2> QED BY <1>6, <1>12, <2>1
<1> QED BY <1>1, <1>10, <1>13, <1>14
=============================================================================
