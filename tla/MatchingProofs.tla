--------------------------- MODULE MatchingProofs ---------------------------
(***************************************************************************)
(* The matching engine and the instructions of OrderBook: the account is   *)
(* well typed and sorted, price and time priority hold, and the book       *)
(* implements the life of an order, for every value of the constants.      *)
(***************************************************************************)
EXTENDS PriceLevelProofs

BookType ==
  [next_order_id : Nat, next_fill_id : Nat, levels : [Side -> Seq(Level)],
   fills : [Slots -> Fill \union {NoFill}], fill_count : Nat, fill_head : Nat,
   is_delegated : {0, 1}]

\* The ring is filled once from its start: fill_count is never lowered, so the
\* write cursor never comes back to a claimed slot.
RingSound(b) ==
  /\ b.fill_count <= MaxFills
  /\ b.next_fill_id = b.fill_count + 1
  /\ b.fill_head = IF b.fill_count = MaxFills THEN 0 ELSE b.fill_count
  /\ \A i \in Slots : IF i < b.fill_count
                      THEN b.fills[i] \in Fill /\ b.fills[i].fill_id = i + 1
                      ELSE b.fills[i] = NoFill

Made(b) == {i \in Slots : i < b.fill_count}

\* No order is in two fills, or in one and still in the book.
FilledOnce(orders, b) ==
  /\ \A i \in Made(b) :
       /\ b.fills[i].taker \in DOMAIN orders /\ b.fills[i].maker \in DOMAIN orders
       /\ orders[b.fills[i].taker].side = "bid" /\ orders[b.fills[i].maker].side = "ask"
       /\ b.fills[i].taker \notin Resting(b.levels["bid"])
       /\ b.fills[i].maker \notin Resting(b.levels["ask"])
  /\ \A i, j \in Made(b) :
       b.fills[i].taker = b.fills[j].taker \/ b.fills[i].maker = b.fills[j].maker => i = j

\* What the engine keeps about the account, whatever it does in a round.
EngineInv(orders, b) ==
  /\ b \in BookType
  /\ RingSound(b)
  /\ \A s \in Side : Sound(orders, s, b.levels[s])
  /\ FilledOnce(orders, b)

\* The inductive invariant of the account.
BookInv ==
  /\ paused \in BOOLEAN
  /\ placed \in Seq(Order)
  /\ cancelled \subseteq DOMAIN placed
  /\ book.next_order_id = Len(placed) + 1
  /\ EngineInv(placed, book)
  /\ cancelled \intersect InBook = {}
  /\ \A i \in Made(book) : book.fills[i].taker \notin cancelled /\ book.fills[i].maker \notin cancelled

-----------------------------------------------------------------------------
(* The ring.                                                               *)

LEMMA ModuloCapacity ==
  ASSUME NEW k \in 0 .. MaxFills
  PROVE  k % MaxFills = IF k = MaxFills THEN 0 ELSE k
<1>1. MaxFills \in Nat \ {0}
  BY BookAssumption
<1> QED BY <1>1

LEMMA NoFillIsNone == NoFill \notin Fill
  BY DEF NoFill, Fill

LEMMA BookUpdate ==
  ASSUME NEW b \in BookType, NEW f, NEW h, NEW c
  PROVE  [b EXCEPT !.fills = f, !.fill_head = h, !.fill_count = c] =
              [next_order_id |-> b.next_order_id, next_fill_id |-> b.next_fill_id,
               levels |-> b.levels, fills |-> f, fill_count |-> c, fill_head |-> h,
               is_delegated |-> b.is_delegated]
<1>1. PICK b1 : b1 = [b EXCEPT !.fills = f]
  OBVIOUS
<1>2. b1 =   [next_order_id |-> b.next_order_id, next_fill_id |-> b.next_fill_id,
               levels |-> b.levels, fills |-> f,
               fill_count |-> b.fill_count, fill_head |-> b.fill_head,
               is_delegated |-> b.is_delegated]
  BY <1>1 DEF BookType
<1>3. PICK b2 : b2 = [b1 EXCEPT !.fill_head = h]
  OBVIOUS
<1>4. b2 =   [next_order_id |-> b.next_order_id, next_fill_id |-> b.next_fill_id,
               levels |-> b.levels, fills |-> f,
               fill_count |-> b.fill_count, fill_head |-> h,
               is_delegated |-> b.is_delegated]
  BY <1>2, <1>3
<1>5. PICK b3 : b3 = [b2 EXCEPT !.fill_count = c]
  OBVIOUS
<1>6. b3 =   [next_order_id |-> b.next_order_id, next_fill_id |-> b.next_fill_id,
               levels |-> b.levels, fills |-> f,
               fill_count |-> c, fill_head |-> h,
               is_delegated |-> b.is_delegated]
  BY <1>4, <1>5
<1>7. b3 = [b EXCEPT !.fills = f, !.fill_head = h, !.fill_count = c]
  BY <1>1, <1>3, <1>5
<1> QED BY <1>6, <1>7

\* The next slot is the first that was never written.
LEMMA PushFillShape ==
  ASSUME NEW b \in BookType, RingSound(b), b.fill_count < MaxFills, NEW fill
  PROVE  /\ CanPushFill(b)
         /\ PushFill(b, fill) =
              [next_order_id |-> b.next_order_id, next_fill_id |-> b.next_fill_id,
               levels |-> b.levels, fills |-> [b.fills EXCEPT ![b.fill_count] = fill],
               fill_count |-> b.fill_count + 1,
               fill_head |-> IF b.fill_count + 1 = MaxFills THEN 0 ELSE b.fill_count + 1,
               is_delegated |-> b.is_delegated]
<1>1. /\ MaxFills \in Nat \ {0} /\ b.fill_count \in Nat /\ b.fill_head = b.fill_count
      /\ b.fill_count \in Slots /\ 0 \in Slots
  BY BookAssumption DEF RingSound, BookType, Slots
<1>2. (b.fill_head + 0) % MaxFills = b.fill_count
  <2>1. b.fill_count \in 0 .. MaxFills /\ b.fill_count # MaxFills
    BY <1>1
  <2>2. b.fill_head + 0 = b.fill_count
    BY <1>1
  <2> QED BY <2>1, <2>2, ModuloCapacity
<1>3. 0 \in FreeOffsets(b)
  <2>1. b.fills[b.fill_count] = NoFill
    BY <1>1 DEF RingSound
  <2> QED BY <1>1, <1>2, <2>1 DEF FreeOffsets, IsFree
<1>4. First(FreeOffsets(b)) = 0
  <2>1. FreeOffsets(b) \subseteq Nat
    BY DEF FreeOffsets, Slots
  <2>2. First(FreeOffsets(b)) \in Nat /\ First(FreeOffsets(b)) <= 0
    BY <1>3, <2>1, FirstIsLeast
  <2> QED BY <2>2
<1>5. PICK cursor : cursor = b.fill_count
  OBVIOUS
<1>6. (b.fill_head + First(FreeOffsets(b))) % MaxFills = cursor
  BY <1>2, <1>4, <1>5
<1>7. PICK head : head = (cursor + 1) % MaxFills
  OBVIOUS
<1>8. head = IF b.fill_count + 1 = MaxFills THEN 0 ELSE b.fill_count + 1
  <2>1. cursor + 1 \in 0 .. MaxFills
    BY <1>1, <1>5
  <2> QED BY <1>5, <1>7, <2>1, ModuloCapacity
<1>9. PushFill(b, fill) = [b EXCEPT !.fills[cursor] = fill, !.fill_head = head, !.fill_count = @ + 1]
  BY <1>6, <1>7 DEF PushFill
<1>10. PICK fills : fills = [b.fills EXCEPT ![cursor] = fill]
  OBVIOUS
<1>11. PushFill(b, fill) = [b EXCEPT !.fills = fills, !.fill_head = head, !.fill_count = b.fill_count + 1]
  BY <1>9, <1>10
<1>12. [b EXCEPT !.fills = fills, !.fill_head = head, !.fill_count = b.fill_count + 1] =
              [next_order_id |-> b.next_order_id, next_fill_id |-> b.next_fill_id,
               levels |-> b.levels, fills |-> fills,
               fill_count |-> b.fill_count + 1, fill_head |-> head,
               is_delegated |-> b.is_delegated]
  BY BookUpdate
<1> QED BY <1>1, <1>3, <1>5, <1>8, <1>10, <1>11, <1>12 DEF CanPushFill

-----------------------------------------------------------------------------
(* One round of the matching engine.                                       *)

Sides(bids, asks) == [s \in Side |-> IF s = "bid" THEN bids ELSE asks]

NewFill(b, x, y) ==
  [fill_id |-> b.next_fill_id, taker |-> x, maker |-> y, price |-> placed[y].price,
   size_band |-> placed[x].size_band, claimed |-> FALSE]

WithLevels(b, levels) ==
  [next_order_id |-> b.next_order_id, next_fill_id |-> b.next_fill_id, levels |-> levels,
   fills |-> b.fills, fill_count |-> b.fill_count, fill_head |-> b.fill_head,
   is_delegated |-> b.is_delegated]

WithFill(b, levels, fill) ==
  [next_order_id |-> b.next_order_id, next_fill_id |-> b.next_fill_id + 1, levels |-> levels,
   fills |-> [b.fills EXCEPT ![b.fill_count] = fill], fill_count |-> b.fill_count + 1,
   fill_head |-> IF b.fill_count + 1 = MaxFills THEN 0 ELSE b.fill_count + 1,
   is_delegated |-> b.is_delegated]

LEMMA LevelsUpdate ==
  ASSUME NEW b \in BookType, NEW levels
  PROVE  [b EXCEPT !.levels = levels] = WithLevels(b, levels)
  BY DEF BookType, WithLevels

LEMMA RoundShape ==
  ASSUME NEW b \in BookType, RingSound(b), b.fill_count < MaxFills,
         NEW bids \in Seq(Level), NEW asks \in Seq(Level), NEW x, NEW y,
         PopBest(b.levels["bid"]).levels = bids, PopBest(b.levels["bid"]).order = x,
         PopBest(b.levels["ask"]).levels = asks, PopBest(b.levels["ask"]).order = y
  PROVE  MatchRound(b) =
           IF placed[x].trader # placed[y].trader
           THEN [book |-> WithFill(b, Sides(bids, asks), NewFill(b, x, y)), going |-> TRUE]
           ELSE [book |-> WithLevels(b, Sides(PutBack(placed, "bid", b.levels["bid"]),
                                              PutBack(placed, "ask", b.levels["ask"]))),
                 going |-> FALSE]
<1>1. PICK levels : levels = Sides(bids, asks)
  OBVIOUS
<1>2. PICK fill : fill = NewFill(b, x, y)
  OBVIOUS
<1>3. PICK popped : popped = WithLevels(b, levels)
  OBVIOUS
<1>4. PICK back : back = Sides(PutBack(placed, "bid", b.levels["bid"]), PutBack(placed, "ask", b.levels["ask"]))
  OBVIOUS
<1>5. MatchRound(b) =
        IF placed[x].trader # placed[y].trader /\ CanPushFill(b)
        THEN [book |-> [PushFill([b EXCEPT !.levels = levels], fill) EXCEPT !.next_fill_id = @ + 1], going |-> TRUE]
        ELSE [book |-> [b EXCEPT !.levels = back], going |-> FALSE]
  <2> DEFINE bid == PopBest(b.levels["bid"])
  <2> DEFINE ask == PopBest(b.levels["ask"])
  <2> DEFINE putBack(s, lv, id) == InsertOrder(lv, s, id, placed[id].price).levels
  <2> DEFINE reinserted == [s \in Side |-> IF s = "bid" THEN putBack(s, bid.levels, bid.order)
                                                     ELSE putBack(s, ask.levels, ask.order)]
  <2>1. MatchRound(b) =
          IF placed[bid.order].trader # placed[ask.order].trader /\ CanPushFill(b)
          THEN [book |-> [PushFill([b EXCEPT !.levels = Sides(bid.levels, ask.levels)],
                                   NewFill(b, bid.order, ask.order)) EXCEPT !.next_fill_id = @ + 1],
                going |-> TRUE]
          ELSE [book |-> [b EXCEPT !.levels = reinserted], going |-> FALSE]
    BY Zenon DEF MatchRound, Sides, NewFill
  <2>2. reinserted = back
    <3>1. PutBack(placed, "bid", b.levels["bid"]) = putBack("bid", bid.levels, bid.order)
      BY Zenon DEF PutBack
    <3>2. PutBack(placed, "ask", b.levels["ask"]) = putBack("ask", ask.levels, ask.order)
      BY Zenon DEF PutBack
    <3> HIDE DEF bid, ask, putBack
    <3>3. \A s \in Side : reinserted[s] = back[s]
      <4>1. reinserted["bid"] = back["bid"]
        BY <1>4, <3>1 DEF Sides, Side
      <4>2. reinserted["ask"] = back["ask"]
        BY <1>4, <3>2 DEF Sides, Side
      <4> QED BY <4>1, <4>2 DEF Side
    <3> QED BY <1>4, <3>3 DEF Sides
  <2> HIDE DEF reinserted
  <2> QED BY <1>1, <1>2, <2>1, <2>2, Zenon
<1>6. CanPushFill(b)
  BY PushFillShape
<1>7. popped \in BookType /\ RingSound(popped) /\ popped.fill_count < MaxFills
  <2>1. levels \in [Side -> Seq(Level)]
    BY <1>1 DEF Sides
  <2>2. popped \in BookType
    BY <1>3, <2>1 DEF WithLevels, BookType
  <2>3. /\ popped.fill_count = b.fill_count /\ popped.next_fill_id = b.next_fill_id
        /\ popped.fill_head = b.fill_head /\ popped.fills = b.fills
    BY <1>3 DEF WithLevels
  <2> QED BY <2>2, <2>3 DEF RingSound
<1>8. PICK pushed : pushed = PushFill(popped, fill)
  OBVIOUS
<1>9. pushed = [next_order_id |-> popped.next_order_id, next_fill_id |-> popped.next_fill_id,
               levels |-> popped.levels, fills |-> [popped.fills EXCEPT ![popped.fill_count] = fill],
               fill_count |-> popped.fill_count + 1,
               fill_head |-> IF popped.fill_count + 1 = MaxFills THEN 0 ELSE popped.fill_count + 1,
               is_delegated |-> popped.is_delegated]
  BY <1>7, <1>8, PushFillShape
<1>10. pushed = [next_order_id |-> b.next_order_id, next_fill_id |-> b.next_fill_id,
               levels |-> levels, fills |-> [b.fills EXCEPT ![b.fill_count] = fill],
               fill_count |-> b.fill_count + 1,
               fill_head |-> IF b.fill_count + 1 = MaxFills THEN 0 ELSE b.fill_count + 1,
               is_delegated |-> b.is_delegated]
  <2>1. /\ popped.next_order_id = b.next_order_id /\ popped.next_fill_id = b.next_fill_id
        /\ popped.levels = levels /\ popped.fills = b.fills /\ popped.fill_count = b.fill_count
        /\ popped.is_delegated = b.is_delegated
    BY <1>3 DEF WithLevels
  <2> QED BY <1>9, <2>1, Zenon
<1>11. [pushed EXCEPT !.next_fill_id = @ + 1] = WithFill(b, levels, fill)
  <2>1. PICK fills : fills = [b.fills EXCEPT ![b.fill_count] = fill]
    OBVIOUS
  <2>2. PICK head : head = IF b.fill_count + 1 = MaxFills THEN 0 ELSE b.fill_count + 1
    OBVIOUS
  <2>3. PICK n : n = b.fill_count + 1
    OBVIOUS
  <2>4. pushed = [next_order_id |-> b.next_order_id, next_fill_id |-> b.next_fill_id,
                  levels |-> levels, fills |-> fills, fill_count |-> n, fill_head |-> head,
                  is_delegated |-> b.is_delegated]
    BY <1>10, <2>1, <2>2, <2>3, Zenon
  <2>5. [pushed EXCEPT !.next_fill_id = @ + 1]
          = [next_order_id |-> b.next_order_id, next_fill_id |-> b.next_fill_id + 1,
             levels |-> levels, fills |-> fills, fill_count |-> n, fill_head |-> head,
             is_delegated |-> b.is_delegated]
    BY <2>4
  <2> QED BY <2>1, <2>2, <2>3, <2>5, Zenon DEF WithFill
<1>12. /\ [b EXCEPT !.levels = levels] = popped
       /\ [b EXCEPT !.levels = back] = WithLevels(b, back)
  BY <1>3, LevelsUpdate
<1>13. CASE placed[x].trader # placed[y].trader
  <2>1. MatchRound(b) = [book |-> [PushFill(popped, fill) EXCEPT !.next_fill_id = @ + 1], going |-> TRUE]
    BY <1>5, <1>6, <1>12, <1>13, Zenon
  <2>2. MatchRound(b) = [book |-> WithFill(b, levels, fill), going |-> TRUE]
    BY <1>8, <1>11, <2>1
  <2> QED BY <1>1, <1>2, <1>13, <2>2
<1>14. CASE placed[x].trader = placed[y].trader
  <2>1. MatchRound(b) = [book |-> WithLevels(b, back), going |-> FALSE]
    BY <1>5, <1>12, <1>14, Zenon
  <2> QED BY <1>4, <1>14, <2>1
<1> QED BY <1>13, <1>14

\* The round traded x with y, the first of the best prices.
RoundTrades(b, c, x, y) ==
  /\ Leaves(placed, "bid", b.levels["bid"], c.levels["bid"], x)
  /\ Leaves(placed, "ask", b.levels["ask"], c.levels["ask"], y)
  /\ placed[x].trader # placed[y].trader /\ placed[y].price <= placed[x].price
  /\ c.next_order_id = b.next_order_id /\ c.is_delegated = b.is_delegated
  /\ c.next_fill_id = b.next_fill_id + 1 /\ c.fill_count = b.fill_count + 1
  /\ c.fills = [b.fills EXCEPT ![b.fill_count] = NewFill(b, x, y)]

\* The round ran into orders x and y of one trader, and put them back.
RoundStops(b, c, x, y) ==
  /\ x \in Resting(b.levels["bid"]) /\ y \in Resting(b.levels["ask"])
  /\ placed[x].trader = placed[y].trader /\ placed[y].price <= placed[x].price
  /\ \A a \in Resting(b.levels["bid"]) : ~ Better("bid", placed[a].price, placed[x].price)
  /\ \A a \in Resting(b.levels["ask"]) : ~ Better("ask", placed[a].price, placed[y].price)
  /\ \A s \in Side : Resting(c.levels[s]) = Resting(b.levels[s])
  /\ \A i, j \in Resting(b.levels["bid"]) \ {x} : Ahead(c.levels["bid"], i, j) <=> Ahead(b.levels["bid"], i, j)
  /\ \A i, j \in Resting(b.levels["ask"]) \ {y} : Ahead(c.levels["ask"], i, j) <=> Ahead(b.levels["ask"], i, j)
  /\ \A i \in Resting(b.levels["bid"]) : ~ Ahead(c.levels["bid"], x, i)
  /\ \A i \in Resting(b.levels["ask"]) : ~ Ahead(c.levels["ask"], y, i)
  /\ c = WithLevels(b, c.levels)

LEMMA WithLevelsInv ==
  ASSUME NEW b, EngineInv(placed, b), NEW levels \in [Side -> Seq(Level)],
         \A s \in Side : /\ Sound(placed, s, levels[s])
                         /\ Resting(levels[s]) \subseteq Resting(b.levels[s])
  PROVE  EngineInv(placed, WithLevels(b, levels))
<1>1. PICK c : c = WithLevels(b, levels)
  OBVIOUS
<1>2. /\ c.fill_count = b.fill_count /\ c.next_fill_id = b.next_fill_id
      /\ c.fill_head = b.fill_head /\ c.fills = b.fills /\ c.levels = levels
  BY <1>1 DEF WithLevels
<1>3. c \in BookType
  BY <1>1 DEF WithLevels, BookType, EngineInv
<1>4. RingSound(c)
  BY <1>2 DEF EngineInv, RingSound
<1>5. Made(c) = Made(b)
  BY <1>2 DEF Made
<1>6. FilledOnce(placed, c)
  <2>1. "bid" \in Side /\ "ask" \in Side
    BY DEF Side
  <2> QED BY <1>2, <1>5, <2>1 DEF EngineInv, FilledOnce
<1>7. \A s \in Side : Sound(placed, s, c.levels[s])
  BY <1>2
<1> QED BY <1>1, <1>3, <1>4, <1>6, <1>7 DEF EngineInv

LEMMA MadeMore ==
  ASSUME NEW b \in BookType, b.fill_count < MaxFills, NEW c \in BookType, c.fill_count = b.fill_count + 1
  PROVE  /\ b.fill_count \in Slots /\ b.fill_count \notin Made(b)
         /\ Made(c) = Made(b) \union {b.fill_count}
<1>1. b.fill_count \in Nat /\ MaxFills \in Nat \ {0}
  BY BookAssumption DEF BookType
<1>2. b.fill_count \in Slots /\ \A i \in Slots : i \in Int
  BY <1>1 DEF Slots
<1> QED BY <1>1, <1>2 DEF Made

LEMMA WithFillInv ==
  ASSUME placed \in Seq(Order), NEW b, EngineInv(placed, b), b.fill_count < MaxFills,
         NEW levels \in [Side -> Seq(Level)], NEW x, NEW y,
         \A s \in Side : Sound(placed, s, levels[s]),
         x \in Resting(b.levels["bid"]), y \in Resting(b.levels["ask"]),
         Resting(levels["bid"]) = Resting(b.levels["bid"]) \ {x},
         Resting(levels["ask"]) = Resting(b.levels["ask"]) \ {y}
  PROVE  EngineInv(placed, WithFill(b, levels, NewFill(b, x, y)))
<1> DEFINE n == b.fill_count
<1>0. "bid" \in Side /\ "ask" \in Side
  BY DEF Side
<1>1. PICK fill : fill = NewFill(b, x, y)
  OBVIOUS
<1>2. PICK c : c = WithFill(b, levels, fill)
  OBVIOUS
<1>3. b \in BookType /\ n \in Nat /\ n \in Slots /\ n + 1 \in 0 .. MaxFills /\ MaxFills \in Nat \ {0}
      /\ b.fills \in [Slots -> Fill \union {NoFill}] /\ b.next_fill_id = n + 1
  BY BookAssumption DEF EngineInv, RingSound, BookType, Slots
<1>4. /\ x \in DOMAIN placed /\ placed[x].side = "bid" /\ x \in Nat \ {0}
      /\ y \in DOMAIN placed /\ placed[y].side = "ask" /\ y \in Nat \ {0}
  <2>1. Sound(placed, "bid", b.levels["bid"]) /\ Sound(placed, "ask", b.levels["ask"])
    BY <1>0 DEF EngineInv
  <2> QED BY <2>1, RestingAtLevel DEF IsLive, Tombstone
<1>5. fill \in Fill /\ fill.fill_id = n + 1 /\ fill.taker = x /\ fill.maker = y
  <2>1. placed[x] \in Order /\ placed[y] \in Order
    BY <1>4
  <2>2. placed[y].price \in Prices /\ placed[x].size_band \in SizeBands
    BY <2>1 DEF Order
  <2> QED BY <1>1, <1>3, <1>4, <2>2 DEF NewFill, Fill
<1>6. /\ c.fill_count = n + 1 /\ c.next_fill_id = n + 2 /\ c.levels = levels
      /\ c.fill_head = IF n + 1 = MaxFills THEN 0 ELSE n + 1
      /\ c.fills = [b.fills EXCEPT ![n] = fill]
      /\ c.next_order_id = b.next_order_id /\ c.is_delegated = b.is_delegated
  BY <1>2, <1>3 DEF WithFill
<1>7. /\ c.fills \in [Slots -> Fill \union {NoFill}] /\ c.fills[n] = fill
      /\ \A i \in Slots : i # n => c.fills[i] = b.fills[i]
  BY <1>3, <1>5, <1>6
<1>8. c \in BookType
  <2>1. c.fill_head \in Nat /\ c.next_fill_id \in Nat /\ c.fill_count \in Nat
    BY <1>3, <1>6
  <2>2. b.next_order_id \in Nat /\ b.is_delegated \in {0, 1}
    BY <1>3 DEF BookType
  <2>3. c = [next_order_id |-> c.next_order_id, next_fill_id |-> c.next_fill_id, levels |-> c.levels,
             fills |-> c.fills, fill_count |-> c.fill_count, fill_head |-> c.fill_head,
             is_delegated |-> c.is_delegated]
    BY <1>2, <1>6 DEF WithFill
  <2> QED BY <1>6, <1>7, <2>1, <2>2, <2>3 DEF BookType
<1>9. RingSound(c)
  <2>1. ASSUME NEW i \in Slots
        PROVE  IF i < n + 1 THEN c.fills[i] \in Fill /\ c.fills[i].fill_id = i + 1
               ELSE c.fills[i] = NoFill
    <3>1. CASE i = n
      BY <1>3, <1>5, <1>7, <3>1
    <3>2. CASE i # n
      <4>1. i \in Int /\ (i < n + 1 <=> i < n)
        BY <1>3, <3>2 DEF Slots
      <4> QED BY <1>7, <3>2, <4>1 DEF EngineInv, RingSound
    <3> QED BY <3>1, <3>2
  <2> QED BY <1>3, <1>6, <2>1 DEF RingSound
<1>10. Made(c) = Made(b) \union {n} /\ n \notin Made(b)
  BY <1>3, <1>6, <1>8, MadeMore
<1>11. \A i \in Made(b) : i \in Slots /\ i # n /\ c.fills[i] = b.fills[i]
  BY <1>7, <1>10 DEF Made
<1>12. /\ x \notin Resting(levels["bid"]) /\ y \notin Resting(levels["ask"])
       /\ Resting(levels["bid"]) \subseteq Resting(b.levels["bid"])
       /\ Resting(levels["ask"]) \subseteq Resting(b.levels["ask"])
  OBVIOUS
<1>13. FilledOnce(placed, c)
  <2>1. FilledOnce(placed, b)
    BY DEF EngineInv
  <2>2. \A i \in Made(c) : i \in Made(b) \/ i = n
    BY <1>10
  <2>3. \A i \in Made(c) :
       /\ c.fills[i].taker \in DOMAIN placed /\ c.fills[i].maker \in DOMAIN placed
       /\ placed[c.fills[i].taker].side = "bid" /\ placed[c.fills[i].maker].side = "ask"
       /\ c.fills[i].taker \notin Resting(levels["bid"])
       /\ c.fills[i].maker \notin Resting(levels["ask"])
    <3> TAKE i \in Made(c)
    <3>1. CASE i \in Made(b)
      BY <1>11, <1>12, <2>1, <3>1 DEF FilledOnce
    <3>2. CASE i = n
      BY <1>4, <1>5, <1>7, <1>12, <3>2
    <3> QED BY <2>2, <3>1, <3>2
  <2>4. \A i \in Made(b) : c.fills[i].taker # x /\ c.fills[i].maker # y
    BY <1>11, <2>1 DEF FilledOnce
  <2>5. \A i, j \in Made(c) :
           c.fills[i].taker = c.fills[j].taker \/ c.fills[i].maker = c.fills[j].maker => i = j
    <3> TAKE i, j \in Made(c)
    <3>1. CASE i \in Made(b) /\ j \in Made(b)
      BY <1>11, <2>1, <3>1 DEF FilledOnce
    <3>2. CASE i = n /\ j \in Made(b)
      BY <1>5, <1>7, <2>4, <3>2
    <3>3. CASE i \in Made(b) /\ j = n
      BY <1>5, <1>7, <2>4, <3>3
    <3> QED BY <2>2, <3>1, <3>2, <3>3
  <2> QED BY <1>6, <2>3, <2>5 DEF FilledOnce
<1> QED BY <1>1, <1>2, <1>6, <1>8, <1>9, <1>13 DEF EngineInv

LEMMA RoundWorks ==
  ASSUME placed \in Seq(Order), NEW b, EngineInv(placed, b), b.fill_count < MaxFills, Crossed(b),
         NEW c, c = MatchRound(b).book
  PROVE  /\ EngineInv(placed, c)
         /\ \E x, y : IF MatchRound(b).going THEN RoundTrades(b, c, x, y) ELSE RoundStops(b, c, x, y)
<1>0. "bid" \in Side /\ "ask" \in Side /\ Side = {"bid", "ask"} /\ "bid" # "ask"
  BY DEF Side
<1>1. /\ b \in BookType /\ RingSound(b)
      /\ Sound(placed, "bid", b.levels["bid"]) /\ Sound(placed, "ask", b.levels["ask"])
      /\ LiveLevels(b.levels["bid"]) # {} /\ LiveLevels(b.levels["ask"]) # {}
      /\ BestPrice(b.levels["bid"]) >= BestPrice(b.levels["ask"])
  BY <1>0 DEF EngineInv, Crossed
<1>2. PICK bids : bids = PopBest(b.levels["bid"]).levels
  OBVIOUS
<1>3. PICK asks : asks = PopBest(b.levels["ask"]).levels
  OBVIOUS
<1>4. PICK x : x = PopBest(b.levels["bid"]).order
  OBVIOUS
<1>5. PICK y : y = PopBest(b.levels["ask"]).order
  OBVIOUS
<1>6. /\ Sound(placed, "bid", bids) /\ Leaves(placed, "bid", b.levels["bid"], bids, x)
      /\ Sound(placed, "ask", asks) /\ Leaves(placed, "ask", b.levels["ask"], asks, y)
  BY <1>1, <1>2, <1>3, <1>4, <1>5, PopWorks
<1>7. bids \in Seq(Level) /\ asks \in Seq(Level)
  BY <1>6 DEF Sound, Sorted
<1>8. MatchRound(b) =
           IF placed[x].trader # placed[y].trader
           THEN [book |-> WithFill(b, Sides(bids, asks), NewFill(b, x, y)), going |-> TRUE]
           ELSE [book |-> WithLevels(b, Sides(PutBack(placed, "bid", b.levels["bid"]),
                                              PutBack(placed, "ask", b.levels["ask"]))),
                 going |-> FALSE]
  BY <1>1, <1>2, <1>3, <1>4, <1>5, <1>7, RoundShape
<1>9. /\ x \in Resting(b.levels["bid"]) /\ y \in Resting(b.levels["ask"])
      /\ Resting(bids) = Resting(b.levels["bid"]) \ {x}
      /\ Resting(asks) = Resting(b.levels["ask"]) \ {y}
      /\ placed[x].price = BestPrice(b.levels["bid"]) /\ placed[y].price = BestPrice(b.levels["ask"])
      /\ \A a \in Resting(b.levels["bid"]) : ~ Better("bid", placed[a].price, placed[x].price)
      /\ \A a \in Resting(b.levels["ask"]) : ~ Better("ask", placed[a].price, placed[y].price)
  BY <1>6 DEF Leaves
<1>10. placed[y].price <= placed[x].price
  <2>1. placed[x].price \in Int /\ placed[y].price \in Int
    BY <1>1, <1>9, RestingAtLevel
  <2> QED BY <1>1, <1>9, <2>1
<1>11. CASE placed[x].trader # placed[y].trader
  <2>1. PICK levels : levels = Sides(bids, asks)
    OBVIOUS
  <2>2. levels \in [Side -> Seq(Level)] /\ levels["bid"] = bids /\ levels["ask"] = asks
    BY <1>0, <1>7, <2>1 DEF Sides
  <2>3. c = WithFill(b, levels, NewFill(b, x, y)) /\ MatchRound(b).going
    BY <1>8, <1>11, <2>1
  <2>4. \A s \in Side : Sound(placed, s, levels[s])
    BY <1>0, <1>6, <2>2
  <2>5. EngineInv(placed, c)
    <3>1. /\ x \in Resting(b.levels["bid"]) /\ y \in Resting(b.levels["ask"])
          /\ Resting(levels["bid"]) = Resting(b.levels["bid"]) \ {x}
          /\ Resting(levels["ask"]) = Resting(b.levels["ask"]) \ {y}
          /\ levels \in [Side -> Seq(Level)]
      BY <1>9, <2>2
    <3>2. EngineInv(placed, WithFill(b, levels, NewFill(b, x, y)))
      BY <2>4, <3>1, WithFillInv
    <3> QED BY <2>3, <3>2
  <2>6. /\ c.next_order_id = b.next_order_id /\ c.is_delegated = b.is_delegated
        /\ c.next_fill_id = b.next_fill_id + 1 /\ c.fill_count = b.fill_count + 1
        /\ c.levels = levels
        /\ c.fills = [b.fills EXCEPT ![b.fill_count] = NewFill(b, x, y)]
    BY <2>3 DEF WithFill
  <2>7. RoundTrades(b, c, x, y)
    BY <1>6, <1>10, <1>11, <2>2, <2>6 DEF RoundTrades
  <2> QED BY <2>3, <2>5, <2>7
<1>12. CASE placed[x].trader = placed[y].trader
  <2>1. PICK p : p = PutBack(placed, "bid", b.levels["bid"])
    OBVIOUS
  <2>2. PICK q : q = PutBack(placed, "ask", b.levels["ask"])
    OBVIOUS
  <2>3. /\ Sound(placed, "bid", p) /\ Resting(p) = Resting(b.levels["bid"])
        /\ \A i, j \in Resting(b.levels["bid"]) \ {x} : Ahead(p, i, j) <=> Ahead(b.levels["bid"], i, j)
        /\ \A i \in Resting(b.levels["bid"]) : ~ Ahead(p, x, i)
    BY <1>1, <1>4, <2>1, PutBackWorks
  <2>4. /\ Sound(placed, "ask", q) /\ Resting(q) = Resting(b.levels["ask"])
        /\ \A i, j \in Resting(b.levels["ask"]) \ {y} : Ahead(q, i, j) <=> Ahead(b.levels["ask"], i, j)
        /\ \A i \in Resting(b.levels["ask"]) : ~ Ahead(q, y, i)
    BY <1>1, <1>5, <2>2, PutBackWorks
  <2>5. PICK levels : levels = Sides(p, q)
    OBVIOUS
  <2>6. levels \in [Side -> Seq(Level)] /\ levels["bid"] = p /\ levels["ask"] = q
    <3>1. p \in Seq(Level) /\ q \in Seq(Level)
      BY <2>3, <2>4 DEF Sound, Sorted
    <3> QED BY <1>0, <2>5, <3>1 DEF Sides
  <2>7. c = WithLevels(b, levels) /\ ~ MatchRound(b).going
    BY <1>8, <1>12, <2>1, <2>2, <2>5
  <2>8. c.levels = levels
    BY <2>7 DEF WithLevels
  <2>9. \A s \in Side : Sound(placed, s, levels[s]) /\ Resting(levels[s]) = Resting(b.levels[s])
    BY <1>0, <2>3, <2>4, <2>6
  <2>10. EngineInv(placed, c)
    BY <2>6, <2>7, <2>9, WithLevelsInv
  <2>11. RoundStops(b, c, x, y)
    BY <1>9, <1>10, <1>12, <2>3, <2>4, <2>6, <2>7, <2>8, <2>9 DEF RoundStops
  <2> QED BY <2>7, <2>10, <2>11
<1> QED BY <1>11, <1>12

-----------------------------------------------------------------------------
(* Any number of rounds: from the book b to the book c.                    *)

New(b, c) == Made(c) \ Made(b)

Taken(b, c) == {c.fills[i].taker : i \in New(b, c)} \union {c.fills[i].maker : i \in New(b, c)}

\* The limits of the two orders and their traders allow the fill.
FillAllowed(fill) ==
  /\ placed[fill.taker].trader # placed[fill.maker].trader
  /\ placed[fill.maker].price <= fill.price /\ fill.price <= placed[fill.taker].price
  /\ ~ fill.claimed

\* The rounds only take trades out of the book: fills are added, nobody who stays
\* has a better price than those of its side who traded or was ahead of them.
Progress(b, c) ==
  /\ c.next_order_id = b.next_order_id /\ c.is_delegated = b.is_delegated
  /\ Made(b) \subseteq Made(c) /\ \A i \in Made(b) : c.fills[i] = b.fills[i]
  /\ \A i \in New(b, c) :
       /\ c.fills[i].taker \in Resting(b.levels["bid"]) /\ c.fills[i].maker \in Resting(b.levels["ask"])
       /\ FillAllowed(c.fills[i])
  /\ \A s \in Side : Resting(c.levels[s]) = Resting(b.levels[s]) \ Taken(b, c)
  /\ \A i \in New(b, c) :
       /\ \A id \in Resting(c.levels["bid"]) : ~ Better("bid", placed[id].price, placed[c.fills[i].taker].price)
       /\ \A id \in Resting(c.levels["ask"]) : ~ Better("ask", placed[id].price, placed[c.fills[i].maker].price)
  /\ \A s \in Side : \A i, j \in Resting(b.levels[s]) :
       Ahead(b.levels[s], i, j) /\ i \in Resting(c.levels[s]) => j \notin Taken(b, c)

InOrder(b, c) ==
  \A s \in Side : \A i, j \in Resting(c.levels[s]) : Ahead(c.levels[s], i, j) <=> Ahead(b.levels[s], i, j)

\* BlockedBySelf, of any book.
BlockedIn(c, id) ==
  \E other \in Resting(c.levels["bid"]) \union Resting(c.levels["ask"]) :
    /\ placed[other].trader = placed[id].trader
    /\ placed[other].side # placed[id].side
    /\ ~ Better(placed[id].side, placed[other].price, placed[id].price)

SwappedWhenBlocked(b, c) ==
  \A s \in Side : \A i, j \in Resting(c.levels[s]) :
    Ahead(b.levels[s], i, j) /\ Ahead(c.levels[s], j, i) => BlockedIn(c, i)

LEMMA ProgressStart ==
  ASSUME NEW b
  PROVE  Progress(b, b) /\ InOrder(b, b)
<1>1. New(b, b) = {} /\ Taken(b, b) = {}
  BY DEF New, Taken
<1> QED BY <1>1 DEF Progress, InOrder

LEMMA ProgressTrade ==
  ASSUME NEW b, NEW c, NEW d, NEW x, NEW y, EngineInv(placed, b), EngineInv(placed, c), EngineInv(placed, d),
         Progress(b, c), InOrder(b, c), c.fill_count < MaxFills, RoundTrades(c, d, x, y)
  PROVE  Progress(b, d) /\ InOrder(b, d)
<1> DEFINE n == c.fill_count
<1>0. "bid" \in Side /\ "ask" \in Side /\ Side = {"bid", "ask"} /\ "bid" # "ask"
  BY DEF Side
<1>1. /\ x \in Resting(c.levels["bid"]) /\ y \in Resting(c.levels["ask"])
      /\ Resting(d.levels["bid"]) = Resting(c.levels["bid"]) \ {x}
      /\ Resting(d.levels["ask"]) = Resting(c.levels["ask"]) \ {y}
      /\ \A a \in Resting(c.levels["bid"]) : ~ Better("bid", placed[a].price, placed[x].price) /\ ~ Ahead(c.levels["bid"], a, x)
      /\ \A a \in Resting(c.levels["ask"]) : ~ Better("ask", placed[a].price, placed[y].price) /\ ~ Ahead(c.levels["ask"], a, y)
      /\ \A i, j \in Resting(d.levels["bid"]) : Ahead(d.levels["bid"], i, j) <=> Ahead(c.levels["bid"], i, j)
      /\ \A i, j \in Resting(d.levels["ask"]) : Ahead(d.levels["ask"], i, j) <=> Ahead(c.levels["ask"], i, j)
  BY DEF RoundTrades, Leaves
<1>2. /\ placed[x].trader # placed[y].trader /\ placed[y].price <= placed[x].price
      /\ d.next_order_id = c.next_order_id /\ d.is_delegated = c.is_delegated
      /\ d.fill_count = n + 1
      /\ d.fills = [c.fills EXCEPT ![n] = NewFill(c, x, y)]
  BY DEF RoundTrades
<1>3. c \in BookType /\ d \in BookType
  BY DEF EngineInv
<1>4. n \in Slots /\ n \notin Made(c) /\ Made(d) = Made(c) \union {n}
  BY <1>2, <1>3, MadeMore
<1>5. PICK fill : fill = NewFill(c, x, y)
  OBVIOUS
<1>6. fill.taker = x /\ fill.maker = y /\ fill.price = placed[y].price /\ ~ fill.claimed
  BY <1>5 DEF NewFill
<1>7. d.fills[n] = fill /\ \A i \in Slots : i # n => d.fills[i] = c.fills[i]
  <2>1. c.fills \in [Slots -> Fill \union {NoFill}]
    BY <1>3 DEF BookType
  <2> QED BY <1>2, <1>4, <1>5, <2>1
<1>8. \A i \in Made(c) : i \in Slots /\ i # n /\ d.fills[i] = c.fills[i]
  BY <1>4, <1>7 DEF Made
<1>9. /\ c.next_order_id = b.next_order_id /\ c.is_delegated = b.is_delegated
      /\ Made(b) \subseteq Made(c) /\ \A i \in Made(b) : c.fills[i] = b.fills[i]
      /\ \A i \in New(b, c) :
           /\ c.fills[i].taker \in Resting(b.levels["bid"]) /\ c.fills[i].maker \in Resting(b.levels["ask"])
           /\ FillAllowed(c.fills[i])
      /\ \A s \in Side : Resting(c.levels[s]) = Resting(b.levels[s]) \ Taken(b, c)
      /\ \A i \in New(b, c) :
           /\ \A id \in Resting(c.levels["bid"]) : ~ Better("bid", placed[id].price, placed[c.fills[i].taker].price)
           /\ \A id \in Resting(c.levels["ask"]) : ~ Better("ask", placed[id].price, placed[c.fills[i].maker].price)
      /\ \A s \in Side : \A i, j \in Resting(b.levels[s]) :
           Ahead(b.levels[s], i, j) /\ i \in Resting(c.levels[s]) => j \notin Taken(b, c)
  BY DEF Progress
<1>10. New(b, d) = New(b, c) \union {n} /\ n \notin New(b, c)
  BY <1>4, <1>9 DEF New
<1>11. \A i \in New(b, c) : d.fills[i] = c.fills[i]
  BY <1>8 DEF New
<1>12. Taken(b, d) = Taken(b, c) \union {x, y}
  BY <1>6, <1>7, <1>10, <1>11 DEF Taken
<1>13. /\ x \notin Resting(c.levels["ask"]) /\ y \notin Resting(c.levels["bid"])
       /\ placed[x].price \in Int /\ placed[y].price \in Int
       /\ placed[x].side = "bid" /\ placed[y].side = "ask"
  <2>1. Sound(placed, "bid", c.levels["bid"]) /\ Sound(placed, "ask", c.levels["ask"])
    BY <1>0 DEF EngineInv
  <2> QED BY <1>0, <1>1, <2>1, RestingAtLevel
<1>14. /\ Resting(d.levels["bid"]) = Resting(b.levels["bid"]) \ Taken(b, d)
       /\ Resting(d.levels["ask"]) = Resting(b.levels["ask"]) \ Taken(b, d)
  BY <1>0, <1>1, <1>9, <1>12, <1>13
<1>15. FillAllowed(fill)
  BY <1>2, <1>6, <1>13 DEF FillAllowed
<1>16. x \in Resting(b.levels["bid"]) /\ y \in Resting(b.levels["ask"])
  BY <1>0, <1>1, <1>9
<1>17. \A i \in New(b, d) :
         /\ d.fills[i].taker \in Resting(b.levels["bid"]) /\ d.fills[i].maker \in Resting(b.levels["ask"])
         /\ FillAllowed(d.fills[i])
  <2> TAKE i \in New(b, d)
  <2>1. CASE i \in New(b, c)
    BY <1>9, <1>11, <2>1
  <2>2. CASE i = n
    BY <1>6, <1>7, <1>15, <1>16, <2>2
  <2> QED BY <1>10, <2>1, <2>2
<1>18. \A i \in New(b, d) :
         /\ \A id \in Resting(d.levels["bid"]) : ~ Better("bid", placed[id].price, placed[d.fills[i].taker].price)
         /\ \A id \in Resting(d.levels["ask"]) : ~ Better("ask", placed[id].price, placed[d.fills[i].maker].price)
  <2> TAKE i \in New(b, d)
  <2>0. Resting(d.levels["bid"]) \subseteq Resting(c.levels["bid"]) /\ Resting(d.levels["ask"]) \subseteq Resting(c.levels["ask"])
    BY <1>1
  <2>1. CASE i \in New(b, c)
    BY <1>9, <1>11, <2>0, <2>1
  <2>2. CASE i = n
    BY <1>1, <1>6, <1>7, <2>0, <2>2
  <2> QED BY <1>10, <2>1, <2>2
<1>19. ASSUME NEW s \in Side, NEW i \in Resting(b.levels[s]), NEW j \in Resting(b.levels[s]),
              Ahead(b.levels[s], i, j), i \in Resting(d.levels[s])
       PROVE  j \notin Taken(b, d)
  <2>1. i \in Resting(c.levels[s])
    BY <1>0, <1>1, <1>19
  <2>2. j \notin Taken(b, c)
    BY <1>9, <1>19, <2>1
  <2>3. j \in Resting(c.levels[s])
    BY <1>9, <2>2
  <2>4. Ahead(c.levels[s], i, j)
    BY <1>19, <2>1, <2>3 DEF InOrder
  <2>5. j # x /\ j # y
    BY <1>0, <1>1, <1>13, <2>1, <2>3, <2>4
  <2> QED BY <1>12, <2>2, <2>5
<1>20. InOrder(b, d)
  <2>1. ASSUME NEW s \in Side, NEW i \in Resting(d.levels[s]), NEW j \in Resting(d.levels[s])
        PROVE  Ahead(d.levels[s], i, j) <=> Ahead(b.levels[s], i, j)
    <3>1. i \in Resting(c.levels[s]) /\ j \in Resting(c.levels[s])
      BY <1>0, <1>1
    <3>2. Ahead(d.levels[s], i, j) <=> Ahead(c.levels[s], i, j)
      BY <1>0, <1>1
    <3> QED BY <3>1, <3>2 DEF InOrder
  <2> QED BY <2>1 DEF InOrder
<1>21. Made(b) \subseteq Made(d) /\ \A i \in Made(b) : d.fills[i] = b.fills[i]
  BY <1>4, <1>8, <1>9
<1>22. \A s \in Side : Resting(d.levels[s]) = Resting(b.levels[s]) \ Taken(b, d)
  BY <1>0, <1>14
<1>23. Progress(b, d)
  BY <1>2, <1>9, <1>17, <1>18, <1>19, <1>21, <1>22 DEF Progress
<1> QED BY <1>20, <1>23

\* An order is once in a queue, and in one queue.
LEMMA AheadAntisym ==
  ASSUME NEW s, NEW levels, Sound(placed, s, levels), NEW a, NEW b, IsLive(a), IsLive(b),
         Ahead(levels, a, b)
  PROVE  ~ Ahead(levels, b, a)
<1>1. SUFFICES ASSUME Ahead(levels, b, a) PROVE FALSE
  OBVIOUS
<1>2. PICK l \in LevelsOf(levels) : Before(l.orders, a, b)
  BY AheadByLevel
<1>3. PICK m \in LevelsOf(levels) : Before(m.orders, b, a)
  BY <1>1, AheadByLevel
<1>4. In(l.orders, a) /\ In(m.orders, a)
  BY <1>2, <1>3 DEF Before, In
<1>5. placed[a].price = l.price /\ placed[a].price = m.price
  BY <1>2, <1>3, <1>4, RestingAtLevel
<1>6. l = m /\ l \in Level /\ Once(l.orders)
  <2>1. Sorted(s, levels) /\ LevelSound(placed, s, l)
    BY <1>2 DEF Sound
  <2> QED BY <1>2, <1>3, <1>5, <2>1, OneLevelPerPrice DEF LevelSound
<1>7. l.orders \in Seq(Nat)
  BY <1>6 DEF Level
<1>8. PICK x, y \in DOMAIN l.orders : x < y /\ l.orders[x] = a /\ l.orders[y] = b
  BY <1>2 DEF Before
<1>9. PICK u, v \in DOMAIN l.orders : u < v /\ l.orders[u] = b /\ l.orders[v] = a
  BY <1>3, <1>6 DEF Before
<1>10. x = v /\ y = u
  BY <1>6, <1>8, <1>9 DEF Once
<1>11. x \in Int /\ y \in Int
  <2>1. Len(l.orders) \in Nat /\ DOMAIN l.orders = 1 .. Len(l.orders)
    BY <1>7
  <2> QED BY <1>8, <2>1
<1> QED BY <1>8, <1>9, <1>10, <1>11

\* The best level is where the resting order of the best price is.
LEMMA BestLevelOf ==
  ASSUME NEW s \in Side, NEW levels, Sound(placed, s, levels), NEW x \in Resting(levels),
         \A a \in Resting(levels) : ~ Better(s, placed[a].price, placed[x].price)
  PROVE  \E i \in LiveLevels(levels) : /\ levels[i].price = BestPrice(levels)
                                       /\ In(levels[i].orders, x)
<1>1. Len(levels) \in Nat /\ DOMAIN levels = 1 .. Len(levels) /\ Sorted(s, levels) /\ levels \in Seq(Level)
  BY DEF Sound, Sorted
<1>2. IsLive(x) /\ \E l \in LevelsOf(levels) : In(l.orders, x)
  BY RestingByLevel
<1>3. PICK i \in DOMAIN levels : In(levels[i].orders, x)
  BY <1>2 DEF LevelsOf
<1>4. i \in LiveLevels(levels) /\ levels[i] \in LevelsOf(levels)
  BY <1>2, <1>3 DEF LiveLevels, In, LevelsOf
<1>5. LiveLevels(levels) \subseteq Nat
  BY <1>1 DEF LiveLevels
<1>6. PICK f : f = First(LiveLevels(levels))
  OBVIOUS
<1>7. f \in LiveLevels(levels) /\ f <= i
  BY <1>4, <1>5, <1>6, FirstIsLeast
<1>8. PICK a : IsLive(a) /\ In(levels[f].orders, a)
  BY <1>7 DEF LiveLevels, In
<1>9. f \in DOMAIN levels /\ levels[f] \in LevelsOf(levels)
  BY <1>7 DEF LiveLevels, LevelsOf
<1>10. a \in Resting(levels) /\ placed[a].price = levels[f].price /\ placed[x].price = levels[i].price
  BY <1>2, <1>3, <1>4, <1>8, <1>9, RestingAtLevel
<1>11. f = i
  <2>1. ~ Better(s, levels[f].price, levels[i].price)
    BY <1>10
  <2>2. f < i => Better(s, levels[f].price, levels[i].price)
    BY <1>1, <1>3, <1>9 DEF Sorted, LevelSorted
  <2> QED BY <1>1, <1>3, <1>7, <1>9, <2>1, <2>2
<1> QED BY <1>3, <1>4, <1>6, <1>11 DEF BestPrice

LEMMA ProgressStop ==
  ASSUME NEW b, NEW c, NEW d, NEW x, NEW y, EngineInv(placed, b), EngineInv(placed, c), EngineInv(placed, d),
         Progress(b, c), InOrder(b, c), RoundStops(c, d, x, y)
  PROVE  Progress(b, d) /\ SwappedWhenBlocked(b, d) /\ SelfMatchAtTop(d)
<1>0. "bid" \in Side /\ "ask" \in Side /\ Side = {"bid", "ask"} /\ "bid" # "ask"
  BY DEF Side
<1>1. /\ x \in Resting(c.levels["bid"]) /\ y \in Resting(c.levels["ask"])
      /\ placed[x].trader = placed[y].trader /\ placed[y].price <= placed[x].price
      /\ \A a \in Resting(c.levels["bid"]) : ~ Better("bid", placed[a].price, placed[x].price)
      /\ \A a \in Resting(c.levels["ask"]) : ~ Better("ask", placed[a].price, placed[y].price)
      /\ \A s \in Side : Resting(d.levels[s]) = Resting(c.levels[s])
  BY DEF RoundStops
<1>2. /\ \A i, j \in Resting(c.levels["bid"]) \ {x} : Ahead(d.levels["bid"], i, j) <=> Ahead(c.levels["bid"], i, j)
      /\ \A i, j \in Resting(c.levels["ask"]) \ {y} : Ahead(d.levels["ask"], i, j) <=> Ahead(c.levels["ask"], i, j)
      /\ \A i \in Resting(c.levels["bid"]) : ~ Ahead(d.levels["bid"], x, i)
      /\ \A i \in Resting(c.levels["ask"]) : ~ Ahead(d.levels["ask"], y, i)
  BY DEF RoundStops
<1>3. d.next_order_id = c.next_order_id /\ d.is_delegated = c.is_delegated /\ d.fills = c.fills /\ d.fill_count = c.fill_count
  BY DEF RoundStops, WithLevels
<1>4. Made(d) = Made(c)
  BY <1>3 DEF Made
<1>5. New(b, d) = New(b, c)
  BY <1>4 DEF New
<1>6. Taken(b, d) = Taken(b, c)
  BY <1>3, <1>5 DEF Taken
<1>7. Progress(b, d)
  BY <1>0, <1>1, <1>3, <1>4, <1>5, <1>6 DEF Progress
<1>8. /\ Sound(placed, "bid", d.levels["bid"]) /\ Sound(placed, "ask", d.levels["ask"])
      /\ Sound(placed, "bid", c.levels["bid"]) /\ Sound(placed, "ask", c.levels["ask"])
  BY <1>0 DEF EngineInv
<1>9. /\ placed[x].price \in Int /\ placed[y].price \in Int /\ IsLive(x) /\ IsLive(y)
      /\ placed[x].side = "bid" /\ placed[y].side = "ask"
  BY <1>1, <1>8, RestingAtLevel
<1>10. BlockedIn(d, x) /\ BlockedIn(d, y)
  <2>1. ~ Better("bid", placed[y].price, placed[x].price) /\ ~ Better("ask", placed[x].price, placed[y].price)
    BY <1>1, <1>9 DEF Better
  <2> QED BY <1>0, <1>1, <1>9, <2>1 DEF BlockedIn
<1>11. SwappedWhenBlocked(b, d)
  <2>1. ASSUME NEW s \in Side, NEW i \in Resting(d.levels[s]), NEW j \in Resting(d.levels[s]),
               Ahead(b.levels[s], i, j), Ahead(d.levels[s], j, i)
        PROVE  BlockedIn(d, i)
    <3>1. i \in Resting(c.levels[s]) /\ j \in Resting(c.levels[s])
      BY <1>1
    <3>2. Ahead(c.levels[s], i, j)
      BY <2>1, <3>1 DEF InOrder
    <3>3. Sound(placed, s, c.levels[s])
      BY DEF EngineInv
    <3>4. IsLive(i) /\ IsLive(j)
      BY <3>1, <3>3, RestingAtLevel
    <3>5. ~ Ahead(c.levels[s], j, i)
      BY <3>2, <3>3, <3>4, AheadAntisym
    <3>6. i = x \/ i = y
      BY <1>0, <1>2, <2>1, <3>1, <3>5
    <3> QED BY <1>10, <3>6
  <2> QED BY <2>1 DEF SwappedWhenBlocked
<1>12. SelfMatchAtTop(d)
  <2>1. PICK i \in LiveLevels(d.levels["bid"]) : /\ d.levels["bid"][i].price = BestPrice(d.levels["bid"])
                                                 /\ In(d.levels["bid"][i].orders, x)
    BY <1>0, <1>1, <1>8, BestLevelOf
  <2>2. PICK k \in LiveLevels(d.levels["ask"]) : /\ d.levels["ask"][k].price = BestPrice(d.levels["ask"])
                                                 /\ In(d.levels["ask"][k].orders, y)
    BY <1>0, <1>1, <1>8, BestLevelOf
  <2>3. PICK u \in DOMAIN d.levels["bid"][i].orders : d.levels["bid"][i].orders[u] = x
    BY <2>1 DEF In
  <2>4. PICK v \in DOMAIN d.levels["ask"][k].orders : d.levels["ask"][k].orders[v] = y
    BY <2>2 DEF In
  <2> QED BY <1>1, <1>9, <2>1, <2>2, <2>3, <2>4 DEF SelfMatchAtTop
<1> QED BY <1>7, <1>11, <1>12

\* What match_step's loop does with what it has after some rounds.
NextRound(r) ==
  IF r.going /\ r.book.fill_count < MaxFills /\ Crossed(r.book) THEN MatchRound(r.book) ELSE r

IsRun(run, b, m) ==
  run = [n \in 0 .. m |-> IF n = 0 THEN [book |-> b, going |-> TRUE] ELSE NextRound(run[n - 1])]

LEMMA RunExists ==
  ASSUME NEW b PROVE \A m \in Nat : \E run : IsRun(run, b, m)
<1> DEFINE S == {m \in Nat : \E run : IsRun(run, b, m)}
<1>1. 0 \in S
  <2> DEFINE z == [n \in 0 .. 0 |-> [book |-> b, going |-> TRUE]]
  <2>1. IsRun(z, b, 0)
    BY DEF IsRun
  <2> QED BY <2>1
<1>2. ASSUME NEW m \in Nat, m \in S PROVE m + 1 \in S
  <2>1. PICK run : IsRun(run, b, m)
    BY <1>2
  <2> DEFINE more == [n \in 0 .. (m + 1) |-> IF n = m + 1 THEN NextRound(run[m]) ELSE run[n]]
  <2>2. \A n \in 0 .. (m + 1) :
          more[n] = IF n = 0 THEN [book |-> b, going |-> TRUE] ELSE NextRound(more[n - 1])
    <3> TAKE n \in 0 .. (m + 1)
    <3>1. CASE n = m + 1
      BY <3>1
    <3>2. CASE n \in 0 .. m
      <4>1. more[n] = run[n] /\ (n # 0 => more[n - 1] = run[n - 1])
        BY <3>2
      <4>2. run[n] = IF n = 0 THEN [book |-> b, going |-> TRUE] ELSE NextRound(run[n - 1])
        BY <2>1, <3>2, Zenon DEF IsRun
      <4> HIDE DEF more
      <4> QED BY <4>1, <4>2
    <3> QED BY <3>1, <3>2
  <2>3. IsRun(more, b, m + 1)
    BY <2>2, Zenon DEF IsRun
  <2> QED BY <2>3
<1> HIDE DEF S
<1>3. Nat \subseteq S
  BY <1>1, <1>2, NatSetInduction
<1> QED BY <1>3 DEF S

LEMMA AfterRoundsUnfold ==
  ASSUME NEW b, NEW m \in Nat
  PROVE  \E run : IsRun(run, b, m) /\ AfterRounds(b, m) = run[m].book
<1>1. \E run : IsRun(run, b, m)
  BY RunExists
<1>2. PICK run : run = CHOOSE r : IsRun(r, b, m)
  OBVIOUS
<1>3. IsRun(run, b, m)
  BY <1>1, <1>2, Zenon
<1>4. AfterRounds(b, m) = run[m].book
  BY <1>2, Zenon DEF AfterRounds, IsRun, NextRound
<1> QED BY <1>3, <1>4

\* After n rounds.
RoundsDone(b, n, r) ==
  /\ EngineInv(placed, r.book)
  /\ Progress(b, r.book)
  /\ r.going => /\ InOrder(b, r.book)
                /\ \/ r.book.next_fill_id = b.next_fill_id + n
                   \/ r.book.fill_count = MaxFills
                   \/ ~ Crossed(r.book)
  /\ ~ r.going => SwappedWhenBlocked(b, r.book) /\ SelfMatchAtTop(r.book)

LEMMA NextRoundWorks ==
  ASSUME placed \in Seq(Order), NEW b, EngineInv(placed, b), NEW n \in Nat, NEW r, RoundsDone(b, n, r)
  PROVE  RoundsDone(b, n + 1, NextRound(r))
<1>1. /\ EngineInv(placed, r.book) /\ Progress(b, r.book)
      /\ r.going => /\ InOrder(b, r.book)
                    /\ \/ r.book.next_fill_id = b.next_fill_id + n
                       \/ r.book.fill_count = MaxFills
                       \/ ~ Crossed(r.book)
      /\ ~ r.going => SwappedWhenBlocked(b, r.book) /\ SelfMatchAtTop(r.book)
  BY DEF RoundsDone
<1>2. r.book.fill_count \in Nat /\ r.book.fill_count <= MaxFills /\ MaxFills \in Nat /\ b.next_fill_id \in Nat
  BY <1>1, BookAssumption DEF EngineInv, BookType, RingSound
<1>3. CASE r.going /\ r.book.fill_count < MaxFills /\ Crossed(r.book)
  <2>1. NextRound(r) = MatchRound(r.book)
    BY <1>3 DEF NextRound
  <2>2. PICK d : d = MatchRound(r.book).book
    OBVIOUS
  <2>3. /\ EngineInv(placed, d)
        /\ \E x, y : IF MatchRound(r.book).going THEN RoundTrades(r.book, d, x, y) ELSE RoundStops(r.book, d, x, y)
    BY <1>1, <1>3, <2>2, RoundWorks
  <2>4. PICK x, y : IF MatchRound(r.book).going THEN RoundTrades(r.book, d, x, y) ELSE RoundStops(r.book, d, x, y)
    BY <2>3
  <2>5. r.book.next_fill_id = b.next_fill_id + n
    BY <1>1, <1>2, <1>3
  <2>6. CASE MatchRound(r.book).going
    <3>1. Progress(b, d) /\ InOrder(b, d)
      BY <1>1, <1>3, <2>3, <2>4, <2>6, ProgressTrade
    <3>2. d.next_fill_id = r.book.next_fill_id + 1
      BY <2>4, <2>6 DEF RoundTrades
    <3>3. d.next_fill_id = b.next_fill_id + (n + 1)
      BY <1>2, <2>5, <3>2
    <3> QED BY <2>1, <2>2, <2>3, <2>6, <3>1, <3>3 DEF RoundsDone
  <2>7. CASE ~ MatchRound(r.book).going
    <3>1. Progress(b, d) /\ SwappedWhenBlocked(b, d) /\ SelfMatchAtTop(d)
      BY <1>1, <1>3, <2>3, <2>4, <2>7, ProgressStop
    <3> QED BY <2>1, <2>2, <2>3, <2>7, <3>1 DEF RoundsDone
  <2> QED BY <2>6, <2>7
<1>4. CASE ~ (r.going /\ r.book.fill_count < MaxFills /\ Crossed(r.book))
  <2>1. NextRound(r) = r
    BY <1>4 DEF NextRound
  <2>2. r.going => r.book.fill_count = MaxFills \/ ~ Crossed(r.book)
    BY <1>2, <1>4
  <2> QED BY <1>1, <2>1, <2>2 DEF RoundsDone
<1> QED BY <1>3, <1>4

\* The orders that change places are those behind which a self-match was put back.
LEMMA InOrderSwapsNone ==
  ASSUME NEW b, NEW c, EngineInv(placed, b), EngineInv(placed, c), InOrder(b, c)
  PROVE  SwappedWhenBlocked(b, c)
<1>1. ASSUME NEW s \in Side, NEW i \in Resting(c.levels[s]), NEW j \in Resting(c.levels[s]),
             Ahead(b.levels[s], i, j), Ahead(c.levels[s], j, i)
      PROVE  FALSE
  <2>1. Sound(placed, s, c.levels[s])
    BY DEF EngineInv
  <2>2. IsLive(i) /\ IsLive(j)
    BY <2>1, RestingAtLevel
  <2>3. Ahead(c.levels[s], i, j)
    BY <1>1 DEF InOrder
  <2> QED BY <1>1, <2>1, <2>2, <2>3, AheadAntisym
<1> QED BY <1>1 DEF SwappedWhenBlocked

LEMMA MatchWorks ==
  ASSUME placed \in Seq(Order), NEW b, EngineInv(placed, b), NEW c, c = MatchStep(b)
  PROVE  /\ EngineInv(placed, c) /\ Progress(b, c) /\ SwappedWhenBlocked(b, c)
         /\ \/ ~ Crossed(c)
            \/ c.fill_count = MaxFills
            \/ c.next_fill_id = b.next_fill_id + FillsPerMatch
            \/ SelfMatchAtTop(c)
<1>0. FillsPerMatch \in Nat
  BY BookAssumption
<1>1. PICK run : IsRun(run, b, FillsPerMatch) /\ AfterRounds(b, FillsPerMatch) = run[FillsPerMatch].book
  BY <1>0, AfterRoundsUnfold
<1>2. \A n \in 0 .. FillsPerMatch :
        run[n] = IF n = 0 THEN [book |-> b, going |-> TRUE] ELSE NextRound(run[n - 1])
  BY <1>1, Zenon DEF IsRun
<1> DEFINE S == {n \in Nat : n <= FillsPerMatch => RoundsDone(b, n, run[n])}
<1>3. 0 \in S
  <2>0. 0 \in 0 .. FillsPerMatch
    BY <1>0
  <2>1. run[0] = [book |-> b, going |-> TRUE]
    BY <1>2, <2>0, Zenon
  <2>2. run[0].book = b /\ run[0].going
    BY <2>1
  <2>3. b.next_fill_id + 0 = b.next_fill_id
    BY DEF EngineInv, BookType
  <2>4. RoundsDone(b, 0, run[0])
    BY <2>2, <2>3, ProgressStart DEF RoundsDone
  <2> QED BY <2>4
<1>4. ASSUME NEW n \in Nat, n \in S PROVE n + 1 \in S
  <2>1. SUFFICES ASSUME n + 1 <= FillsPerMatch PROVE RoundsDone(b, n + 1, run[n + 1])
    OBVIOUS
  <2>2. RoundsDone(b, n, run[n])
    BY <1>0, <1>4, <2>1
  <2>3. run[n + 1] = NextRound(run[n])
    BY <1>0, <1>2, <2>1
  <2> QED BY <2>2, <2>3, NextRoundWorks
<1> HIDE DEF S
<1>5. Nat \subseteq S
  BY <1>3, <1>4, NatSetInduction
<1>6. RoundsDone(b, FillsPerMatch, run[FillsPerMatch])
  BY <1>0, <1>5 DEF S
<1>7. c = run[FillsPerMatch].book
  BY <1>1 DEF MatchStep
<1> QED BY <1>6, <1>7, InOrderSwapsNone DEF RoundsDone

-----------------------------------------------------------------------------
(* The instructions that do not match.                                     *)

\* The step makes no fill and changes no order of the queues.
Quiet(b, c) ==
  /\ Made(c) = Made(b)
  /\ \A i \in Made(b) : /\ c.fills[i].taker = b.fills[i].taker
                        /\ c.fills[i].maker = b.fills[i].maker
                        /\ c.fills[i].price = b.fills[i].price
  /\ \A s \in Side : \A i, j \in Resting(b.levels[s]) \intersect Resting(c.levels[s]) :
       Ahead(c.levels[s], i, j) <=> Ahead(b.levels[s], i, j)

LEMMA SoundMore ==
  ASSUME NEW orders \in Seq(Order), NEW order \in Order, NEW s, NEW levels, Sound(orders, s, levels)
  PROVE  Sound(Append(orders, order), s, levels)
<1>1. PICK more : more = Append(orders, order)
  OBVIOUS
<1>2. \A a \in DOMAIN orders : a \in DOMAIN more /\ more[a] = orders[a]
  BY <1>1
<1>3. \A l : LevelSound(orders, s, l) => LevelSound(more, s, l)
  BY <1>2 DEF LevelSound
<1> QED BY <1>1, <1>3 DEF Sound

LEMMA FilledOnceKept ==
  ASSUME NEW orders, NEW more, NEW b, NEW c, EngineInv(orders, b),
         \A a \in DOMAIN orders : a \in DOMAIN more /\ more[a] = orders[a],
         Quiet(b, c),
         \A s \in Side : Resting(c.levels[s]) \intersect DOMAIN orders \subseteq Resting(b.levels[s])
  PROVE  FilledOnce(more, c)
<1>1. FilledOnce(orders, b) /\ "bid" \in Side /\ "ask" \in Side
  BY DEF EngineInv, Side
<1>2. Made(c) = Made(b) /\ \A i \in Made(b) : c.fills[i].taker = b.fills[i].taker /\ c.fills[i].maker = b.fills[i].maker
  BY DEF Quiet
<1>3. \A i \in Made(b) : /\ b.fills[i].taker \in DOMAIN orders /\ b.fills[i].maker \in DOMAIN orders
                         /\ orders[b.fills[i].taker].side = "bid" /\ orders[b.fills[i].maker].side = "ask"
                         /\ b.fills[i].taker \notin Resting(b.levels["bid"])
                         /\ b.fills[i].maker \notin Resting(b.levels["ask"])
  BY <1>1 DEF FilledOnce
<1>4. \A i \in Made(c) : /\ c.fills[i].taker \in DOMAIN more /\ c.fills[i].maker \in DOMAIN more
                         /\ more[c.fills[i].taker].side = "bid" /\ more[c.fills[i].maker].side = "ask"
                         /\ c.fills[i].taker \notin Resting(c.levels["bid"])
                         /\ c.fills[i].maker \notin Resting(c.levels["ask"])
  BY <1>1, <1>2, <1>3
<1>5. \A i, j \in Made(c) :
        c.fills[i].taker = c.fills[j].taker \/ c.fills[i].maker = c.fills[j].maker => i = j
  BY <1>1, <1>2 DEF FilledOnce
<1> QED BY <1>4, <1>5 DEF FilledOnce

LEMMA PlaceUpdate ==
  ASSUME NEW b \in BookType, NEW n, NEW levels
  PROVE  [b EXCEPT !.next_order_id = n, !.levels = levels] =
           [next_order_id |-> n, next_fill_id |-> b.next_fill_id, levels |-> levels,
            fills |-> b.fills, fill_count |-> b.fill_count, fill_head |-> b.fill_head,
            is_delegated |-> b.is_delegated]
<1>1. PICK b1 : b1 = [b EXCEPT !.next_order_id = n]
  OBVIOUS
<1>2. b1 = [next_order_id |-> n, next_fill_id |-> b.next_fill_id, levels |-> b.levels,
            fills |-> b.fills, fill_count |-> b.fill_count, fill_head |-> b.fill_head,
            is_delegated |-> b.is_delegated]
  BY <1>1 DEF BookType
<1>3. [b1 EXCEPT !.levels = levels] = [next_order_id |-> n, next_fill_id |-> b.next_fill_id, levels |-> levels,
            fills |-> b.fills, fill_count |-> b.fill_count, fill_head |-> b.fill_head,
            is_delegated |-> b.is_delegated]
  BY <1>2
<1>4. [b EXCEPT !.next_order_id = n, !.levels = levels] = [b1 EXCEPT !.levels = levels]
  BY <1>1
<1> QED BY <1>3, <1>4

LEMMA PlaceWorks ==
  ASSUME BookInv, NEW order \in Order, PlaceOrder(order)
  PROVE  /\ BookInv' /\ Quiet(book, book')
         /\ placed' = Append(placed, order) /\ UNCHANGED cancelled
         /\ book'.fills = book.fills
         /\ InBook' = InBook \union {Len(placed) + 1}
<1> DEFINE id == Len(placed) + 1
<1>0. "bid" \in Side /\ "ask" \in Side /\ Side = {"bid", "ask"} /\ "bid" # "ask"
  BY DEF Side
<1>1. /\ placed \in Seq(Order) /\ Len(placed) \in Nat /\ DOMAIN placed = 1 .. Len(placed)
      /\ EngineInv(placed, book) /\ book \in BookType /\ book.next_order_id = id
      /\ paused \in BOOLEAN /\ cancelled \subseteq DOMAIN placed
  BY DEF BookInv, EngineInv
<1>2. PICK s : s = order.side
  OBVIOUS
<1>3. PICK price : price = order.price
  OBVIOUS
<1>4. s \in Side /\ price \in Prices
  BY <1>2, <1>3 DEF Order
<1>5. PICK more : more = InsertOrder(book.levels[s], s, id, price).levels
  OBVIOUS
<1>6. /\ InsertOrder(book.levels[s], s, id, price).ok
      /\ placed' = Append(placed, order)
      /\ book' = [book EXCEPT !.next_order_id = id + 1, !.levels[s] = more]
      /\ paused' = paused /\ cancelled' = cancelled
  BY <1>1, <1>2, <1>3, <1>5 DEF PlaceOrder
<1>7. /\ placed' \in Seq(Order) /\ Len(placed') = id /\ DOMAIN placed' = DOMAIN placed \union {id}
      /\ id \notin DOMAIN placed /\ id \in Nat /\ IsLive(id) /\ placed'[id] = order
      /\ \A a \in DOMAIN placed : a \in DOMAIN placed' /\ placed'[a] = placed[a]
  BY <1>1, <1>6 DEF IsLive, Tombstone
<1>8. \A t \in Side : Sound(placed, t, book.levels[t])
  BY <1>1 DEF EngineInv
<1>9. \A t \in Side : Sound(placed', t, book.levels[t])
  BY <1>1, <1>6, <1>8, SoundMore
<1>10. \A t \in Side : Resting(book.levels[t]) \subseteq DOMAIN placed
  BY <1>8, RestingAtLevel
<1>11. Sound(placed', s, more) /\ Joins(book.levels[s], more, id)
  <2>1. /\ id \notin Resting(book.levels[s]) /\ id \in DOMAIN placed'
        /\ placed'[id].side = s /\ placed'[id].price = price
    BY <1>2, <1>3, <1>4, <1>7, <1>10
  <2> HIDE DEF id
  <2>2. PICK orders : orders = placed'
    OBVIOUS
  <2>3. Sound(orders, s, book.levels[s]) /\ id \in Nat /\ IsLive(id) /\ id \in DOMAIN orders
        /\ orders[id].side = s /\ orders[id].price = price /\ id \notin Resting(book.levels[s])
    BY <1>4, <1>7, <1>9, <2>1, <2>2
  <2>4. Sound(orders, s, more) /\ Joins(book.levels[s], more, id)
    BY <1>4, <1>5, <1>6, <2>3, InsertWorks
  <2> QED BY <2>2, <2>4
<1>12. PICK levels : levels = [book.levels EXCEPT ![s] = more]
  OBVIOUS
<1>13. book' = [next_order_id |-> id + 1, next_fill_id |-> book.next_fill_id, levels |-> levels,
                fills |-> book.fills, fill_count |-> book.fill_count, fill_head |-> book.fill_head,
                is_delegated |-> book.is_delegated]
  <2>1. PICK n : n = id + 1
    OBVIOUS
  <2>2. [book EXCEPT !.next_order_id = n, !.levels[s] = more] = [book EXCEPT !.next_order_id = n, !.levels = levels]
    <3>1. PICK b1 : b1 = [book EXCEPT !.next_order_id = n]
      OBVIOUS
    <3>2. b1.levels = book.levels
      BY <1>1, <3>1 DEF BookType
    <3>3. [b1 EXCEPT !.levels[s] = more] = [b1 EXCEPT !.levels = levels]
      BY <1>12, <3>2
    <3> QED BY <3>1, <3>3
  <2>3. [book EXCEPT !.next_order_id = n, !.levels = levels] =
               [next_order_id |-> n, next_fill_id |-> book.next_fill_id, levels |-> levels,
                fills |-> book.fills, fill_count |-> book.fill_count, fill_head |-> book.fill_head,
                is_delegated |-> book.is_delegated]
    BY <1>1, PlaceUpdate
  <2> HIDE DEF id
  <2> QED BY <1>6, <2>1, <2>2, <2>3, Zenon
<1>14. /\ levels \in [Side -> Seq(Level)] /\ levels[s] = more
       /\ \A t \in Side : t # s => levels[t] = book.levels[t]
  <2>1. book.levels \in [Side -> Seq(Level)] /\ more \in Seq(Level)
    BY <1>1, <1>11 DEF BookType, Sound, Sorted
  <2> QED BY <1>4, <1>12, <2>1
<1>15. book' \in BookType
  <2>1. id + 1 \in Nat
    BY <1>7
  <2> QED BY <1>1, <1>13, <1>14, <2>1 DEF BookType
<1>16. /\ book'.levels = levels /\ book'.fills = book.fills /\ book'.fill_count = book.fill_count
       /\ book'.fill_head = book.fill_head /\ book'.next_fill_id = book.next_fill_id
       /\ book'.next_order_id = id + 1
  BY <1>13
<1>17. RingSound(book') /\ Made(book') = Made(book)
  BY <1>1, <1>16 DEF EngineInv, RingSound, Made
<1>18. /\ Resting(more) = Resting(book.levels[s]) \union {id}
       /\ \A a, b \in Resting(book.levels[s]) : Ahead(more, a, b) <=> Ahead(book.levels[s], a, b)
  BY <1>11 DEF Joins
<1>19. Quiet(book, book')
  BY <1>14, <1>16, <1>17, <1>18 DEF Quiet
<1>20. FilledOnce(placed', book')
  <2>1. \A t \in Side : Resting(book'.levels[t]) \intersect DOMAIN placed \subseteq Resting(book.levels[t])
    BY <1>7, <1>14, <1>16, <1>18
  <2> QED BY <1>1, <1>7, <1>19, <2>1, FilledOnceKept
<1>21. EngineInv(placed', book')
  BY <1>9, <1>11, <1>14, <1>15, <1>16, <1>17, <1>20 DEF EngineInv
<1>22. InBook' = InBook \union {id}
  BY <1>0, <1>4, <1>14, <1>16, <1>18 DEF InBook
<1>23. cancelled \intersect InBook = {} /\ id \notin cancelled
  BY <1>1, <1>7 DEF BookInv
<1>24. \A i \in Made(book') : book'.fills[i].taker \notin cancelled' /\ book'.fills[i].maker \notin cancelled'
  BY <1>6, <1>16, <1>17 DEF BookInv
<1>25. cancelled' \subseteq DOMAIN placed' /\ cancelled' \intersect InBook' = {}
  BY <1>1, <1>6, <1>7, <1>22, <1>23
<1>26. BookInv'
  BY <1>1, <1>6, <1>7, <1>16, <1>21, <1>24, <1>25 DEF BookInv
<1> QED BY <1>6, <1>16, <1>19, <1>22, <1>26

LEMMA CancelWorks ==
  ASSUME BookInv, NEW trader, NEW id \in Nat, NEW opening, CancelOrder(trader, id, opening)
  PROVE  /\ BookInv' /\ Quiet(book, book')
         /\ UNCHANGED placed /\ cancelled' = cancelled \union {id}
         /\ book'.fills = book.fills
         /\ id \in InBook /\ InBook' = InBook \ {id}
<1>0. "bid" \in Side /\ "ask" \in Side /\ Side = {"bid", "ask"} /\ "bid" # "ask"
  BY DEF Side
<1>1. /\ placed \in Seq(Order) /\ EngineInv(placed, book) /\ book \in BookType
      /\ paused \in BOOLEAN /\ cancelled \subseteq DOMAIN placed
      /\ book.next_order_id = Len(placed) + 1 /\ book.levels \in [Side -> Seq(Level)]
  BY DEF BookInv, EngineInv, BookType
<1>2. PICK s \in Side : /\ id \in Resting(book.levels[s])
                        /\ book' = [book EXCEPT !.levels[s] = TombstoneOrder(@, id)]
  BY Zenon DEF CancelOrder
<1>3. placed' = placed /\ paused' = paused /\ cancelled' = cancelled \union {id}
  BY DEF CancelOrder
<1>4. \A t \in Side : Sound(placed, t, book.levels[t])
  BY <1>1 DEF EngineInv
<1>5. IsLive(id) /\ id \in DOMAIN placed /\ placed[id].side = s
  BY <1>2, <1>4, RestingAtLevel
<1>6. PICK less : less = TombstoneOrder(book.levels[s], id)
  OBVIOUS
<1>7. /\ Sound(placed, s, less)
      /\ Resting(less) = Resting(book.levels[s]) \ {id}
      /\ \A a, b \in Resting(less) : Ahead(less, a, b) <=> Ahead(book.levels[s], a, b)
  BY <1>4, <1>5, <1>6, TombstoneWorks
<1>8. PICK levels : levels = [book.levels EXCEPT ![s] = less]
  OBVIOUS
<1>9. book' = WithLevels(book, levels)
  <2>1. book' = [book EXCEPT !.levels[s] = less]
    BY <1>2, <1>6
  <2>2. [book EXCEPT !.levels[s] = less] = [book EXCEPT !.levels = levels]
    BY <1>8
  <2>3. [book EXCEPT !.levels = levels] = WithLevels(book, levels)
    BY <1>1, LevelsUpdate
  <2> QED BY <2>1, <2>2, <2>3
<1>10. /\ levels \in [Side -> Seq(Level)] /\ levels[s] = less
       /\ \A t \in Side : t # s => levels[t] = book.levels[t]
  <2>1. less \in Seq(Level)
    BY <1>7 DEF Sound, Sorted
  <2> QED BY <1>1, <1>2, <1>8, <2>1
<1>11. \A t \in Side : Sound(placed, t, levels[t]) /\ Resting(levels[t]) \subseteq Resting(book.levels[t])
  BY <1>4, <1>7, <1>10
<1>12. EngineInv(placed, book')
  BY <1>1, <1>9, <1>10, <1>11, WithLevelsInv
<1>13. /\ book'.levels = levels /\ book'.fills = book.fills /\ book'.fill_count = book.fill_count
       /\ book'.next_order_id = book.next_order_id
  BY <1>9 DEF WithLevels
<1>14. Made(book') = Made(book)
  BY <1>13 DEF Made
<1>15. Quiet(book, book')
  BY <1>7, <1>10, <1>13, <1>14 DEF Quiet
<1>16. \A t \in Side : t # s => id \notin Resting(book.levels[t])
  BY <1>4, <1>5, RestingAtLevel
<1>17. id \in InBook /\ InBook' = InBook \ {id}
  BY <1>0, <1>2, <1>7, <1>10, <1>13, <1>16 DEF InBook
<1>18. \A i \in Made(book') : book'.fills[i].taker \notin cancelled' /\ book'.fills[i].maker \notin cancelled'
  <2> TAKE i \in Made(book')
  <2>1. book.fills[i].taker \notin cancelled /\ book.fills[i].maker \notin cancelled
    BY <1>14 DEF BookInv
  <2>2. /\ placed[book.fills[i].taker].side = "bid" /\ placed[book.fills[i].maker].side = "ask"
        /\ book.fills[i].taker \notin Resting(book.levels["bid"])
        /\ book.fills[i].maker \notin Resting(book.levels["ask"])
    BY <1>1, <1>14 DEF EngineInv, FilledOnce
  <2>3. id # book.fills[i].taker /\ id # book.fills[i].maker
    BY <1>0, <1>2, <1>5, <2>2
  <2> QED BY <1>3, <1>13, <2>1, <2>3
<1>19. cancelled' \subseteq DOMAIN placed' /\ cancelled' \intersect InBook' = {}
  <2>1. cancelled \intersect InBook = {}
    BY DEF BookInv
  <2> QED BY <1>1, <1>3, <1>5, <1>17, <2>1
<1>20. BookInv'
  BY <1>1, <1>3, <1>12, <1>13, <1>18, <1>19 DEF BookInv
<1> QED BY <1>3, <1>13, <1>15, <1>17, <1>20

LEMMA FillsUpdate ==
  ASSUME NEW b \in BookType, NEW fills
  PROVE  [b EXCEPT !.fills = fills] =
           [next_order_id |-> b.next_order_id, next_fill_id |-> b.next_fill_id, levels |-> b.levels,
            fills |-> fills, fill_count |-> b.fill_count, fill_head |-> b.fill_head,
            is_delegated |-> b.is_delegated]
  BY DEF BookType

LEMMA ClaimedFill ==
  ASSUME NEW fill \in Fill, NEW claimed, claimed = [fill EXCEPT !.claimed = TRUE]
  PROVE  /\ claimed \in Fill /\ claimed.claimed /\ claimed # NoFill
         /\ claimed.fill_id = fill.fill_id /\ claimed.taker = fill.taker
         /\ claimed.maker = fill.maker /\ claimed.price = fill.price
<1>1. claimed = [fill_id |-> fill.fill_id, taker |-> fill.taker, maker |-> fill.maker,
                 price |-> fill.price, size_band |-> fill.size_band, claimed |-> TRUE]
  BY DEF Fill
<1>2. claimed \in Fill
  BY <1>1 DEF Fill
<1> QED BY <1>1, <1>2, NoFillIsNone

LEMMA ClaimWorks ==
  ASSUME BookInv, NEW i \in Slots, ClaimFill(i)
  PROVE  /\ BookInv' /\ Quiet(book, book')
         /\ UNCHANGED <<placed, cancelled>>
         /\ i \in Made(book) /\ i \in Unclaimed(book) /\ i \notin Unclaimed(book')
         /\ \A k \in Slots : k # i => book'.fills[k] = book.fills[k]
         /\ InBook' = InBook
<1>1. /\ placed \in Seq(Order) /\ EngineInv(placed, book) /\ book \in BookType
      /\ book.fills \in [Slots -> Fill \union {NoFill}]
  BY DEF BookInv, EngineInv, BookType
<1>2. /\ i \in Unclaimed(book) /\ book' = [book EXCEPT !.fills[i].claimed = TRUE]
      /\ paused' = paused /\ placed' = placed /\ cancelled' = cancelled
  BY DEF ClaimFill
<1>3. i \in Made(book) /\ book.fills[i] \in Fill
  <2>1. book.fills[i] # NoFill
    BY <1>2 DEF Unclaimed
  <2> QED BY <1>1, <2>1 DEF EngineInv, RingSound, Made
<1>4. PICK claimed : claimed = [book.fills[i] EXCEPT !.claimed = TRUE]
  OBVIOUS
<1>5. /\ claimed \in Fill /\ claimed.claimed /\ claimed # NoFill
      /\ claimed.fill_id = book.fills[i].fill_id /\ claimed.taker = book.fills[i].taker
      /\ claimed.maker = book.fills[i].maker /\ claimed.price = book.fills[i].price
  BY <1>3, <1>4, ClaimedFill
<1>6. PICK fills : fills = [book.fills EXCEPT ![i] = claimed]
  OBVIOUS
<1>7. book' = [next_order_id |-> book.next_order_id, next_fill_id |-> book.next_fill_id, levels |-> book.levels,
               fills |-> fills, fill_count |-> book.fill_count, fill_head |-> book.fill_head,
               is_delegated |-> book.is_delegated]
  <2>1. [book EXCEPT !.fills[i].claimed = TRUE] = [book EXCEPT !.fills = fills]
    BY <1>4, <1>6
  <2> QED BY <1>1, <1>2, <2>1, FillsUpdate
<1>8. /\ book'.levels = book.levels /\ book'.fills = fills /\ book'.fill_count = book.fill_count
      /\ book'.fill_head = book.fill_head /\ book'.next_fill_id = book.next_fill_id
      /\ book'.next_order_id = book.next_order_id
  BY <1>7
<1>9. /\ fills \in [Slots -> Fill \union {NoFill}] /\ fills[i] = claimed
      /\ \A k \in Slots : k # i => fills[k] = book.fills[k]
  BY <1>1, <1>5, <1>6
<1>10. book' \in BookType
  BY <1>1, <1>7, <1>9 DEF BookType
<1>11. Made(book') = Made(book)
  BY <1>8 DEF Made
<1>12. RingSound(book')
  <2>1. ASSUME NEW k \in Slots
        PROVE  IF k < book.fill_count THEN fills[k] \in Fill /\ fills[k].fill_id = k + 1 ELSE fills[k] = NoFill
    <3>1. IF k < book.fill_count THEN book.fills[k] \in Fill /\ book.fills[k].fill_id = k + 1
          ELSE book.fills[k] = NoFill
      BY <1>1 DEF EngineInv, RingSound
    <3>2. i < book.fill_count
      BY <1>3 DEF Made
    <3> QED BY <1>5, <1>9, <3>1, <3>2
  <2> QED BY <1>1, <1>8, <2>1 DEF EngineInv, RingSound
<1>13. Quiet(book, book')
  <2>1. \A k \in Made(book) : k \in Slots
    BY DEF Made
  <2> QED BY <1>5, <1>8, <1>9, <1>11, <2>1 DEF Quiet
<1>14. FilledOnce(placed, book')
  BY <1>1, <1>8, <1>13, FilledOnceKept
<1>15. EngineInv(placed', book')
  BY <1>1, <1>2, <1>8, <1>10, <1>12, <1>14 DEF EngineInv
<1>16. InBook' = InBook
  BY <1>8 DEF InBook
<1>17. BookInv'
  <2>1. \A k \in Made(book') : book'.fills[k].taker \notin cancelled' /\ book'.fills[k].maker \notin cancelled'
    BY <1>2, <1>11, <1>13 DEF BookInv, Quiet
  <2>2. paused' \in BOOLEAN /\ placed' \in Seq(Order) /\ cancelled' \subseteq DOMAIN placed'
        /\ book'.next_order_id = Len(placed') + 1 /\ cancelled' \intersect InBook' = {}
    BY <1>2, <1>8, <1>16 DEF BookInv
  <2> QED BY <1>15, <2>1, <2>2 DEF BookInv
<1>18. i \notin Unclaimed(book')
  BY <1>5, <1>8, <1>9 DEF Unclaimed
<1> QED BY <1>2, <1>3, <1>8, <1>9, <1>13, <1>16, <1>17, <1>18

LEMMA DelegatedUpdate ==
  ASSUME NEW b \in BookType, NEW flag
  PROVE  [b EXCEPT !.is_delegated = flag] =
           [next_order_id |-> b.next_order_id, next_fill_id |-> b.next_fill_id, levels |-> b.levels,
            fills |-> b.fills, fill_count |-> b.fill_count, fill_head |-> b.fill_head,
            is_delegated |-> flag]
  BY DEF BookType

\* Pausing and delegation change nothing that the invariants are about.
LEMMA FlagWorks ==
  ASSUME BookInv, UNCHANGED <<placed, cancelled>>, paused' \in BOOLEAN,
         NEW flag \in {0, 1}, book' = [book EXCEPT !.is_delegated = flag]
  PROVE  BookInv' /\ Quiet(book, book') /\ book'.fills = book.fills /\ InBook' = InBook
<1>1. EngineInv(placed, book) /\ book \in BookType
  BY DEF BookInv, EngineInv
<1>2. book' = [next_order_id |-> book.next_order_id, next_fill_id |-> book.next_fill_id, levels |-> book.levels,
               fills |-> book.fills, fill_count |-> book.fill_count, fill_head |-> book.fill_head,
               is_delegated |-> flag]
  BY <1>1, DelegatedUpdate
<1>3. /\ book'.levels = book.levels /\ book'.fills = book.fills /\ book'.fill_count = book.fill_count
      /\ book'.fill_head = book.fill_head /\ book'.next_fill_id = book.next_fill_id
      /\ book'.next_order_id = book.next_order_id
  BY <1>2
<1>4. book' \in BookType
  BY <1>1, <1>2 DEF BookType
<1>5. Made(book') = Made(book) /\ InBook' = InBook
  BY <1>3 DEF Made, InBook
<1>6. Quiet(book, book')
  BY <1>3, <1>5 DEF Quiet
<1>7. FilledOnce(placed, book') /\ RingSound(book')
  <2>1. RingSound(book) /\ FilledOnce(placed, book)
    BY <1>1 DEF EngineInv
  <2>2. RingSound(book')
    BY <1>3, <2>1 DEF RingSound
  <2>3. \A s \in Side : Resting(book'.levels[s]) \intersect DOMAIN placed \subseteq Resting(book.levels[s])
    BY <1>3
  <2>4. FilledOnce(placed, book')
    BY <1>1, <1>6, <2>3, FilledOnceKept
  <2> QED BY <2>2, <2>4
<1>8. \A s \in Side : Sound(placed, s, book.levels[s])
  BY <1>1 DEF EngineInv
<1>9. \A s \in Side : Sound(placed', s, book'.levels[s])
  BY <1>3, <1>8
<1>10. EngineInv(placed', book')
  BY <1>4, <1>7, <1>9 DEF EngineInv
<1> QED BY <1>3, <1>5, <1>6, <1>10 DEF BookInv

LEMMA MatchingWorks ==
  ASSUME BookInv, book' = MatchStep(book), UNCHANGED <<paused, placed, cancelled>>
  PROVE  BookInv' /\ Progress(book, book') /\ SwappedWhenBlocked(book, book')
<1>0. "bid" \in Side /\ "ask" \in Side
  BY DEF Side
<1>1. placed \in Seq(Order) /\ EngineInv(placed, book)
  BY DEF BookInv
<1>2. EngineInv(placed, book') /\ Progress(book, book') /\ SwappedWhenBlocked(book, book')
  <2>1. PICK c : c = MatchStep(book)
    OBVIOUS
  <2>2. EngineInv(placed, c) /\ Progress(book, c) /\ SwappedWhenBlocked(book, c)
    BY <1>1, <2>1, MatchWorks
  <2> QED BY <2>1, <2>2
<1>3. /\ book'.next_order_id = book.next_order_id
      /\ Made(book) \subseteq Made(book') /\ \A i \in Made(book) : book'.fills[i] = book.fills[i]
      /\ \A i \in New(book, book') : /\ book'.fills[i].taker \in Resting(book.levels["bid"])
                                     /\ book'.fills[i].maker \in Resting(book.levels["ask"])
      /\ \A s \in Side : Resting(book'.levels[s]) \subseteq Resting(book.levels[s])
  BY <1>2 DEF Progress
<1>4. InBook' \subseteq InBook
  BY <1>0, <1>3 DEF InBook
<1>5. cancelled \intersect InBook = {}
  BY DEF BookInv
<1>6. ASSUME NEW i \in Made(book')
      PROVE  book'.fills[i].taker \notin cancelled /\ book'.fills[i].maker \notin cancelled
  <2>1. CASE i \in Made(book)
    BY <1>3, <2>1 DEF BookInv
  <2>2. CASE i \notin Made(book)
    <3>1. i \in New(book, book')
      BY <2>2 DEF New
    <3>2. book'.fills[i].taker \in InBook /\ book'.fills[i].maker \in InBook
      BY <1>3, <3>1 DEF InBook
    <3> QED BY <1>5, <3>2
  <2> QED BY <2>1, <2>2
<1>7. BookInv'
  BY <1>2, <1>3, <1>4, <1>5, <1>6 DEF BookInv
<1> QED BY <1>2, <1>7

LEMMA InitBookInv == Init => BookInv
<1> SUFFICES ASSUME Init PROVE BookInv
  OBVIOUS
<1>0. MaxFills \in Nat \ {0} /\ MaxLevels \in Nat
  BY BookAssumption
<1>1. /\ paused = FALSE /\ placed = <<>> /\ cancelled = {} /\ book = EmptyBook
  BY DEF Init
<1>2. /\ book.next_order_id = 1 /\ book.next_fill_id = 1 /\ book.fill_count = 0 /\ book.fill_head = 0
      /\ book.levels = [s \in Side |-> <<>>] /\ book.fills = [i \in Slots |-> NoFill]
  BY <1>1 DEF EmptyBook
<1>3. book \in BookType
  <2>1. [s \in Side |-> <<>>] \in [Side -> Seq(Level)] /\ [i \in Slots |-> NoFill] \in [Slots -> Fill \union {NoFill}]
    OBVIOUS
  <2> QED BY <1>1, <2>1 DEF EmptyBook, BookType
<1>4. Made(book) = {}
  BY <1>2 DEF Made, Slots
<1>5. RingSound(book)
  <2>1. \A i \in Slots : book.fills[i] = NoFill /\ ~ (i < book.fill_count)
    BY <1>2 DEF Slots
  <2> QED BY <1>0, <1>2, <2>1 DEF RingSound
<1>6. \A s \in Side : book.levels[s] = <<>>
  BY <1>2
<1>7. \A s \in Side : Sound(placed, s, book.levels[s])
  <2> TAKE s \in Side
  <2>1. LevelsOf(<<>>) = {}
    BY DEF LevelsOf
  <2>2. Sorted(s, <<>>)
    BY DEF Sorted, LevelSorted
  <2> QED BY <1>0, <1>6, <2>1, <2>2 DEF Sound
<1>8. FilledOnce(placed, book)
  BY <1>4 DEF FilledOnce
<1>9. EngineInv(placed, book)
  BY <1>3, <1>5, <1>7, <1>8 DEF EngineInv
<1>10. cancelled \subseteq DOMAIN placed /\ cancelled \intersect InBook = {}
  BY <1>1
<1>11. placed \in Seq(Order) /\ Len(placed) = 0
  BY <1>1
<1>12. book.next_order_id = Len(placed) + 1
  BY <1>2, <1>11
<1> QED BY <1>1, <1>4, <1>9, <1>10, <1>11, <1>12 DEF BookInv

LEMMA NextBookInv == BookInv /\ [Next]_vars => BookInv'
<1> SUFFICES ASSUME BookInv, [Next]_vars PROVE BookInv'
  OBVIOUS
<1>1. ASSUME NEW order \in Order, PlaceOrder(order) PROVE BookInv'
  BY <1>1, PlaceWorks
<1>2. ASSUME NEW trader \in Traders, NEW id \in 1 .. MaxOrderId, NEW opening \in Commitment,
             CancelOrder(trader, id, opening)
      PROVE  BookInv'
  <2>1. id \in Nat
    BY BookAssumption
  <2> QED BY <1>2, <2>1, CancelWorks
<1>3. CASE MatchOrders
  BY <1>3, MatchingWorks DEF MatchOrders
<1>4. CASE CrankMatch
  BY <1>4, MatchingWorks DEF CrankMatch
<1>5. ASSUME NEW i \in Slots, ClaimFill(i) PROVE BookInv'
  BY <1>5, ClaimWorks
<1>6. ASSUME NEW p \in BOOLEAN, SetMarketPaused(p) PROVE BookInv'
  <2>1. paused' \in BOOLEAN /\ placed' = placed /\ cancelled' = cancelled /\ book' = book
    BY <1>6 DEF SetMarketPaused
  <2> QED BY <2>1 DEF BookInv, InBook
<1>7. CASE CommitAndUndelegateBook
  <2>1. paused' = paused /\ paused \in BOOLEAN
    BY <1>7 DEF CommitAndUndelegateBook, BookInv
  <2> QED BY <1>7, <2>1, FlagWorks DEF CommitAndUndelegateBook
<1>8. CASE BankrunMarkOrderBookDelegated
  <2>1. paused' = paused /\ paused \in BOOLEAN
    BY <1>8 DEF BankrunMarkOrderBookDelegated, BookInv
  <2> QED BY <1>8, <2>1, FlagWorks DEF BankrunMarkOrderBookDelegated
<1>9. CASE UNCHANGED vars
  BY <1>9 DEF vars, BookInv, InBook
<1> QED BY <1>1, <1>2, <1>3, <1>4, <1>5, <1>6, <1>7, <1>8, <1>9 DEF Next

LEMMA BookInvHolds == Spec => []BookInv
  BY InitBookInv, NextBookInv, PTL DEF Spec

-----------------------------------------------------------------------------
(* The properties of the runs.                                             *)

\* Type correctness of the account: its counters stay in their bounds, with
\* any number of traders, orders, levels and fills (state.rs, OrderBook).
THEOREM TypeCorrect == Spec => []TypeOK
<1>1. BookInv => TypeOK
  <2> SUFFICES ASSUME BookInv PROVE TypeOK
    OBVIOUS
  <2>1. /\ paused \in BOOLEAN /\ placed \in Seq(Order) /\ cancelled \subseteq DOMAIN placed
        /\ book.next_order_id = Len(placed) + 1 /\ EngineInv(placed, book)
    BY DEF BookInv
  <2>2. /\ book.fill_count \in Nat /\ book.levels \in [Side -> Seq(Level)]
        /\ book.fills \in [Slots -> Fill \union {NoFill}] /\ book.is_delegated \in {0, 1}
    BY <2>1 DEF EngineInv, BookType
  <2>3. /\ book.fill_count <= MaxFills /\ book.next_fill_id = book.fill_count + 1
        /\ book.fill_head = IF book.fill_count = MaxFills THEN 0 ELSE book.fill_count
    BY <2>1 DEF EngineInv, RingSound
  <2>4. MaxFills \in Nat \ {0}
    BY BookAssumption
  <2>5. /\ book.next_fill_id \in Nat \ {0} /\ book.fill_count \in 0 .. MaxFills
        /\ book.fill_head \in Slots
    BY <2>2, <2>3, <2>4 DEF Slots
  <2> QED BY <2>1, <2>2, <2>5 DEF TypeOK
<1> QED BY <1>1, BookInvHolds, PTL

\* Binary search, insertion, compaction, popping and eviction keep both sides of
\* the book sorted, without empty levels, each order at its own side and price
\* (insert_order, pop_best, evict_top_level, compact_level).
THEOREM BookStaysSorted == Spec => []BookSorted
<1>1. BookInv => BookSorted
  <2> SUFFICES ASSUME BookInv PROVE BookSorted
    OBVIOUS
  <2>1. SUFFICES ASSUME NEW s \in Side
                 PROVE  /\ Len(book.levels[s]) <= MaxLevels
                        /\ LevelSorted(s, book.levels[s])
                        /\ \A i \in DOMAIN book.levels[s] : LevelHolds(s, book.levels[s][i])
    BY DEF BookSorted
  <2>2. Sound(placed, s, book.levels[s])
    BY DEF BookInv, EngineInv
  <2>3. Len(book.levels[s]) <= MaxLevels /\ LevelSorted(s, book.levels[s])
    BY <2>2 DEF Sound, Sorted
  <2>4. \A i \in DOMAIN book.levels[s] : LevelSound(placed, s, book.levels[s][i])
    BY <2>2 DEF Sound, LevelsOf
  <2>5. \A l : LevelSound(placed, s, l) => LevelHolds(s, l)
    BY DEF LevelSound, LevelHolds, In
  <2> QED BY <2>3, <2>4, <2>5
<1> QED BY <1>1, BookInvHolds, PTL

\* A crank stops short of an uncrossed book only at one of match_step's limits.
THEOREM CranksDrainTheBook == Spec => []MatchDrainsBook
<1>1. BookInv => MatchDrainsBook
  <2> SUFFICES ASSUME BookInv PROVE MatchDrainsBook
    OBVIOUS
  <2>1. placed \in Seq(Order) /\ EngineInv(placed, book)
    BY DEF BookInv
  <2>2. PICK after : after = MatchStep(book)
    OBVIOUS
  <2>3. \/ ~ Crossed(after)
        \/ after.fill_count = MaxFills
        \/ after.next_fill_id = book.next_fill_id + FillsPerMatch
        \/ SelfMatchAtTop(after)
    BY <2>1, <2>2, MatchWorks
  <2> QED BY <2>2, <2>3 DEF MatchDrainsBook
<1> QED BY <1>1, BookInvHolds, PTL

\* What any step does, as far as fills and queues go.
LEMMA StepIsQuietOrMatches ==
  ASSUME BookInv, [Next]_vars
  PROVE  \/ Quiet(book, book')
         \/ UNCHANGED placed /\ Progress(book, book') /\ SwappedWhenBlocked(book, book')
<1>1. ASSUME NEW order \in Order, PlaceOrder(order) PROVE Quiet(book, book')
  BY <1>1, PlaceWorks
<1>2. ASSUME NEW trader \in Traders, NEW id \in 1 .. MaxOrderId, NEW opening \in Commitment,
             CancelOrder(trader, id, opening)
      PROVE  Quiet(book, book')
  <2>1. id \in Nat
    BY BookAssumption
  <2> QED BY <1>2, <2>1, CancelWorks
<1>3. ASSUME MatchOrders \/ CrankMatch
      PROVE  UNCHANGED placed /\ Progress(book, book') /\ SwappedWhenBlocked(book, book')
  BY <1>3, MatchingWorks DEF MatchOrders, CrankMatch
<1>4. ASSUME NEW i \in Slots, ClaimFill(i) PROVE Quiet(book, book')
  BY <1>4, ClaimWorks
<1>5. ASSUME UNCHANGED book PROVE Quiet(book, book')
  BY <1>5 DEF Quiet
<1>6. ASSUME CommitAndUndelegateBook \/ BankrunMarkOrderBookDelegated PROVE Quiet(book, book')
  <2>1. paused' = paused /\ paused \in BOOLEAN
    BY <1>6 DEF CommitAndUndelegateBook, BankrunMarkOrderBookDelegated, BookInv
  <2> QED BY <1>6, <2>1, FlagWorks DEF CommitAndUndelegateBook, BankrunMarkOrderBookDelegated
<1>7. (\E p \in BOOLEAN : SetMarketPaused(p)) \/ UNCHANGED vars => UNCHANGED book
  BY DEF SetMarketPaused, vars
<1> QED BY <1>1, <1>2, <1>3, <1>4, <1>5, <1>6, <1>7 DEF Next

\* A slot's fill id is its number plus one, so the fills of a step are those of
\* the slots it filled.
LEMMA NewFillsAreNew ==
  ASSUME BookInv, BookInv' PROVE NewFills = New(book, book')
<1>1. /\ book.next_fill_id = book.fill_count + 1 /\ book.fill_count \in Nat
      /\ \A i \in Slots : IF i < book'.fill_count
                          THEN book'.fills[i] \in Fill /\ book'.fills[i].fill_id = i + 1
                          ELSE book'.fills[i] = NoFill
  BY DEF BookInv, EngineInv, RingSound, BookType
<1>2. \A i \in Slots : i \in Int
  BY DEF Slots
<1>3. ASSUME NEW i \in Slots
      PROVE  book'.fills[i] # NoFill /\ book'.fills[i].fill_id >= book.next_fill_id
               <=> i < book'.fill_count /\ ~ (i < book.fill_count)
  <2>1. CASE i < book'.fill_count
    <3>1. book'.fills[i] # NoFill
      BY <1>1, <2>1, NoFillIsNone
    <3>2. book'.fills[i].fill_id = i + 1
      BY <1>1, <2>1
    <3> QED BY <1>1, <1>2, <2>1, <3>1, <3>2
  <2>2. CASE ~ (i < book'.fill_count)
    BY <1>1, <2>2
  <2> QED BY <2>1, <2>2
<1> QED BY <1>3 DEF NewFills, New, Made

\* Price priority across all the rounds of one crank (match_step, pop_best).
THEOREM BestPriceTradesFirst == Spec => PricePriority
<1>1. ASSUME BookInv, BookInv', [Next]_vars
      PROVE  \A i \in NewFills :
               /\ \A id \in Resting(book'.levels["bid"]) :
                    ~ Better("bid", placed[id].price, placed[book'.fills[i].taker].price)
               /\ \A id \in Resting(book'.levels["ask"]) :
                    ~ Better("ask", placed[id].price, placed[book'.fills[i].maker].price)
  <2>1. NewFills = New(book, book')
    BY <1>1, NewFillsAreNew
  <2>2. CASE Quiet(book, book')
    BY <2>1, <2>2 DEF Quiet, New
  <2>3. CASE Progress(book, book')
    BY <2>1, <2>3 DEF Progress
  <2> QED BY <1>1, <2>2, <2>3, StepIsQuietOrMatches
<1> QED BY <1>1, BookInvHolds, PTL DEF Spec, PricePriority

LEMMA AheadRests ==
  ASSUME NEW levels, NEW a, NEW b, IsLive(a), IsLive(b), Ahead(levels, a, b)
  PROVE  a \in Resting(levels) /\ b \in Resting(levels)
<1>1. PICK l \in LevelsOf(levels) : Before(l.orders, a, b)
  BY AheadByLevel
<1>2. In(l.orders, a) /\ In(l.orders, b)
  BY <1>1 DEF Before, In
<1> QED BY <1>1, <1>2, RestingByLevel

\* Time priority within a level, and what may break it: the re-insertion of an
\* order that ran into its own trader (match_step, insert_order).
THEOREM QueuesKeepTheirOrder == Spec => QueueOrderKept
<1> DEFINE Traded == {book'.fills[k].taker : k \in NewFills} \union {book'.fills[k].maker : k \in NewFills}
<1>1. ASSUME BookInv, BookInv', [Next]_vars,
             NEW s \in Side, NEW i \in Resting(book.levels[s]), NEW j \in Resting(book.levels[s]),
             Ahead(book.levels[s], i, j)
      PROVE  /\ i \in Resting(book'.levels[s]) => j \notin Traded
             /\ Ahead(book'.levels[s], j, i) => BlockedBySelf(i)'
  <2>1. Traded = Taken(book, book')
    BY <1>1, NewFillsAreNew DEF Taken
  <2>2. Sound(placed, s, book.levels[s])
    BY <1>1 DEF BookInv, EngineInv
  <2>3. IsLive(i) /\ IsLive(j)
    BY <2>2, RestingAtLevel
  <2>4. ~ Ahead(book.levels[s], j, i)
    BY <1>1, <2>2, <2>3, AheadAntisym
  <2>5. Ahead(book'.levels[s], j, i) => i \in Resting(book'.levels[s]) /\ j \in Resting(book'.levels[s])
    BY <2>3, AheadRests
  <2>6. CASE Quiet(book, book')
    <3>1. Taken(book, book') = {}
      BY <2>6 DEF Quiet, New, Taken
    <3>2. ~ Ahead(book'.levels[s], j, i)
      BY <2>4, <2>5, <2>6 DEF Quiet
    <3> QED BY <2>1, <3>1, <3>2
  <2>7. CASE UNCHANGED placed /\ Progress(book, book') /\ SwappedWhenBlocked(book, book')
    <3>1. i \in Resting(book'.levels[s]) => j \notin Taken(book, book')
      BY <1>1, <2>7 DEF Progress
    <3>2. ASSUME Ahead(book'.levels[s], j, i) PROVE BlockedBySelf(i)'
      <4>1. BlockedIn(book', i)
        BY <1>1, <2>5, <2>7, <3>2 DEF SwappedWhenBlocked
      <4> QED BY <2>7, <4>1 DEF BlockedIn, BlockedBySelf
    <3> QED BY <2>1, <3>1, <3>2
  <2> QED BY <1>1, <2>6, <2>7, StepIsQuietOrMatches
<1>2. ASSUME BookInv, BookInv', [Next]_vars
      PROVE  \A s \in Side : \A i, j \in Resting(book.levels[s]) :
               Ahead(book.levels[s], i, j) =>
                 /\ i \in Resting(book'.levels[s]) => j \notin Traded
                 /\ Ahead(book'.levels[s], j, i) => BlockedBySelf(i)'
  BY <1>1, <1>2
<1> QED BY <1>2, BookInvHolds, PTL DEF Spec, QueueOrderKept

-----------------------------------------------------------------------------
(* The book implements the life of an order.                               *)

TradeOf(fill) == <<fill.taker, fill.maker, fill.price>>

LEMMA TradesByFill ==
  ASSUME NEW b
  PROVE  \A t : t \in Trades(b) <=> \E i \in Unclaimed(b) : t = TradeOf(b.fills[i])
  BY DEF Trades, TradeOf

LEMMA OrdersOfTrades ==
  ASSUME NEW trades
  PROVE  \A id : id \in Lifecycle!OrdersOf(trades) <=> \E t \in trades : id = t[1] \/ id = t[2]
  BY DEF Lifecycle!OrdersOf

InBookOf(b) == Resting(b.levels["bid"]) \union Resting(b.levels["ask"])

\* SettledOrders, of any book.
SettledOf(orders, gone, b) ==
  {id \in DOMAIN orders :
     /\ id \notin InBookOf(b)
     /\ id \notin gone
     /\ \A trade \in Trades(b) : id # trade[1] /\ id # trade[2]}

LEMMA SettledUnfold ==
  /\ SettledOrders = SettledOf(placed, cancelled, book)
  /\ SettledOrders' = SettledOf(placed', cancelled', book')
  BY Zenon DEF SettledOrders, SettledOf, InBook, InBookOf

LEMMA InBookUnfold == InBook = InBookOf(book) /\ InBook' = InBookOf(book')
  BY Zenon DEF InBook, InBookOf

\* The order waits in a fill for its settlement.
Waits(b, id) == \E i \in Unclaimed(b) : id = b.fills[i].taker \/ id = b.fills[i].maker

LEMMA SettledByPlace ==
  ASSUME NEW orders, NEW gone, NEW b
  PROVE  \A id : id \in SettledOf(orders, gone, b) <=>
           id \in DOMAIN orders /\ id \notin InBookOf(b) /\ id \notin gone /\ ~ Waits(b, id)
<1>1. ASSUME NEW i \in Unclaimed(b)
      PROVE  \E t \in Trades(b) : t[1] = b.fills[i].taker /\ t[2] = b.fills[i].maker
  <2>1. PICK t : t = TradeOf(b.fills[i])
    OBVIOUS
  <2>2. t \in Trades(b)
    BY <2>1, TradesByFill
  <2> QED BY <2>1, <2>2 DEF TradeOf
<1>2. ASSUME NEW t \in Trades(b)
      PROVE  \E i \in Unclaimed(b) : t[1] = b.fills[i].taker /\ t[2] = b.fills[i].maker
  <2>1. PICK i \in Unclaimed(b) : t = TradeOf(b.fills[i])
    BY TradesByFill
  <2> QED BY <2>1 DEF TradeOf
<1>3. \A id : (\A t \in Trades(b) : id # t[1] /\ id # t[2])
                <=> ~ Waits(b, id)
  BY <1>1, <1>2 DEF Waits
<1> QED BY <1>3 DEF SettledOf

\* An order of a fill is nowhere else: not in the book, not cancelled, in no other fill.
LEMMA FilledIsElsewhere ==
  ASSUME BookInv
  PROVE  \A i \in Made(book) :
           /\ book.fills[i].taker \in DOMAIN placed /\ book.fills[i].maker \in DOMAIN placed
           /\ placed[book.fills[i].taker].side = "bid" /\ placed[book.fills[i].maker].side = "ask"
           /\ book.fills[i].taker \notin InBook /\ book.fills[i].maker \notin InBook
           /\ book.fills[i].taker \notin cancelled /\ book.fills[i].maker \notin cancelled
           /\ \A k \in Made(book) : k # i =>
                /\ book.fills[k].taker # book.fills[i].taker /\ book.fills[k].maker # book.fills[i].maker
                /\ book.fills[k].taker # book.fills[i].maker /\ book.fills[k].maker # book.fills[i].taker
<1>0. "bid" \in Side /\ "ask" \in Side /\ "bid" # "ask"
  BY DEF Side
<1>1. FilledOnce(placed, book) /\ \A s \in Side : Sound(placed, s, book.levels[s])
  BY DEF BookInv, EngineInv
<1>2. /\ \A id \in Resting(book.levels["bid"]) : placed[id].side = "bid"
      /\ \A id \in Resting(book.levels["ask"]) : placed[id].side = "ask"
  BY <1>0, <1>1, RestingAtLevel
<1> TAKE i \in Made(book)
<1>3. /\ book.fills[i].taker \in DOMAIN placed /\ book.fills[i].maker \in DOMAIN placed
      /\ placed[book.fills[i].taker].side = "bid" /\ placed[book.fills[i].maker].side = "ask"
      /\ book.fills[i].taker \notin Resting(book.levels["bid"])
      /\ book.fills[i].maker \notin Resting(book.levels["ask"])
  BY <1>1 DEF FilledOnce
<1>4. book.fills[i].taker \notin InBook /\ book.fills[i].maker \notin InBook
  BY <1>0, <1>2, <1>3 DEF InBook
<1>5. ASSUME NEW k \in Made(book), k # i
      PROVE  /\ book.fills[k].taker # book.fills[i].taker /\ book.fills[k].maker # book.fills[i].maker
             /\ book.fills[k].taker # book.fills[i].maker /\ book.fills[k].maker # book.fills[i].taker
  BY <1>0, <1>1, <1>3, <1>5 DEF FilledOnce
<1>6. book.fills[i].taker \notin cancelled /\ book.fills[i].maker \notin cancelled
  BY DEF BookInv
<1> QED BY <1>3, <1>4, <1>5, <1>6

LEMMA UnclaimedAreMade ==
  ASSUME NEW b, RingSound(b) PROVE Unclaimed(b) = {i \in Made(b) : ~ b.fills[i].claimed}
<1>1. \A i \in Slots : b.fills[i] # NoFill <=> i < b.fill_count
  BY NoFillIsNone DEF RingSound
<1> QED BY <1>1 DEF Unclaimed, Made

\* What the fills and the fate of the orders are made of stays: so does the rest.
LEMMA SameFillsSameTrades ==
  ASSUME book'.fills = book.fills
  PROVE  Unclaimed(book') = Unclaimed(book) /\ Trades(book') = Trades(book)
  BY DEF Unclaimed, Trades

LEMMA PlaceImplements ==
  ASSUME BookInv, NEW order \in Order, PlaceOrder(order)
  PROVE  Lifecycle!Place
<1>1. /\ placed' = Append(placed, order) /\ cancelled' = cancelled /\ book'.fills = book.fills
      /\ InBook' = InBook \union {Len(placed) + 1}
  BY PlaceWorks
<1>2. Unclaimed(book') = Unclaimed(book) /\ Trades(book') = Trades(book)
  BY <1>1, SameFillsSameTrades
<1>3. DOMAIN placed' = DOMAIN placed \union {Len(placed) + 1}
  BY <1>1 DEF BookInv
<1>4. Len(placed) + 1 \notin DOMAIN placed
  BY DEF BookInv
<1>5. SettledOrders' = SettledOrders
  <2>1. SettledOf(placed', cancelled', book') = SettledOf(placed, cancelled, book)
    <3>1. InBookOf(book') = InBookOf(book) \union {Len(placed) + 1}
      BY <1>1, InBookUnfold
    <3>2. PICK n : n = Len(placed) + 1
      OBVIOUS
    <3>3. PICK dom : dom = DOMAIN placed
      OBVIOUS
    <3>4. \A id : Waits(book', id) <=> Waits(book, id)
      BY <1>1, <1>2 DEF Waits
    <3>5. \A id : id \in SettledOf(placed', cancelled', book') <=>
             id \in dom \union {n} /\ id \notin InBookOf(book) \union {n} /\ id \notin cancelled /\ ~ Waits(book, id)
      <4>1. \A id : id \in SettledOf(placed', cancelled', book') <=>
               id \in DOMAIN placed' /\ id \notin InBookOf(book') /\ id \notin cancelled' /\ ~ Waits(book', id)
        BY SettledByPlace
      <4>2. DOMAIN placed' = dom \union {n} /\ InBookOf(book') = InBookOf(book) \union {n} /\ cancelled' = cancelled
        BY <1>1, <1>3, <3>1, <3>2, <3>3
      <4> QED BY <3>4, <4>1, <4>2
    <3>6. \A id : id \in SettledOf(placed, cancelled, book) <=>
             id \in dom /\ id \notin InBookOf(book) /\ id \notin cancelled /\ ~ Waits(book, id)
      BY <3>3, SettledByPlace
    <3>7. n \notin dom
      BY <1>4, <3>2, <3>3
    <3>8. \A id : id \in SettledOf(placed', cancelled', book') <=> id \in SettledOf(placed, cancelled, book)
      BY <3>5, <3>6, <3>7
    <3>9. SettledOf(placed', cancelled', book') \subseteq DOMAIN placed' /\ SettledOf(placed, cancelled, book) \subseteq DOMAIN placed
      BY DEF SettledOf
    <3> QED BY <3>8, <3>9
  <2> QED BY <2>1, SettledUnfold
<1> QED BY <1>1, <1>2, <1>5 DEF Lifecycle!Place

LEMMA CancelImplements ==
  ASSUME BookInv, NEW trader, NEW id \in Nat, NEW opening, CancelOrder(trader, id, opening)
  PROVE  Lifecycle!Cancel
<1>1. /\ placed' = placed /\ cancelled' = cancelled \union {id} /\ book'.fills = book.fills
      /\ id \in InBook /\ InBook' = InBook \ {id}
  BY CancelWorks
<1>2. Unclaimed(book') = Unclaimed(book) /\ Trades(book') = Trades(book)
  BY <1>1, SameFillsSameTrades
<1>3. SettledOrders' = SettledOrders
  <2>1. \A a : Waits(book', a) <=> Waits(book, a)
    BY <1>1, <1>2 DEF Waits
  <2>2. id \in InBookOf(book) /\ InBookOf(book') = InBookOf(book) \ {id}
    BY <1>1, InBookUnfold
  <2>3. \A a : a \in SettledOf(placed', cancelled', book') <=>
             a \in DOMAIN placed /\ a \notin InBookOf(book) \ {id} /\ a \notin cancelled \union {id} /\ ~ Waits(book, a)
    <3>1. \A a : a \in SettledOf(placed', cancelled', book') <=>
             a \in DOMAIN placed' /\ a \notin InBookOf(book') /\ a \notin cancelled' /\ ~ Waits(book', a)
      BY SettledByPlace
    <3> QED BY <1>1, <2>1, <2>2, <3>1
  <2>4. \A a : a \in SettledOf(placed, cancelled, book) <=>
             a \in DOMAIN placed /\ a \notin InBookOf(book) /\ a \notin cancelled /\ ~ Waits(book, a)
    BY SettledByPlace
  <2>5. \A a : a \in SettledOf(placed', cancelled', book') <=> a \in SettledOf(placed, cancelled, book)
    BY <2>2, <2>3, <2>4
  <2>6. SettledOf(placed', cancelled', book') = SettledOf(placed, cancelled, book)
    <3>1. SettledOf(placed', cancelled', book') \subseteq DOMAIN placed' /\ SettledOf(placed, cancelled, book) \subseteq DOMAIN placed
      BY DEF SettledOf
    <3> QED BY <2>5, <3>1
  <2> QED BY <2>6, SettledUnfold
<1> QED BY <1>1, <1>2, <1>3 DEF Lifecycle!Cancel

LEMMA ClaimImplements ==
  ASSUME BookInv, NEW i \in Slots, ClaimFill(i)
  PROVE  Lifecycle!Settle
<1>1. /\ placed' = placed /\ cancelled' = cancelled /\ InBook' = InBook
      /\ i \in Made(book) /\ i \in Unclaimed(book) /\ i \notin Unclaimed(book')
      /\ \A k \in Slots : k # i => book'.fills[k] = book.fills[k]
  BY ClaimWorks
<1>2. PICK trade : trade = TradeOf(book.fills[i])
  OBVIOUS
<1>3. trade \in Trades(book) /\ trade[1] = book.fills[i].taker /\ trade[2] = book.fills[i].maker
  <2>1. trade \in Trades(book)
    BY <1>1, <1>2, TradesByFill
  <2> QED BY <1>2, <2>1 DEF TradeOf
<1>4. Unclaimed(book') = Unclaimed(book) \ {i}
  <2>1. \A k \in Slots : k # i => (k \in Unclaimed(book') <=> k \in Unclaimed(book))
    BY <1>1 DEF Unclaimed
  <2>2. Unclaimed(book') \subseteq Slots /\ Unclaimed(book) \subseteq Slots
    BY DEF Unclaimed
  <2> QED BY <1>1, <2>1, <2>2
<1>5. \A k \in Unclaimed(book') : k \in Unclaimed(book) /\ k # i /\ book'.fills[k] = book.fills[k]
  BY <1>1, <1>4 DEF Unclaimed
<1>6. \A k \in Unclaimed(book) : k \in Made(book)
  <2>1. RingSound(book)
    BY DEF BookInv, EngineInv
  <2> QED BY <2>1, UnclaimedAreMade
<1>7. \A k \in Unclaimed(book) : k # i =>
         /\ book.fills[k].taker # trade[1] /\ book.fills[k].taker # trade[2]
         /\ book.fills[k].maker # trade[1] /\ book.fills[k].maker # trade[2]
  BY <1>1, <1>3, <1>6, FilledIsElsewhere
<1>8. Trades(book') = Trades(book) \ {trade}
  <2>1. ASSUME NEW t \in Trades(book') PROVE t \in Trades(book) /\ t # trade
    <3>1. PICK k \in Unclaimed(book') : t = TradeOf(book'.fills[k])
      BY TradesByFill
    <3>2. k \in Unclaimed(book) /\ k # i /\ t = TradeOf(book.fills[k])
      BY <1>5, <3>1
    <3>3. t \in Trades(book)
      BY <3>2, TradesByFill
    <3>4. t[1] = book.fills[k].taker
      BY <3>2 DEF TradeOf
    <3> QED BY <1>7, <3>2, <3>3, <3>4
  <2>2. ASSUME NEW t \in Trades(book), t # trade PROVE t \in Trades(book')
    <3>1. PICK k \in Unclaimed(book) : t = TradeOf(book.fills[k])
      BY TradesByFill
    <3>2. k # i
      BY <1>2, <2>2, <3>1
    <3>3. k \in Unclaimed(book') /\ t = TradeOf(book'.fills[k])
      BY <1>4, <1>5, <3>1, <3>2
    <3> QED BY <3>3, TradesByFill
  <2> QED BY <2>1, <2>2
<1>9. \A a : Waits(book', a) <=> Waits(book, a) /\ a # trade[1] /\ a # trade[2]
  <2> TAKE a
  <2>1. ASSUME Waits(book', a) PROVE Waits(book, a) /\ a # trade[1] /\ a # trade[2]
    <3>1. PICK k \in Unclaimed(book') : a = book'.fills[k].taker \/ a = book'.fills[k].maker
      BY <2>1 DEF Waits
    <3>2. k \in Unclaimed(book) /\ k # i /\ (a = book.fills[k].taker \/ a = book.fills[k].maker)
      BY <1>5, <3>1
    <3> QED BY <1>7, <3>2 DEF Waits
  <2>2. ASSUME Waits(book, a), a # trade[1], a # trade[2] PROVE Waits(book', a)
    <3>1. PICK k \in Unclaimed(book) : a = book.fills[k].taker \/ a = book.fills[k].maker
      BY <2>2 DEF Waits
    <3>2. k # i
      BY <1>3, <2>2, <3>1
    <3>3. k \in Unclaimed(book') /\ (a = book'.fills[k].taker \/ a = book'.fills[k].maker)
      BY <1>4, <1>5, <3>1, <3>2
    <3> QED BY <3>3 DEF Waits
  <2> QED BY <2>1, <2>2
<1>10. /\ trade[1] \in DOMAIN placed /\ trade[1] \notin InBook /\ trade[1] \notin cancelled
       /\ trade[2] \in DOMAIN placed /\ trade[2] \notin InBook /\ trade[2] \notin cancelled
  BY <1>1, <1>3, FilledIsElsewhere
<1>11. SettledOrders' = SettledOrders \union {trade[1], trade[2]}
  <2>1. InBookOf(book) = InBook /\ InBookOf(book') = InBook
    BY <1>1, InBookUnfold
  <2>2. \A a : a \in SettledOf(placed', cancelled', book') <=>
             a \in DOMAIN placed /\ a \notin InBook /\ a \notin cancelled /\ ~ Waits(book', a)
    <3>1. \A a : a \in SettledOf(placed', cancelled', book') <=>
             a \in DOMAIN placed' /\ a \notin InBookOf(book') /\ a \notin cancelled' /\ ~ Waits(book', a)
      BY SettledByPlace
    <3> QED BY <1>1, <2>1, <3>1
  <2>3. \A a : a \in SettledOf(placed, cancelled, book) <=>
             a \in DOMAIN placed /\ a \notin InBook /\ a \notin cancelled /\ ~ Waits(book, a)
    BY <2>1, SettledByPlace
  <2>4. \A a : a \in SettledOf(placed', cancelled', book')
               <=> a \in SettledOf(placed, cancelled, book) \/ a = trade[1] \/ a = trade[2]
    BY <1>9, <1>10, <2>2, <2>3
  <2>5. SettledOf(placed', cancelled', book') = SettledOf(placed, cancelled, book) \union {trade[1], trade[2]}
    <3>1. SettledOf(placed', cancelled', book') \subseteq DOMAIN placed' /\ SettledOf(placed, cancelled, book) \subseteq DOMAIN placed
      BY DEF SettledOf
    <3> QED BY <2>4, <3>1
  <2> QED BY <2>5, SettledUnfold
<1>12. Lifecycle!OrdersOf({trade}) = {trade[1], trade[2]}
  <2>1. \A a : a \in Lifecycle!OrdersOf({trade}) <=> a = trade[1] \/ a = trade[2]
    BY OrdersOfTrades
  <2> QED BY <2>1
<1> QED BY <1>1, <1>3, <1>8, <1>11, <1>12 DEF Lifecycle!Settle

LEMMA MatchImplements ==
  ASSUME BookInv, BookInv', Progress(book, book'), UNCHANGED <<placed, cancelled>>
  PROVE  Lifecycle!Match
<1>0. "bid" \in Side /\ "ask" \in Side /\ Side = {"bid", "ask"} /\ "bid" # "ask"
  BY DEF Side
<1>1. /\ Made(book) \subseteq Made(book') /\ \A i \in Made(book) : book'.fills[i] = book.fills[i]
      /\ \A i \in New(book, book') :
           /\ book'.fills[i].taker \in Resting(book.levels["bid"]) /\ book'.fills[i].maker \in Resting(book.levels["ask"])
           /\ FillAllowed(book'.fills[i])
      /\ \A s \in Side : Resting(book'.levels[s]) = Resting(book.levels[s]) \ Taken(book, book')
  BY DEF Progress
<1>2. /\ RingSound(book) /\ RingSound(book') /\ FilledOnce(placed, book')
  BY DEF BookInv, EngineInv
<1>3. \A i \in New(book, book') : i \in Made(book') /\ i \notin Made(book)
  BY DEF New
<1>4. Unclaimed(book') = Unclaimed(book) \union New(book, book')
  <2>1. /\ Unclaimed(book') = {i \in Made(book') : ~ book'.fills[i].claimed}
        /\ Unclaimed(book) = {i \in Made(book) : ~ book.fills[i].claimed}
    BY <1>2, UnclaimedAreMade
  <2>2. \A i \in New(book, book') : ~ book'.fills[i].claimed
    BY <1>1 DEF FillAllowed
  <2>3. Made(book') = Made(book) \union New(book, book')
    BY <1>1 DEF New
  <2> QED BY <1>1, <2>1, <2>2, <2>3
<1>5. \A k \in Unclaimed(book) : k \in Made(book) /\ book'.fills[k] = book.fills[k]
  BY <1>1, <1>2, UnclaimedAreMade
<1>6. \A k \in Made(book) : book.fills[k].taker \notin InBook /\ book.fills[k].maker \notin InBook
  BY FilledIsElsewhere
<1>7. PICK new : new = Trades(book') \ Trades(book)
  OBVIOUS
<1>8. \A t : t \in new <=> \E i \in New(book, book') : t = TradeOf(book'.fills[i])
  <2>1. ASSUME NEW t \in new PROVE \E i \in New(book, book') : t = TradeOf(book'.fills[i])
    <3>1. PICK i \in Unclaimed(book') : t = TradeOf(book'.fills[i])
      BY <1>7, TradesByFill
    <3>2. i \notin Unclaimed(book)
      <4>1. SUFFICES ASSUME i \in Unclaimed(book) PROVE FALSE
        OBVIOUS
      <4>2. t = TradeOf(book.fills[i])
        BY <1>5, <3>1, <4>1
      <4> QED BY <1>7, <4>1, <4>2, TradesByFill
    <3> QED BY <1>4, <3>1, <3>2
  <2>2. ASSUME NEW i \in New(book, book'), NEW t, t = TradeOf(book'.fills[i]) PROVE t \in new
    <3>1. t \in Trades(book')
      BY <1>4, <2>2, TradesByFill
    <3>2. t[1] \in InBook
      <4>1. t[1] = book'.fills[i].taker
        BY <2>2 DEF TradeOf
      <4> QED BY <1>1, <4>1 DEF InBook
    <3>3. ASSUME t \in Trades(book) PROVE FALSE
      <4>1. PICK k \in Unclaimed(book) : t = TradeOf(book.fills[k])
        BY <3>3, TradesByFill
      <4>2. t[1] = book.fills[k].taker
        BY <4>1 DEF TradeOf
      <4> QED BY <1>5, <1>6, <3>2, <4>2
    <3> QED BY <1>7, <3>1, <3>3
  <2> QED BY <2>1, <2>2
<1>9. Trades(book) \subseteq Trades(book')
  <2>1. ASSUME NEW t \in Trades(book) PROVE t \in Trades(book')
    <3>1. PICK k \in Unclaimed(book) : t = TradeOf(book.fills[k])
      BY TradesByFill
    <3>2. k \in Unclaimed(book') /\ t = TradeOf(book'.fills[k])
      BY <1>4, <1>5, <3>1
    <3> QED BY <3>2, TradesByFill
  <2> QED BY <2>1
<1>10. Lifecycle!OrdersOf(new) = Taken(book, book')
  <2>1. ASSUME NEW a \in Lifecycle!OrdersOf(new) PROVE a \in Taken(book, book')
    <3>1. PICK t \in new : a = t[1] \/ a = t[2]
      BY OrdersOfTrades
    <3>2. PICK i \in New(book, book') : t = TradeOf(book'.fills[i])
      BY <1>8, <3>1
    <3>3. a = book'.fills[i].taker \/ a = book'.fills[i].maker
      BY <3>1, <3>2 DEF TradeOf
    <3> QED BY <3>2, <3>3 DEF Taken
  <2>2. ASSUME NEW a \in Taken(book, book') PROVE a \in Lifecycle!OrdersOf(new)
    <3>1. PICK i \in New(book, book') : a = book'.fills[i].taker \/ a = book'.fills[i].maker
      BY DEF Taken
    <3>2. PICK t : t = TradeOf(book'.fills[i])
      OBVIOUS
    <3>3. t \in new
      BY <1>8, <3>1, <3>2
    <3>4. a = t[1] \/ a = t[2]
      BY <3>1, <3>2 DEF TradeOf
    <3> QED BY <3>3, <3>4, OrdersOfTrades
  <2> QED BY <2>1, <2>2
<1>11. Taken(book, book') \subseteq InBook
  BY <1>1 DEF Taken, InBook
<1>12. InBook' = InBook \ Lifecycle!OrdersOf(new)
  BY <1>0, <1>1, <1>10 DEF InBook
<1>13. ASSUME NEW t \in new, NEW u \in new,
              Lifecycle!OrdersOf({t}) \intersect Lifecycle!OrdersOf({u}) # {}
       PROVE  t = u
  <2>1. PICK a : a \in Lifecycle!OrdersOf({t}) /\ a \in Lifecycle!OrdersOf({u})
    BY <1>13
  <2>2. (a = t[1] \/ a = t[2]) /\ (a = u[1] \/ a = u[2])
    BY <2>1, OrdersOfTrades
  <2>3. PICK i \in New(book, book') : t = TradeOf(book'.fills[i])
    BY <1>8
  <2>4. PICK k \in New(book, book') : u = TradeOf(book'.fills[k])
    BY <1>8
  <2>5. /\ a = book'.fills[i].taker \/ a = book'.fills[i].maker
        /\ a = book'.fills[k].taker \/ a = book'.fills[k].maker
    BY <2>2, <2>3, <2>4 DEF TradeOf
  <2>6. i \in Made(book') /\ k \in Made(book')
    BY <1>3, <2>3, <2>4
  <2>7. /\ placed[book'.fills[i].taker].side = "bid" /\ placed[book'.fills[i].maker].side = "ask"
        /\ placed[book'.fills[k].taker].side = "bid" /\ placed[book'.fills[k].maker].side = "ask"
    BY <1>2, <2>6 DEF FilledOnce
  <2>8. i = k
    BY <1>0, <1>2, <2>5, <2>6, <2>7 DEF FilledOnce
  <2> QED BY <2>3, <2>4, <2>8
<1>14. ASSUME NEW t \in new PROVE Lifecycle!CanTrade(t)
  <2>1. PICK i \in New(book, book') : t = TradeOf(book'.fills[i])
    BY <1>8
  <2>2. t[1] = book'.fills[i].taker /\ t[2] = book'.fills[i].maker /\ t[3] = book'.fills[i].price
    BY <2>1 DEF TradeOf
  <2>3. placed[t[1]].side = "bid" /\ placed[t[2]].side = "ask"
    BY <1>2, <1>3, <2>1, <2>2 DEF FilledOnce
  <2>4. placed[t[1]].trader # placed[t[2]].trader /\ placed[t[2]].price <= t[3] /\ t[3] <= placed[t[1]].price
    BY <1>1, <2>1, <2>2 DEF FillAllowed
  <2> QED BY <2>3, <2>4 DEF Lifecycle!CanTrade
<1>15. \A a : Waits(book', a) <=> Waits(book, a) \/ a \in Taken(book, book')
  <2>1. \A a : Waits(book, a) <=> \E k \in Unclaimed(book) : a = book'.fills[k].taker \/ a = book'.fills[k].maker
    BY <1>5 DEF Waits
  <2>2. \A a : a \in Taken(book, book') <=> \E k \in New(book, book') : a = book'.fills[k].taker \/ a = book'.fills[k].maker
    BY DEF Taken
  <2>3. \A a : Waits(book', a) <=>
               (\E k \in Unclaimed(book') : a = book'.fills[k].taker \/ a = book'.fills[k].maker)
    BY DEF Waits
  <2> QED BY <1>4, <2>1, <2>2, <2>3
<1>16. SettledOrders' = SettledOrders
  <2>1. InBookOf(book) = InBook /\ InBookOf(book') = InBook \ Taken(book, book')
    BY <1>10, <1>12, InBookUnfold
  <2>2. \A a : a \in SettledOf(placed', cancelled', book') <=>
             a \in DOMAIN placed /\ a \notin InBook \ Taken(book, book') /\ a \notin cancelled /\ ~ Waits(book', a)
    <3>1. \A a : a \in SettledOf(placed', cancelled', book') <=>
             a \in DOMAIN placed' /\ a \notin InBookOf(book') /\ a \notin cancelled' /\ ~ Waits(book', a)
      BY SettledByPlace
    <3> QED BY <2>1, <3>1
  <2>3. \A a : a \in SettledOf(placed, cancelled, book) <=>
             a \in DOMAIN placed /\ a \notin InBook /\ a \notin cancelled /\ ~ Waits(book, a)
    BY <2>1, SettledByPlace
  <2>4. \A a : a \in SettledOf(placed', cancelled', book') <=> a \in SettledOf(placed, cancelled, book)
    BY <1>11, <1>15, <2>2, <2>3
  <2>5. SettledOf(placed', cancelled', book') = SettledOf(placed, cancelled, book)
    <3>1. SettledOf(placed', cancelled', book') \subseteq DOMAIN placed' /\ SettledOf(placed, cancelled, book) \subseteq DOMAIN placed
      BY DEF SettledOf
    <3> QED BY <2>4, <3>1
  <2> QED BY <2>5, SettledUnfold
<1>17. Lifecycle!OrdersOf(new) \subseteq InBook
  BY <1>10, <1>11
<1> QED BY <1>7, <1>9, <1>12, <1>13, <1>14, <1>16, <1>17 DEF Lifecycle!Match

LEMMA InitImplements == Init => Lifecycle!Init
<1> SUFFICES ASSUME Init PROVE Lifecycle!Init
  OBVIOUS
<1>1. placed = <<>> /\ cancelled = {} /\ book = EmptyBook
  BY DEF Init
<1>2. \A s \in Side : book.levels[s] = <<>>
  BY <1>1 DEF EmptyBook
<1>3. Resting(<<>>) = {}
  BY DEF Resting
<1>4. InBook = {}
  BY <1>2, <1>3 DEF InBook, Side
<1>5. \A i \in Slots : book.fills[i] = NoFill
  BY <1>1 DEF EmptyBook
<1>6. Trades(book) = {}
  BY <1>5 DEF Unclaimed, Trades
<1>7. SettledOrders = {}
  BY <1>1 DEF SettledOrders
<1> QED BY <1>1, <1>4, <1>6, <1>7 DEF Lifecycle!Init

LEMMA SameImplements ==
  ASSUME UNCHANGED <<placed, cancelled>>, book'.fills = book.fills, InBook' = InBook
  PROVE  UNCHANGED Lifecycle!vars
<1>1. Unclaimed(book') = Unclaimed(book) /\ Trades(book') = Trades(book)
  BY SameFillsSameTrades
<1>2. SettledOrders' = SettledOrders
  BY <1>1, Zenon DEF SettledOrders
<1> QED BY <1>1, <1>2 DEF Lifecycle!vars

\* The book, with its levels, tombstones, queues and ring of fills, implements the
\* life of an order: every step of the account is a step there, or none.
THEOREM BookImplementsOrderLifecycle == Spec => ImplementsOrderLifecycle
<1>1. ASSUME BookInv, BookInv', [Next]_vars PROVE [Lifecycle!Next]_(Lifecycle!vars)
  <2>1. ASSUME NEW order \in Order, PlaceOrder(order) PROVE Lifecycle!Next
    BY <1>1, <2>1, PlaceImplements DEF Lifecycle!Next
  <2>2. ASSUME NEW trader \in Traders, NEW id \in 1 .. MaxOrderId, NEW opening \in Commitment,
               CancelOrder(trader, id, opening)
        PROVE  Lifecycle!Next
    <3>1. id \in Nat
      BY BookAssumption
    <3> QED BY <1>1, <2>2, <3>1, CancelImplements DEF Lifecycle!Next
  <2>3. ASSUME MatchOrders \/ CrankMatch PROVE Lifecycle!Next
    <3>1. book' = MatchStep(book) /\ UNCHANGED <<paused, placed, cancelled>>
      BY <2>3 DEF MatchOrders, CrankMatch
    <3>2. Progress(book, book')
      BY <1>1, <3>1, MatchingWorks
    <3> QED BY <1>1, <3>1, <3>2, MatchImplements DEF Lifecycle!Next
  <2>4. ASSUME NEW i \in Slots, ClaimFill(i) PROVE Lifecycle!Next
    BY <1>1, <2>4, ClaimImplements DEF Lifecycle!Next
  <2>5. ASSUME CommitAndUndelegateBook \/ BankrunMarkOrderBookDelegated PROVE UNCHANGED Lifecycle!vars
    <3>1. paused' = paused /\ paused \in BOOLEAN /\ UNCHANGED <<placed, cancelled>>
      BY <1>1, <2>5 DEF CommitAndUndelegateBook, BankrunMarkOrderBookDelegated, BookInv
    <3>2. book'.fills = book.fills /\ InBook' = InBook
      BY <1>1, <2>5, <3>1, FlagWorks DEF CommitAndUndelegateBook, BankrunMarkOrderBookDelegated
    <3> QED BY <3>1, <3>2, SameImplements
  <2>6. ASSUME (\E p \in BOOLEAN : SetMarketPaused(p)) \/ UNCHANGED vars PROVE UNCHANGED Lifecycle!vars
    <3>1. UNCHANGED <<placed, cancelled, book>>
      BY <2>6 DEF SetMarketPaused, vars
    <3>2. InBook' = InBook
      BY <3>1 DEF InBook
    <3> QED BY <3>1, <3>2, SameImplements
  <2> QED BY <1>1, <2>1, <2>2, <2>3, <2>4, <2>5, <2>6 DEF Next
<1> QED BY <1>1, InitImplements, BookInvHolds, PTL DEF Spec, ImplementsOrderLifecycle, Lifecycle!Spec

Account ==
  INSTANCE OrderLifecycleProofs WITH orders <- placed, resting <- InBook,
                                     matched <- Trades(book), settled <- SettledOrders

\* So every accepted order is in exactly one place, and no order is in two trades.
THEOREM NoOrderIsLost == Spec => [](Account!EveryOrderAccountedFor /\ Account!TradesAreSound)
<1>1. Lifecycle!Init => Account!Init
  BY Zenon DEF Lifecycle!Init, Account!Init
<1>2. Lifecycle!Next => Account!Next
  BY Zenon DEF Lifecycle!Next, Lifecycle!Place, Lifecycle!Cancel, Lifecycle!Match, Lifecycle!Settle,
               Lifecycle!CanTrade, Lifecycle!OrdersOf,
               Account!Next, Account!Place, Account!Cancel, Account!Match, Account!Settle,
               Account!CanTrade, Account!OrdersOf
<1>3. UNCHANGED Lifecycle!vars => UNCHANGED Account!vars
  BY DEF Lifecycle!vars, Account!vars
<1>4. [Lifecycle!Next]_(Lifecycle!vars) => [Account!Next]_(Account!vars)
  BY <1>2, <1>3
<1>5. ImplementsOrderLifecycle => Account!Spec
  BY <1>1, <1>4, PTL DEF ImplementsOrderLifecycle, Lifecycle!Spec, Account!Spec
<1> QED BY <1>5, BookImplementsOrderLifecycle, Account!LifecycleTheorem, PTL
=============================================================================
