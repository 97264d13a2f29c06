----------------------------- MODULE OrderBook -----------------------------
(***************************************************************************)
(* The on-chain order book of one DarkBook market: the zero-copy OrderBook *)
(* account (programs/darkbook/src/state.rs), the matching engine           *)
(* (matching_engine.rs) and the instructions that write the account        *)
(* (ix/orders.rs, ix/matching.rs, ix/admin.rs and the book half of         *)
(* ix/settlement.rs).  An instruction is one transaction, so it is one     *)
(* action: a failing require! reverts everything it wrote.                 *)
(*                                                                         *)
(* The contents of an Order never change while it is moved about, so the   *)
(* book holds order ids and `placed' keeps the contents by id.  Slots,     *)
(* timestamps and pubkeys that no guard compares are left out.             *)
(***************************************************************************)
EXTENDS Integers, Sequences, FiniteSets

CONSTANTS
  Traders,        \* public keys that place orders
  Prices,         \* price_ticks an order may carry
  SizeBands,      \* size_band values in use, out of 0 .. 3
  Sizes,          \* size_lots a commitment may hide
  Leverages,      \* leverage_bps values in use
  MaxLevels,      \* OrderBook::MAX_LEVELS        (256 in the program)
  OrdersPerLevel, \* OrderBook::ORDERS_PER_LEVEL  (4)
  MaxFills,       \* OrderBook::MAX_FILLS         (256)
  FillsPerMatch,  \* FILLS_PER_MATCH              (32)
  MaxOrderId,     \* bound of the model on the orders ever placed
  TestHarness     \* TRUE iff the is_delegated byte is patched as the tests do

ASSUME BookAssumption ==
  /\ Prices \subseteq Nat \ {0}
  /\ SizeBands \subseteq 0 .. 3
  /\ Sizes \subseteq Nat
  /\ Leverages \subseteq Nat \ {0}
  /\ MaxLevels \in Nat \ {0}
  /\ OrdersPerLevel \in Nat \ {0}
  /\ MaxFills \in Nat \ {0}
  /\ FillsPerMatch \in Nat
  /\ MaxOrderId \in Nat
  /\ TestHarness \in BOOLEAN

VARIABLES
  paused,     \* Market.paused
  placed,     \* the order with id i is placed[i]; grows with next_order_id
  cancelled,  \* ids for which OrderCancelled was emitted
  book        \* the OrderBook account

vars == <<paused, placed, cancelled, book>>

Side == {"bid", "ask"}
Tombstone == 0
NoFill == [fill_id |-> 0]

\* What the sha256 preimage reveals besides the salt and the trader.
Commitment == [size : Sizes, leverage : Leverages]

Order == [trader : Traders, side : Side, price : Prices, size_band : SizeBands,
          leverage : Leverages, commitment : Commitment]

Fill == [fill_id : Nat \ {0}, taker : Nat \ {0}, maker : Nat \ {0},
         price : Prices, size_band : SizeBands, claimed : BOOLEAN]

Level == [price : Prices, orders : Seq(Nat)]

Slots == 0 .. MaxFills - 1

EmptyBook ==
  [next_order_id |-> 1, next_fill_id |-> 1,
   levels |-> [s \in Side |-> <<>>],
   fills |-> [i \in Slots |-> NoFill], fill_count |-> 0, fill_head |-> 0,
   is_delegated |-> 0]

-----------------------------------------------------------------------------
(* The price-level array: a sequence of levels, best price first.          *)

IsLive(id) == id # Tombstone

\* Faulty variant: compaction that scans the level from its back.
FaultyLiveIds(ids) ==
  LET n == Len(ids)
  IN  SelectSeq([i \in 1 .. n |-> ids[n + 1 - i]], IsLive)

\* compact_level: what is live moves to the front and keeps its order.
LiveIds(ids) ==
  LET kept[n \in 0 .. Len(ids)] ==
        IF n = 0 THEN <<>>
        ELSE IF IsLive(ids[n]) THEN Append(kept[n - 1], ids[n]) ELSE kept[n - 1]
  IN  kept[Len(ids)]

\* A price closer to the front of the array than another on that side.
Better(s, p, q) == IF s = "bid" THEN p > q ELSE p < q

\* Faulty variant: the comparison is not negated for asks.
FaultyGoRight(s, p, price) == p > price

\* The half of the array the binary search continues in.
GoRight(s, p, price) == IF s = "bid" THEN p > price ELSE p < price

\* Position of the level with this price, or where such a level belongs.
BsearchLevels(levels, s, price) ==
  LET n == Len(levels)
      search[part \in (0 .. n) \X (0 .. n)] ==
        LET lo  == part[1]
            hi  == part[2]
            mid == (lo + hi) \div 2
            p   == levels[mid + 1].price
        IN  IF lo >= hi THEN [found |-> FALSE, pos |-> lo + 1]
            ELSE IF p = price THEN [found |-> TRUE, pos |-> mid + 1]
            ELSE IF GoRight(s, p, price) THEN search[<<mid + 1, hi>>]
            ELSE search[<<lo, mid>>]
  IN  search[<<0, n>>]

\* Faulty variant: a full level makes room by dropping its last order.
FaultyRoomAt(level) ==
  IF Len(level.orders) < OrdersPerLevel THEN level.orders
  ELSE SubSeq(level.orders, 1, OrdersPerLevel - 1)

\* A full level is compacted before the order is refused.
RoomAt(level) ==
  IF Len(level.orders) < OrdersPerLevel THEN level.orders ELSE LiveIds(level.orders)

InsertOrder(levels, s, id, price) ==
  LET at == BsearchLevels(levels, s, price)
      ids == RoomAt(levels[at.pos])
  IN  IF at.found
      THEN IF Len(ids) < OrdersPerLevel
           THEN [ok |-> TRUE, levels |-> [levels EXCEPT ![at.pos].orders = Append(ids, id)]]
           ELSE [ok |-> FALSE, levels |-> levels]
      ELSE IF Len(levels) < MaxLevels
           THEN [ok |-> TRUE,
                 levels |-> SubSeq(levels, 1, at.pos - 1)
                            \o <<[price |-> price, orders |-> <<id>>]>>
                            \o SubSeq(levels, at.pos, Len(levels))]
           ELSE [ok |-> FALSE, levels |-> levels]

LiveLevels(levels) == {i \in DOMAIN levels : \E j \in DOMAIN levels[i].orders : IsLive(levels[i].orders[j])}

First(S) == CHOOSE i \in S : \A j \in S : i <= j

BestPrice(levels) == levels[First(LiveLevels(levels))].price

\* Faulty variant: a level whose last order is popped is not evicted.
FaultyPopBest(levels) ==
  LET i    == First(LiveLevels(levels))
      ids  == levels[i].orders
      head == First({j \in DOMAIN ids : IsLive(ids[j])})
      left == [levels[i] EXCEPT !.orders = SubSeq(ids, head + 1, Len(ids))]
  IN  [order |-> ids[head], levels |-> <<left>> \o SubSeq(levels, i + 1, Len(levels))]

\* Levels of tombstones in front of the best order are dropped with it, and
\* so are the tombstones in front of it in its own level.
PopBest(levels) ==
  LET i    == First(LiveLevels(levels))
      ids  == levels[i].orders
      head == First({j \in DOMAIN ids : IsLive(ids[j])})
      rest == SubSeq(ids, head + 1, Len(ids))
      kept == IF rest = <<>> THEN <<>> ELSE <<[levels[i] EXCEPT !.orders = rest]>>
  IN  [order |-> ids[head], levels |-> kept \o SubSeq(levels, i + 1, Len(levels))]

TombstoneOrder(levels, id) ==
  [i \in DOMAIN levels |->
     [levels[i] EXCEPT !.orders =
        [j \in DOMAIN levels[i].orders |->
           IF levels[i].orders[j] = id THEN Tombstone ELSE levels[i].orders[j]]]]

Resting(levels) ==
  (UNION {{levels[i].orders[j] : j \in DOMAIN levels[i].orders} : i \in DOMAIN levels}) \ {Tombstone}

-----------------------------------------------------------------------------
(* The ring of fills awaiting settlement.                                  *)

IsFree(fill) == fill = NoFill \/ fill.claimed

\* Distance of the first free slot from the write cursor.
FreeOffsets(b) == {k \in Slots : IsFree(b.fills[(b.fill_head + k) % MaxFills])}

CanPushFill(b) == b.fill_count < MaxFills /\ FreeOffsets(b) # {}

\* Faulty variant: the write cursor is not taken modulo the capacity.
FaultyPushFillCursor(b, fill) ==
  LET cursor == (b.fill_head + First(FreeOffsets(b))) % MaxFills
  IN  [b EXCEPT !.fills[cursor] = fill, !.fill_head = cursor + 1, !.fill_count = @ + 1]

PushFill(b, fill) ==
  LET cursor == (b.fill_head + First(FreeOffsets(b))) % MaxFills
  IN  [b EXCEPT !.fills[cursor] = fill,
                !.fill_head = (cursor + 1) % MaxFills,
                !.fill_count = @ + 1]

Unclaimed(b) == {i \in Slots : b.fills[i] # NoFill /\ ~b.fills[i].claimed}

-----------------------------------------------------------------------------
(* The matching engine.                                                    *)

Crossed(b) ==
  /\ LiveLevels(b.levels["bid"]) # {}
  /\ LiveLevels(b.levels["ask"]) # {}
  /\ BestPrice(b.levels["bid"]) >= BestPrice(b.levels["ask"])

\* One pass of match_step's loop over a crossed book with room for a fill.
\* Orders that cannot trade are put back behind their level and end the loop.
MatchRound(b) ==
  LET bid == PopBest(b.levels["bid"])
      ask == PopBest(b.levels["ask"])
      popped == [b EXCEPT !.levels = [s \in Side |-> IF s = "bid" THEN bid.levels ELSE ask.levels]]
      fill == [fill_id |-> b.next_fill_id, taker |-> bid.order, maker |-> ask.order,
               price |-> placed[ask.order].price,
               size_band |-> placed[bid.order].size_band, claimed |-> FALSE]
      putBack(s, levels, id) == InsertOrder(levels, s, id, placed[id].price).levels
  IN  IF placed[bid.order].trader # placed[ask.order].trader /\ CanPushFill(b)
      THEN [book |-> [PushFill(popped, fill) EXCEPT !.next_fill_id = @ + 1], going |-> TRUE]
      ELSE [book |-> [b EXCEPT !.levels = [s \in Side |->
                        IF s = "bid" THEN putBack(s, bid.levels, bid.order)
                                     ELSE putBack(s, ask.levels, ask.order)]],
            going |-> FALSE]

\* The book after at most n rounds of the loop.
AfterRounds(b, rounds) ==
  LET run[n \in 0 .. rounds] ==
        IF n = 0 THEN [book |-> b, going |-> TRUE]
        ELSE LET before == run[n - 1]
             IN  IF /\ before.going
                    /\ before.book.fill_count < MaxFills
                    /\ Crossed(before.book)
                 THEN MatchRound(before.book)
                 ELSE before
  IN  run[rounds].book

\* Faulty variant: the loop bound is one short.
FaultyMatchStep(b) == AfterRounds(b, FillsPerMatch - 1)

\* match_step
MatchStep(b) == AfterRounds(b, FillsPerMatch)

-----------------------------------------------------------------------------
(* The instructions.                                                       *)

Init ==
  /\ paused = FALSE
  /\ placed = <<>>
  /\ cancelled = {}
  /\ book = EmptyBook

\* place_order; the collateral check on the trader's account is the ledger's.
PlaceOrder(order) ==
  LET id == book.next_order_id
      inserted == InsertOrder(book.levels[order.side], order.side, id, order.price)
  IN  /\ ~paused
      /\ id <= MaxOrderId
      /\ inserted.ok
      /\ placed' = Append(placed, order)
      /\ book' = [book EXCEPT !.next_order_id = id + 1,
                              !.levels[order.side] = inserted.levels]
      /\ UNCHANGED <<paused, cancelled>>

\* cancel_order: the signer opens the commitment, which hashes in its key.
CancelOrder(trader, id, opening) ==
  /\ ~paused
  /\ \E s \in Side :
       /\ id \in Resting(book.levels[s])
       /\ book' = [book EXCEPT !.levels[s] = TombstoneOrder(@, id)]
  /\ trader = placed[id].trader
  /\ opening = placed[id].commitment
  /\ opening.leverage = placed[id].leverage
  /\ cancelled' = cancelled \union {id}
  /\ UNCHANGED <<paused, placed>>

\* match_orders, the permissionless crank on the rollup.
MatchOrders ==
  /\ ~paused
  /\ book.is_delegated = 1
  /\ book' = MatchStep(book)
  /\ UNCHANGED <<paused, placed, cancelled>>

\* crank_match, the admin's crank that skips the delegation check.
CrankMatch ==
  /\ ~paused
  /\ book' = MatchStep(book)
  /\ UNCHANGED <<paused, placed, cancelled>>

\* The book half of claim_fill: the slot is marked, fill_count is not touched.
ClaimFill(i) ==
  /\ ~paused
  /\ i \in Unclaimed(book)
  /\ placed[book.fills[i].taker].trader # placed[book.fills[i].maker].trader
  /\ book' = [book EXCEPT !.fills[i].claimed = TRUE]
  /\ UNCHANGED <<paused, placed, cancelled>>

\* set_market_paused
SetMarketPaused(p) ==
  /\ paused' = p
  /\ UNCHANGED <<placed, cancelled, book>>

\* commit_and_undelegate_book
CommitAndUndelegateBook ==
  /\ book' = [book EXCEPT !.is_delegated = 0]
  /\ UNCHANGED <<paused, placed, cancelled>>

\* No instruction sets is_delegated; the tests write the byte themselves.
BankrunMarkOrderBookDelegated ==
  /\ TestHarness
  /\ book' = [book EXCEPT !.is_delegated = 1]
  /\ UNCHANGED <<paused, placed, cancelled>>

Next ==
  \/ \E order \in Order : PlaceOrder(order)
  \/ \E trader \in Traders, id \in 1 .. MaxOrderId, opening \in Commitment :
       CancelOrder(trader, id, opening)
  \/ MatchOrders
  \/ CrankMatch
  \/ \E i \in Slots : ClaimFill(i)
  \/ \E p \in BOOLEAN : SetMarketPaused(p)
  \/ CommitAndUndelegateBook
  \/ BankrunMarkOrderBookDelegated

Spec == Init /\ [][Next]_vars

-----------------------------------------------------------------------------
(* Properties.                                                             *)

\* Type correctness of the account, with the bounds its counters must keep.
TypeOK ==
  /\ paused \in BOOLEAN
  /\ placed \in Seq(Order)
  /\ cancelled \subseteq DOMAIN placed
  /\ book.next_order_id = Len(placed) + 1
  /\ book.next_fill_id \in Nat \ {0}
  /\ book.levels \in [Side -> Seq(Level)]
  /\ book.fills \in [Slots -> Fill \union {NoFill}]
  /\ book.fill_count \in 0 .. MaxFills
  /\ book.fill_head \in Slots
  /\ book.is_delegated \in {0, 1}

LevelSorted(s, levels) ==
  \A i, j \in DOMAIN levels : i < j => Better(s, levels[i].price, levels[j].price)

LevelHolds(s, level) ==
  /\ Len(level.orders) \in 1 .. OrdersPerLevel
  /\ \A j \in DOMAIN level.orders :
       IsLive(level.orders[j]) =>
         /\ placed[level.orders[j]].side = s
         /\ placed[level.orders[j]].price = level.price

\* Binary search, insertion, compaction, popping and eviction keep each side
\* strictly sorted, within its array, without empty levels, and every order on
\* its own side at its own price (insert_order, pop_best, evict_top_level).
BookSorted ==
  \A s \in Side :
    LET levels == book.levels[s]
    IN  /\ Len(levels) <= MaxLevels
        /\ LevelSorted(s, levels)
        /\ \A i \in DOMAIN levels : LevelHolds(s, levels[i])

NewFills == {i \in Slots : book'.fills[i] # NoFill /\ book'.fills[i].fill_id >= book.next_fill_id}

\* Price priority: an order that trades leaves no better priced order of its
\* side behind, across all the rounds of one match_step.
PricePriority ==
  [][\A i \in NewFills :
       /\ \A id \in Resting(book'.levels["bid"]) :
            ~ Better("bid", placed[id].price, placed[book'.fills[i].taker].price)
       /\ \A id \in Resting(book'.levels["ask"]) :
            ~ Better("ask", placed[id].price, placed[book'.fills[i].maker].price)]_vars

\* The best levels hold orders of one trader on both sides.
SelfMatchAtTop(b) ==
  \E i \in LiveLevels(b.levels["bid"]), j \in LiveLevels(b.levels["ask"]) :
    /\ b.levels["bid"][i].price = BestPrice(b.levels["bid"])
    /\ b.levels["ask"][j].price = BestPrice(b.levels["ask"])
    /\ \E x \in DOMAIN b.levels["bid"][i].orders, y \in DOMAIN b.levels["ask"][j].orders :
         LET bid == b.levels["bid"][i].orders[x]
             ask == b.levels["ask"][j].orders[y]
         IN  IsLive(bid) /\ IsLive(ask) /\ placed[bid].trader = placed[ask].trader

\* A crank, whenever it comes, stops short of an uncrossed book only at one of
\* match_step's three limits: the fill ring, the batch size, or a self-match at the top.
MatchDrainsBook ==
  LET after == MatchStep(book)
  IN  \/ ~ Crossed(after)
      \/ after.fill_count = MaxFills
      \/ after.next_fill_id = book.next_fill_id + FillsPerMatch
      \/ SelfMatchAtTop(after)

\* i queues ahead of j on one level.
Ahead(levels, i, j) ==
  \E k \in DOMAIN levels : \E x, y \in DOMAIN levels[k].orders :
    x < y /\ levels[k].orders[x] = i /\ levels[k].orders[y] = j

\* The order crosses one of its own trader on the other side.
BlockedBySelf(id) ==
  \E other \in Resting(book.levels["bid"]) \union Resting(book.levels["ask"]) :
    /\ placed[other].trader = placed[id].trader
    /\ placed[other].side # placed[id].side
    /\ ~ Better(placed[id].side, placed[other].price, placed[id].price)

\* Time priority within a level: nobody trades while an order queued ahead of
\* it stays, and places in the queue are swapped only behind an order that ran
\* into its own trader.
QueueOrderKept ==
  [][\A s \in Side : \A i, j \in Resting(book.levels[s]) :
       Ahead(book.levels[s], i, j) =>
         /\ i \in Resting(book'.levels[s]) =>
              j \notin {book'.fills[k].taker : k \in NewFills} \union {book'.fills[k].maker : k \in NewFills}
         /\ Ahead(book'.levels[s], j, i) => BlockedBySelf(i)']_vars

\* The trade of a fill that waits for settlement, bid first.
Trades(b) == {<<b.fills[i].taker, b.fills[i].maker, b.fills[i].price>> : i \in Unclaimed(b)}

InBook == Resting(book.levels["bid"]) \union Resting(book.levels["ask"])

\* What is left when a claimed fill gives its slot to another.
SettledOrders ==
  {id \in DOMAIN placed :
     /\ id \notin InBook
     /\ id \notin cancelled
     /\ \A trade \in Trades(book) : id # trade[1] /\ id # trade[2]}

Lifecycle ==
  INSTANCE OrderLifecycle WITH orders <- placed, resting <- InBook,
                               matched <- Trades(book), settled <- SettledOrders

\* The book, with its levels, tombstones, queues and ring, implements the life
\* of an order: none is lost by the re-insertion after a self-match, trades
\* twice, after its cancel or beyond its limit, though the engine peeks at prices
\* and pops orders separately; and a fill stays in the ring until it is claimed.
ImplementsOrderLifecycle == Lifecycle!Spec

=============================================================================
