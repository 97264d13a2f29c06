------------------------ MODULE OrderLifecycleProofs ------------------------
(***************************************************************************)
(* What follows from the abstract life of an order alone, and so holds of  *)
(* every book that implements it (ImplementsOrderLifecycle in OrderBook).  *)
(***************************************************************************)
EXTENDS OrderLifecycle, TLAPS

\* An accepted order is at any time in exactly one place: the book, a trade
\* that waits, the settled or the cancelled ones.
EveryOrderAccountedFor ==
  /\ DOMAIN orders = resting \union OrdersOf(matched) \union settled \union cancelled
  /\ resting \intersect (OrdersOf(matched) \union settled \union cancelled) = {}
  /\ OrdersOf(matched) \intersect (settled \union cancelled) = {}
  /\ settled \intersect cancelled = {}

\* No order is in two trades, and each trade has a bid and an ask of different
\* traders, and a price neither limit excludes.
TradesAreSound ==
  /\ \A trade, other \in matched : OrdersOf({trade}) \intersect OrdersOf({other}) # {} => trade = other
  /\ \A trade \in matched : CanTrade(trade)

Inv == orders \in Seq(Order) /\ EveryOrderAccountedFor /\ TradesAreSound

LEMMA InitInv == Init => Inv
  BY DEF Init, Inv, EveryOrderAccountedFor, TradesAreSound, OrdersOf

LEMMA OrdersOfTrade == \A trade : OrdersOf({trade}) = {trade[1], trade[2]}
  BY DEF OrdersOf

LEMMA OrdersOfMember ==
  ASSUME NEW trades, NEW trade \in trades
  PROVE  trade[1] \in OrdersOf(trades) /\ trade[2] \in OrdersOf(trades)
  BY DEF OrdersOf

LEMMA OrdersOfUnion ==
  ASSUME NEW trades, NEW others
  PROVE  OrdersOf(trades \union others) = OrdersOf(trades) \union OrdersOf(others)
  BY DEF OrdersOf

\* Taking a trade out takes out its two orders, if no other has them.
LEMMA OrdersOfMinus ==
  ASSUME NEW trades, NEW trade \in trades,
         \A other \in trades : OrdersOf({trade}) \intersect OrdersOf({other}) # {} => trade = other
  PROVE  OrdersOf(trades \ {trade}) = OrdersOf(trades) \ {trade[1], trade[2]}
<1>1. ASSUME NEW id \in OrdersOf(trades), id \notin {trade[1], trade[2]}
      PROVE  id \in OrdersOf(trades \ {trade})
  BY <1>1 DEF OrdersOf
<1>2. ASSUME NEW id \in OrdersOf(trades \ {trade}) PROVE id \in OrdersOf(trades) /\ id \notin {trade[1], trade[2]}
  <2>1. PICK other \in trades \ {trade} : id \in {other[1], other[2]}
    BY <1>2 DEF OrdersOf
  <2>2. id \in OrdersOf(trades)
    BY <2>1, OrdersOfMember
  <2>3. OrdersOf({trade}) \intersect OrdersOf({other}) = {}
    BY <2>1
  <2>4. id \notin {trade[1], trade[2]}
    BY <2>1, <2>3, OrdersOfTrade, Zenon
  <2> QED BY <2>2, <2>4
<1> QED BY <1>1, <1>2

LEMMA NextInv == Inv /\ [Next]_vars => Inv'
<1> SUFFICES ASSUME Inv, [Next]_vars PROVE Inv'
  OBVIOUS
<1>0. orders \in Seq(Order) /\ DOMAIN orders = 1 .. Len(orders) /\ Len(orders) \in Nat
  BY DEF Inv
<1>1. CASE Place
  <2>1. PICK order \in Order : /\ orders' = Append(orders, order)
                               /\ resting' = resting \union {Len(orders) + 1}
                               /\ UNCHANGED <<matched, cancelled, settled>>
    BY <1>1 DEF Place
  <2>2. /\ orders' \in Seq(Order) /\ DOMAIN orders' = DOMAIN orders \union {Len(orders) + 1}
        /\ Len(orders) + 1 \notin DOMAIN orders
        /\ \A id \in DOMAIN orders : orders'[id] = orders[id]
    BY <1>0, <2>1
  <2>3. OrdersOf(matched') = OrdersOf(matched)
    BY <2>1
  <2>4. \A trade \in matched : trade[1] \in DOMAIN orders /\ trade[2] \in DOMAIN orders
    BY OrdersOfMember DEF Inv, EveryOrderAccountedFor
  <2>5. EveryOrderAccountedFor'
    <3>1. PICK n, waiting : n = Len(orders) + 1 /\ waiting = OrdersOf(matched)
      OBVIOUS
    <3>2. /\ DOMAIN orders' = DOMAIN orders \union {n} /\ n \notin DOMAIN orders
          /\ OrdersOf(matched') = waiting /\ resting' = resting \union {n}
          /\ cancelled' = cancelled /\ settled' = settled
      BY <2>1, <2>2, <2>3, <3>1
    <3>3. /\ DOMAIN orders = resting \union waiting \union settled \union cancelled
          /\ resting \intersect (waiting \union settled \union cancelled) = {}
          /\ waiting \intersect (settled \union cancelled) = {}
          /\ settled \intersect cancelled = {}
      BY <3>1 DEF Inv, EveryOrderAccountedFor
    <3> QED BY <3>2, <3>3 DEF EveryOrderAccountedFor
  <2>6. TradesAreSound'
    BY <2>1, <2>2, <2>4 DEF Inv, TradesAreSound, CanTrade, OrdersOf
  <2> QED BY <2>2, <2>5, <2>6 DEF Inv
<1>2. CASE Cancel
  <2>1. PICK id \in resting : /\ resting' = resting \ {id}
                              /\ cancelled' = cancelled \union {id}
                              /\ UNCHANGED <<orders, matched, settled>>
    BY <1>2 DEF Cancel
  <2>2. OrdersOf(matched') = OrdersOf(matched)
    BY <2>1
  <2>3. EveryOrderAccountedFor'
    BY <2>1, <2>2 DEF Inv, EveryOrderAccountedFor
  <2>4. TradesAreSound'
    BY <2>1 DEF Inv, TradesAreSound, CanTrade, OrdersOf
  <2> QED BY <2>1, <2>3, <2>4 DEF Inv
<1>3. CASE Match
  <2> DEFINE new == matched' \ matched
  <2>1. /\ matched \subseteq matched'
        /\ OrdersOf(new) \subseteq resting
        /\ \A trade, other \in new : OrdersOf({trade}) \intersect OrdersOf({other}) # {} => trade = other
        /\ \A trade \in new : CanTrade(trade)
        /\ resting' = resting \ OrdersOf(new)
        /\ UNCHANGED <<orders, cancelled, settled>>
    BY <1>3 DEF Match
  <2>2. OrdersOf(matched') = OrdersOf(matched) \union OrdersOf(new)
    <3>1. matched' = matched \union new
      BY <2>1
    <3> HIDE DEF new
    <3> QED BY <3>1, OrdersOfUnion
  <2> HIDE DEF new
  <2>3. EveryOrderAccountedFor'
    BY <2>1, <2>2 DEF Inv, EveryOrderAccountedFor
  <2>4. \A trade \in matched', other \in matched' :
           OrdersOf({trade}) \intersect OrdersOf({other}) # {} => trade = other
    <3>1. \A trade \in matched, other \in new : OrdersOf({trade}) \intersect OrdersOf({other}) = {}
      <4> TAKE trade \in matched, other \in new
      <4>1. OrdersOf({trade}) \subseteq OrdersOf(matched) /\ OrdersOf({other}) \subseteq OrdersOf(new)
        BY DEF OrdersOf
      <4>2. OrdersOf(matched) \intersect resting = {}
        BY DEF Inv, EveryOrderAccountedFor
      <4> QED BY <2>1, <4>1, <4>2
    <3>2. \A trade \in matched' : trade \in matched \/ trade \in new
      BY DEF new
    <3> QED BY <2>1, <3>1, <3>2 DEF Inv, TradesAreSound
  <2>5. \A trade \in matched' : CanTrade(trade)'
    BY <2>1 DEF Inv, TradesAreSound, CanTrade, new
  <2>6. TradesAreSound'
    BY <2>4, <2>5 DEF TradesAreSound, OrdersOf
  <2> QED BY <2>1, <2>3, <2>6 DEF Inv
<1>4. CASE Settle
  <2>1. PICK trade \in matched : /\ matched' = matched \ {trade}
                                 /\ settled' = settled \union {trade[1], trade[2]}
                                 /\ UNCHANGED <<orders, resting, cancelled>>
    BY <1>4, OrdersOfTrade DEF Settle
  <2>2. OrdersOf(matched') = OrdersOf(matched) \ {trade[1], trade[2]}
    BY <2>1, OrdersOfMinus DEF Inv, TradesAreSound
  <2>3. {trade[1], trade[2]} \subseteq OrdersOf(matched)
    BY OrdersOfMember
  <2>4. EveryOrderAccountedFor'
    <3>1. PICK waiting, gone : waiting = OrdersOf(matched) /\ gone = {trade[1], trade[2]}
      OBVIOUS
    <3>2. /\ OrdersOf(matched') = waiting \ gone /\ gone \subseteq waiting
          /\ settled' = settled \union gone
          /\ orders' = orders /\ resting' = resting /\ cancelled' = cancelled
      BY <2>1, <2>2, <2>3, <3>1
    <3>3. /\ DOMAIN orders = resting \union waiting \union settled \union cancelled
          /\ resting \intersect (waiting \union settled \union cancelled) = {}
          /\ waiting \intersect (settled \union cancelled) = {}
          /\ settled \intersect cancelled = {}
      BY <3>1 DEF Inv, EveryOrderAccountedFor
    <3> QED BY <3>2, <3>3 DEF EveryOrderAccountedFor
  <2>5. \A t \in matched', u \in matched' :
           OrdersOf({t}) \intersect OrdersOf({u}) # {} => t = u
    BY <2>1 DEF Inv, TradesAreSound
  <2>6. \A t \in matched' : CanTrade(t)'
    BY <2>1 DEF Inv, TradesAreSound, CanTrade
  <2>7. TradesAreSound'
    BY <2>5, <2>6 DEF TradesAreSound, OrdersOf
  <2> QED BY <2>1, <2>4, <2>7 DEF Inv
<1>5. CASE UNCHANGED vars
  BY <1>5 DEF vars, Inv, EveryOrderAccountedFor, TradesAreSound, CanTrade, OrdersOf
<1> QED BY <1>1, <1>2, <1>3, <1>4, <1>5 DEF Next

\* None of the book's operations loses or doubles an order, whatever it does with
\* levels, tombstones and the ring: it is enough that it implements this module.
THEOREM LifecycleTheorem == Spec => [](EveryOrderAccountedFor /\ TradesAreSound)
<1>1. Inv => EveryOrderAccountedFor /\ TradesAreSound
  BY DEF Inv
<1> QED BY <1>1, InitInv, NextInv, PTL DEF Spec
=============================================================================
