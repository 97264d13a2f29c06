--------------------------- MODULE OrderLifecycle ---------------------------
(***************************************************************************)
(* What the book promises about an order, without price levels, queues,    *)
(* tombstones or the fill ring: an order that was accepted rests until it  *)
(* is cancelled or matched, once, with one order of another trader whose   *)
(* limit it meets; a match waits, however long, until it is settled.       *)
(* OrderBook implements this (Lifecycle there).                            *)
(***************************************************************************)
EXTENDS Integers, Sequences

CONSTANT Order \* records with a trader, a side and a limit price

VARIABLES
  orders,     \* the accepted orders, by id
  resting,    \* ids that may still trade
  matched,    \* trades <<bid, ask, price>> of two ids that wait for settlement
  cancelled,  \* ids withdrawn by their traders
  settled     \* ids whose match was settled

vars == <<orders, resting, matched, cancelled, settled>>

Init ==
  /\ orders = <<>>
  /\ resting = {}
  /\ matched = {}
  /\ cancelled = {}
  /\ settled = {}

\* The two sides of a trade, and a price neither limit excludes.
CanTrade(trade) ==
  LET bid == orders[trade[1]]
      ask == orders[trade[2]]
  IN  /\ bid.side = "bid" /\ ask.side = "ask"
      /\ bid.trader # ask.trader
      /\ ask.price <= trade[3] /\ trade[3] <= bid.price

OrdersOf(trades) == UNION {{trade[1], trade[2]} : trade \in trades}

Place ==
  \E order \in Order :
    /\ orders' = Append(orders, order)
    /\ resting' = resting \union {Len(orders) + 1}
    /\ UNCHANGED <<matched, cancelled, settled>>

Cancel ==
  \E id \in resting :
    /\ resting' = resting \ {id}
    /\ cancelled' = cancelled \union {id}
    /\ UNCHANGED <<orders, matched, settled>>

\* A crank may make several trades at once, no order twice.
Match ==
  LET new == matched' \ matched
  IN  /\ matched \subseteq matched'
      /\ OrdersOf(new) \subseteq resting
      /\ \A trade, other \in new : OrdersOf({trade}) \intersect OrdersOf({other}) # {} => trade = other
      /\ \A trade \in new : CanTrade(trade)
      /\ resting' = resting \ OrdersOf(new)
      /\ UNCHANGED <<orders, cancelled, settled>>

Settle ==
  \E trade \in matched :
    /\ matched' = matched \ {trade}
    /\ settled' = settled \union OrdersOf({trade})
    /\ UNCHANGED <<orders, resting, cancelled>>

Next == Place \/ Cancel \/ Match \/ Settle

Spec == Init /\ [][Next]_vars
=============================================================================
