--------------------------- MODULE ClearingProofs ---------------------------
(***************************************************************************)
(* The clearing house, for every number of users, every set of prices,     *)
(* sizes, leverages and amounts, and without the bounds being small; and   *)
(* the keepers that call it.  The first half is about Clearing alone: its  *)
(* arithmetic, the inductive invariant of its books, what its steps may    *)
(* do.  The second shows that the keepers take no other steps.             *)
(***************************************************************************)
EXTENDS Keepers, SumsProofs, FiniteSetTheorems

-----------------------------------------------------------------------------
(* The arithmetic stays in its types.                                      *)

LEMMA DivNat ==
  ASSUME NEW a \in Nat, NEW b \in Nat \ {0}
  PROVE  a \div b \in Nat
OBVIOUS

LEMMA TruncDivType ==
  ASSUME NEW a \in Int, NEW b \in Nat \ {0}
  PROVE  TruncDiv(a, b) \in Int
<1>1. CASE a >= 0
  BY <1>1, DivNat DEF TruncDiv
<1>2. CASE a < 0
  <2>1. -a \in Nat
    BY <1>2
  <2>2. (-a) \div b \in Nat
    BY <2>1, DivNat
  <2> QED
    BY <1>2, <2>2 DEF TruncDiv
<1> QED
  BY <1>1, <1>2

LEMMA ProductNat ==
  ASSUME NEW a \in Nat, NEW b \in Nat
  PROVE  a * b \in Nat
OBVIOUS

LEMMA ProductInt ==
  ASSUME NEW a \in Int, NEW b \in Int
  PROVE  a * b \in Int
OBVIOUS

LEMMA ComputeCollateralType ==
  ASSUME NEW size \in Nat, NEW price \in Nat, NEW leverage \in Nat \ {0}
  PROVE  ComputeCollateral(size, price, leverage) \in Nat
<1>1. size * price * 100 \in Nat
  BY ProductNat
<1> QED
  BY <1>1, DivNat DEF ComputeCollateral

LEMMA FundingDeltaType ==
  ASSUME NEW size \in Nat, NEW entry \in Nat, NEW c \in Int, NEW last \in Int
  PROVE  FundingDelta(size, entry, c, last) \in Int
<1>1. (c - last) * size \in Int
  BY ProductInt
<1>2. (c - last) * size * entry \in Int
  BY <1>1, ProductInt
<1> QED
  BY <1>2, TruncDivType DEF FundingDelta

LEMMA FundingRateType ==
  ASSUME NEW long \in Nat, NEW short \in Nat
  PROVE  FundingRateBps(long, short) \in Int
<1>1. CASE long + short = 0
  BY <1>1 DEF FundingRateBps
<1>2. CASE long + short # 0
  <2>1. (long - short) * 2000 \in Int /\ long + short \in Nat \ {0}
    BY <1>2
  <2> QED
    BY <1>2, <2>1, TruncDivType DEF FundingRateBps, MaxFundingBpsPerInterval
<1> QED
  BY <1>1, <1>2

LEMMA PnlType ==
  ASSUME NEW side \in PositionSide, NEW size \in Nat, NEW entry \in Nat, NEW mark \in Nat
  PROVE  ComputePnl(side, size, entry, mark) \in Int
BY ProductInt DEF ComputePnl

\* The bounty is a part of what remains.
LEMMA BountyBound ==
  ASSUME NEW r \in Nat
  PROVE  Bounty(r) \in Nat /\ Bounty(r) <= r
BY DEF Bounty, LiquidationBountyBps

LEMMA RemainingType ==
  ASSUME NEW c \in Int, NEW pnl \in Int
  PROVE  CollateralAfterPnl(c, pnl) \in Nat
BY DEF CollateralAfterPnl

-----------------------------------------------------------------------------
(* Type correctness.                                                       *)

LEMMA PositionType ==
  ASSUME TypeOK, NEW p \in DOMAIN positions
  PROVE  /\ positions[p] \in Position
         /\ PendingFunding(p) \in Int
         /\ Margin(p) \in Int
         /\ \A mark \in Nat : Pnl(p, mark) \in Int
<1>1. positions[p] \in Position
  BY DEF TypeOK
<1>2. cum[positions[p].side] \in Int
  BY <1>1 DEF TypeOK, Position
<1>3. PendingFunding(p) \in Int
  BY <1>1, <1>2, FundingDeltaType DEF PendingFunding, Position
<1>4. Margin(p) \in Int
  BY <1>1, <1>3 DEF Margin, Position
<1>5. \A mark \in Nat : Pnl(p, mark) \in Int
  BY <1>1, PnlType DEF Pnl, Position
<1> QED
  BY <1>1, <1>3, <1>4, <1>5

LEMMA NewPositionType ==
  ASSUME TypeOK, NEW u \in Users, NEW side \in PositionSide, NEW size \in Nat,
         NEW price \in Nat, NEW leverage \in Nat \ {0}
  PROVE  NewPosition(u, side, size, price, leverage) \in Position
BY ComputeCollateralType DEF NewPosition, Position, TypeOK

\* Amounts a liquidation moves.
LEMMA LiquidationAmounts ==
  ASSUME TypeOK, NEW p \in DOMAIN positions, NEW mark \in Nat, CanApplyFunding(p)
  PROVE  /\ Margin(p) \in Nat
         /\ Bounty(Remaining(p, mark)) \in Nat
         /\ NetLoss(p, mark) \in Nat
         /\ RealizedLossFromPnl(Margin(p), Pnl(p, mark)) \in Nat
<1>1. /\ positions[p].collateral \in Nat
      /\ PendingFunding(p) \in Int
      /\ Pnl(p, mark) \in Int
  BY PositionType DEF Position
<1>2. Margin(p) \in Nat
  BY <1>1 DEF Margin, CanApplyFunding
<1>3. Remaining(p, mark) \in Nat
  BY <1>1, <1>2, RemainingType DEF Remaining
<1>4. /\ Bounty(Remaining(p, mark)) \in Nat
      /\ Bounty(Remaining(p, mark)) <= Remaining(p, mark)
  BY <1>3, BountyBound
<1>5. NetLoss(p, mark) \in Nat
  BY <1>2, <1>3, <1>4 DEF NetLoss, Lesser
<1>6. RealizedLossFromPnl(Margin(p), Pnl(p, mark)) \in Nat
  BY <1>1, <1>2 DEF RealizedLossFromPnl, Lesser
<1> QED
  BY <1>2, <1>4, <1>5, <1>6

\* Replacing a position, or an account's balance, keeps the type.
LEMMA PositionReplaced ==
  ASSUME positions \in Seq(Position), NEW p \in DOMAIN positions, NEW q \in Position
  PROVE  [positions EXCEPT ![p] = q] \in Seq(Position)
OBVIOUS

LEMMA BalanceReplaced ==
  ASSUME NEW S, NEW f \in [S -> Nat], NEW u \in S, NEW v \in Nat
  PROVE  [f EXCEPT ![u] = v] \in [S -> Nat]
OBVIOUS

LEMMA PositionChanged ==
  ASSUME NEW q \in Position, NEW c \in Nat, NEW i \in Int,
         NEW st \in {"Open", "Closed", "Liquidated"}
  PROVE  [q EXCEPT !.status = st, !.collateral = c, !.last_funding_index = i] \in Position
BY DEF Position

\* The record an instruction leaves in place of the position it works on.
LEMMA AccruedPosition ==
  ASSUME TypeOK, NEW p \in DOMAIN positions, AccrueFunding(p)
  PROVE  \E q \in Position :
           /\ positions' = [positions EXCEPT ![p] = q]
           /\ q.owner = positions[p].owner /\ q.side = positions[p].side
           /\ q.size = positions[p].size /\ q.entry = positions[p].entry /\ q.leverage = positions[p].leverage
           /\ q.status = positions[p].status
           /\ q.collateral = positions[p].collateral - PendingFunding(p)
<1> DEFINE delta == PendingFunding(p)
<1>1. positions[p] \in Position /\ delta \in Int
  BY PositionType
<1>2. /\ delta > 0 => delta <= positions[p].collateral
      /\ positions' = [positions EXCEPT ![p].collateral = @ - delta,
                                        ![p].last_funding_index = cum[positions[p].side]]
  BY <1>1 DEF AccrueFunding, CanApplyFunding
<1> HIDE DEF delta
<1>3. PICK old \in Nat : old = positions[p].collateral
  BY <1>1 DEF Position
<1>4. PICK c \in Nat : c = old - delta
  BY <1>1, <1>2, <1>3
<1>5. PICK i \in Int : i = cum[positions[p].side]
  BY <1>1 DEF TypeOK, Position
<1>6. PICK st \in {"Open", "Closed", "Liquidated"} : st = positions[p].status
  BY <1>1 DEF Position
<1> DEFINE q == [positions[p] EXCEPT !.status = st, !.collateral = c, !.last_funding_index = i]
<1>7. q \in Position
  BY <1>1, PositionChanged
<1>8. positions' = [positions EXCEPT ![p] = q]
  BY <1>1, <1>2, <1>3, <1>4, <1>5, <1>6 DEF TypeOK, Position
<1>9. /\ q.owner = positions[p].owner /\ q.side = positions[p].side
      /\ q.size = positions[p].size /\ q.entry = positions[p].entry /\ q.leverage = positions[p].leverage
      /\ q.status = positions[p].status
      /\ q.collateral = positions[p].collateral - delta
  BY <1>1, <1>3, <1>4, <1>6 DEF Position
<1> HIDE DEF q
<1> QED
  BY <1>7, <1>8, <1>9 DEF delta

LEMMA LiquidatedPosition ==
  ASSUME TypeOK, NEW liquidator, NEW p \in DOMAIN positions, NEW mark, Liquidate(liquidator, p, mark)
  PROVE  \E q \in Position :
           /\ positions' = [positions EXCEPT ![p] = q]
           /\ q.owner = positions[p].owner /\ q.side = positions[p].side
           /\ q.size = positions[p].size /\ q.entry = positions[p].entry /\ q.leverage = positions[p].leverage
           /\ q.status = "Liquidated" /\ q.collateral = 0
<1>1. positions[p] \in Position
  BY PositionType
<1>2. PICK i \in Int : i = cum[positions[p].side]
  BY <1>1 DEF TypeOK, Position
<1>3. positions' = [positions EXCEPT ![p].status = "Liquidated", ![p].collateral = 0,
                                     ![p].last_funding_index = cum[positions[p].side]]
  BY DEF Liquidate
<1> DEFINE q == [positions[p] EXCEPT !.status = "Liquidated", !.collateral = 0, !.last_funding_index = i]
<1>4. q \in Position
  BY <1>1, PositionChanged
<1>5. positions' = [positions EXCEPT ![p] = q]
  BY <1>1, <1>2, <1>3 DEF TypeOK, Position
<1>6. /\ q.owner = positions[p].owner /\ q.side = positions[p].side
      /\ q.size = positions[p].size /\ q.entry = positions[p].entry /\ q.leverage = positions[p].leverage
      /\ q.status = "Liquidated" /\ q.collateral = 0
  BY <1>1 DEF Position
<1> HIDE DEF q
<1> QED
  BY <1>4, <1>5, <1>6

LEMMA ClosedPosition ==
  ASSUME TypeOK, NEW p \in DOMAIN positions, NEW mark, NEW payout, ClosePosition(p, mark, payout)
  PROVE  \E q \in Position :
           /\ positions' = [positions EXCEPT ![p] = q]
           /\ q.owner = positions[p].owner /\ q.side = positions[p].side
           /\ q.size = positions[p].size /\ q.entry = positions[p].entry /\ q.leverage = positions[p].leverage
           /\ q.status = "Closed" /\ q.collateral = 0
<1>1. positions[p] \in Position
  BY PositionType
<1>2. PICK i \in Int : i = positions[p].last_funding_index
  BY <1>1 DEF Position
<1>3. positions' = [positions EXCEPT ![p].status = "Closed", ![p].collateral = 0]
  BY DEF ClosePosition
<1> DEFINE q == [positions[p] EXCEPT !.status = "Closed", !.collateral = 0, !.last_funding_index = i]
<1>4. q \in Position
  BY <1>1, PositionChanged
<1>5. positions' = [positions EXCEPT ![p] = q]
  BY <1>1, <1>2, <1>3 DEF TypeOK, Position
<1>6. /\ q.owner = positions[p].owner /\ q.side = positions[p].side
      /\ q.size = positions[p].size /\ q.entry = positions[p].entry /\ q.leverage = positions[p].leverage
      /\ q.status = "Closed" /\ q.collateral = 0
  BY <1>1 DEF Position
<1> HIDE DEF q
<1> QED
  BY <1>4, <1>5, <1>6

LEMMA InitType == ASSUME Init PROVE TypeOK
<1>1. paused \in BOOLEAN
  BY DEF Init
<1>2. positions \in Seq(Position)
  BY DEF Init
<1>3. /\ deposited \in [Users -> Nat] /\ locked \in [Users -> Nat]
      /\ vault \in Nat /\ pool \in Nat /\ unbacked \in Nat
      /\ oi \in [PositionSide -> Nat] /\ cum \in [PositionSide -> Int]
  BY DEF Init
<1> QED
  BY <1>1, <1>2, <1>3 DEF TypeOK

LEMMA NextType ==
  ASSUME TypeOK, [Next]_vars
  PROVE  TypeOK'
<1> USE ClearingAssumption DEF ClearingAssumption
<1>1. ASSUME NEW u \in Users, NEW amount \in Amounts, Deposit(u, amount)
      PROVE  TypeOK'
  BY <1>1 DEF Deposit, TypeOK
<1>2. ASSUME NEW u \in Users, NEW amount \in Amounts, Withdraw(u, amount)
      PROVE  TypeOK'
  BY <1>2 DEF Withdraw, TypeOK, Unlocked
<1>3. ASSUME NEW taker \in Users, NEW maker \in Users, NEW price \in FillPrices,
             NEW size \in Sizes, NEW tl \in Leverages, NEW ml \in Leverages,
             ClaimFill(taker, maker, price, size, tl, ml)
      PROVE  TypeOK'
  <2> DEFINE long == NewPosition(taker, "Long", size, price, tl)
  <2> DEFINE short == NewPosition(maker, "Short", size, price, ml)
  <2>1. long \in Position /\ short \in Position
    BY NewPositionType DEF PositionSide
  <2>2. long.collateral \in Nat /\ short.collateral \in Nat
    BY <2>1 DEF Position
  <2>3. positions' = Append(Append(positions, long), short)
    BY <1>3 DEF ClaimFill
  <2>4. locked' = [locked EXCEPT ![taker] = @ + long.collateral, ![maker] = @ + short.collateral]
    BY <1>3 DEF ClaimFill
  <2>5. oi' = [s \in PositionSide |-> oi[s] + size]
    BY <1>3 DEF ClaimFill
  <2>6. UNCHANGED <<paused, deposited, vault, cum, pool, unbacked>> /\ size \in Nat
    BY <1>3 DEF ClaimFill
  <2> HIDE DEF long, short
  <2>7. positions' \in Seq(Position)
    BY <2>1, <2>3 DEF TypeOK
  <2>8. locked' \in [Users -> Nat]
    <3>1. PICK lc \in Nat, sc \in Nat : lc = long.collateral /\ sc = short.collateral
      BY <2>2
    <3>2. locked' = [locked EXCEPT ![taker] = @ + lc, ![maker] = @ + sc]
      BY <2>4, <3>1
    <3>3. locked \in [Users -> Nat]
      BY DEF TypeOK
    <3> QED
      BY <3>1, <3>2, <3>3
  <2>9. oi' \in [PositionSide -> Nat]
    BY <2>5, <2>6 DEF TypeOK
  <2> QED
    BY <2>6, <2>7, <2>8, <2>9 DEF TypeOK
<1>4. ASSUME NEW n \in Intervals, UpdateFunding(n)
      PROVE  TypeOK'
  <2>1. FundingRateBps(oi["Long"], oi["Short"]) \in Int
    BY FundingRateType DEF TypeOK, PositionSide
  <2>2. FundingRateBps(oi["Long"], oi["Short"]) * n \in Int
    BY <2>1, ProductInt
  <2> QED
    BY <1>4, <2>2 DEF UpdateFunding, TypeOK, PositionSide
<1>5. ASSUME NEW p \in DOMAIN positions, AccrueFunding(p)
      PROVE  TypeOK'
  <2> DEFINE delta == PendingFunding(p)
  <2> DEFINE u == positions[p].owner
  <2>1. positions[p] \in Position /\ delta \in Int /\ u \in Users
    BY PositionType DEF Position
  <2>2. /\ delta > 0 => delta <= positions[p].collateral /\ delta <= locked[u] /\ delta <= deposited[u]
        /\ delta <= 0 => -delta <= pool
    BY <1>5, <2>1 DEF AccrueFunding, CanApplyFunding
  <2>3. /\ positions' = [positions EXCEPT ![p].collateral = @ - delta,
                                          ![p].last_funding_index = cum[positions[p].side]]
        /\ locked' = [locked EXCEPT ![u] = @ - delta]
        /\ deposited' = [deposited EXCEPT ![u] = @ - delta]
        /\ pool' = pool + delta
        /\ UNCHANGED <<paused, vault, oi, cum, unbacked>>
    BY <1>5 DEF AccrueFunding
  <2> HIDE DEF delta, u
  <2>4. positions' \in Seq(Position)
    <3>1. PICK q \in Position : positions' = [positions EXCEPT ![p] = q]
      BY <1>5, AccruedPosition
    <3>2. positions \in Seq(Position)
      BY DEF TypeOK
    <3> QED
      BY <3>1, <3>2, PositionReplaced
  <2>5. locked' \in [Users -> Nat] /\ deposited' \in [Users -> Nat] /\ pool' \in Nat
    <3>1. locked \in [Users -> Nat] /\ deposited \in [Users -> Nat] /\ pool \in Nat
      BY DEF TypeOK
    <3>2. PICK l \in Nat : l = locked[u] - delta
      BY <2>1, <2>2, <3>1
    <3>3. PICK d \in Nat : d = deposited[u] - delta
      BY <2>1, <2>2, <3>1
    <3>4. locked' = [locked EXCEPT ![u] = l] /\ deposited' = [deposited EXCEPT ![u] = d]
      BY <2>3, <3>2, <3>3
    <3>5. pool' \in Nat
      BY <2>1, <2>2, <2>3, <3>1
    <3> QED
      BY <2>1, <3>1, <3>4, <3>5, BalanceReplaced
  <2> QED
    BY <2>3, <2>4, <2>5 DEF TypeOK
<1>6. ASSUME NEW liquidator \in Users, NEW p \in DOMAIN positions, NEW mark \in Marks,
             Liquidate(liquidator, p, mark)
      PROVE  TypeOK'
  <2> DEFINE delta == PendingFunding(p)
  <2> DEFINE u == positions[p].owner
  <2> DEFINE s == positions[p].side
  <2> DEFINE bounty == Bounty(Remaining(p, mark))
  <2> DEFINE loss == RealizedLossFromPnl(Margin(p), Pnl(p, mark))
  <2>1. /\ positions[p] \in Position /\ delta \in Int /\ u \in Users /\ s \in PositionSide
    BY PositionType DEF Position
  <2>2. CanSettleLiquidation(p, mark) /\ CanApplyFunding(p) /\ mark \in Nat
    <3>1. CanSettleLiquidation(p, mark)
      BY <1>6, Zenon DEF Liquidate
    <3>2. CanApplyFunding(p)
      BY <3>1, Zenon DEF CanSettleLiquidation
    <3> QED BY <1>6, <3>1, <3>2, ClearingAssumption
  <2>3. Margin(p) \in Nat /\ bounty \in Nat /\ NetLoss(p, mark) \in Nat /\ loss \in Nat
    BY <2>2, LiquidationAmounts
  <2>4. /\ bounty <= vault /\ positions[p].size <= oi[s]
        /\ Margin(p) <= locked[u] - delta /\ NetLoss(p, mark) <= deposited[u] - delta
    BY <2>2 DEF CanSettleLiquidation
  <2>5. pool + delta \in Nat
    BY <2>1, <2>2 DEF CanApplyFunding, TypeOK
  <2>6. /\ vault' = vault - bounty
        /\ oi' = [oi EXCEPT ![s] = @ - positions[p].size]
        /\ locked' = [locked EXCEPT ![u] = @ - delta - Margin(p)]
        /\ deposited' = [deposited EXCEPT ![u] = @ - delta - NetLoss(p, mark)]
        /\ pool' = pool + delta + loss
        /\ positions' = [positions EXCEPT ![p].status = "Liquidated", ![p].collateral = 0,
                                          ![p].last_funding_index = cum[s]]
        /\ unbacked' = IF Margin(p) = 0 THEN unbacked + bounty ELSE unbacked
        /\ UNCHANGED <<paused, cum>>
    BY <1>6 DEF Liquidate
  <2> HIDE DEF delta, u, s, bounty, loss
  <2>7. positions' \in Seq(Position)
    <3>1. PICK q \in Position : positions' = [positions EXCEPT ![p] = q]
      BY <1>6, LiquidatedPosition
    <3>2. positions \in Seq(Position)
      BY DEF TypeOK
    <3> QED
      BY <3>1, <3>2, PositionReplaced
  <2>8. locked' \in [Users -> Nat] /\ deposited' \in [Users -> Nat]
    <3>1. locked \in [Users -> Nat] /\ deposited \in [Users -> Nat]
      BY DEF TypeOK
    <3>2. PICK l \in Nat : l = locked[u] - delta - Margin(p)
      BY <2>1, <2>3, <2>4, <3>1
    <3>3. PICK d \in Nat : d = deposited[u] - delta - NetLoss(p, mark)
      BY <2>1, <2>3, <2>4, <3>1
    <3>4. locked' = [locked EXCEPT ![u] = l] /\ deposited' = [deposited EXCEPT ![u] = d]
      BY <2>6, <3>2, <3>3
    <3> QED
      BY <2>1, <3>1, <3>4, BalanceReplaced
  <2>9. oi' \in [PositionSide -> Nat]
    <3>1. oi \in [PositionSide -> Nat] /\ oi[s] \in Nat
      BY <2>1 DEF TypeOK
    <3>2. PICK z \in Nat : z = positions[p].size
      BY <2>1 DEF Position
    <3>3. PICK o \in Nat : o = oi[s] - z
      BY <2>4, <3>1, <3>2
    <3>4. oi' = [oi EXCEPT ![s] = o]
      BY <2>6, <3>2, <3>3
    <3> QED
      BY <3>1, <3>4
  <2>10. vault' \in Nat /\ pool' \in Nat /\ unbacked' \in Nat
    <3>1. vault \in Nat /\ unbacked \in Nat
      BY DEF TypeOK
    <3> QED
      BY <2>3, <2>4, <2>5, <2>6, <3>1
  <2> QED
    BY <2>6, <2>7, <2>8, <2>9, <2>10 DEF TypeOK
<1>7. ASSUME NEW p \in DOMAIN positions, NEW mark \in Marks, NEW payout \in {0} \union Amounts,
             ClosePosition(p, mark, payout)
      PROVE  TypeOK'
  <2> DEFINE u == positions[p].owner
  <2> DEFINE s == positions[p].side
  <2> DEFINE pnl == Pnl(p, mark)
  <2>1. positions[p] \in Position /\ pnl \in Int /\ u \in Users /\ s \in PositionSide /\ payout \in Nat
    BY PositionType DEF Position
  <2>2. /\ positions[p].size <= oi[s] /\ positions[p].collateral <= locked[u] /\ pnl <= pool
        /\ deposited[u] + pnl >= 0
        /\ payout > 0 => payout <= Unlocked(deposited[u] + pnl, locked[u] - positions[p].collateral)
        /\ payout <= vault
    BY <1>7 DEF ClosePosition
  <2>3. /\ oi' = [oi EXCEPT ![s] = @ - positions[p].size]
        /\ locked' = [locked EXCEPT ![u] = @ - positions[p].collateral]
        /\ pool' = pool - pnl
        /\ vault' = vault - payout
        /\ positions' = [positions EXCEPT ![p].status = "Closed", ![p].collateral = 0]
        /\ UNCHANGED <<paused, cum, unbacked>>
    BY <1>7 DEF ClosePosition
  <2>8. deposited' = [deposited EXCEPT ![u] = @ + pnl - payout]
    BY <1>7 DEF ClosePosition
  <2> HIDE DEF u, s, pnl
  <2>4. positions' \in Seq(Position)
    <3>1. PICK q \in Position : positions' = [positions EXCEPT ![p] = q]
      BY <1>7, ClosedPosition
    <3>2. positions \in Seq(Position)
      BY DEF TypeOK
    <3> QED
      BY <3>1, <3>2, PositionReplaced
  <2>5. locked' \in [Users -> Nat] /\ oi' \in [PositionSide -> Nat]
    <3>1. locked \in [Users -> Nat] /\ oi \in [PositionSide -> Nat]
      BY DEF TypeOK
    <3>2. PICK c \in Nat : c = positions[p].collateral
      BY <2>1 DEF Position
    <3>3. PICK size \in Nat : size = positions[p].size
      BY <2>1 DEF Position
    <3>4. PICK l \in Nat : l = locked[u] - c
      BY <2>1, <2>2, <3>1, <3>2
    <3>5. PICK o \in Nat : o = oi[s] - size
      BY <2>1, <2>2, <3>1, <3>3
    <3>6. locked' = [locked EXCEPT ![u] = l] /\ oi' = [oi EXCEPT ![s] = o]
      BY <2>3, <3>2, <3>3, <3>4, <3>5
    <3> QED
      BY <2>1, <3>1, <3>6, BalanceReplaced
  <2>6. deposited[u] + pnl - payout \in Nat
    <3>1. PICK d \in Nat, l \in Nat, c \in Nat :
            d = deposited[u] /\ l = locked[u] /\ c = positions[p].collateral
      BY <2>1 DEF TypeOK, Position
    <3>2. payout > 0 => payout <= Unlocked(d + pnl, l - c)
      BY <2>2, <3>1
    <3>3. c <= l /\ d + pnl >= 0
      BY <2>2, <3>1
    <3>4. d + pnl - payout \in Nat
      BY <2>1, <3>2, <3>3 DEF Unlocked
    <3> QED
      BY <3>1, <3>4
  <2>7. deposited' \in [Users -> Nat] /\ vault' \in Nat /\ pool' \in Nat
    <3>1. PICK d \in Nat : d = deposited[u] + pnl - payout
      BY <2>6
    <3>2. deposited' = [deposited EXCEPT ![u] = d]
      BY <2>8, <3>1
    <3>3. deposited \in [Users -> Nat] /\ vault \in Nat /\ pool \in Nat
      BY DEF TypeOK
    <3>4. vault' \in Nat /\ pool' \in Nat
      BY <2>1, <2>2, <2>3, <3>3
    <3> QED
      BY <2>1, <3>2, <3>3, <3>4, BalanceReplaced
  <2> QED
    BY <2>3, <2>4, <2>5, <2>7 DEF TypeOK
<1>8. ASSUME NEW b \in BOOLEAN, SetMarketPaused(b)
      PROVE  TypeOK'
  BY <1>8 DEF SetMarketPaused, TypeOK
<1>9. CASE UNCHANGED vars
  BY <1>9 DEF vars, TypeOK
<1> QED
  BY <1>1, <1>2, <1>3, <1>4, <1>5, <1>6, <1>7, <1>8, <1>9 DEF Next

-----------------------------------------------------------------------------
(* The books agree with the positions.                                     *)

LEMMA SumToAppendTwo ==
  ASSUME NEW f, NEW g, NEW n \in Nat, \A i \in 1 .. n : f[i] = g[i]
  PROVE  SumTo(g, n + 2) = (SumTo(f, n) + g[n + 1]) + g[n + 2]
<1>1. SumTo(g, n) = SumTo(f, n)
  BY SumToSame
<1>2. SumTo(g, n + 1) = SumTo(g, n) + g[n + 1]
  BY SumToNext
<1>3. SumTo(g, (n + 1) + 1) = SumTo(g, n + 1) + g[(n + 1) + 1]
  BY SumToNext
<1>4. (n + 1) + 1 = n + 2
  OBVIOUS
<1> QED
  BY <1>1, <1>2, <1>3, <1>4

LEMMA MarginOfType ==
  ASSUME positions \in Seq(Position), NEW u
  PROVE  \A p \in DOMAIN positions : MarginOf(u)[p] \in Nat
<1> SUFFICES ASSUME NEW p \in DOMAIN positions PROVE MarginOf(u)[p] \in Nat
  OBVIOUS
<1>1. positions[p] \in Position
  OBVIOUS
<1>2. positions[p].collateral \in Nat
  BY <1>1 DEF Position
<1> QED
  BY <1>2 DEF MarginOf

LEMMA OpenSizeOnType ==
  ASSUME positions \in Seq(Position), NEW s
  PROVE  \A p \in DOMAIN positions : OpenSizeOn(s)[p] \in Nat
<1> SUFFICES ASSUME NEW p \in DOMAIN positions PROVE OpenSizeOn(s)[p] \in Nat
  OBVIOUS
<1>1. positions[p] \in Position
  OBVIOUS
<1>2. positions[p].size \in Nat
  BY <1>1 DEF Position
<1> QED
  BY <1>2 DEF OpenSizeOn

\* Two new positions raise the margin of their owners by their collateral.
LEMMA MarginAppended ==
  ASSUME positions \in Seq(Position), NEW a \in Position, NEW b \in Position,
         positions' = Append(Append(positions, a), b), NEW u
  PROVE  SumTo(MarginOf(u)', Len(positions')) =
           (SumTo(MarginOf(u), Len(positions)) + (IF a.owner = u THEN a.collateral ELSE 0))
             + (IF b.owner = u THEN b.collateral ELSE 0)
<1> DEFINE n == Len(positions)
<1> DEFINE g == MarginOf(u)'
<1>1. /\ n \in Nat /\ Len(positions') = n + 2 /\ DOMAIN positions' = 1 .. n + 2
      /\ DOMAIN positions = 1 .. n
  OBVIOUS
<1>2. /\ \A i \in 1 .. n : positions'[i] = positions[i]
      /\ positions'[n + 1] = a /\ positions'[n + 2] = b
  OBVIOUS
<1> HIDE DEF n
<1>3. \A i \in 1 .. n : MarginOf(u)[i] = g[i]
  BY <1>1, <1>2 DEF MarginOf
<1>4. g[n + 1] = IF a.owner = u THEN a.collateral ELSE 0
  BY <1>1, <1>2 DEF MarginOf
<1>5. g[n + 2] = IF b.owner = u THEN b.collateral ELSE 0
  BY <1>1, <1>2 DEF MarginOf
<1> HIDE DEF g
<1>6. SumTo(g, n + 2) = (SumTo(MarginOf(u), n) + g[n + 1]) + g[n + 2]
  BY <1>1, <1>3, SumToAppendTwo
<1> QED
  BY <1>1, <1>4, <1>5, <1>6 DEF g, n

LEMMA OpenSizeAppended ==
  ASSUME positions \in Seq(Position), NEW a \in Position, NEW b \in Position,
         positions' = Append(Append(positions, a), b), NEW s,
         a.status = "Open", b.status = "Open"
  PROVE  SumTo(OpenSizeOn(s)', Len(positions')) =
           (SumTo(OpenSizeOn(s), Len(positions)) + (IF a.side = s THEN a.size ELSE 0))
             + (IF b.side = s THEN b.size ELSE 0)
<1> DEFINE n == Len(positions)
<1> DEFINE g == OpenSizeOn(s)'
<1>1. /\ n \in Nat /\ Len(positions') = n + 2 /\ DOMAIN positions' = 1 .. n + 2
      /\ DOMAIN positions = 1 .. n
  OBVIOUS
<1>2. /\ \A i \in 1 .. n : positions'[i] = positions[i]
      /\ positions'[n + 1] = a /\ positions'[n + 2] = b
  OBVIOUS
<1> HIDE DEF n
<1>3. \A i \in 1 .. n : OpenSizeOn(s)[i] = g[i]
  BY <1>1, <1>2 DEF OpenSizeOn
<1>4. g[n + 1] = IF a.side = s THEN a.size ELSE 0
  BY <1>1, <1>2 DEF OpenSizeOn
<1>5. g[n + 2] = IF b.side = s THEN b.size ELSE 0
  BY <1>1, <1>2 DEF OpenSizeOn
<1> HIDE DEF g
<1>6. SumTo(g, n + 2) = (SumTo(OpenSizeOn(s), n) + g[n + 1]) + g[n + 2]
  BY <1>1, <1>3, SumToAppendTwo
<1> QED
  BY <1>1, <1>4, <1>5, <1>6 DEF g, n

\* Changing one position changes the margin of its owner by the difference.
LEMMA MarginChanged ==
  ASSUME positions \in Seq(Position), NEW p \in DOMAIN positions, NEW q \in Position,
         positions' = [positions EXCEPT ![p] = q], q.owner = positions[p].owner, NEW u
  PROVE  SumTo(MarginOf(u)', Len(positions')) =
           IF u = q.owner THEN (SumTo(MarginOf(u), Len(positions)) + q.collateral) - positions[p].collateral
           ELSE SumTo(MarginOf(u), Len(positions))
<1> DEFINE n == Len(positions)
<1> DEFINE f == MarginOf(u)
<1> DEFINE g == MarginOf(u)'
<1>1. /\ n \in Nat /\ Len(positions') = n /\ DOMAIN positions' = 1 .. n /\ DOMAIN positions = 1 .. n
      /\ positions' \in Seq(Position)
  BY PositionReplaced
<1>2. positions'[p] = q /\ \A i \in 1 .. n : i # p => positions'[i] = positions[i]
  BY <1>1
<1>3. \A i \in 1 .. n : f[i] \in Nat /\ g[i] \in Nat
  <2>1. \A i \in 1 .. n : f[i] \in Nat
    BY <1>1, MarginOfType
  <2> HIDE DEF f, n
  <2>2. ASSUME NEW i \in 1 .. n PROVE g[i] \in Nat
    <3>1. positions'[i] \in Position
      BY <1>1
    <3>2. positions'[i].collateral \in Nat
      BY <3>1 DEF Position
    <3> QED
      BY <1>1, <3>2 DEF MarginOf
  <2> QED
    BY <2>1, <2>2
<1>4. \A i \in 1 .. n : i # p => f[i] = g[i]
  BY <1>1, <1>2 DEF MarginOf
<1>5. /\ f[p] = IF q.owner = u THEN positions[p].collateral ELSE 0
      /\ g[p] = IF q.owner = u THEN q.collateral ELSE 0
  BY <1>1, <1>2 DEF MarginOf
<1> HIDE DEF f, g, n
<1>6. SumTo(g, n) = SumTo(f, n) + g[p] - f[p] /\ SumTo(f, n) \in Int
  <2>1. \A i \in 1 .. n : f[i] \in Int /\ g[i] \in Int
    BY <1>3
  <2>2. SumTo(g, n) = SumTo(f, n) + g[p] - f[p]
    BY <1>1, <1>4, <2>1, SumToUpdate
  <2>3. SumTo(f, n) \in Int
    BY <1>1, <2>1, SumToType
  <2> QED
    BY <2>2, <2>3
<1>7. CASE u = q.owner
  <2>1. q.collateral \in Nat /\ positions[p].collateral \in Nat
    <3>1. positions[p] \in Position
      OBVIOUS
    <3> QED
      BY <3>1 DEF Position
  <2>2. SumTo(g, n) = (SumTo(f, n) + q.collateral) - positions[p].collateral
    BY <1>5, <1>6, <1>7, <2>1
  <2> QED
    BY <1>1, <1>7, <2>2 DEF f, g, n
<1>8. CASE u # q.owner
  <2>1. SumTo(g, n) = SumTo(f, n)
    BY <1>5, <1>6, <1>8
  <2> QED
    BY <1>1, <1>8, <2>1 DEF f, g, n
<1> QED
  BY <1>7, <1>8

\* Changing an open position changes the open size of its side only by its
\* leaving it.
LEMMA OpenSizeChanged ==
  ASSUME positions \in Seq(Position), NEW p \in DOMAIN positions, NEW q \in Position,
         positions' = [positions EXCEPT ![p] = q],
         q.side = positions[p].side, q.size = positions[p].size,
         positions[p].status = "Open", NEW s
  PROVE  SumTo(OpenSizeOn(s)', Len(positions')) =
           IF s = q.side /\ q.status # "Open" THEN SumTo(OpenSizeOn(s), Len(positions)) - q.size
           ELSE SumTo(OpenSizeOn(s), Len(positions))
<1> DEFINE n == Len(positions)
<1> DEFINE f == OpenSizeOn(s)
<1> DEFINE g == OpenSizeOn(s)'
<1>1. /\ n \in Nat /\ Len(positions') = n /\ DOMAIN positions' = 1 .. n /\ DOMAIN positions = 1 .. n
      /\ positions' \in Seq(Position)
  BY PositionReplaced
<1>2. positions'[p] = q /\ \A i \in 1 .. n : i # p => positions'[i] = positions[i]
  BY <1>1
<1>3. \A i \in 1 .. n : f[i] \in Nat /\ g[i] \in Nat
  <2>1. \A i \in 1 .. n : f[i] \in Nat
    BY <1>1, OpenSizeOnType
  <2> HIDE DEF f, n
  <2>2. ASSUME NEW i \in 1 .. n PROVE g[i] \in Nat
    <3>1. positions'[i] \in Position
      BY <1>1
    <3>2. positions'[i].size \in Nat
      BY <3>1 DEF Position
    <3> QED
      BY <1>1, <3>2 DEF OpenSizeOn
  <2> QED
    BY <2>1, <2>2
<1>4. \A i \in 1 .. n : i # p => f[i] = g[i]
  BY <1>1, <1>2 DEF OpenSizeOn
<1>5. /\ f[p] = IF q.side = s THEN q.size ELSE 0
      /\ g[p] = IF q.side = s /\ q.status = "Open" THEN q.size ELSE 0
  BY <1>1, <1>2 DEF OpenSizeOn
<1>6. q.size \in Nat
  BY DEF Position
<1> HIDE DEF f, g, n
<1>7. SumTo(g, n) = SumTo(f, n) + g[p] - f[p] /\ SumTo(f, n) \in Int
  <2>1. \A i \in 1 .. n : f[i] \in Int /\ g[i] \in Int
    BY <1>3
  <2>2. SumTo(g, n) = SumTo(f, n) + g[p] - f[p]
    BY <1>1, <1>4, <2>1, SumToUpdate
  <2>3. SumTo(f, n) \in Int
    BY <1>1, <2>1, SumToType
  <2> QED
    BY <2>2, <2>3
<1>8. CASE s = q.side /\ q.status # "Open"
  <2>1. SumTo(g, n) = SumTo(f, n) - q.size
    BY <1>5, <1>6, <1>7, <1>8
  <2> QED
    BY <1>1, <1>8, <2>1 DEF f, g, n
<1>9. CASE ~(s = q.side /\ q.status # "Open")
  <2>1. SumTo(g, n) = SumTo(f, n)
    BY <1>5, <1>6, <1>7, <1>9
  <2> QED
    BY <1>1, <1>9, <2>1 DEF f, g, n
<1> QED
  BY <1>8, <1>9

\* A position's margin leaves the accounts as it leaves the position.
LEMMA LockedFollows ==
  ASSUME TypeOK, LockedIsMargin, NEW p \in DOMAIN positions, NEW q \in Position,
         positions' = [positions EXCEPT ![p] = q], q.owner = positions[p].owner,
         NEW d \in Int, q.collateral = positions[p].collateral - d,
         locked' = [locked EXCEPT ![q.owner] = @ - d]
  PROVE  LockedIsMargin'
<1>1. positions \in Seq(Position) /\ locked \in [Users -> Nat] /\ positions[p] \in Position
  BY DEF TypeOK
<1>2. PICK c \in Nat : c = positions[p].collateral
  BY <1>1 DEF Position
<1>3. SUFFICES ASSUME NEW u \in Users
               PROVE  locked'[u] = SumTo(MarginOf(u)', Len(positions'))
  BY DEF LockedIsMargin
<1>4. locked[u] = SumTo(MarginOf(u), Len(positions)) /\ locked[u] \in Nat
  BY <1>1 DEF LockedIsMargin
<1>5. SumTo(MarginOf(u)', Len(positions')) =
        IF u = q.owner THEN (SumTo(MarginOf(u), Len(positions)) + q.collateral) - positions[p].collateral
        ELSE SumTo(MarginOf(u), Len(positions))
  <2>1. \A v : SumTo(MarginOf(v)', Len(positions')) =
                 IF v = q.owner THEN (SumTo(MarginOf(v), Len(positions)) + q.collateral) - positions[p].collateral
                 ELSE SumTo(MarginOf(v), Len(positions))
    BY <1>1, MarginChanged
  <2> QED
    BY <2>1
<1>6. CASE u = q.owner
  <2>1. SumTo(MarginOf(u)', Len(positions')) = (locked[u] + (c - d)) - c
    BY <1>2, <1>4, <1>5, <1>6
  <2>2. locked'[u] = locked[u] - d
    BY <1>1, <1>6
  <2>3. PICK l \in Nat : l = locked[u]
    BY <1>4
  <2>4. (l + (c - d)) - c = l - d
    BY <1>2, <2>3
  <2> QED
    BY <2>1, <2>2, <2>3, <2>4
<1>7. CASE u # q.owner
  BY <1>1, <1>4, <1>5, <1>7
<1> QED
  BY <1>6, <1>7

LEMMA NextMargin ==
  ASSUME TypeOK, LockedIsMargin, [Next]_vars
  PROVE  LockedIsMargin'
<1> USE ClearingAssumption DEF ClearingAssumption
<1>1. ASSUME UNCHANGED <<positions, locked>> PROVE LockedIsMargin'
  BY <1>1 DEF LockedIsMargin, MarginOf
<1>2. ASSUME NEW taker \in Users, NEW maker \in Users, NEW price \in FillPrices,
             NEW size \in Sizes, NEW tl \in Leverages, NEW ml \in Leverages,
             ClaimFill(taker, maker, price, size, tl, ml)
      PROVE  LockedIsMargin'
  <2> DEFINE long == NewPosition(taker, "Long", size, price, tl)
  <2> DEFINE short == NewPosition(maker, "Short", size, price, ml)
  <2>1. long \in Position /\ short \in Position
    BY NewPositionType DEF PositionSide
  <2>2. positions' = Append(Append(positions, long), short)
    BY <1>2 DEF ClaimFill
  <2>3. /\ taker # maker
         /\ locked' = [locked EXCEPT ![taker] = @ + long.collateral,
                                     ![maker] = @ + short.collateral]
    BY <1>2 DEF ClaimFill
  <2>4. long.owner = taker /\ short.owner = maker
    BY DEF NewPosition
  <2> HIDE DEF long, short
  <2>5. PICK lc \in Nat : lc = long.collateral
    BY <2>1 DEF Position
  <2>6. PICK sc \in Nat : sc = short.collateral
    BY <2>1 DEF Position
  <2>7. positions \in Seq(Position) /\ locked \in [Users -> Nat]
    BY DEF TypeOK
  <2>8. \A u : SumTo(MarginOf(u)', Len(positions')) =
            (SumTo(MarginOf(u), Len(positions)) + (IF long.owner = u THEN long.collateral ELSE 0))
              + (IF short.owner = u THEN short.collateral ELSE 0)
    BY <2>1, <2>2, <2>7, MarginAppended
  <2>9. SUFFICES ASSUME NEW u \in Users
                 PROVE  locked'[u] = SumTo(MarginOf(u)', Len(positions'))
    BY DEF LockedIsMargin
  <2>10. SumTo(MarginOf(u)', Len(positions')) =
          (locked[u] + (IF taker = u THEN lc ELSE 0)) + (IF maker = u THEN sc ELSE 0)
    <3>1. SumTo(MarginOf(u)', Len(positions')) =
            (SumTo(MarginOf(u), Len(positions)) + (IF long.owner = u THEN long.collateral ELSE 0))
              + (IF short.owner = u THEN short.collateral ELSE 0)
      BY <2>8
    <3>2. locked[u] = SumTo(MarginOf(u), Len(positions))
      BY DEF LockedIsMargin
    <3> QED
      BY <2>4, <2>5, <2>6, <3>1, <3>2
  <2>11. locked' = [locked EXCEPT ![taker] = @ + lc, ![maker] = @ + sc]
    BY <2>5, <2>6, <2>3
  <2>12. locked'[u] = (locked[u] + (IF taker = u THEN lc ELSE 0)) + (IF maker = u THEN sc ELSE 0)
    BY <2>7, <2>11, <2>3
  <2> QED
    BY <2>10, <2>12
<1>3. ASSUME NEW p \in DOMAIN positions, AccrueFunding(p)
      PROVE  LockedIsMargin'
  <2>1. PICK q \in Position :
          /\ positions' = [positions EXCEPT ![p] = q]
          /\ q.owner = positions[p].owner
          /\ q.collateral = positions[p].collateral - PendingFunding(p)
    BY <1>3, AccruedPosition
  <2>2. locked' = [locked EXCEPT ![q.owner] = @ - PendingFunding(p)]
    BY <1>3, <2>1 DEF AccrueFunding
  <2>3. PendingFunding(p) \in Int
    BY PositionType
  <2> QED
    BY <2>1, <2>2, <2>3, LockedFollows
<1>4. ASSUME NEW liquidator \in Users, NEW p \in DOMAIN positions, NEW mark \in Marks,
             Liquidate(liquidator, p, mark)
      PROVE  LockedIsMargin'
  <2>1. PICK q \in Position :
          /\ positions' = [positions EXCEPT ![p] = q]
          /\ q.owner = positions[p].owner /\ q.collateral = 0
    BY <1>4, LiquidatedPosition
  <2>2. positions[p] \in Position /\ locked \in [Users -> Nat]
    BY DEF TypeOK
  <2>3. PICK c \in Nat : c = positions[p].collateral
    BY <2>2 DEF Position
  <2>4. PICK delta \in Int : delta = PendingFunding(p)
    BY PositionType
  <2>5. locked' = [locked EXCEPT ![q.owner] = @ - delta - Margin(p)] /\ Margin(p) = c - delta
    BY <1>4, <2>1, <2>3, <2>4 DEF Liquidate, Margin
  <2>6. PICK l \in Nat : l = locked[q.owner]
    BY <2>2 DEF Position
  <2>7. l - delta - (c - delta) = l - c
    BY <2>3, <2>4, <2>6
  <2>8. locked' = [locked EXCEPT ![q.owner] = @ - c]
    BY <2>5, <2>6, <2>7
  <2>9. q.collateral = positions[p].collateral - c /\ c \in Int
    BY <2>1, <2>3
  <2> QED
    BY <2>1, <2>8, <2>9, LockedFollows
<1>5. ASSUME NEW p \in DOMAIN positions, NEW mark \in Marks, NEW payout \in {0} \union Amounts,
             ClosePosition(p, mark, payout)
      PROVE  LockedIsMargin'
  <2>1. PICK q \in Position :
          /\ positions' = [positions EXCEPT ![p] = q]
          /\ q.owner = positions[p].owner /\ q.collateral = 0
    BY <1>5, ClosedPosition
  <2>2. positions[p] \in Position
    BY DEF TypeOK
  <2>3. PICK c \in Nat : c = positions[p].collateral
    BY <2>2 DEF Position
  <2>4. locked' = [locked EXCEPT ![q.owner] = @ - c]
    BY <1>5, <2>1, <2>3 DEF ClosePosition
  <2>5. q.collateral = positions[p].collateral - c /\ c \in Int
    BY <2>1, <2>3
  <2> QED
    BY <2>1, <2>4, <2>5, LockedFollows
<1>6. ASSUME NEW u \in Users, NEW amount \in Amounts, Deposit(u, amount) \/ Withdraw(u, amount)
      PROVE  LockedIsMargin'
  BY <1>1, <1>6 DEF Deposit, Withdraw
<1>7. ASSUME NEW n \in Intervals, UpdateFunding(n) PROVE LockedIsMargin'
  BY <1>1, <1>7 DEF UpdateFunding
<1>8. ASSUME NEW b \in BOOLEAN, SetMarketPaused(b) PROVE LockedIsMargin'
  BY <1>1, <1>8 DEF SetMarketPaused
<1>9. CASE UNCHANGED vars
  BY <1>1, <1>9 DEF vars
<1> QED
  BY <1>2, <1>3, <1>4, <1>5, <1>6, <1>7, <1>8, <1>9 DEF Next

LEMMA NextOpenInterest ==
  ASSUME TypeOK, OpenInterestIsOpenSize, [Next]_vars
  PROVE  OpenInterestIsOpenSize'
<1> USE ClearingAssumption DEF ClearingAssumption
<1>1. ASSUME UNCHANGED <<positions, oi>> PROVE OpenInterestIsOpenSize'
  BY <1>1 DEF OpenInterestIsOpenSize, OpenSizeOn
<1>2. ASSUME NEW taker \in Users, NEW maker \in Users, NEW price \in FillPrices,
             NEW size \in Sizes, NEW tl \in Leverages, NEW ml \in Leverages,
             ClaimFill(taker, maker, price, size, tl, ml)
      PROVE  OpenInterestIsOpenSize'
  <2> DEFINE long == NewPosition(taker, "Long", size, price, tl)
  <2> DEFINE short == NewPosition(maker, "Short", size, price, ml)
  <2>1. long \in Position /\ short \in Position
    BY NewPositionType DEF PositionSide
  <2>2. /\ positions' = Append(Append(positions, long), short)
        /\ oi' = [s \in PositionSide |-> oi[s] + size] /\ size \in Nat
    BY <1>2 DEF ClaimFill
  <2>3. /\ long.side = "Long" /\ short.side = "Short" /\ long.size = size /\ short.size = size
        /\ long.status = "Open" /\ short.status = "Open"
    BY DEF NewPosition
  <2> HIDE DEF long, short
  <2>4. SUFFICES ASSUME NEW s \in PositionSide
                 PROVE  oi'[s] = SumTo(OpenSizeOn(s)', Len(positions'))
    BY DEF OpenInterestIsOpenSize
  <2>5. positions \in Seq(Position) /\ oi[s] \in Nat
    BY DEF TypeOK
  <2>6. SumTo(OpenSizeOn(s)', Len(positions')) =
          (SumTo(OpenSizeOn(s), Len(positions)) + (IF long.side = s THEN long.size ELSE 0))
            + (IF short.side = s THEN short.size ELSE 0)
    BY <2>1, <2>2, <2>3, <2>5, OpenSizeAppended
  <2>7. oi[s] = SumTo(OpenSizeOn(s), Len(positions))
    BY DEF OpenInterestIsOpenSize
  <2>8. SumTo(OpenSizeOn(s)', Len(positions')) =
          (oi[s] + (IF s = "Long" THEN size ELSE 0)) + (IF s = "Short" THEN size ELSE 0)
    BY <2>3, <2>6, <2>7
  <2> QED
    BY <2>2, <2>5, <2>8 DEF PositionSide
<1>3. ASSUME NEW p \in DOMAIN positions, AccrueFunding(p)
      PROVE  OpenInterestIsOpenSize'
  <2>1. PICK q \in Position :
          /\ positions' = [positions EXCEPT ![p] = q]
          /\ q.side = positions[p].side /\ q.size = positions[p].size
          /\ q.status = positions[p].status
    BY <1>3, AccruedPosition
  <2>2. positions[p].status = "Open" /\ oi' = oi /\ positions \in Seq(Position)
    BY <1>3 DEF AccrueFunding, IsOpen, TypeOK
  <2>3. \A s : SumTo(OpenSizeOn(s)', Len(positions')) = SumTo(OpenSizeOn(s), Len(positions))
    BY <2>1, <2>2, OpenSizeChanged
  <2> QED
    BY <2>2, <2>3 DEF OpenInterestIsOpenSize
<1>4. ASSUME NEW p \in DOMAIN positions, IsOpen(p), NEW q \in Position,
             positions' = [positions EXCEPT ![p] = q],
             q.side = positions[p].side, q.size = positions[p].size, q.status # "Open",
             oi' = [oi EXCEPT ![positions[p].side] = @ - positions[p].size]
      PROVE  OpenInterestIsOpenSize'
  <2>1. /\ positions[p].status = "Open" /\ positions \in Seq(Position)
        /\ oi \in [PositionSide -> Nat]
        /\ oi' = [oi EXCEPT ![q.side] = @ - q.size]
    BY <1>4 DEF IsOpen, TypeOK
  <2>2. SUFFICES ASSUME NEW s \in PositionSide
                 PROVE  oi'[s] = SumTo(OpenSizeOn(s)', Len(positions'))
    BY DEF OpenInterestIsOpenSize
  <2>3. SumTo(OpenSizeOn(s)', Len(positions')) =
          IF s = q.side /\ q.status # "Open" THEN SumTo(OpenSizeOn(s), Len(positions)) - q.size
          ELSE SumTo(OpenSizeOn(s), Len(positions))
    BY <1>4, <2>1, OpenSizeChanged
  <2>4. oi[s] = SumTo(OpenSizeOn(s), Len(positions))
    BY DEF OpenInterestIsOpenSize
  <2> QED
    BY <1>4, <2>1, <2>3, <2>4
<1>5. ASSUME NEW liquidator \in Users, NEW p \in DOMAIN positions, NEW mark \in Marks,
             Liquidate(liquidator, p, mark)
      PROVE  OpenInterestIsOpenSize'
  <2>1. IsOpen(p) /\ oi' = [oi EXCEPT ![positions[p].side] = @ - positions[p].size]
    BY <1>5 DEF Liquidate
  <2> QED
    BY <1>4, <1>5, <2>1, LiquidatedPosition
<1>6. ASSUME NEW p \in DOMAIN positions, NEW mark \in Marks, NEW payout \in {0} \union Amounts,
             ClosePosition(p, mark, payout)
      PROVE  OpenInterestIsOpenSize'
  <2>1. IsOpen(p) /\ oi' = [oi EXCEPT ![positions[p].side] = @ - positions[p].size]
    BY <1>6 DEF ClosePosition
  <2> QED
    BY <1>4, <1>6, <2>1, ClosedPosition
<1>7. ASSUME NEW u \in Users, NEW amount \in Amounts, Deposit(u, amount) \/ Withdraw(u, amount)
      PROVE  OpenInterestIsOpenSize'
  BY <1>1, <1>7 DEF Deposit, Withdraw
<1>8. ASSUME NEW n \in Intervals, UpdateFunding(n) PROVE OpenInterestIsOpenSize'
  BY <1>1, <1>8 DEF UpdateFunding
<1>9. ASSUME NEW b \in BOOLEAN, SetMarketPaused(b) PROVE OpenInterestIsOpenSize'
  BY <1>1, <1>9 DEF SetMarketPaused
<1>10. CASE UNCHANGED vars
  BY <1>1, <1>10 DEF vars
<1> QED
  BY <1>2, <1>3, <1>5, <1>6, <1>7, <1>8, <1>9, <1>10 DEF Next

-----------------------------------------------------------------------------
(* The vault pays for what is owed.                                        *)

\* A user's balance leaves the total as it leaves the account.
LEMMA DepositsChanged ==
  ASSUME deposited \in [Users -> Nat], deposited' \in [Users -> Nat],
         NEW u \in Users, NEW d \in Int, deposited' = [deposited EXCEPT ![u] = @ - d]
  PROVE  /\ SumTo(deposited, NumUsers) \in Int
         /\ SumTo(deposited', NumUsers) = SumTo(deposited, NumUsers) - d
<1>1. NumUsers \in Nat /\ u \in 1 .. NumUsers
  BY ClearingAssumption DEF ClearingAssumption, Users
<1>2. \A i \in 1 .. NumUsers : deposited[i] \in Int /\ deposited'[i] \in Int
  BY DEF Users
<1>3. \A i \in 1 .. NumUsers : i # u => deposited[i] = deposited'[i]
  BY DEF Users
<1>4. deposited'[u] = deposited[u] - d /\ deposited[u] \in Nat
  OBVIOUS
<1> DEFINE f == deposited
<1> DEFINE g == deposited'
<1>5. \A i \in 1 .. NumUsers : f[i] \in Int /\ g[i] \in Int
  BY <1>2
<1>6. \A i \in 1 .. NumUsers : i # u => f[i] = g[i]
  BY <1>3
<1> HIDE DEF f, g
<1>7. SumTo(g, NumUsers) = SumTo(f, NumUsers) + g[u] - f[u]
  BY <1>1, <1>5, <1>6, SumToUpdate
<1>8. SumTo(f, NumUsers) \in Int
  <2>1. \A i \in 1 .. NumUsers : f[i] \in Int
    BY <1>5
  <2>2. \A k \in 0 .. NumUsers : SumTo(f, k) \in Int
    BY <1>1, <2>1, SumToType
  <2> QED
    BY <1>1, <2>2
<1> QED
  BY <1>4, <1>7, <1>8 DEF f, g

\* A position below the maintenance ratio has lost some of its margin.
LEMMA RatioBelowOne ==
  ASSUME NEW r \in Nat, NEW c \in Nat \ {0}, RatioBps(r, c) < LiquidationThresholdBps
  PROVE  r < c
<1>1. (r * 10000) \div c < 8000
  BY DEF RatioBps, LiquidationThresholdBps
<1>2. SUFFICES ASSUME r >= c PROVE FALSE
  OBVIOUS
<1>3. r * 10000 >= c * 10000 /\ r * 10000 \in Nat
  BY <1>2
<1>4. (r * 10000) \div c >= 10000
  BY <1>3
<1> QED
  BY <1>1, <1>4, DivNat

\* What a liquidated owner loses goes to the liquidator and to the pool.
LEMMA LossIsShared ==
  ASSUME NEW m \in Nat, NEW pnl \in Int, NEW r \in Nat, NEW b \in Nat, NEW loss \in Nat,
         r = CollateralAfterPnl(m, pnl), b <= r, m > 0 => r < m,
         loss = m - Lesser(r - b, m)
  PROVE  IF m = 0 THEN loss = 0 /\ RealizedLossFromPnl(m, pnl) = 0
         ELSE loss = b + RealizedLossFromPnl(m, pnl)
BY DEF CollateralAfterPnl, Lesser, RealizedLossFromPnl

LEMMA NextVault ==
  ASSUME TypeOK, TypeOK', VaultIsAccountedFor, [Next]_vars
  PROVE  VaultIsAccountedFor'
<1> USE ClearingAssumption DEF ClearingAssumption
<1> DEFINE owed == SumTo(deposited, NumUsers)
<1>1. vault \in Nat /\ pool \in Nat /\ unbacked \in Nat /\ vault + unbacked = owed + pool
  BY DEF TypeOK, VaultIsAccountedFor
<1>2. ASSUME NEW u \in Users, NEW d \in Int, deposited' = [deposited EXCEPT ![u] = @ - d]
      PROVE  owed \in Int /\ owed' = owed - d
  BY <1>2, DepositsChanged DEF TypeOK
<1> HIDE DEF owed
<1>3. ASSUME vault' + unbacked' = owed' + pool' PROVE VaultIsAccountedFor'
  BY <1>3 DEF VaultIsAccountedFor, owed
<1>4. ASSUME UNCHANGED <<deposited, vault, pool, unbacked>> PROVE VaultIsAccountedFor'
  BY <1>4 DEF VaultIsAccountedFor
<1>5. ASSUME NEW u \in Users, NEW amount \in Amounts, Deposit(u, amount)
      PROVE  VaultIsAccountedFor'
  <2>1. vault' = vault + amount /\ UNCHANGED <<pool, unbacked>> /\ amount \in Nat
    BY <1>5 DEF Deposit
  <2>2. deposited' = [deposited EXCEPT ![u] = @ + amount]
    BY <1>5 DEF Deposit
  <2>3. PICK d \in Int : d = -amount
    BY <2>1
  <2>4. deposited' = [deposited EXCEPT ![u] = @ - d]
    <3>1. PICK x \in Nat : x = deposited[u]
      BY DEF TypeOK
    <3>2. x + amount = x - d
      BY <2>1, <2>3
    <3> QED
      BY <2>2, <3>1, <3>2
  <2>5. owed \in Int /\ owed' = owed - d
    BY <1>2, <2>4
  <2> QED
    BY <1>1, <1>3, <2>1, <2>3, <2>5
<1>6. ASSUME NEW u \in Users, NEW amount \in Amounts, Withdraw(u, amount)
      PROVE  VaultIsAccountedFor'
  <2>1. vault' = vault - amount /\ UNCHANGED <<pool, unbacked>>
    BY <1>6 DEF Withdraw
  <2>2. deposited' = [deposited EXCEPT ![u] = @ - amount]
    BY <1>6 DEF Withdraw
  <2>3. amount \in Int
    OBVIOUS
  <2>4. owed \in Int /\ owed' = owed - amount
    BY <1>2, <2>2, <2>3
  <2> QED
    BY <1>1, <1>3, <2>1, <2>3, <2>4
<1>7. ASSUME NEW p \in DOMAIN positions, AccrueFunding(p)
      PROVE  VaultIsAccountedFor'
  <2>1. PICK delta \in Int : delta = PendingFunding(p)
    BY PositionType
  <2>2. PICK u \in Users : u = positions[p].owner
    BY PositionType DEF Position
  <2>3. pool' = pool + delta /\ UNCHANGED <<vault, unbacked>>
    BY <1>7, <2>1 DEF AccrueFunding
  <2>4. deposited' = [deposited EXCEPT ![u] = @ - delta]
    BY <1>7, <2>1, <2>2 DEF AccrueFunding
  <2>5. owed \in Int /\ owed' = owed - delta
    BY <1>2, <2>4
  <2> QED
    BY <1>1, <1>3, <2>3, <2>5
<1>8. ASSUME NEW liquidator \in Users, NEW p \in DOMAIN positions, NEW mark \in Marks,
             Liquidate(liquidator, p, mark)
      PROVE  VaultIsAccountedFor'
  <2>1. PICK delta \in Int : delta = PendingFunding(p)
    BY PositionType
  <2>2. PICK u \in Users : u = positions[p].owner
    BY PositionType DEF Position
  <2>3. CanApplyFunding(p) /\ mark \in Nat
    BY <1>8 DEF Liquidate, CanSettleLiquidation
  <2>4. PICK m \in Nat : m = Margin(p)
    BY <2>3, LiquidationAmounts
  <2>5. PICK pnl \in Int : pnl = Pnl(p, mark)
    BY <2>3, PositionType
  <2>6. PICK r \in Nat : r = Remaining(p, mark) /\ r = CollateralAfterPnl(m, pnl)
    BY <2>4, <2>5, RemainingType DEF Remaining
  <2>7. PICK b \in Nat : b = Bounty(r) /\ b <= r
    BY BountyBound
  <2>8. PICK loss \in Nat : loss = NetLoss(p, mark)
    BY <2>3, LiquidationAmounts
  <2>9. PICK realized \in Nat : realized = RealizedLossFromPnl(m, pnl)
    BY <2>3, <2>4, <2>5, LiquidationAmounts
  <2>10. loss = m - Lesser(r - b, m)
    BY <2>4, <2>6, <2>7, <2>8 DEF NetLoss
  <2>11. m > 0 => r < m
    <3>1. RatioBps(r, m) < LiquidationThresholdBps
      BY <1>8, <2>4, <2>6 DEF Liquidate
    <3> QED
      BY <3>1, RatioBelowOne
  <2>12. IF m = 0 THEN loss = 0 /\ realized = 0 ELSE loss = b + realized
    <3>1. IF m = 0 THEN loss = 0 /\ RealizedLossFromPnl(m, pnl) = 0
          ELSE loss = b + RealizedLossFromPnl(m, pnl)
      <4>1. r = CollateralAfterPnl(m, pnl) /\ b <= r
        BY <2>6, <2>7
      <4> QED
        BY <2>10, <2>11, <4>1, LossIsShared
    <3> QED
      BY <2>9, <3>1
  <2>13. /\ vault' = vault - b
         /\ pool' = pool + delta + realized
         /\ unbacked' = IF m = 0 THEN unbacked + b ELSE unbacked
    BY <1>8, <2>1, <2>4, <2>5, <2>6, <2>7, <2>9 DEF Liquidate
  <2>14. deposited' = [deposited EXCEPT ![u] = @ - delta - loss]
    BY <1>8, <2>1, <2>2, <2>8 DEF Liquidate
  <2>15. deposited' = [deposited EXCEPT ![u] = @ - (delta + loss)]
    <3>1. PICK x \in Nat : x = deposited[u]
      BY DEF TypeOK
    <3>2. x - delta - loss = x - (delta + loss)
      OBVIOUS
    <3> QED
      BY <2>14, <3>1, <3>2
  <2>16. delta + loss \in Int
    OBVIOUS
  <2>17. owed \in Int /\ owed' = owed - (delta + loss)
    BY <1>2, <2>15, <2>16
  <2> QED
    BY <1>1, <1>3, <2>12, <2>13, <2>17
<1>9. ASSUME NEW p \in DOMAIN positions, NEW mark \in Marks, NEW payout \in {0} \union Amounts,
             ClosePosition(p, mark, payout)
      PROVE  VaultIsAccountedFor'
  <2>1. PICK pnl \in Int : pnl = Pnl(p, mark)
    BY PositionType
  <2>2. PICK u \in Users : u = positions[p].owner
    BY PositionType DEF Position
  <2>3. payout \in Nat /\ payout - pnl \in Int
    OBVIOUS
  <2>4. pool' = pool - pnl /\ vault' = vault - payout /\ unbacked' = unbacked
    BY <1>9, <2>1 DEF ClosePosition
  <2>5. deposited' = [deposited EXCEPT ![u] = @ + pnl - payout]
    BY <1>9, <2>1, <2>2 DEF ClosePosition
  <2>6. deposited' = [deposited EXCEPT ![u] = @ - (payout - pnl)]
    <3>1. PICK x \in Nat : x = deposited[u]
      BY DEF TypeOK
    <3>2. x + pnl - payout = x - (payout - pnl)
      BY <2>3
    <3> QED
      BY <2>5, <3>1, <3>2
  <2>7. owed \in Int /\ owed' = owed - (payout - pnl)
    BY <1>2, <2>3, <2>6
  <2> QED
    BY <1>1, <1>3, <2>3, <2>4, <2>7
<1>10. ASSUME NEW taker \in Users, NEW maker \in Users, NEW price \in FillPrices,
              NEW size \in Sizes, NEW tl \in Leverages, NEW ml \in Leverages,
              ClaimFill(taker, maker, price, size, tl, ml)
       PROVE  VaultIsAccountedFor'
  BY <1>4, <1>10 DEF ClaimFill
<1>11. ASSUME NEW n \in Intervals, UpdateFunding(n) PROVE VaultIsAccountedFor'
  BY <1>4, <1>11 DEF UpdateFunding
<1>12. ASSUME NEW b \in BOOLEAN, SetMarketPaused(b) PROVE VaultIsAccountedFor'
  BY <1>4, <1>12 DEF SetMarketPaused
<1>13. CASE UNCHANGED vars
  BY <1>4, <1>13 DEF vars
<1> QED
  BY <1>5, <1>6, <1>7, <1>8, <1>9, <1>10, <1>11, <1>12, <1>13 DEF Next

-----------------------------------------------------------------------------
(* The theorems.                                                           *)

\* The inductive invariant: the books, and the types the arithmetic needs.
Inv == TypeOK /\ LockedIsMargin /\ OpenInterestIsOpenSize /\ VaultIsAccountedFor

LEMMA InitInv == ASSUME Init PROVE Inv
<1>1. TypeOK
  BY InitType
<1>2. positions = <<>> /\ Len(positions) = 0
  BY DEF Init
<1>3. LockedIsMargin /\ OpenInterestIsOpenSize
  BY <1>2, SumToZero DEF Init, LockedIsMargin, OpenInterestIsOpenSize
<1>4. SumTo(deposited, NumUsers) = 0
  <2>1. NumUsers \in Nat /\ \A i \in 1 .. NumUsers : deposited[i] = 0
    BY ClearingAssumption DEF ClearingAssumption, Init, Users
  <2> DEFINE f == deposited
  <2>2. \A i \in 1 .. NumUsers : f[i] = 0
    BY <2>1
  <2> HIDE DEF f
  <2> DEFINE S == {k \in Nat : k <= NumUsers => SumTo(f, k) = 0}
  <2>3. 0 \in S
    BY SumToZero
  <2>4. ASSUME NEW k \in Nat, k \in S PROVE k + 1 \in S
    <3>1. SumTo(f, k + 1) = SumTo(f, k) + f[k + 1]
      BY SumToNext
    <3> QED
      BY <2>1, <2>2, <2>4, <3>1
  <2> HIDE DEF S
  <2>5. Nat \subseteq S
    BY <2>3, <2>4, NatSetInduction
  <2> QED
    BY <2>1, <2>5 DEF S, f
<1>5. VaultIsAccountedFor
  BY <1>4 DEF VaultIsAccountedFor, Init
<1> QED
  BY <1>1, <1>3, <1>5 DEF Inv

LEMMA NextInv ==
  ASSUME Inv, [Next]_vars
  PROVE  Inv'
<1>1. TypeOK /\ LockedIsMargin /\ OpenInterestIsOpenSize /\ VaultIsAccountedFor
  BY DEF Inv
<1>2. TypeOK'
  BY <1>1, NextType
<1>3. LockedIsMargin'
  BY <1>1, NextMargin
<1>4. OpenInterestIsOpenSize'
  BY <1>1, NextOpenInterest
<1>5. VaultIsAccountedFor'
  BY <1>1, <1>2, NextVault
<1> QED
  BY <1>2, <1>3, <1>4, <1>5 DEF Inv

LEMMA InvAlways == Spec => []Inv
<1>1. Init => Inv
  BY InitInv
<1>2. Inv /\ [Next]_vars => Inv'
  BY NextInv
<1> QED
  BY <1>1, <1>2, PTL DEF Spec

\* Every balance the program keeps unsigned (deposits, locked margin, vault,
\* open interest, loss pool, collateral) stays non-negative under every
\* instruction, for every value of the constants.
THEOREM TypeCorrect == Spec => []TypeOK
<1>1. Inv => TypeOK
  BY DEF Inv
<1> QED
  BY <1>1, InvAlways, PTL

\* For every number of users and positions, locked_amount is the collateral of
\* the user's positions: settlement, funding and the three ends keep them equal.
THEOREM LockedIsMarginAlways == Spec => []LockedIsMargin
<1>1. Inv => LockedIsMargin
  BY DEF Inv
<1> QED
  BY <1>1, InvAlways, PTL

\* For every number of positions, a side's open interest is the size of its
\* open positions.
THEOREM OpenInterestAlways == Spec => []OpenInterestIsOpenSize
<1>1. Inv => OpenInterestIsOpenSize
  BY DEF Inv
<1> QED
  BY <1>1, InvAlways, PTL

\* For every number of users and every price, the vault holds what users and
\* pool are owed, but for the bounties paid for positions without collateral.
THEOREM VaultAlways == Spec => []VaultIsAccountedFor
<1>1. Inv => VaultIsAccountedFor
  BY DEF Inv
<1> QED
  BY <1>1, InvAlways, PTL

LEMMA EndsAreCovered ==
  ASSUME Inv
  PROVE  EndNeverUnderflows
<1>1. /\ positions \in Seq(Position) /\ LockedIsMargin /\ OpenInterestIsOpenSize
      /\ oi \in [PositionSide -> Nat]
  BY DEF Inv, TypeOK
<1>2. SUFFICES ASSUME NEW p \in DOMAIN positions, positions[p].status = "Open"
               PROVE  /\ positions[p].collateral <= locked[positions[p].owner]
                      /\ positions[p].size <= oi[positions[p].side]
  BY DEF EndNeverUnderflows
<1> DEFINE n == Len(positions)
<1>3. n \in Nat /\ p \in 1 .. n /\ DOMAIN positions = 1 .. n
  BY <1>1
<1>4. positions[p].owner \in Users /\ positions[p].side \in PositionSide
  <2>1. positions[p] \in Position
    BY <1>1
  <2> QED
    BY <2>1 DEF Position
<1> HIDE DEF n
<1>5. positions[p].collateral <= locked[positions[p].owner]
  <2> DEFINE f == MarginOf(positions[p].owner)
  <2>1. \A i \in 1 .. n : f[i] \in Nat
    BY <1>1, <1>3, MarginOfType
  <2>2. f[p] = positions[p].collateral
    BY <1>3 DEF MarginOf
  <2>3. locked[positions[p].owner] = SumTo(f, n)
    BY <1>1, <1>4 DEF LockedIsMargin, n
  <2> HIDE DEF f
  <2>4. f[p] <= SumTo(f, n)
    BY <1>3, <2>1, SumToBound
  <2> QED
    BY <2>2, <2>3, <2>4
<1>6. positions[p].size <= oi[positions[p].side]
  <2> DEFINE f == OpenSizeOn(positions[p].side)
  <2>1. \A i \in 1 .. n : f[i] \in Nat
    BY <1>1, <1>3, OpenSizeOnType
  <2>2. f[p] = positions[p].size
    BY <1>2, <1>3 DEF OpenSizeOn
  <2>3. oi[positions[p].side] = SumTo(f, n)
    BY <1>1, <1>4 DEF OpenInterestIsOpenSize, n
  <2> HIDE DEF f
  <2>4. f[p] <= SumTo(f, n)
    BY <1>3, <2>1, SumToBound
  <2> QED
    BY <2>2, <2>3, <2>4
<1> QED
  BY <1>5, <1>6

\* The checked subtractions of locked_amount and of the open interest at the end
\* of a position never fail, however many positions share the account.
THEOREM EndNeverUnderflowsAlways == Spec => []EndNeverUnderflows
<1>1. Inv => EndNeverUnderflows
  BY EndsAreCovered
<1> QED
  BY <1>1, InvAlways, PTL

-----------------------------------------------------------------------------
(* What one instruction may never do: the bodies of the action properties, *)
(* for one step.                                                           *)

\* PositionsEndOnce for position p.
EndsOnce(p) ==
  /\ p \in DOMAIN positions'
  /\ \A field \in {"owner", "side", "size", "entry", "leverage"} : positions'[p][field] = positions[p][field]
  /\ positions[p].status # "Open" => positions'[p] = positions[p]

\* LiquidationChargesAtMostCollateral for position p.
ChargedAtMostCollateral(p) ==
  positions[p].status = "Open" /\ positions'[p].status = "Liquidated" =>
    deposited[positions[p].owner] - deposited'[positions[p].owner] <= positions[p].collateral

\* DepositsFallForOwnReasons for user u.
FallsForOwnReasons(u) ==
  deposited'[u] < deposited[u] =>
    \/ \E p \in DOMAIN positions : positions[p].owner = u /\ positions'[p] # positions[p]
    \/ vault - vault' = deposited[u] - deposited'[u]

\* OnlyUnderwaterCloseUncoversMargin for user u, and what excuses it.
ClosedUnderwater(u) ==
  \E p \in DOMAIN positions :
    /\ positions[p].owner = u
    /\ positions[p].status = "Open" /\ positions'[p].status = "Closed"
    /\ deposited[u] - deposited'[u] > positions[p].collateral

StaysCovered(u) ==
  locked[u] <= deposited[u] /\ locked'[u] > deposited'[u] => ClosedUnderwater(u)

-----------------------------------------------------------------------------
LEMMA SamePositionsEndOnce ==
  ASSUME positions' = positions
  PROVE  \A p \in DOMAIN positions : EndsOnce(p)
BY DEF EndsOnce

\* Changing an open position without touching what identifies it.
LEMMA ReplacedEndsOnce ==
  ASSUME positions \in Seq(Position), NEW p \in DOMAIN positions, IsOpen(p), NEW q,
         positions' = [positions EXCEPT ![p] = q],
         q.owner = positions[p].owner, q.side = positions[p].side,
         q.size = positions[p].size, q.entry = positions[p].entry, q.leverage = positions[p].leverage
  PROVE  \A r \in DOMAIN positions : EndsOnce(r)
<1> SUFFICES ASSUME NEW r \in DOMAIN positions PROVE EndsOnce(r)
  OBVIOUS
<1>1. r \in DOMAIN positions'
  OBVIOUS
<1>2. CASE r # p
  <2>1. positions'[r] = positions[r]
    BY <1>2
  <2> QED
    BY <1>1, <2>1 DEF EndsOnce
<1>3. CASE r = p
  <2>1. positions'[r] = q
    BY <1>3
  <2> QED
    BY <1>1, <1>3, <2>1 DEF EndsOnce, IsOpen
<1> QED
  BY <1>2, <1>3

LEMMA NextEndsOnce ==
  ASSUME TypeOK, [Next]_vars
  PROVE  \A p \in DOMAIN positions : EndsOnce(p)
<1>1. positions \in Seq(Position)
  BY DEF TypeOK
<1>2. ASSUME NEW taker, NEW maker, NEW price, NEW size, NEW tl, NEW ml,
             ClaimFill(taker, maker, price, size, tl, ml)
      PROVE  \A p \in DOMAIN positions : EndsOnce(p)
  <2>1. PICK a, b : positions' = Append(Append(positions, a), b)
    BY <1>2 DEF ClaimFill
  <2>2. \A p \in DOMAIN positions : p \in DOMAIN positions' /\ positions'[p] = positions[p]
    BY <1>1, <2>1
  <2> QED
    BY <2>2 DEF EndsOnce
<1>3. ASSUME NEW p \in DOMAIN positions, AccrueFunding(p)
      PROVE  \A r \in DOMAIN positions : EndsOnce(r)
  <2>1. PICK q : positions' = [positions EXCEPT ![p] = q]
           /\ q.owner = positions[p].owner /\ q.side = positions[p].side
           /\ q.size = positions[p].size /\ q.entry = positions[p].entry /\ q.leverage = positions[p].leverage
    BY <1>3, AccruedPosition
  <2>2. IsOpen(p)
    BY <1>3 DEF AccrueFunding
  <2> QED
    BY <1>1, <2>1, <2>2, ReplacedEndsOnce
<1>4. ASSUME NEW liquidator, NEW p \in DOMAIN positions, NEW mark, Liquidate(liquidator, p, mark)
      PROVE  \A r \in DOMAIN positions : EndsOnce(r)
  <2>1. PICK q : positions' = [positions EXCEPT ![p] = q]
           /\ q.owner = positions[p].owner /\ q.side = positions[p].side
           /\ q.size = positions[p].size /\ q.entry = positions[p].entry /\ q.leverage = positions[p].leverage
    BY <1>4, LiquidatedPosition
  <2>2. IsOpen(p)
    BY <1>4 DEF Liquidate
  <2> QED
    BY <1>1, <2>1, <2>2, ReplacedEndsOnce
<1>5. ASSUME NEW p \in DOMAIN positions, NEW mark, NEW payout, ClosePosition(p, mark, payout)
      PROVE  \A r \in DOMAIN positions : EndsOnce(r)
  <2>1. PICK q : positions' = [positions EXCEPT ![p] = q]
           /\ q.owner = positions[p].owner /\ q.side = positions[p].side
           /\ q.size = positions[p].size /\ q.entry = positions[p].entry /\ q.leverage = positions[p].leverage
    BY <1>5, ClosedPosition
  <2>2. IsOpen(p)
    BY <1>5 DEF ClosePosition
  <2> QED
    BY <1>1, <2>1, <2>2, ReplacedEndsOnce
<1>6. ASSUME NEW u \in Users, NEW amount \in Amounts, Deposit(u, amount) \/ Withdraw(u, amount)
      PROVE  positions' = positions
  BY <1>6 DEF Deposit, Withdraw
<1>7. ASSUME NEW n \in Intervals, UpdateFunding(n) PROVE positions' = positions
  BY <1>7 DEF UpdateFunding
<1>8. ASSUME NEW b \in BOOLEAN, SetMarketPaused(b) PROVE positions' = positions
  BY <1>8 DEF SetMarketPaused
<1>9. CASE UNCHANGED vars
  BY <1>9, SamePositionsEndOnce DEF vars
<1> QED
  BY <1>2, <1>3, <1>4, <1>5, <1>6, <1>7, <1>8, <1>9, SamePositionsEndOnce DEF Next

LEMMA NextChargesAtMostCollateral ==
  ASSUME TypeOK, [Next]_vars, NEW p \in DOMAIN positions
  PROVE  ChargedAtMostCollateral(p)
<1> USE ClearingAssumption DEF ClearingAssumption
<1>1. positions \in Seq(Position)
  BY DEF TypeOK
<1>2. ASSUME positions'[p].status = positions[p].status PROVE ChargedAtMostCollateral(p)
  BY <1>2 DEF ChargedAtMostCollateral
<1>3. ASSUME NEW taker, NEW maker, NEW price, NEW size, NEW tl, NEW ml,
             ClaimFill(taker, maker, price, size, tl, ml)
      PROVE  ChargedAtMostCollateral(p)
  <2>1. PICK a, b : positions' = Append(Append(positions, a), b)
    BY <1>3 DEF ClaimFill
  <2>2. positions'[p] = positions[p]
    BY <1>1, <2>1
  <2> QED
    BY <1>2, <2>2
<1>4. ASSUME NEW r \in DOMAIN positions, AccrueFunding(r)
      PROVE  ChargedAtMostCollateral(p)
  <2>1. PICK q : positions' = [positions EXCEPT ![r] = q] /\ q.status = positions[r].status
    BY <1>4, AccruedPosition
  <2>2. positions'[p].status = positions[p].status
    BY <1>1, <2>1
  <2> QED
    BY <1>2, <2>2
<1>5. ASSUME NEW liquidator \in Users, NEW r \in DOMAIN positions, NEW mark \in Marks,
             Liquidate(liquidator, r, mark)
      PROVE  ChargedAtMostCollateral(p)
  <2>1. PICK q : positions' = [positions EXCEPT ![r] = q]
    BY <1>5, LiquidatedPosition
  <2>2. CASE r # p
    <3>1. positions'[p] = positions[p]
      BY <1>1, <2>1, <2>2
    <3> QED
      BY <1>2, <3>1
  <2>3. CASE r = p
    <3>1. PICK u \in Users : u = positions[p].owner
      BY PositionType DEF Position
    <3>2. PICK delta \in Int : delta = PendingFunding(p)
      BY PositionType
    <3>3. CanApplyFunding(p) /\ mark \in Nat
      BY <1>5, <2>3 DEF Liquidate, CanSettleLiquidation
    <3>4. PICK m \in Nat : m = Margin(p)
      BY <3>3, LiquidationAmounts
    <3>5. PICK remaining \in Nat : remaining = Remaining(p, mark)
      BY <3>3, <3>4, PositionType, RemainingType DEF Remaining
    <3>6. PICK bounty \in Nat : bounty = Bounty(remaining) /\ bounty <= remaining
      BY BountyBound
    <3>7. PICK loss \in Nat : loss = NetLoss(p, mark)
      BY <3>3, LiquidationAmounts
    <3>8. loss <= m
      BY <3>4, <3>5, <3>6, <3>7 DEF NetLoss, Lesser
    <3>9. PICK c \in Nat : c = positions[p].collateral
      BY PositionType DEF Position
    <3>10. m = c - delta
      BY <3>2, <3>4, <3>9 DEF Margin
    <3>11. PICK d \in Nat : d = deposited[u]
      BY DEF TypeOK
    <3>12. deposited' = [deposited EXCEPT ![u] = d - delta - loss]
      BY <1>5, <2>3, <3>1, <3>2, <3>7, <3>11 DEF Liquidate
    <3>13. deposited'[u] = d - delta - loss
      BY <3>12 DEF TypeOK
    <3>14. d - (d - delta - loss) <= c
      BY <3>8, <3>10
    <3> QED
      BY <3>1, <3>9, <3>11, <3>13, <3>14 DEF ChargedAtMostCollateral
  <2> QED
    BY <2>2, <2>3
<1>6. ASSUME NEW r \in DOMAIN positions, NEW mark, NEW payout, ClosePosition(r, mark, payout)
      PROVE  ChargedAtMostCollateral(p)
  <2>1. PICK q : positions' = [positions EXCEPT ![r] = q] /\ q.status = "Closed"
    BY <1>6, ClosedPosition
  <2>2. positions'[p].status = positions[p].status \/ positions'[p].status = "Closed"
    BY <1>1, <2>1
  <2> QED
    BY <1>2, <2>2 DEF ChargedAtMostCollateral
<1>7. ASSUME NEW u \in Users, NEW amount \in Amounts, Deposit(u, amount) \/ Withdraw(u, amount)
      PROVE  positions' = positions
  BY <1>7 DEF Deposit, Withdraw
<1>8. ASSUME NEW n \in Intervals, UpdateFunding(n) PROVE positions' = positions
  BY <1>8 DEF UpdateFunding
<1>9. ASSUME NEW b \in BOOLEAN, SetMarketPaused(b) PROVE positions' = positions
  BY <1>9 DEF SetMarketPaused
<1>10. CASE UNCHANGED vars
  BY <1>2, <1>10 DEF vars
<1> QED
  BY <1>2, <1>3, <1>4, <1>5, <1>6, <1>7, <1>8, <1>9, <1>10 DEF Next

LEMMA SameBalanceFallsForOwnReasons ==
  ASSUME TypeOK, NEW u \in Users, deposited'[u] = deposited[u]
  PROVE  FallsForOwnReasons(u)
<1>1. deposited[u] \in Nat
  BY DEF TypeOK
<1> QED
  BY <1>1 DEF FallsForOwnReasons

\* The three instructions that work on one position touch one balance, that of
\* its owner, and change the position.
LEMMA OwnerFallsForOwnReasons ==
  ASSUME TypeOK, NEW p \in DOMAIN positions, NEW q, NEW x,
         positions' = [positions EXCEPT ![p] = q], q # positions[p],
         deposited' = [deposited EXCEPT ![positions[p].owner] = x]
  PROVE  \A u \in Users : FallsForOwnReasons(u)
<1> SUFFICES ASSUME NEW u \in Users PROVE FallsForOwnReasons(u)
  OBVIOUS
<1>1. positions \in Seq(Position) /\ deposited \in [Users -> Nat]
  BY DEF TypeOK
<1>2. CASE u = positions[p].owner
  <2>1. positions'[p] = q
    BY <1>1
  <2> QED
    BY <1>2, <2>1 DEF FallsForOwnReasons
<1>3. CASE u # positions[p].owner
  <2>1. deposited'[u] = deposited[u]
    BY <1>1, <1>3
  <2> QED
    BY <2>1, SameBalanceFallsForOwnReasons
<1> QED
  BY <1>2, <1>3

LEMMA NextFallsForOwnReasons ==
  ASSUME TypeOK, [Next]_vars
  PROVE  \A u \in Users : FallsForOwnReasons(u)
<1> USE ClearingAssumption DEF ClearingAssumption
<1>1. deposited \in [Users -> Nat] /\ vault \in Nat
  BY DEF TypeOK
<1>2. ASSUME deposited' = deposited PROVE \A u \in Users : FallsForOwnReasons(u)
  BY <1>2, SameBalanceFallsForOwnReasons
<1>3. ASSUME NEW w \in Users, NEW amount \in Amounts, Deposit(w, amount), NEW u \in Users
      PROVE  FallsForOwnReasons(u)
  <2>1. deposited' = [deposited EXCEPT ![w] = @ + amount]
    BY <1>3 DEF Deposit
  <2>2. deposited'[u] >= deposited[u]
    BY <1>1, <2>1
  <2>3. deposited[u] \in Nat /\ deposited'[u] \in Nat
    BY <1>1, <2>1
  <2> QED
    BY <2>2, <2>3 DEF FallsForOwnReasons
<1>4. ASSUME NEW w \in Users, NEW amount \in Amounts, Withdraw(w, amount), NEW u \in Users
      PROVE  FallsForOwnReasons(u)
  <2>1. deposited' = [deposited EXCEPT ![w] = @ - amount] /\ vault' = vault - amount
    BY <1>4 DEF Withdraw
  <2>2. CASE u # w
    <3>1. deposited'[u] = deposited[u]
      BY <1>1, <2>1, <2>2
    <3> QED
      BY <3>1, SameBalanceFallsForOwnReasons
  <2>3. CASE u = w
    <3>1. deposited'[u] = deposited[u] - amount
      BY <1>1, <2>1, <2>3
    <3>2. vault - vault' = deposited[u] - deposited'[u]
      BY <1>1, <2>1, <3>1
    <3> QED
      BY <3>2 DEF FallsForOwnReasons
  <2> QED
    BY <2>2, <2>3
<1>5. ASSUME NEW p \in DOMAIN positions, AccrueFunding(p)
      PROVE  \A u \in Users : FallsForOwnReasons(u)
  <2>1. PICK q : positions' = [positions EXCEPT ![p] = q]
           /\ q.collateral = positions[p].collateral - PendingFunding(p)
    BY <1>5, AccruedPosition
  <2>2. deposited' = [deposited EXCEPT ![positions[p].owner] = @ - PendingFunding(p)]
    BY <1>5 DEF AccrueFunding
  <2>3. CASE q # positions[p]
    BY <2>1, <2>2, <2>3, OwnerFallsForOwnReasons
  <2>4. CASE q = positions[p]
    <3>1. PICK c \in Nat : c = positions[p].collateral
      BY PositionType DEF Position
    <3>2. PICK delta \in Int : delta = PendingFunding(p)
      BY PositionType
    <3>3. delta = 0
      BY <2>1, <2>4, <3>1, <3>2
    <3>4. PICK w \in Users : w = positions[p].owner
      BY PositionType DEF Position
    <3>5. deposited' = [deposited EXCEPT ![w] = @ - 0]
      BY <2>2, <3>2, <3>3, <3>4
    <3>6. deposited' = deposited
      BY <1>1, <3>5
    <3> QED
      BY <1>2, <3>6
  <2> QED
    BY <2>3, <2>4
<1>6. ASSUME NEW liquidator, NEW p \in DOMAIN positions, NEW mark, Liquidate(liquidator, p, mark)
      PROVE  \A u \in Users : FallsForOwnReasons(u)
  <2>1. PICK q : positions' = [positions EXCEPT ![p] = q] /\ q.status = "Liquidated"
    BY <1>6, LiquidatedPosition
  <2>2. positions[p].status = "Open"
    BY <1>6 DEF Liquidate, IsOpen
  <2>3. PICK x : deposited' = [deposited EXCEPT ![positions[p].owner] = x]
    BY <1>6 DEF Liquidate
  <2> QED
    BY <2>1, <2>2, <2>3, OwnerFallsForOwnReasons
<1>7. ASSUME NEW p \in DOMAIN positions, NEW mark, NEW payout, ClosePosition(p, mark, payout)
      PROVE  \A u \in Users : FallsForOwnReasons(u)
  <2>1. PICK q : positions' = [positions EXCEPT ![p] = q] /\ q.status = "Closed"
    BY <1>7, ClosedPosition
  <2>2. positions[p].status = "Open"
    BY <1>7 DEF ClosePosition, IsOpen
  <2>3. PICK x : deposited' = [deposited EXCEPT ![positions[p].owner] = x]
    BY <1>7 DEF ClosePosition
  <2> QED
    BY <2>1, <2>2, <2>3, OwnerFallsForOwnReasons
<1>8. ASSUME NEW taker, NEW maker, NEW price, NEW size, NEW tl, NEW ml,
             ClaimFill(taker, maker, price, size, tl, ml)
      PROVE  deposited' = deposited
  BY <1>8 DEF ClaimFill
<1>9. ASSUME NEW n \in Intervals, UpdateFunding(n) PROVE deposited' = deposited
  BY <1>9 DEF UpdateFunding
<1>10. ASSUME NEW b \in BOOLEAN, SetMarketPaused(b) PROVE deposited' = deposited
  BY <1>10 DEF SetMarketPaused
<1>11. CASE UNCHANGED vars
  BY <1>2, <1>11 DEF vars
<1> QED
  BY <1>2, <1>3, <1>4, <1>5, <1>6, <1>7, <1>8, <1>9, <1>10, <1>11 DEF Next

\* Users whose two balances do not change stay covered.
LEMMA SameBalancesStayCovered ==
  ASSUME TypeOK, NEW u \in Users, locked'[u] = locked[u], deposited'[u] = deposited[u]
  PROVE  StaysCovered(u)
<1>1. locked[u] \in Nat /\ deposited[u] \in Nat
  BY DEF TypeOK
<1> QED
  BY <1>1 DEF StaysCovered

\* An instruction on one balance keeps it covered if it does so for its owner.
LEMMA OwnerStaysCovered ==
  ASSUME TypeOK, NEW w \in Users, NEW l \in Int, NEW d \in Int,
         locked' = [locked EXCEPT ![w] = l], deposited' = [deposited EXCEPT ![w] = d],
         locked[w] <= deposited[w] /\ l > d => ClosedUnderwater(w)
  PROVE  \A u \in Users : StaysCovered(u)
<1> SUFFICES ASSUME NEW u \in Users PROVE StaysCovered(u)
  OBVIOUS
<1>1. locked \in [Users -> Nat] /\ deposited \in [Users -> Nat]
  BY DEF TypeOK
<1>2. CASE u = w
  <2>1. locked'[u] = l /\ deposited'[u] = d
    BY <1>1, <1>2
  <2> QED
    BY <1>2, <2>1 DEF StaysCovered
<1>3. CASE u # w
  <2>1. locked'[u] = locked[u] /\ deposited'[u] = deposited[u]
    BY <1>1, <1>3
  <2> QED
    BY <2>1, SameBalancesStayCovered
<1> QED
  BY <1>2, <1>3

\* Locking a margin that is free keeps the balance covered.
LEMMA ClaimStaysCovered ==
  ASSUME TypeOK, NEW taker \in Users, NEW maker \in Users, NEW price \in FillPrices,
         NEW size \in Sizes, NEW tl \in Leverages, NEW ml \in Leverages,
         ClaimFill(taker, maker, price, size, tl, ml), NEW u \in Users
  PROVE  StaysCovered(u)
<1> USE ClearingAssumption DEF ClearingAssumption
<1>1. locked \in [Users -> Nat] /\ deposited \in [Users -> Nat]
  BY DEF TypeOK
<1>2. PICK a \in Nat : a = NewPosition(taker, "Long", size, price, tl).collateral
  BY NewPositionType DEF Position, PositionSide
<1>3. PICK b \in Nat : b = NewPosition(maker, "Short", size, price, ml).collateral
  BY NewPositionType DEF Position, PositionSide
<1>4. /\ a <= Unlocked(deposited[taker], locked[taker])
      /\ b <= Unlocked(deposited[maker], locked[maker])
      /\ taker # maker
      /\ locked' = [locked EXCEPT ![taker] = @ + a, ![maker] = @ + b]
      /\ deposited' = deposited
  BY <1>2, <1>3 DEF ClaimFill
<1>5. PICK l \in Nat : l = locked[u]
  BY <1>1
<1>6. PICK d \in Nat : d = deposited[u] /\ d = deposited'[u]
  BY <1>1, <1>4
<1>7. CASE u = taker
  <2>1. locked'[u] = l + a
    BY <1>1, <1>4, <1>5, <1>7
  <2>2. a <= Unlocked(d, l)
    BY <1>4, <1>5, <1>6, <1>7
  <2>3. l <= d => l + a <= d
    BY <2>2 DEF Unlocked
  <2> QED
    BY <1>5, <1>6, <2>1, <2>3 DEF StaysCovered
<1>8. CASE u = maker
  <2>1. locked'[u] = l + b
    BY <1>1, <1>4, <1>5, <1>8
  <2>2. b <= Unlocked(d, l)
    BY <1>4, <1>5, <1>6, <1>8
  <2>3. l <= d => l + b <= d
    BY <2>2 DEF Unlocked
  <2> QED
    BY <1>5, <1>6, <2>1, <2>3 DEF StaysCovered
<1>9. CASE u # taker /\ u # maker
  <2>1. locked'[u] = locked[u] /\ deposited'[u] = deposited[u]
    BY <1>1, <1>4, <1>9
  <2> QED
    BY <2>1, SameBalancesStayCovered
<1> QED
  BY <1>7, <1>8, <1>9

\* A liquidation gives back at least as much margin as it charges.
LEMMA LiquidateStaysCovered ==
  ASSUME TypeOK, NEW liquidator \in Users, NEW p \in DOMAIN positions, NEW mark \in Marks,
         Liquidate(liquidator, p, mark)
  PROVE  \A u \in Users : StaysCovered(u)
<1> USE ClearingAssumption DEF ClearingAssumption
<1>1. PICK w \in Users : w = positions[p].owner
  BY PositionType DEF Position
<1>2. PICK delta \in Int : delta = PendingFunding(p)
  BY PositionType
<1>3. CanApplyFunding(p) /\ mark \in Nat
  BY DEF Liquidate, CanSettleLiquidation
<1>4. PICK m \in Nat : m = Margin(p)
  BY <1>3, LiquidationAmounts
<1>5. PICK remaining \in Nat : remaining = Remaining(p, mark)
  BY <1>3, <1>4, PositionType, RemainingType DEF Remaining
<1>6. PICK bounty \in Nat : bounty = Bounty(remaining) /\ bounty <= remaining
  BY BountyBound
<1>7. PICK loss \in Nat : loss = NetLoss(p, mark)
  BY <1>3, LiquidationAmounts
<1>8. loss <= m
  BY <1>4, <1>5, <1>6, <1>7 DEF NetLoss, Lesser
<1>9. PICK l \in Nat : l = locked[w]
  BY DEF TypeOK
<1>10. PICK d \in Nat : d = deposited[w]
  BY DEF TypeOK
<1>11. locked' = [locked EXCEPT ![w] = l - delta - m]
  BY <1>1, <1>2, <1>4, <1>9 DEF Liquidate
<1>12. deposited' = [deposited EXCEPT ![w] = d - delta - loss]
  BY <1>1, <1>2, <1>7, <1>10 DEF Liquidate
<1>13. l <= d => l - delta - m <= d - delta - loss
  BY <1>8
<1>14. l - delta - m \in Int /\ d - delta - loss \in Int
  OBVIOUS
<1>15. locked[w] <= deposited[w] /\ l - delta - m > d - delta - loss => ClosedUnderwater(w)
  BY <1>9, <1>10, <1>13, <1>14
<1> QED
  BY <1>11, <1>12, <1>14, <1>15, OwnerStaysCovered

\* A close uncovers the balance only by a loss above the collateral: it pays
\* out nothing unless the balance stays above the margin.
LEMMA CloseStaysCovered ==
  ASSUME TypeOK, NEW p \in DOMAIN positions, NEW mark \in Marks,
         NEW payout \in {0} \union Amounts, ClosePosition(p, mark, payout)
  PROVE  \A u \in Users : StaysCovered(u)
<1> USE ClearingAssumption DEF ClearingAssumption
<1>1. PICK w \in Users : w = positions[p].owner
  BY PositionType DEF Position
<1>2. PICK c \in Nat : c = positions[p].collateral
  BY PositionType DEF Position
<1>3. PICK pnl \in Int : pnl = Pnl(p, mark)
  BY PositionType
<1>4. PICK pay \in Nat : pay = payout
  OBVIOUS
<1>5. PICK l \in Nat : l = locked[w]
  BY DEF TypeOK
<1>6. PICK d \in Nat : d = deposited[w]
  BY DEF TypeOK
<1>7. pay > 0 => pay <= Unlocked(d + pnl, l - c)
  BY <1>1, <1>2, <1>3, <1>4, <1>5, <1>6 DEF ClosePosition
<1>8. locked' = [locked EXCEPT ![w] = l - c]
  BY <1>1, <1>2, <1>5 DEF ClosePosition
<1>9. deposited' = [deposited EXCEPT ![w] = d + pnl - pay]
  BY <1>1, <1>3, <1>4, <1>6 DEF ClosePosition
<1>10. l <= d /\ l - c > d + pnl - pay => d - (d + pnl - pay) > c
  BY <1>7 DEF Unlocked
<1>11. positions[p].status = "Open" /\ positions'[p].status = "Closed"
  <2>1. positions \in Seq(Position)
    BY DEF TypeOK
  <2>2. PICK q : positions' = [positions EXCEPT ![p] = q] /\ q.status = "Closed"
    BY ClosedPosition
  <2> QED
    BY <2>1, <2>2 DEF ClosePosition, IsOpen
<1>12. deposited'[w] = d + pnl - pay
  BY <1>9 DEF TypeOK
<1>13. locked[w] <= deposited[w] /\ l - c > d + pnl - pay => ClosedUnderwater(w)
  BY <1>1, <1>2, <1>5, <1>6, <1>10, <1>11, <1>12 DEF ClosedUnderwater
<1>14. l - c \in Int /\ d + pnl - pay \in Int
  OBVIOUS
<1> QED
  BY <1>8, <1>9, <1>13, <1>14, OwnerStaysCovered

LEMMA NextStaysCovered ==
  ASSUME TypeOK, [Next]_vars
  PROVE  \A u \in Users : StaysCovered(u)
<1> USE ClearingAssumption DEF ClearingAssumption
<1>1. ASSUME locked' = locked, deposited' = deposited PROVE \A u \in Users : StaysCovered(u)
  BY <1>1, SameBalancesStayCovered
<1>2. ASSUME NEW w \in Users, NEW amount \in Amounts, Deposit(w, amount)
      PROVE  \A u \in Users : StaysCovered(u)
  <2>1. PICK l \in Nat : l = locked[w]
    BY DEF TypeOK
  <2>2. PICK d \in Nat : d = deposited[w]
    BY DEF TypeOK
  <2>3. locked' = [locked EXCEPT ![w] = l]
    BY <1>2, <2>1 DEF Deposit, TypeOK
  <2>4. deposited' = [deposited EXCEPT ![w] = d + amount]
    BY <1>2, <2>2 DEF Deposit
  <2>5. ~(locked[w] <= deposited[w] /\ l > d + amount)
    BY <2>1, <2>2
  <2>6. l \in Int /\ d + amount \in Int
    BY <2>1, <2>2
  <2> QED
    BY <2>3, <2>4, <2>5, <2>6, OwnerStaysCovered
<1>3. ASSUME NEW w \in Users, NEW amount \in Amounts, Withdraw(w, amount)
      PROVE  \A u \in Users : StaysCovered(u)
  <2>1. PICK l \in Nat : l = locked[w]
    BY DEF TypeOK
  <2>2. PICK d \in Nat : d = deposited[w]
    BY DEF TypeOK
  <2>3. locked' = [locked EXCEPT ![w] = l]
    BY <1>3, <2>1 DEF Withdraw, TypeOK
  <2>4. deposited' = [deposited EXCEPT ![w] = d - amount]
    BY <1>3, <2>2 DEF Withdraw
  <2>5. amount <= Unlocked(d, l)
    BY <1>3, <2>1, <2>2 DEF Withdraw
  <2>6. ~(locked[w] <= deposited[w] /\ l > d - amount)
    BY <2>1, <2>2, <2>5 DEF Unlocked
  <2>7. l \in Int /\ d - amount \in Int
    BY <2>1, <2>2
  <2> QED
    BY <2>3, <2>4, <2>6, <2>7, OwnerStaysCovered
<1>4. ASSUME NEW p \in DOMAIN positions, AccrueFunding(p)
      PROVE  \A u \in Users : StaysCovered(u)
  <2>1. PICK w \in Users : w = positions[p].owner
    BY PositionType DEF Position
  <2>2. PICK delta \in Int : delta = PendingFunding(p)
    BY PositionType
  <2>3. PICK l \in Nat : l = locked[w]
    BY DEF TypeOK
  <2>4. PICK d \in Nat : d = deposited[w]
    BY DEF TypeOK
  <2>5. locked' = [locked EXCEPT ![w] = l - delta] /\ deposited' = [deposited EXCEPT ![w] = d - delta]
    BY <1>4, <2>1, <2>2, <2>3, <2>4 DEF AccrueFunding
  <2>6. ~(locked[w] <= deposited[w] /\ l - delta > d - delta)
    BY <2>3, <2>4
  <2>7. l - delta \in Int /\ d - delta \in Int
    BY <2>2, <2>3, <2>4
  <2> QED
    BY <2>1, <2>5, <2>6, <2>7, OwnerStaysCovered
<1>5. ASSUME NEW n \in Intervals, UpdateFunding(n)
      PROVE  locked' = locked /\ deposited' = deposited
  BY <1>5 DEF UpdateFunding
<1>6. ASSUME NEW b \in BOOLEAN, SetMarketPaused(b)
      PROVE  locked' = locked /\ deposited' = deposited
  BY <1>6 DEF SetMarketPaused
<1>7. CASE UNCHANGED vars
  BY <1>1, <1>7 DEF vars
<1> QED
  BY <1>1, <1>2, <1>3, <1>4, <1>5, <1>6, <1>7,
     ClaimStaysCovered, LiquidateStaysCovered, CloseStaysCovered DEF Next

-----------------------------------------------------------------------------
\* In every market, a position ends once: what identifies it never changes, and
\* a closed or liquidated one is never touched again.
THEOREM PositionsEndOnceAlways == Spec => PositionsEndOnce
<1>1. TypeOK /\ [Next]_vars =>
        [\A p \in DOMAIN positions :
           /\ p \in DOMAIN positions'
           /\ \A field \in {"owner", "side", "size", "entry", "leverage"} :
                positions'[p][field] = positions[p][field]
           /\ positions[p].status # "Open" => positions'[p] = positions[p]]_vars
  BY NextEndsOnce DEF EndsOnce
<1> QED
  BY <1>1, TypeCorrect, PTL DEF Spec, PositionsEndOnce

\* At every price and after any funding, a liquidation takes from its owner no
\* more than the collateral the position had.
THEOREM LiquidationBounded == Spec => LiquidationChargesAtMostCollateral
<1>1. TypeOK /\ [Next]_vars =>
        [\A p \in DOMAIN positions :
           positions[p].status = "Open" /\ positions'[p].status = "Liquidated" =>
             deposited[positions[p].owner] - deposited'[positions[p].owner]
               <= positions[p].collateral]_vars
  BY NextChargesAtMostCollateral DEF ChargedAtMostCollateral
<1> QED
  BY <1>1, TypeCorrect, PTL DEF Spec, LiquidationChargesAtMostCollateral

\* In every market, nobody's balance falls because of a position of somebody
\* else: it falls by a withdrawal of that amount or by an instruction on a
\* position of the same user.
THEOREM FallsForOwnReasonsAlways == Spec => DepositsFallForOwnReasons
<1>1. TypeOK /\ [Next]_vars =>
        [\A u \in Users : deposited'[u] < deposited[u] =>
           \/ \E p \in DOMAIN positions : positions[p].owner = u /\ positions'[p] # positions[p]
           \/ vault - vault' = deposited[u] - deposited'[u]]_vars
  BY NextFallsForOwnReasons DEF FallsForOwnReasons
<1> QED
  BY <1>1, TypeCorrect, PTL DEF Spec, DepositsFallForOwnReasons

\* In every market, margin that is covered by its owner's balance stays covered
\* whatever anybody does, but for the owner's close at a loss larger than the
\* collateral of the closed position.
THEOREM MarginStaysCovered == Spec => OnlyUnderwaterCloseUncoversMargin
<1>1. TypeOK /\ [Next]_vars =>
        [\A u \in Users : locked[u] <= deposited[u] /\ locked'[u] > deposited'[u] =>
           \E p \in DOMAIN positions :
             /\ positions[p].owner = u
             /\ positions[p].status = "Open" /\ positions'[p].status = "Closed"
             /\ deposited[u] - deposited'[u] > positions[p].collateral]_vars
  BY NextStaysCovered DEF StaysCovered, ClosedUnderwater
<1> QED
  BY <1>1, TypeCorrect, PTL DEF Spec, OnlyUnderwaterCloseUncoversMargin

-----------------------------------------------------------------------------
(* The watcher, the cron and those who act beside them only take steps of  *)
(* the clearing house, for any number of runs, positions and quotes and    *)
(* from any books that are right: so the books stay right, and what is     *)
(* proved of the steps of Clearing holds with its keepers.  A keeper acts  *)
(* on a list it read some time before; that its positions still exist, and *)
(* the price it names is one the oracle reports, is what the invariant is  *)
(* for.                                                                    *)

\* No position account is ever removed or renumbered by an end or an accrual.
LEMMA PositionsKept ==
  ASSUME \/ \E p \in DOMAIN positions, mark \in Nat, payout \in {0} \union Amounts : ClosePosition(p, mark, payout)
         \/ \E u \in Users, p \in DOMAIN positions, mark \in Nat : Liquidate(u, p, mark)
         \/ \E p \in DOMAIN positions : AccrueFunding(p)
         \/ \E n \in Intervals : UpdateFunding(n)
         \/ UNCHANGED ledger
  PROVE  DOMAIN positions' = DOMAIN positions
<1>1. CASE \E p \in DOMAIN positions, mark \in Nat, payout \in {0} \union Amounts : ClosePosition(p, mark, payout)
  <2>1. PICK p \in DOMAIN positions, mark \in Nat, payout \in {0} \union Amounts : ClosePosition(p, mark, payout)
    BY <1>1
  <2>2. positions' = [positions EXCEPT ![p].status = "Closed", ![p].collateral = 0]
    BY <2>1, Zenon DEF ClosePosition
  <2> QED BY <2>2
<1>2. CASE \E u \in Users, p \in DOMAIN positions, mark \in Nat : Liquidate(u, p, mark)
  BY <1>2 DEF Liquidate
<1>3. CASE \E p \in DOMAIN positions : AccrueFunding(p)
  BY <1>3 DEF AccrueFunding
<1>4. CASE \E n \in Intervals : UpdateFunding(n)
  BY <1>4 DEF UpdateFunding
<1>5. CASE UNCHANGED ledger
  BY <1>5 DEF ledger
<1> QED BY <1>1, <1>2, <1>3, <1>4, <1>5

\* The oracle reports what the feed quotes.
QuotesAreMarks == \A quote \in Quotes : Scaled(quote) \in Marks

LEMMA MarkIsReported ==
  ASSUME QuotesAreMarks, ServicesOK
  PROVE  Mark \in Marks /\ Mark \in Nat
  BY ClearingAssumption DEF ServicesOK, Mark, QuotesAreMarks

\* What the ledger does, whoever makes it.
LedgerStep == [Next]_vars /\ DOMAIN positions' = DOMAIN positions

LEMMA UnchangedLedger == UNCHANGED ledger => LedgerStep
  BY DEF ledger, LedgerStep, vars

\* The watcher goes on with positions that exist.
LEMMA ProceedOK ==
  ASSUME ServicesOK, NEW r \in Runs, NEW todo \in SUBSET DOMAIN positions, Proceed(r, todo)
  PROVE  /\ watcher' \in [Runs -> [stage : {"idle", "fetching", "sending"}, quote : Quotes \union {NoQuote},
                                   todo : SUBSET DOMAIN positions, pos : {0} \union DOMAIN positions]]
         /\ \A q \in Runs : watcher'[q].stage = "sending" => watcher'[q].pos \in DOMAIN positions
         /\ cooling' \subseteq DOMAIN positions
<1> USE DEF ServicesOK
<1>1. CASE todo \ cooling = {}
  <2>1. watcher' = [watcher EXCEPT ![r] = Idle] /\ cooling' = cooling
    BY <1>1 DEF Proceed
  <2> QED BY <2>1 DEF Idle
<1>2. CASE todo \ cooling # {}
  <2>1. PICK p \in todo \ cooling :
          /\ watcher' = [watcher EXCEPT ![r] =
                           [stage |-> "sending", quote |-> NoQuote, todo |-> todo \ {p}, pos |-> p]]
          /\ cooling' = cooling \union {p}
    BY <1>2 DEF Proceed
  <2>2. [stage |-> "sending", quote |-> NoQuote, todo |-> todo \ {p}, pos |-> p] \in
          [stage : {"idle", "fetching", "sending"}, quote : Quotes \union {NoQuote},
           todo : SUBSET DOMAIN positions, pos : {0} \union DOMAIN positions]
    OBVIOUS
  <2> QED BY <2>1, <2>2
<1> QED BY <1>1, <1>2

\* The conjuncts of ServicesOK about the cron.
CronOK ==
  /\ cron \in [stage : {"idle", "updating", "fetching", "accruing"},
               batch : SUBSET DOMAIN positions, rest : SUBSET DOMAIN positions]
  /\ cron.batch # {} <=> cron.stage = "accruing"
  /\ Cardinality(cron.batch) <= BatchSize
  /\ cron.batch \intersect cron.rest = {}

LEMMA FinitePositions ==
  ASSUME TypeOK, NEW S \in SUBSET DOMAIN positions
  PROVE  IsFiniteSet(S) /\ Cardinality(S) \in Nat
<1>1. DOMAIN positions = 1 .. Len(positions) /\ Len(positions) \in Nat
  BY DEF TypeOK
<1>2. IsFiniteSet(1 .. Len(positions))
  BY <1>1, FS_Interval
<1> QED BY <1>1, <1>2, FS_Subset, FS_CardinalityType

LEMMA IdleCron ==
  ASSUME cron' = CronIdle, DOMAIN positions' = DOMAIN positions
  PROVE  CronOK'
  BY KeepersAssumption, FS_EmptySet DEF CronOK, CronIdle

LEMMA NextBatchOK ==
  ASSUME TypeOK, NEW list \in SUBSET DOMAIN positions, NextBatch(list),
         DOMAIN positions' = DOMAIN positions
  PROVE  CronOK'
<1>1. PICK batch \in SUBSET list :
        /\ Cardinality(batch) = IF Cardinality(list) < BatchSize THEN Cardinality(list) ELSE BatchSize
        /\ cron' = IF list = {} THEN CronIdle
                   ELSE [stage |-> "accruing", batch |-> batch, rest |-> list \ batch]
  BY DEF NextBatch
<1>2. IsFiniteSet(list) /\ Cardinality(list) \in Nat /\ BatchSize \in Nat \ {0}
  BY FinitePositions, KeepersAssumption
<1>3. CASE list = {}
  BY <1>1, <1>3, IdleCron
<1>4. CASE list # {}
  <2>1. Cardinality(list) # 0
    BY <1>2, <1>4, FS_EmptySet
  <2>2. Cardinality(batch) <= BatchSize /\ Cardinality(batch) # 0
    BY <1>1, <1>2, <2>1
  <2>3. batch # {}
    BY <2>2, FS_EmptySet
  <2>4. cron' = [stage |-> "accruing", batch |-> batch, rest |-> list \ batch]
    BY <1>1, <1>4
  <2> QED BY <2>2, <2>3, <2>4 DEF CronOK
<1> QED BY <1>3, <1>4

\* A position of the batch is done with, or its request has failed.
LEMMA CronSettledOK ==
  ASSUME TypeOK, CronOK, NEW p \in cron.batch, CronSettled(p),
         DOMAIN positions' = DOMAIN positions
  PROVE  CronOK'
<1>1. CASE cron.batch = {p}
  BY <1>1, NextBatchOK DEF CronSettled, CronOK
<1>2. CASE cron.batch # {p}
  <2>1. cron' = [cron EXCEPT !.batch = cron.batch \ {p}]
    BY <1>2 DEF CronSettled
  <2>2. cron.batch \ {p} # {}
    BY <1>2
  <2>3. Cardinality(cron.batch \ {p}) <= BatchSize
    BY FinitePositions, FS_RemoveElement, KeepersAssumption DEF CronOK
  <2> QED BY <2>1, <2>2, <2>3 DEF CronOK
<1> QED BY <1>1, <1>2

\* ServicesOK without the cron.
WatcherOK ==
  /\ service \in {"watcher", "cron"}
  /\ feed \in Quotes
  /\ posted \in [quote : Quotes, fresh : BOOLEAN]
  /\ watcher \in [Runs -> [stage : {"idle", "fetching", "sending"}, quote : Quotes \union {NoQuote},
                           todo : SUBSET DOMAIN positions, pos : {0} \union DOMAIN positions]]
  /\ \A r \in Runs : watcher[r].stage = "sending" => watcher[r].pos \in DOMAIN positions
  /\ failures \in 0 .. MaxFailures
  /\ cooling \subseteq DOMAIN positions

LEMMA ServicesSplit == ServicesOK <=> WatcherOK /\ CronOK
  BY DEF ServicesOK, WatcherOK, CronOK

LEMMA ServicesJoined == WatcherOK' /\ CronOK' => ServicesOK'
  BY DEF ServicesOK, WatcherOK, CronOK

LEMMA FailuresBounded ==
  ASSUME failures \in 0 .. MaxFailures, RequestFails
  PROVE  failures' \in 0 .. MaxFailures
  BY KeepersAssumption DEF RequestFails

\* One step of the keepers and of those beside them.
LEMMA KeepersStep ==
  ASSUME QuotesAreMarks, TypeOK, ServicesOK, [KNext]_allVars
  PROVE  LedgerStep /\ ServicesOK'
<1>0. WatcherOK /\ CronOK /\ Mark \in Marks /\ Mark \in Nat
  BY ServicesSplit, MarkIsReported
<1>1. ASSUME NEW quote \in Quotes, FeedMoves(quote) PROVE LedgerStep /\ ServicesOK'
  <2>1. WatcherOK' /\ CronOK' /\ UNCHANGED ledger
    BY <1>0, <1>1 DEF FeedMoves, WatcherOK, CronOK, ledger
  <2> QED BY <2>1, UnchangedLedger, ServicesJoined
<1>2. CASE PostPrice \/ PriceAges
  <2>1. posted' \in [quote : Quotes, fresh : BOOLEAN]
    <3>1. CASE PostPrice
      BY <1>0, <3>1 DEF PostPrice, WatcherOK
    <3>2. CASE PriceAges
      <4>1. [posted EXCEPT !.fresh = FALSE] \in [quote : Quotes, fresh : BOOLEAN]
        BY <1>0, Zenon DEF WatcherOK
      <4> QED BY <3>2, <4>1 DEF PriceAges
    <3> QED BY <1>2, <3>1, <3>2
  <2>2. WatcherOK' /\ CronOK' /\ UNCHANGED ledger
    BY <1>0, <1>2, <2>1 DEF PostPrice, PriceAges, WatcherOK, CronOK, ledger
  <2> QED BY <2>2, UnchangedLedger, ServicesJoined
<1>3. CASE OwnerCloses
  <2>1. PICK p \in DOMAIN positions, payout \in {0} \union Amounts : ClosePosition(p, Mark, payout)
    BY <1>3 DEF OwnerCloses
  <2>2. LedgerStep
    BY <1>0, <2>1, PositionsKept DEF LedgerStep, Next
  <2>3. WatcherOK' /\ CronOK'
    BY <1>0, <1>3, <2>2 DEF OwnerCloses, LedgerStep, WatcherOK, CronOK, oracle
  <2> QED BY <2>2, <2>3, ServicesJoined
<1>4. CASE OthersKeep
  <2>1. LedgerStep
    <3>1. CASE \E u \in Users, p \in DOMAIN positions : Liquidate(u, p, Mark)
      BY <1>0, <3>1, PositionsKept DEF LedgerStep, Next
    <3>2. CASE \E n \in Intervals : UpdateFunding(n)
      BY <3>2, PositionsKept DEF LedgerStep, Next
    <3>3. CASE \E p \in DOMAIN positions : AccrueFunding(p)
      BY <3>3, PositionsKept DEF LedgerStep, Next
    <3> QED BY <1>4, <3>1, <3>2, <3>3 DEF OthersKeep, OthersLiquidate, OthersFund
  <2>2. WatcherOK' /\ CronOK'
    BY <1>0, <1>4, <2>1 DEF OthersKeep, OthersLiquidate, OthersFund, LedgerStep, WatcherOK, CronOK, oracle
  <2> QED BY <2>1, <2>2, ServicesJoined
<1>5. ASSUME NEW r \in Runs, Tick(r) \/ FetchPositions(r) \/ FetchPositionsFails(r)
      PROVE  LedgerStep /\ ServicesOK'
  <2>1. UNCHANGED ledger /\ DOMAIN positions' = DOMAIN positions
    BY <1>5 DEF Tick, FetchPositions, FetchPositionsFails, ledger
  <2>2. /\ watcher' \in [Runs -> [stage : {"idle", "fetching", "sending"}, quote : Quotes \union {NoQuote},
                                   todo : SUBSET DOMAIN positions, pos : {0} \union DOMAIN positions]]
        /\ \A q \in Runs : watcher'[q].stage = "sending" => watcher'[q].pos \in DOMAIN positions
        /\ cooling' \subseteq DOMAIN positions
    <3>1. CASE Tick(r)
      <4>1. /\ watcher' = [watcher EXCEPT ![r] = [stage |-> "fetching", quote |-> feed, todo |-> {}, pos |-> 0]]
            /\ UNCHANGED <<cooling, positions>>
        BY <3>1, Zenon DEF Tick, ledger
      <4> QED BY <1>0, <4>1 DEF WatcherOK
    <3>2. CASE FetchPositions(r)
      <4>1. Proceed(r, {p \in DOMAIN positions : Fetched(p) /\ ComputeMarkRisk(p, Scaled(watcher[r].quote))})
        BY <3>2 DEF FetchPositions
      <4> QED BY <4>1, ProceedOK
    <3>3. CASE FetchPositionsFails(r)
      BY <1>0, <3>3 DEF FetchPositionsFails, WatcherOK, Idle
    <3> QED BY <1>5, <3>1, <3>2, <3>3
  <2>3. failures' \in 0 .. MaxFailures
    BY <1>0, <1>5, FailuresBounded DEF Tick, FetchPositions, FetchPositionsFails, WatcherOK
  <2>4. UNCHANGED <<service, feed, posted, cron>>
    BY <1>5 DEF Tick, FetchPositions, FetchPositionsFails, oracle
  <2>5. WatcherOK' /\ CronOK'
    BY <1>0, <2>1, <2>2, <2>3, <2>4 DEF WatcherOK, CronOK
  <2> QED BY <2>1, <2>5, UnchangedLedger, ServicesJoined
<1>6. ASSUME NEW r \in Runs, LiquidationLands(r) \/ LiquidationFails(r)
      PROVE  LedgerStep /\ ServicesOK'
  <2>1. watcher[r].pos \in DOMAIN positions /\ watcher[r].todo \in SUBSET DOMAIN positions
    BY <1>0, <1>6 DEF LiquidationLands, LiquidationFails, WatcherOK
  <2>2. LedgerStep
    <3>1. CASE LiquidationLands(r)
      <4>1. Liquidate(Watcher, watcher[r].pos, Mark) /\ Watcher \in Users
        BY <3>1, ClearingAssumption, KeepersAssumption DEF LiquidationLands, Watcher, Users
      <4> QED BY <1>0, <2>1, <4>1, PositionsKept DEF LedgerStep, Next
    <3>2. CASE LiquidationFails(r)
      BY <3>2, UnchangedLedger DEF LiquidationFails
    <3> QED BY <1>6, <3>1, <3>2
  <2>3. Proceed(r, watcher[r].todo)
    BY <1>6 DEF LiquidationLands, LiquidationFails
  <2>4. failures' \in 0 .. MaxFailures
    BY <1>0, <1>6, FailuresBounded DEF LiquidationLands, LiquidationFails, WatcherOK
  <2>5. UNCHANGED <<service, feed, posted, cron>>
    BY <1>6 DEF LiquidationLands, LiquidationFails, oracle
  <2>6. WatcherOK' /\ CronOK'
    BY <1>0, <2>1, <2>2, <2>3, <2>4, <2>5, ProceedOK DEF WatcherOK, CronOK, LedgerStep
  <2> QED BY <2>2, <2>6, ServicesJoined
<1>7. ASSUME NEW p \in PositionIds, CooldownEnds(p) PROVE LedgerStep /\ ServicesOK'
  <2>1. WatcherOK' /\ CronOK' /\ UNCHANGED ledger
    BY <1>0, <1>7 DEF CooldownEnds, WatcherOK, CronOK, ledger, oracle
  <2> QED BY <2>1, UnchangedLedger, ServicesJoined
<1>8. CASE CronStarts \/ CronUpdateFails \/ CronFetches \/ CronFetchFails
  <2>1. UNCHANGED ledger /\ DOMAIN positions' = DOMAIN positions
    BY <1>8 DEF CronStarts, CronUpdateFails, CronFetches, CronFetchFails, ledger
  <2>2. CronOK'
    <3>1. CASE CronStarts
      BY <1>0, <2>1, <3>1 DEF CronStarts, CronOK
    <3>2. CASE CronUpdateFails \/ CronFetchFails
      BY <2>1, <3>2, IdleCron DEF CronUpdateFails, CronFetchFails
    <3>3. CASE CronFetches
      BY <2>1, <3>3, NextBatchOK DEF CronFetches
    <3> QED BY <1>8, <3>1, <3>2, <3>3
  <2>3. failures' \in 0 .. MaxFailures
    BY <1>0, <1>8, FailuresBounded DEF CronStarts, CronUpdateFails, CronFetches, CronFetchFails, WatcherOK
  <2>4. UNCHANGED <<service, feed, posted, watcher, cooling>>
    BY <1>8 DEF CronStarts, CronUpdateFails, CronFetches, CronFetchFails, oracle
  <2>5. WatcherOK'
    BY <1>0, <2>1, <2>3, <2>4 DEF WatcherOK
  <2> QED BY <2>1, <2>2, <2>5, UnchangedLedger, ServicesJoined
<1>9. CASE CronUpdates
  <2>1. LedgerStep
    BY <1>9, PositionsKept DEF CronUpdates, LedgerStep, Next
  <2>2. CronOK'
    BY <1>0, <1>9, <2>1 DEF CronUpdates, LedgerStep, CronOK
  <2>3. WatcherOK'
    BY <1>0, <1>9, <2>1 DEF CronUpdates, LedgerStep, WatcherOK, oracle
  <2> QED BY <2>1, <2>2, <2>3, ServicesJoined
<1>10. ASSUME NEW p \in PositionIds, CronAccrues(p) \/ CronAccrueFails(p) PROVE LedgerStep /\ ServicesOK'
  <2>1. p \in cron.batch /\ p \in DOMAIN positions /\ CronSettled(p)
    BY <1>0, <1>10 DEF CronAccrues, CronAccrueFails, CronOK
  <2>2. LedgerStep
    <3>1. CASE CronAccrues(p)
      BY <2>1, <3>1, PositionsKept DEF CronAccrues, LedgerStep, Next
    <3>2. CASE CronAccrueFails(p)
      BY <3>2, UnchangedLedger DEF CronAccrueFails, CronRefused
    <3> QED BY <1>10, <3>1, <3>2
  <2>3. CronOK'
    BY <1>0, <2>1, <2>2, CronSettledOK DEF LedgerStep
  <2>4. failures' \in 0 .. MaxFailures
    BY <1>0, <1>10, FailuresBounded DEF CronAccrues, CronAccrueFails, CronRefused, WatcherOK
  <2>5. UNCHANGED <<service, feed, posted, watcher, cooling>>
    BY <1>10 DEF CronAccrues, CronAccrueFails, CronRefused, oracle
  <2>6. WatcherOK'
    BY <1>0, <2>2, <2>4, <2>5 DEF WatcherOK, LedgerStep
  <2> QED BY <2>2, <2>3, <2>6, ServicesJoined
<1>11. CASE UNCHANGED allVars
  <2>1. WatcherOK' /\ CronOK' /\ UNCHANGED ledger
    BY <1>0, <1>11 DEF allVars, WatcherOK, CronOK, ledger, oracle
  <2> QED BY <2>1, UnchangedLedger, ServicesJoined
<1> QED
  BY <1>1, <1>2, <1>3, <1>4, <1>5, <1>6, <1>7, <1>8, <1>9, <1>10, <1>11 DEF KNext

LEMMA KInitOK == KInit => Inv /\ ServicesOK
<1> SUFFICES ASSUME KInit PROVE Inv /\ ServicesOK
  OBVIOUS
<1>1. Inv
  BY DEF KInit, BooksAreRight, Inv
<1>2. WatcherOK
  BY KeepersAssumption DEF KInit, StartServices, WatcherOK, Idle
<1>3. CronOK
  BY KeepersAssumption, FS_EmptySet DEF KInit, StartServices, CronOK, CronIdle
<1> QED BY <1>1, <1>2, <1>3, ServicesSplit

LEMMA KeepersAlways ==
  ASSUME QuotesAreMarks
  PROVE  KSpec => [](Inv /\ ServicesOK)
<1>1. Inv /\ ServicesOK /\ [KNext]_allVars => (Inv /\ ServicesOK)'
  BY KeepersStep, NextInv DEF Inv, LedgerStep
<1> QED BY <1>1, KInitOK, PTL DEF KSpec

\* Steps of the keepers are steps of Clearing: what is proved of its steps is so
\* of theirs.
LEMMA KeepersClear ==
  ASSUME QuotesAreMarks
  PROVE  KSpec => [][Next]_vars
<1>1. Inv /\ ServicesOK /\ [KNext]_allVars => [Next]_vars
  BY KeepersStep DEF Inv, LedgerStep
<1> QED BY <1>1, KeepersAlways, PTL DEF KSpec

\* The types and the books stay right whatever the keepers do, however their runs
\* overlap and however old the lists are that they work from.
THEOREM KeepersKeepBooks ==
  ASSUME QuotesAreMarks
  PROVE  KSpec => [](KTypeOK /\ BooksAreRight)
<1>1. Inv /\ ServicesOK => KTypeOK /\ BooksAreRight
  BY DEF Inv, KTypeOK, BooksAreRight
<1> QED BY <1>1, KeepersAlways, PTL

\* A run that waits for a liquidation goes on with it or without, and only then
\* has the step in which it goes on touched the ledger.
LEMMA LandsForItself ==
  ASSUME ServicesOK, KNext, NEW r \in Runs, watcher[r].stage = "sending", watcher'[r] # watcher[r], positions' # positions
  PROVE  Liquidate(Watcher, watcher[r].pos, Mark)
<1>1. ASSUME UNCHANGED watcher PROVE FALSE
  BY <1>1
<1>2. ASSUME UNCHANGED ledger PROVE FALSE
  BY <1>2 DEF ledger
<1>3. ASSUME NEW quote \in Quotes, FeedMoves(quote) PROVE FALSE
  BY <1>1, <1>3, Zenon DEF FeedMoves
<1>4. ~ PostPrice /\ ~ PriceAges /\ ~ OwnerCloses /\ ~ OthersKeep
  BY <1>1 DEF PostPrice, PriceAges, OwnerCloses, OthersKeep
<1>5. ASSUME NEW q \in Runs, Tick(q) \/ FetchPositions(q) \/ FetchPositionsFails(q) \/ LiquidationFails(q)
      PROVE  FALSE
  BY <1>2, <1>5 DEF Tick, FetchPositions, FetchPositionsFails, LiquidationFails
<1>6. ASSUME NEW q \in Runs, LiquidationLands(q) PROVE q = r
  <2>1. \E v : watcher' = [watcher EXCEPT ![q] = v]
    BY <1>6 DEF LiquidationLands, Proceed
  <2>2. PICK v : watcher' = [watcher EXCEPT ![q] = v]
    BY <2>1
  <2>3. ASSUME q # r PROVE watcher'[r] = watcher[r]
    BY <2>2, <2>3 DEF ServicesOK
  <2> QED BY <2>3
<1>7. ASSUME NEW p \in PositionIds, CooldownEnds(p) \/ CronAccrues(p) \/ CronAccrueFails(p) PROVE FALSE
  BY <1>1, <1>7 DEF CooldownEnds, CronAccrues, CronAccrueFails, CronRefused
<1>8. ~ CronStarts /\ ~ CronUpdates /\ ~ CronUpdateFails /\ ~ CronFetches /\ ~ CronFetchFails
  BY <1>1 DEF CronStarts, CronUpdates, CronUpdateFails, CronFetches, CronFetchFails
<1>9. LiquidationLands(r)
  BY <1>3, <1>4, <1>5, <1>6, <1>7, <1>8, Zenon DEF KNext
<1> QED BY <1>9 DEF LiquidationLands

LEMMA QuotientExists ==
  ASSUME NEW a \in Nat, NEW b \in Nat \ {0}
  PROVE  \E n \in Nat : n = a \div b /\ a < b * n + b
<1>1. PICK n \in Nat : n = a \div b
  BY DivNat
<1>2. a < b * n + b
  BY <1>1
<1> QED BY <1>1, <1>2

\* The numerator of computeMarkRisk.
InBps(c) == c * 10000

LEMMA BpsType == \A c \in Nat : InBps(c) \in Nat
  BY DEF InBps

\* A ratio below one says that the divisor is the larger.
LEMMA LowRatio ==
  ASSUME NEW c \in Nat, NEW loss \in Nat \ {0}, InBps(c) \div loss < LiquidationThresholdBps
  PROVE  loss >= c
<1>1. InBps(c) = c * 10000
  BY DEF InBps
<1>2. PICK n \in Nat : n = InBps(c) \div loss /\ InBps(c) < loss * n + loss
  <2>1. InBps(c) \in Nat
    BY BpsType, Zenon
  <2> QED BY <2>1, QuotientExists, Zenon
<1>3. n < LiquidationThresholdBps
  BY <1>2, Zenon
<1>4. n <= 9999
  BY <1>3 DEF LiquidationThresholdBps
<1>5. loss * n <= loss * 9999
  BY <1>4
<1> QED BY <1>1, <1>2, <1>5

\* What the watcher's rule finds has nothing left, unless funding is a credit.
LEMMA NothingLeft ==
  ASSUME TypeOK, NEW p \in DOMAIN positions, NEW mark \in Nat, NEW u,
         Liquidate(u, p, mark), ComputeMarkRisk(p, mark), PendingFunding(p) >= 0
  PROVE  vault' = vault
<1>1. PICK c \in Nat : c = positions[p].collateral
  BY PositionType DEF Position
<1>2. PICK pnl \in Int : pnl = Pnl(p, mark)
  BY PositionType
<1>3. PICK delta \in Int : delta = PendingFunding(p)
  BY PositionType
<1>4. PICK loss \in Int : loss = -Pnl(p, mark) /\ loss = -pnl
  BY <1>2
<1>5. loss >= c
  <2>1. loss > 0 /\ (loss >= c \/ InBps(c) \div loss < LiquidationThresholdBps)
    BY <1>1, <1>4 DEF ComputeMarkRisk, InBps
  <2>2. loss \in Nat \ {0}
    BY <1>4, <2>1
  <2>3. CASE InBps(c) \div loss < LiquidationThresholdBps
    BY <2>2, <2>3, LowRatio, Zenon
  <2> QED BY <2>1, <2>3, Zenon
<1>6. Margin(p) = c - delta /\ (c - delta) + pnl <= 0
  BY <1>1, <1>3, <1>4, <1>5 DEF Margin
<1>7. Remaining(p, mark) = 0
  BY <1>2, <1>3, <1>6 DEF Remaining, CollateralAfterPnl
<1>8. Bounty(Remaining(p, mark)) = 0
  BY <1>7 DEF Bounty, LiquidationBountyBps
<1>9. vault' = vault - Bounty(Remaining(p, mark)) /\ vault \in Nat
  BY DEF Liquidate, TypeOK
<1> QED BY <1>8, <1>9

\* computeMarkRisk of services/liquidation-watcher finds a position when the loss
\* has used up the collateral, so that liquidate_position pays the watcher
\* nothing, unless the price turned or funding is owed to the position.
THEOREM KeepersCollectNoBounty ==
  ASSUME QuotesAreMarks
  PROVE  KSpec => WatcherCollectsNoBounty
<1> DEFINE P ==
      \A r \in Runs : \A p \in DOMAIN positions :
        /\ watcher[r].stage = "sending" /\ watcher[r].pos = p /\ watcher'[r] # watcher[r]
        /\ positions'[p].status = "Liquidated" /\ positions[p].status = "Open"
        /\ ComputeMarkRisk(p, Mark)
        /\ PendingFunding(p) >= 0
        => vault' = vault
<1>1. Inv /\ ServicesOK /\ [KNext]_allVars => [P]_allVars
  <2> SUFFICES ASSUME Inv, ServicesOK, KNext, NEW r \in Runs, NEW p \in DOMAIN positions,
                      watcher[r].stage = "sending", watcher[r].pos = p, watcher'[r] # watcher[r],
                      positions'[p].status = "Liquidated", positions[p].status = "Open",
                      ComputeMarkRisk(p, Mark), PendingFunding(p) >= 0
               PROVE  vault' = vault
    OBVIOUS
  <2>1. positions' # positions
    OBVIOUS
  <2>2. Liquidate(Watcher, p, Mark)
    BY <2>1, LandsForItself
  <2>3. TypeOK /\ Mark \in Nat
    BY MarkIsReported DEF Inv
  <2> QED BY <2>2, <2>3, NothingLeft
<1>2. KSpec => [][P]_allVars
  BY <1>1, KeepersAlways, PTL DEF KSpec
<1> QED BY <1>2 DEF WatcherCollectsNoBounty

\* A liquidation costs no owner more than the collateral, whoever sends it and
\* however old the list is that its position was picked from.
THEOREM KeepersChargeAtMostCollateral ==
  ASSUME QuotesAreMarks
  PROVE  KSpec => LiquidationChargesAtMostCollateral
<1>1. TypeOK /\ [Next]_vars =>
        [\A p \in DOMAIN positions :
           positions[p].status = "Open" /\ positions'[p].status = "Liquidated" =>
             deposited[positions[p].owner] - deposited'[positions[p].owner]
               <= positions[p].collateral]_vars
  BY NextChargesAtMostCollateral DEF ChargedAtMostCollateral
<1>2. Inv => TypeOK
  BY DEF Inv
<1> QED
  BY <1>1, <1>2, KeepersAlways, KeepersClear, PTL DEF LiquidationChargesAtMostCollateral
=============================================================================
