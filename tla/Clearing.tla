------------------------------ MODULE Clearing ------------------------------
(***************************************************************************)
(* The clearing house of one DarkBook market: user accounts, the vault,    *)
(* positions, open interest, funding and liquidation (ix/collateral.rs,    *)
(* ix/settlement.rs, ix/positions.rs, ix/funding.rs).  One instruction is  *)
(* one action; checked arithmetic that would fail is a guard.              *)
(*                                                                         *)
(* The order book is not in this module: claim_fill takes any fill between *)
(* two traders, and the oracle reports any price of Marks.                 *)
(***************************************************************************)
EXTENDS Sums, Margin, Sequences, FiniteSets

CONSTANTS
  NumUsers,      \* user accounts, numbered from 1
  Amounts,       \* token amounts deposited, withdrawn or paid out
  FillPrices,    \* prices at which fills were matched
  Marks,         \* prices the oracle may report
  Sizes,         \* revealed size_lots
  Leverages,     \* revealed leverage_bps
  Intervals,     \* whole funding intervals that may have elapsed at an update
  MaxPositions,  \* bound of the model on the positions ever opened
  MaxVault,      \* bound of the model on the tokens in the vault
  MaxFundingIdx  \* bound of the model on the cumulative funding index

ASSUME ClearingAssumption ==
  /\ NumUsers \in Nat
  /\ Amounts \subseteq Nat
  /\ FillPrices \subseteq Nat
  /\ Marks \subseteq Nat
  /\ Sizes \subseteq Nat
  /\ Leverages \subseteq Nat \ {0}
  /\ Intervals \subseteq Nat \ {0}
  /\ MaxPositions \in Nat
  /\ MaxVault \in Nat
  /\ MaxFundingIdx \in Nat

VARIABLES
  paused,     \* Market.paused
  deposited,  \* UserAccount.deposited_amount
  locked,     \* UserAccount.locked_amount
  vault,      \* balance of the vault's token account
  positions,  \* every Position account, in the order of their creation
  oi,         \* Market.total_long_size and total_short_size
  cum,        \* Market.cum_funding_long and cum_funding_short
  pool,       \* Market.realized_loss_pool
  unbacked    \* history: bounties paid for positions without collateral left

vars == <<paused, deposited, locked, vault, positions, oi, cum, pool, unbacked>>

Users == 1 .. NumUsers
PositionSide == {"Long", "Short"}

Position ==
  [owner : Users, side : PositionSide, size : Nat, entry : Nat, collateral : Nat,
   last_funding_index : Int, status : {"Open", "Closed", "Liquidated"}, leverage : Nat]

\* Faulty variant: a liquidated position can be ended again.
FaultyIsOpen(p) == positions[p].status # "Closed"

IsOpen(p) == positions[p].status = "Open"

\* Faulty variant: margin in use counts as free.
FaultyUnlocked(d, l) == d

\* unlocked_amount saturates at zero.
Unlocked(d, l) == IF d >= l THEN d - l ELSE 0

Init ==
  /\ paused = FALSE
  /\ deposited = [u \in Users |-> 0]
  /\ locked = [u \in Users |-> 0]
  /\ vault = 0
  /\ positions = <<>>
  /\ oi = [s \in PositionSide |-> 0]
  /\ cum = [s \in PositionSide |-> 0]
  /\ pool = 0
  /\ unbacked = 0

-----------------------------------------------------------------------------
(* Collateral.                                                             *)

Deposit(u, amount) ==
  /\ ~paused
  /\ amount > 0
  /\ vault + amount <= MaxVault
  /\ vault' = vault + amount
  /\ deposited' = [deposited EXCEPT ![u] = @ + amount]
  /\ UNCHANGED <<paused, locked, positions, oi, cum, pool, unbacked>>

\* Faulty variant: the balance is reduced though no token leaves the vault.
FaultyWithdraw(u, amount) ==
  /\ ~paused
  /\ amount <= Unlocked(deposited[u], locked[u])
  /\ deposited' = [deposited EXCEPT ![u] = @ - amount]
  /\ UNCHANGED <<paused, locked, vault, positions, oi, cum, pool, unbacked>>

Withdraw(u, amount) ==
  /\ ~paused
  /\ amount <= Unlocked(deposited[u], locked[u])
  /\ amount <= vault
  /\ vault' = vault - amount
  /\ deposited' = [deposited EXCEPT ![u] = @ - amount]
  /\ UNCHANGED <<paused, locked, positions, oi, cum, pool, unbacked>>

-----------------------------------------------------------------------------
(* Settlement of a fill.                                                   *)

NewPosition(u, side, size, price, leverage) ==
  [owner |-> u, side |-> side, size |-> size, entry |-> price,
   collateral |-> ComputeCollateral(size, price, leverage),
   last_funding_index |-> cum[side], status |-> "Open", leverage |-> leverage]

\* claim_fill, once the fill is found and the openings are verified: the
\* taker goes long, the maker short, both by the size they both revealed.
ClaimFill(taker, maker, price, size, takerLeverage, makerLeverage) ==
  LET long  == NewPosition(taker, "Long", size, price, takerLeverage)
      short == NewPosition(maker, "Short", size, price, makerLeverage)
  IN  /\ ~paused
      /\ taker # maker
      /\ Len(positions) + 2 <= MaxPositions
      /\ long.collateral <= Unlocked(deposited[taker], locked[taker])
      /\ short.collateral <= Unlocked(deposited[maker], locked[maker])
      /\ locked' = [locked EXCEPT ![taker] = @ + long.collateral,
                                  ![maker] = @ + short.collateral]
      /\ oi' = [s \in PositionSide |-> oi[s] + size]
      /\ positions' = Append(Append(positions, long), short)
      /\ UNCHANGED <<paused, deposited, vault, cum, pool, unbacked>>

-----------------------------------------------------------------------------
(* Funding.                                                                *)

\* update_funding, with n whole intervals since the last update.
UpdateFunding(n) ==
  LET scaled == FundingRateBps(oi["Long"], oi["Short"]) * n
  IN  /\ cum["Long"] + scaled \in -MaxFundingIdx .. MaxFundingIdx
      /\ cum' = [s \in PositionSide |-> IF s = "Long" THEN cum[s] + scaled ELSE cum[s] - scaled]
      /\ UNCHANGED <<paused, deposited, locked, vault, positions, oi, pool, unbacked>>

PendingFunding(p) ==
  FundingDelta(positions[p].size, positions[p].entry,
               cum[positions[p].side], positions[p].last_funding_index)

\* Faulty variant: credits are paid without looking at the pool.
FaultyCanApplyFunding(p) ==
  LET delta == PendingFunding(p)
      u == positions[p].owner
  IN  delta <= positions[p].collateral /\ delta <= locked[u] /\ delta <= deposited[u]

\* apply_funding_delta: a debit needs the collateral, a credit the pool.
CanApplyFunding(p) ==
  LET delta == PendingFunding(p)
      u == positions[p].owner
  IN  IF delta > 0
      THEN delta <= positions[p].collateral /\ delta <= locked[u] /\ delta <= deposited[u]
      ELSE -delta <= pool

\* Faulty variant: the user is charged but not the position.
FaultyAccrueFunding(p) ==
  LET delta == PendingFunding(p)
      u == positions[p].owner
  IN  /\ IsOpen(p)
      /\ CanApplyFunding(p)
      /\ positions' = [positions EXCEPT ![p].last_funding_index = cum[positions[p].side]]
      /\ locked' = [locked EXCEPT ![u] = @ - delta]
      /\ deposited' = [deposited EXCEPT ![u] = @ - delta]
      /\ pool' = pool + delta
      /\ UNCHANGED <<paused, vault, oi, cum, unbacked>>

AccrueFunding(p) ==
  LET delta == PendingFunding(p)
      u == positions[p].owner
  IN  /\ IsOpen(p)
      /\ CanApplyFunding(p)
      /\ positions' = [positions EXCEPT ![p].collateral = @ - delta,
                                        ![p].last_funding_index = cum[positions[p].side]]
      /\ locked' = [locked EXCEPT ![u] = @ - delta]
      /\ deposited' = [deposited EXCEPT ![u] = @ - delta]
      /\ pool' = pool + delta
      /\ UNCHANGED <<paused, vault, oi, cum, unbacked>>

-----------------------------------------------------------------------------
(* The end of a position.                                                  *)

\* The position once its funding is applied, and its value at the mark price.
Margin(p) == positions[p].collateral - PendingFunding(p)
Pnl(p, mark) == ComputePnl(positions[p].side, positions[p].size, positions[p].entry, mark)
Remaining(p, mark) == CollateralAfterPnl(Margin(p), Pnl(p, mark))

\* Faulty variant: the whole loss is charged, not only the collateral.
FaultyNetLoss(p, mark) == Bounty(Remaining(p, mark)) - Pnl(p, mark)

\* The owner gets back what is left after the bounty, at most the collateral.
NetLoss(p, mark) ==
  Margin(p) - Lesser(Remaining(p, mark) - Bounty(Remaining(p, mark)), Margin(p))

\* Everything that can still fail a liquidation of an unhealthy position.
CanSettleLiquidation(p, mark) ==
  LET u == positions[p].owner
  IN  /\ CanApplyFunding(p)
      /\ Bounty(Remaining(p, mark)) <= vault
      /\ positions[p].size <= oi[positions[p].side]
      /\ Margin(p) <= locked[u] - PendingFunding(p)
      /\ NetLoss(p, mark) <= deposited[u] - PendingFunding(p)

\* liquidate_position: funding first, then the bounty out of the vault, then
\* the books.
Liquidate(liquidator, p, mark) ==
  LET pos    == positions[p]
      delta  == PendingFunding(p)
      bounty == Bounty(Remaining(p, mark))
  IN  /\ ~paused
      /\ IsOpen(p)
      /\ liquidator # pos.owner
      /\ pos.collateral > 0
      /\ RatioBps(Remaining(p, mark), Margin(p)) < LiquidationThresholdBps
      /\ CanSettleLiquidation(p, mark)
      /\ vault' = vault - bounty
      /\ oi' = [oi EXCEPT ![pos.side] = @ - pos.size]
      /\ locked' = [locked EXCEPT ![pos.owner] = @ - delta - Margin(p)]
      /\ deposited' = [deposited EXCEPT ![pos.owner] = @ - delta - NetLoss(p, mark)]
      /\ pool' = pool + delta + RealizedLossFromPnl(Margin(p), Pnl(p, mark))
      /\ positions' = [positions EXCEPT ![p].status = "Liquidated", ![p].collateral = 0,
                                        ![p].last_funding_index = cum[pos.side]]
      /\ unbacked' = IF Margin(p) = 0 THEN unbacked + bounty ELSE unbacked
      /\ UNCHANGED <<paused, cum>>

\* close_position_and_withdraw; close_position is the case of payout 0.
\* Funding is not accrued, and a loss is charged beyond the collateral.
ClosePosition(p, mark, payout) ==
  LET pos == positions[p]
      u   == pos.owner
      pnl == Pnl(p, mark)
      balance == deposited[u] + pnl
  IN  /\ ~paused
      /\ IsOpen(p)
      /\ pos.size <= oi[pos.side]
      /\ pos.collateral <= locked[u]
      /\ pnl <= pool
      /\ balance >= 0
      /\ payout > 0 => payout <= Unlocked(balance, locked[u] - pos.collateral)
      /\ payout <= vault
      /\ oi' = [oi EXCEPT ![pos.side] = @ - pos.size]
      /\ locked' = [locked EXCEPT ![u] = @ - pos.collateral]
      /\ pool' = pool - pnl
      /\ deposited' = [deposited EXCEPT ![u] = @ + pnl - payout]
      /\ vault' = vault - payout
      /\ positions' = [positions EXCEPT ![p].status = "Closed", ![p].collateral = 0]
      /\ UNCHANGED <<paused, cum, unbacked>>

SetMarketPaused(b) ==
  /\ paused' = b
  /\ UNCHANGED <<deposited, locked, vault, positions, oi, cum, pool, unbacked>>

Next ==
  \/ \E u \in Users, amount \in Amounts : Deposit(u, amount) \/ Withdraw(u, amount)
  \/ \E taker, maker \in Users, price \in FillPrices, size \in Sizes, tl, ml \in Leverages :
       ClaimFill(taker, maker, price, size, tl, ml)
  \/ \E n \in Intervals : UpdateFunding(n)
  \/ \E p \in DOMAIN positions : AccrueFunding(p)
  \/ \E liquidator \in Users, p \in DOMAIN positions, mark \in Marks : Liquidate(liquidator, p, mark)
  \/ \E p \in DOMAIN positions, mark \in Marks, payout \in {0} \union Amounts :
       ClosePosition(p, mark, payout)
  \/ \E b \in BOOLEAN : SetMarketPaused(b)

Spec == Init /\ [][Next]_vars
-----------------------------------------------------------------------------
(* Properties.                                                             *)

\* Type correctness; balances, open interest and the pool are u64 values, so
\* none of them may ever be negative.
TypeOK ==
  /\ paused \in BOOLEAN
  /\ deposited \in [Users -> Nat]
  /\ locked \in [Users -> Nat]
  /\ vault \in Nat
  /\ positions \in Seq(Position)
  /\ oi \in [PositionSide -> Nat]
  /\ cum \in [PositionSide -> Int]
  /\ pool \in Nat
  /\ unbacked \in Nat

\* Collateral locked for the open positions of a user, and size open on a side.
MarginOf(u) == [p \in DOMAIN positions |->
  IF positions[p].owner = u THEN positions[p].collateral ELSE 0]
OpenSizeOn(s) == [p \in DOMAIN positions |->
  IF positions[p].side = s /\ positions[p].status = "Open" THEN positions[p].size ELSE 0]

\* What a user has locked is exactly the collateral of its positions, through
\* settlement, funding, liquidation and both closes, so that no margin is
\* released twice or stays locked for ever.  Of positions alone: state.rs:126
\* has the amount cover open orders as well, but place_order locks nothing
\* (orders.rs:70), and no instruction on an order writes a user account.
LockedIsMargin ==
  \A u \in Users : locked[u] = SumTo(MarginOf(u), Len(positions))

\* Open interest is the size of the open positions: a position leaves it
\* exactly once, by whichever of the three ends comes first.
OpenInterestIsOpenSize ==
  \A s \in PositionSide : oi[s] = SumTo(OpenSizeOn(s), Len(positions))

\* The checked subtractions at the end of a position cannot underflow: the
\* accounts always cover what a close takes back out of them.
EndNeverUnderflows ==
  \A p \in DOMAIN positions : positions[p].status = "Open" =>
    /\ positions[p].collateral <= locked[positions[p].owner]
    /\ positions[p].size <= oi[positions[p].side]

\* The vault holds exactly what the users and the pool are owed, but for the
\* bounties of positions that were liquidated with no collateral left.
VaultIsAccountedFor ==
  vault + unbacked = SumTo(deposited, NumUsers) + pool

\* A position ends once: owner, side, size, entry, leverage never change, and a
\* closed or liquidated one is never touched again, nor its margin released twice.
PositionsEndOnce ==
  [][\A p \in DOMAIN positions :
       /\ p \in DOMAIN positions'
       /\ \A field \in {"owner", "side", "size", "entry", "leverage"} : positions'[p][field] = positions[p][field]
       /\ positions[p].status # "Open" => positions'[p] = positions[p]]_vars

\* positions.rs:190: a liquidation, with the funding it accrues first, charges
\* the owner no more than the collateral the position had.
LiquidationChargesAtMostCollateral ==
  [][\A p \in DOMAIN positions :
       positions[p].status = "Open" /\ positions'[p].status = "Liquidated" =>
         deposited[positions[p].owner] - deposited'[positions[p].owner] <= positions[p].collateral]_vars

\* A user's balance falls only by a withdrawal the vault pays out, or by an
\* action on a position of that user: nobody pays for a position of another.
DepositsFallForOwnReasons ==
  [][\A u \in Users : deposited'[u] < deposited[u] =>
       \/ \E p \in DOMAIN positions : positions[p].owner = u /\ positions'[p] # positions[p]
       \/ vault - vault' = deposited[u] - deposited'[u]]_vars

\* Margin stays covered by the owner's balance except through a close at a
\* loss larger than the collateral of the closed position, which close_position
\* charges to the balance behind the user's other positions.
OnlyUnderwaterCloseUncoversMargin ==
  [][\A u \in Users : locked[u] <= deposited[u] /\ locked'[u] > deposited'[u] =>
       \E p \in DOMAIN positions :
         /\ positions[p].owner = u
         /\ positions[p].status = "Open" /\ positions'[p].status = "Closed"
         /\ deposited[u] - deposited'[u] > positions[p].collateral]_vars

\* positions.rs:77: a position below the maintenance ratio can be liquidated;
\* one whose funding has eaten more than its collateral is below it.
UnderwaterIsLiquidatable ==
  \A p \in DOMAIN positions, mark \in Marks :
    /\ positions[p].status = "Open"
    /\ positions[p].collateral > 0
    /\ \/ Margin(p) <= 0
       \/ RatioBps(Remaining(p, mark), Margin(p)) < LiquidationThresholdBps
    => CanSettleLiquidation(p, mark)

=============================================================================
