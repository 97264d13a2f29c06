------------------------------- MODULE Margin -------------------------------
(***************************************************************************)
(* The arithmetic of positions: collateral, profit and loss, funding and   *)
(* liquidation (ix/settlement.rs, ix/positions.rs, ix/funding.rs,          *)
(* constants.rs).  The program computes in 128 bits and fails the          *)
(* instruction when a result leaves 64 bits; the instances stay far below. *)
(***************************************************************************)
EXTENDS Integers

MaxFundingBpsPerInterval == 2000
LiquidationThresholdBps == 8000
LiquidationBountyBps == 500

Lesser(a, b) == IF a <= b THEN a ELSE b

\* Rust's division truncates towards zero; TLA+'s rounds down.
TruncDiv(a, b) == IF a >= 0 THEN a \div b ELSE -((-a) \div b)

\* compute_collateral: leverage_bps of 100 is 1x.
ComputeCollateral(size, price, leverage) == (size * price * 100) \div leverage

ComputePnl(side, size, entry, mark) ==
  IF side = "Long" THEN (mark - entry) * size ELSE (entry - mark) * size

\* The rate of update_funding for one interval; positive when longs pay.
FundingRateBps(long, short) ==
  IF long + short = 0 THEN 0
  ELSE TruncDiv((long - short) * MaxFundingBpsPerInterval, long + short)

\* accrue_funding_internal: what the position owes, negative when it earns.
FundingDelta(size, entry, cum, last) == TruncDiv((cum - last) * size * entry, 10000)

CollateralAfterPnl(collateral, pnl) == IF collateral + pnl >= 0 THEN collateral + pnl ELSE 0

\* Faulty variant: the pool books a loss the position could not pay.
FaultyRealizedLossFromPnl(collateral, pnl) == IF pnl >= 0 THEN 0 ELSE -pnl

RealizedLossFromPnl(collateral, pnl) == IF pnl >= 0 THEN 0 ELSE Lesser(-pnl, collateral)

\* An exhausted position has ratio 0, whatever its profit.
RatioBps(remaining, collateral) ==
  IF collateral = 0 THEN 0 ELSE (remaining * 10000) \div collateral

Bounty(remaining) == (remaining * LiquidationBountyBps) \div 10000
=============================================================================
