----------------------------- MODULE MCKeepers -----------------------------
(* A small instance of Keepers for TLC.  The market is in mid-life: two    *)
(* fills at 200 were claimed at one leverage, a multiple of 256 where the  *)
(* services are to see the positions.  Where the cron runs, the short of   *)
(* the first was closed and a funding update found the longs in the        *)
(* majority: each long owes 13 and the short that is left earns 13.  Where *)
(* the watcher runs, both shorts were closed at 200.                       *)
EXTENDS Keepers

Leverage == CHOOSE l \in Leverages : TRUE
Locked == ComputeCollateral(1, 200, Leverage)

Opened(u, side, open) ==
  [owner |-> u, side |-> side, size |-> 1, entry |-> 200, collateral |-> IF open THEN Locked ELSE 0,
   last_funding_index |-> 0, status |-> IF open THEN "Open" ELSE "Closed", leverage |-> Leverage]

MCInit ==
  /\ StartServices
  /\ paused = FALSE
  /\ deposited = <<100, 100, 0>>
  /\ locked = <<2 * Locked, IF service = "cron" THEN Locked ELSE 0, 0>>
  /\ vault = 200
  /\ positions = <<Opened(1, "Long", TRUE), Opened(2, "Short", FALSE),
                   Opened(1, "Long", TRUE), Opened(2, "Short", service = "cron")>>
  /\ pool = 0
  /\ unbacked = 0
  /\ \/ /\ service = "cron"
        /\ oi = [s \in PositionSide |-> IF s = "Long" THEN 2 ELSE 1]
        /\ cum = [s \in PositionSide |-> IF s = "Long" THEN 666 ELSE -666]
     \/ /\ service = "watcher"
        /\ oi = [s \in PositionSide |-> IF s = "Long" THEN 2 ELSE 0]
        /\ cum = [s \in PositionSide |-> 0]

MCSpec == MCInit /\ [][KNext]_allVars /\ KFairness

MCQuotes == {[price |-> 18960, expo |-> -8], [price |-> 13, expo |-> -5]}

=============================================================================
