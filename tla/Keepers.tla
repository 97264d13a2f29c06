------------------------------ MODULE Keepers ------------------------------
(***************************************************************************)
(* The clearing house with those who keep it: the liquidation watcher      *)
(* (services/liquidation-watcher), the funding cron (services/funding-     *)
(* cron), the oracle whose price both read, and the traders.  Each service *)
(* reads an account, waits, and acts on what it has read, while everybody  *)
(* else goes on; what it sends is an instruction of Clearing, which checks *)
(* for itself.                                                             *)
(*                                                                         *)
(* The market is not paused here and is in mid-life: what traders still do *)
(* is close.  One of the services runs; to it, the other is one of those   *)
(* who may send the same instructions at any time (OthersKeep).  User      *)
(* NumUsers is the watcher's key, the others trade.                        *)
(***************************************************************************)
EXTENDS Clearing

CONSTANTS
  Quotes,     \* [price, expo]: prices of the feed with their exponents
  Runs,       \* runs of checkAndLiquidate that may overlap
  BatchSize,  \* BATCH_SIZE of the cron (20)
  MaxFailures \* bound of the model on the requests that fail for no reason of the program's

ASSUME KeepersAssumption ==
  /\ \A q \in Quotes : q.price \in Nat \ {0} /\ q.expo \in -20 .. 20
  /\ NumUsers > 0
  /\ BatchSize \in Nat \ {0}
  /\ MaxFailures \in Nat

VARIABLES
  service,  \* the service that runs
  feed,     \* the quote of the feed, which the watcher reads
  posted,   \* the PriceUpdateV2 account, which the program reads
  watcher,  \* the runs of checkAndLiquidate
  cooling,  \* positions attempted less than ATTEMPT_COOLDOWN_MS ago
  failures, \* requests that have failed so far
  cron      \* the funding cycle: its batch under way and the positions after it

ledger == <<paused, deposited, locked, vault, positions, oi, cum, pool, unbacked>>
oracle == <<feed, posted>>
allVars == <<ledger, oracle, service, failures, watcher, cooling, cron>>

Watcher == NumUsers
PositionIds == 1 .. MaxPositions

NoQuote == [price |-> 0, expo |-> 0]
Idle == [stage |-> "idle", quote |-> NoQuote, todo |-> {}, pos |-> 0]
CronIdle == [stage |-> "idle", batch |-> {}, rest |-> {}]

StartServices ==
  /\ service \in {"watcher", "cron"}
  /\ feed \in Quotes
  /\ posted = [quote |-> feed, fresh |-> FALSE]
  /\ watcher = [r \in Runs |-> Idle]
  /\ cooling = {}
  /\ cron = CronIdle
  /\ failures = 0

\* The books of a clearing house that has run for any time (see ClearingProofs).
BooksAreRight == TypeOK /\ LockedIsMargin /\ OpenInterestIsOpenSize /\ VaultIsAccountedFor

\* The services start on any such ledger.
KInit == BooksAreRight /\ StartServices

\* A request is lost on the way.
RequestFails == failures < MaxFailures /\ failures' = failures + 1

-----------------------------------------------------------------------------
(* The oracle.                                                             *)

\* get_oracle_price and fetchPythPrice scale alike: micro-dollars, truncated.
Scaled(quote) ==
  IF quote.expo + 6 >= 0 THEN quote.price * 10 ^ (quote.expo + 6)
                         ELSE quote.price \div 10 ^ (-(quote.expo + 6))

\* The program's price; a stale account fails the instruction.
Mark == Scaled(posted.quote)

FeedMoves(quote) ==
  /\ feed' = quote
  /\ UNCHANGED <<ledger, service, failures, posted, watcher, cooling, cron>>

\* Somebody posts the present quote to the price account.
PostPrice ==
  /\ posted' = [quote |-> feed, fresh |-> TRUE]
  /\ UNCHANGED <<ledger, service, failures, feed, watcher, cooling, cron>>

\* MAX_ORACLE_AGE_SECS have passed since the price was published.
PriceAges ==
  /\ posted' = [posted EXCEPT !.fresh = FALSE]
  /\ UNCHANGED <<ledger, service, failures, feed, watcher, cooling, cron>>

-----------------------------------------------------------------------------
(* The owners, other liquidators and other crankers.                       *)

OwnerCloses ==
  /\ posted.fresh
  /\ \E p \in DOMAIN positions, payout \in {0} \union Amounts : ClosePosition(p, Mark, payout)
  /\ UNCHANGED <<oracle, service, failures, watcher, cooling, cron>>

\* Also a transaction of the watcher that lands after it stopped waiting for it.
OthersLiquidate == posted.fresh /\ \E u \in Users, p \in DOMAIN positions : Liquidate(u, p, Mark)

OthersFund ==
  \/ posted.fresh /\ \E n \in Intervals : UpdateFunding(n)
  \/ \E p \in DOMAIN positions : AccrueFunding(p)

OthersKeep ==
  /\ OthersLiquidate \/ OthersFund
  /\ UNCHANGED <<oracle, service, failures, watcher, cooling, cron>>

\* position.all, as both services call it: the filter `11' at the offset of the
\* status is base58 for two zero bytes, so the low byte of leverage_bps, which
\* comes next in the account, has to be zero as well.
Fetched(p) == IsOpen(p) /\ positions[p].leverage % 256 = 0

-----------------------------------------------------------------------------
(* The liquidation watcher.                                                *)

\* Faulty variant: the share of the collateral that is left, as the program has it.
FaultyComputeMarkRisk(p, mark) ==
  RatioBps(CollateralAfterPnl(positions[p].collateral, Pnl(p, mark)), positions[p].collateral)
    < LiquidationThresholdBps

\* computeMarkRisk: a loss below the collateral gives a ratio above 100 %, so
\* only a position whose loss has used up its collateral is ever attempted.
ComputeMarkRisk(p, mark) ==
  LET loss == -Pnl(p, mark)
      collateral == positions[p].collateral
  IN  /\ loss > 0
      /\ loss >= collateral \/ (collateral * 10000) \div loss < LiquidationThresholdBps

\* The loop over a fetched list goes on to the next position not attempted of
\* late; the attempt is noted before the transaction is sent.
Proceed(r, todo) ==
  IF todo \ cooling = {}
  THEN watcher' = [watcher EXCEPT ![r] = Idle] /\ UNCHANGED cooling
  ELSE \E p \in todo \ cooling :
         /\ watcher' = [watcher EXCEPT ![r] =
                          [stage |-> "sending", quote |-> NoQuote, todo |-> todo \ {p}, pos |-> p]]
         /\ cooling' = cooling \union {p}

\* A Lazer price or the two-second poll starts a run at the feed's price.
Tick(r) ==
  /\ service = "watcher"
  /\ watcher[r].stage = "idle"
  /\ watcher' = [watcher EXCEPT ![r] = [stage |-> "fetching", quote |-> feed, todo |-> {}, pos |-> 0]]
  /\ UNCHANGED <<ledger, oracle, service, failures, cooling, cron>>

\* The risk is computed from the accounts as they were fetched.
FetchPositions(r) ==
  /\ watcher[r].stage = "fetching"
  /\ Proceed(r, {p \in DOMAIN positions : Fetched(p) /\ ComputeMarkRisk(p, Scaled(watcher[r].quote))})
  /\ UNCHANGED <<ledger, oracle, service, failures, cron>>

FetchPositionsFails(r) ==
  /\ watcher[r].stage = "fetching"
  /\ RequestFails
  /\ watcher' = [watcher EXCEPT ![r] = Idle]
  /\ UNCHANGED <<ledger, oracle, service, cooling, cron>>

\* The program takes a liquidation of this position now.
CanLiquidate(p) ==
  /\ posted.fresh
  /\ IsOpen(p)
  /\ positions[p].owner # Watcher
  /\ positions[p].collateral > 0
  /\ RatioBps(Remaining(p, Mark), Margin(p)) < LiquidationThresholdBps
  /\ CanSettleLiquidation(p, Mark)

LiquidationLands(r) ==
  /\ watcher[r].stage = "sending"
  /\ CanLiquidate(watcher[r].pos)
  /\ Liquidate(Watcher, watcher[r].pos, Mark)
  /\ Proceed(r, watcher[r].todo)
  /\ UNCHANGED <<oracle, service, failures, cron>>

\* Refused by the program, or not answered: logged, and the loop goes on.
LiquidationFails(r) ==
  /\ watcher[r].stage = "sending"
  /\ \/ RequestFails
     \/ ~CanLiquidate(watcher[r].pos) /\ UNCHANGED failures
  /\ Proceed(r, watcher[r].todo)
  /\ UNCHANGED <<ledger, oracle, service, cron>>

\* Faulty variant: a position once attempted is never tried again.
FaultyCooldownEnds(p) == FALSE /\ UNCHANGED allVars

CooldownEnds(p) ==
  /\ p \in cooling
  /\ cooling' = cooling \ {p}
  /\ UNCHANGED <<ledger, oracle, service, failures, watcher, cron>>

-----------------------------------------------------------------------------
(* The funding cron.                                                       *)

CronStarts ==
  /\ service = "cron"
  /\ cron.stage = "idle"
  /\ cron' = [cron EXCEPT !.stage = "updating"]
  /\ UNCHANGED <<ledger, oracle, service, failures, watcher, cooling>>

CronUpdates ==
  /\ cron.stage = "updating"
  /\ posted.fresh
  /\ \E n \in Intervals : UpdateFunding(n)
  /\ cron' = [cron EXCEPT !.stage = "fetching"]
  /\ UNCHANGED <<oracle, service, failures, watcher, cooling>>

\* No interval has elapsed since the last update by anybody, a stale price, or
\* the request failed: nothing is accrued either.
CronUpdateFails ==
  /\ cron.stage = "updating"
  /\ cron' = CronIdle
  /\ UNCHANGED <<ledger, oracle, service, failures, watcher, cooling>>

\* Faulty variant: the next batch starts where this one starts.
FaultyNextBatch(list) ==
  \E batch \in SUBSET list :
    /\ Cardinality(batch) = IF Cardinality(list) < BatchSize THEN Cardinality(list) ELSE BatchSize
    /\ cron' = IF list = {} THEN CronIdle
               ELSE [stage |-> "accruing", batch |-> batch, rest |-> list]

\* The next batch out of a list of positions, which comes in any order.
NextBatch(list) ==
  \E batch \in SUBSET list :
    /\ Cardinality(batch) = IF Cardinality(list) < BatchSize THEN Cardinality(list) ELSE BatchSize
    /\ cron' = IF list = {} THEN CronIdle
               ELSE [stage |-> "accruing", batch |-> batch, rest |-> list \ batch]

CronFetches ==
  /\ cron.stage = "fetching"
  /\ NextBatch({p \in DOMAIN positions : Fetched(p)})
  /\ UNCHANGED <<ledger, oracle, service, failures, watcher, cooling>>

CronFetchFails ==
  /\ cron.stage = "fetching"
  /\ RequestFails
  /\ cron' = CronIdle
  /\ UNCHANGED <<ledger, oracle, service, watcher, cooling>>

\* allSettled: the batch is over when each of its requests is answered.
CronSettled(p) ==
  IF cron.batch = {p} THEN NextBatch(cron.rest)
  ELSE cron' = [cron EXCEPT !.batch = @ \ {p}]

CronAccrues(p) ==
  /\ cron.stage = "accruing" /\ p \in cron.batch
  /\ AccrueFunding(p)
  /\ CronSettled(p)
  /\ UNCHANGED <<oracle, service, failures, watcher, cooling>>

\* Refused: closed meanwhile, or a credit the pool cannot pay.
CronRefused(p) ==
  /\ \/ RequestFails
     \/ ~(IsOpen(p) /\ CanApplyFunding(p)) /\ UNCHANGED failures
  /\ UNCHANGED <<ledger, oracle, service, watcher, cooling>>

\* Faulty variant: the first failure of a batch rejects the whole cycle.
FaultyCronAccrueFails(p) ==
  /\ cron.stage = "accruing" /\ p \in cron.batch
  /\ cron' = CronIdle
  /\ CronRefused(p)

CronAccrueFails(p) ==
  /\ cron.stage = "accruing" /\ p \in cron.batch
  /\ CronSettled(p)
  /\ CronRefused(p)

-----------------------------------------------------------------------------
KNext ==
  \/ \E quote \in Quotes : FeedMoves(quote)
  \/ PostPrice \/ PriceAges \/ OwnerCloses \/ OthersKeep
  \/ \E r \in Runs : \/ Tick(r) \/ FetchPositions(r) \/ FetchPositionsFails(r)
                     \/ LiquidationLands(r) \/ LiquidationFails(r)
  \/ \E p \in PositionIds : CooldownEnds(p)
  \/ CronStarts \/ CronUpdates \/ CronUpdateFails \/ CronFetches \/ CronFetchFails
  \/ \E p \in PositionIds : CronAccrues(p) \/ CronAccrueFails(p)

KSpec == KInit /\ [][KNext]_allVars

\* Timers fire and every request ends, by an answer or an error; only so many
\* fail for nothing.  Nobody has to trade, to post prices or to move the feed.
KFairness ==
  /\ WF_allVars(CronStarts)
  /\ WF_allVars(CronUpdates \/ CronUpdateFails)
  /\ WF_allVars(CronFetches \/ CronFetchFails)
  /\ WF_allVars(\E p \in PositionIds : CronAccrues(p) \/ CronAccrueFails(p))
  /\ \A p \in PositionIds : WF_allVars(CooldownEnds(p))
  /\ \A r \in Runs : /\ WF_allVars(Tick(r))
                     /\ WF_allVars(FetchPositions(r) \/ FetchPositionsFails(r))
                     /\ WF_allVars(LiquidationLands(r) \/ LiquidationFails(r))

KFairSpec == KSpec /\ KFairness

-----------------------------------------------------------------------------
(* Properties.                                                             *)

\* The services' states; the batch under way is not still to come.
ServicesOK ==
  /\ service \in {"watcher", "cron"}
  /\ feed \in Quotes
  /\ posted \in [quote : Quotes, fresh : BOOLEAN]
  /\ watcher \in [Runs -> [stage : {"idle", "fetching", "sending"}, quote : Quotes \union {NoQuote},
                           todo : SUBSET DOMAIN positions, pos : {0} \union DOMAIN positions]]
  /\ \A r \in Runs : watcher[r].stage = "sending" => watcher[r].pos \in DOMAIN positions
  /\ failures \in 0 .. MaxFailures
  /\ cooling \subseteq DOMAIN positions
  /\ cron \in [stage : {"idle", "updating", "fetching", "accruing"},
               batch : SUBSET DOMAIN positions, rest : SUBSET DOMAIN positions]
  /\ cron.batch # {} <=> cron.stage = "accruing"
  /\ Cardinality(cron.batch) <= BatchSize
  /\ cron.batch \intersect cron.rest = {}

\* The services and the books they keep.
KTypeOK == TypeOK /\ ServicesOK

\* liquidation-watcher/src/index.ts:8 has the watcher collect the bounty.  Its
\* rule finds a position only when the loss has used up the collateral, so a
\* liquidation it sends finds nothing left to take a bounty of, unless the
\* price has turned or funding was credited in between.
WatcherCollectsNoBounty ==
  [][\A r \in Runs : \A p \in DOMAIN positions :
       /\ watcher[r].stage = "sending" /\ watcher[r].pos = p /\ watcher'[r] # watcher[r]
       /\ positions'[p].status = "Liquidated" /\ positions[p].status = "Open"
       /\ ComputeMarkRisk(p, Mark)
       /\ PendingFunding(p) >= 0
       => vault' = vault]_allVars

\* A position in this state is one the watcher's rule finds and the program takes.
Ruined(p) ==
  /\ p \in DOMAIN positions
  /\ posted.quote = feed
  /\ ComputeMarkRisk(p, Scaled(feed))
  /\ CanLiquidate(p)

\* Nobody's margin stays ruined while the watcher runs: a position it fetches, its
\* rule finds and the program takes is ended, through overlapping runs,
\* cooldowns, failed requests and stale lists.
RuinedAreLiquidated ==
  service = "watcher" => \A p \in PositionIds : []<>~(Ruined(p) /\ Fetched(p))

\* liquidation-watcher/src/index.ts:5: on each price tick the watcher fetches all
\* open positions; so none that its rule finds and the program takes is left.
AllRuinedAreLiquidated == service = "watcher" => \A p \in PositionIds : []<>~Ruined(p)

\* Funding a position the cron fetches owes, or is owed, and the program could
\* book now.
Unbooked(p) ==
  p \in DOMAIN positions /\ Fetched(p) /\ PendingFunding(p) # 0 /\ CanApplyFunding(p)

\* Cycles are not all cut short by their update_funding.
KeepsUpdating == []<>(cron.stage = "fetching")

\* Funding that can be booked is booked by some cycle, though credits fail
\* until debits have filled the pool, and one failure is no other's.
FundingIsBooked == \A p \in PositionIds : KeepsUpdating => []<>~Unbooked(p)
=============================================================================
