----------------------------- MODULE Dashboard -----------------------------
(***************************************************************************)
(* The pages of the dashboard: panels that show what they fetch for what   *)
(* is selected while the user goes on to something else.  The panels share *)
(* nothing but the selection, so one is chosen for the behaviour:          *)
(*   book, positions, fills   components that poll the program's accounts  *)
(*   mark                     the price subscription of mark-chart.tsx     *)
(*   change, candles          loaded from Birdeye once for a selection     *)
(*   quote                    the Jupiter quote; the amount entered is its *)
(*                            selection                                    *)
(*   history, leaderboard     the closed positions of the connected wallet *)
(*                            and the ranking, for a period of time        *)
(*   name                     the .sol name of the connected wallet, or of *)
(*                            the owner in a row of a table                *)
(* With the mark comes the order form that prices market orders at it, with *)
(* the positions the button that closes one, with the quote that of a swap. *)
(*                                                                         *)
(* React runs the clean-up of an effect together with the state change     *)
(* that causes it: no answer comes in between.                             *)
(***************************************************************************)
EXTENDS Naturals, FiniteSets

CONSTANT Keys \* markets, amounts, wallets, or periods

ASSUME DashboardAssumption == Keys # {} /\ "nothing" \notin Keys

VARIABLES
  panel,
  selected, \* the selected market or period; the amount or the wallet, or "nothing"
            \* (of positions: the wallet and its market)
  shown,    \* the key whose data the panel shows, or "nothing"
  loops,    \* requests that are out and timers that are set, one for all equal ones
  cache,    \* what birdeye.ts, and what sns.ts and the store, keep for a key
  typed,    \* the market for which the price in the order form was typed
  order,    \* the market order last submitted (history)
  row,      \* the row of the position, or the swap, with its button
  handlers  \* close handlers that run: the row's own, and that of a row that is gone

dashVars == <<panel, selected, shown, loops, cache, typed, order, row, handlers>>
form == <<typed, order>>
closes == <<row, handlers>>

Polled == {"book", "positions", "fills"}
Unguarded == {"candles", "quote", "history", "leaderboard", "name"}
Panels == Polled \union {"mark", "change"} \union Unguarded
Nothing == "nothing"
Answers == {"data", "empty", "failure"}

\* The field of the amount can be empty, and the wallet not connected.
Selections ==
  IF panel \in {"positions", "quote", "history", "name"} THEN Keys \union {Nothing} ELSE Keys

Loops == [key : Selections, effect : {"on", "off"}, at : {"asking", "sleeping"}, hit : {"none", "data", "empty"}]

\* A request for a key, answered by the cache if it has a young entry.
Ask(key) == [key |-> key, effect |-> "on", at |-> "asking", hit |-> cache[key]]
Sleep(key) == [key |-> key, effect |-> "on", at |-> "sleeping", hit |-> "none"]

\* What an effect starts for a selection, knowing a cache: a quote waits 400 ms
\* for more typing, no wallet has nothing to ask for, and a known name is not
\* asked for again.
Started(key, known) ==
  IF panel = "quote" THEN {Sleep(key)}
  ELSE IF key = Nothing THEN {}
  ELSE IF panel = "name" /\ known[key] # "none" THEN {}
  ELSE {Ask(key)}

DashInit ==
  /\ panel \in Panels
  /\ selected \in IF Nothing \in Selections THEN {Nothing} ELSE Keys
  /\ shown = Nothing
  /\ cache = [k \in Keys |-> "none"]
  /\ loops = Started(selected, cache)
  /\ typed = Nothing
  /\ order = [market |-> Nothing, price |-> Nothing]
  /\ row = "absent"
  /\ handlers = {}

-----------------------------------------------------------------------------
(* Selecting.                                                              *)

\* Faulty variant: the mark of the last market stays.
FaultyKeptOnSelect(key) == shown

\* What the cell of a name shows at once: no name without an owner, a known one,
\* or what it shows anyway.
NameAtOnce(key, known, display) ==
  IF key = Nothing THEN Nothing
  ELSE IF known[key] = "none" THEN display
  ELSE IF known[key] = "data" THEN key ELSE Nothing

\* The store drops the mark of the last market, and nothing else of it; the
\* positions and the history go when the wallet is disconnected.
KeptOnSelect(key) ==
  IF panel = "name" THEN NameAtOnce(key, cache, shown)
  ELSE IF panel = "mark" \/ (panel \in {"positions", "history"} /\ key = Nothing) THEN Nothing
  ELSE shown

\* Faulty variant: the polls of the last selection go on.
FaultyCleanUp(running) == running

\* Clean-up: the running polls and requests of guarded effects are cancelled,
\* the interval of the mark and the timer of the quote are cleared.
CleanUp(running) ==
  IF panel \in Unguarded THEN {l \in running : l.at = "asking"}
  ELSE {[l EXCEPT !.effect = "off"] : l \in running}

\* The row of a position goes with the list it was in; its handler goes on.
RowFollows(display) ==
  IF panel # "positions" THEN UNCHANGED closes
  ELSE IF display = shown THEN UNCHANGED closes
  ELSE /\ row' = IF display = Nothing THEN "absent" ELSE "ready"
       /\ handlers' = IF handlers = {} THEN {} ELSE {"orphan"}

Select(key) ==
  /\ key # selected
  /\ selected' = key
  /\ shown' = KeptOnSelect(key)
  /\ loops' = CleanUp(loops) \union Started(key, cache)
  /\ RowFollows(KeptOnSelect(key))
  /\ UNCHANGED <<panel, cache, form>>

-----------------------------------------------------------------------------
(* Fetching.  Most of these functions catch what fails, and answer that    *)
(* there is nothing.                                                       *)

FetchOrderBook == {"data", "empty"}
FetchPositions == {"data", "empty"}
FetchRecentFills == {"data", "empty"}
FetchHermesUsdPrice == {"data", "failure"}
FetchTokenOverview == {"data", "failure"}
FetchOhlcvBaseQuote == {"data", "empty", "failure"}
QuoteUsdcSwap == {"data", "failure"}
FetchClosedPositions == {"data", "empty"}
FetchAllClosedPositions == {"data", "empty"}
ResolveSnsName == {"data", "empty"}

Fetch ==
  CASE panel = "book" -> FetchOrderBook
    [] panel = "positions" -> FetchPositions
    [] panel = "fills" -> FetchRecentFills
    [] panel = "mark" -> FetchHermesUsdPrice
    [] panel = "change" -> FetchTokenOverview
    [] panel = "candles" -> FetchOhlcvBaseQuote
    [] panel = "quote" -> QuoteUsdcSwap
    [] panel = "history" -> FetchClosedPositions
    [] panel = "leaderboard" -> FetchAllClosedPositions
    [] panel = "name" -> ResolveSnsName

\* An answer without data takes the place of what is on display, except of
\* fills, of candles and of prices.
Displayed(key, answer) ==
  IF answer = "data" THEN key
  ELSE IF panel \in {"fills", "mark", "change", "candles"} THEN shown
  ELSE Nothing

\* Birdeye's answers are kept for some seconds, an empty list of candles too; a
\* name for five minutes, and that there is none (or that it could not be found
\* out) as well.
Kept(l, answer) ==
  IF l.hit = "none" /\ answer # "failure" /\ (panel = "change" => answer = "data")
     /\ panel \in {"candles", "change", "name"}
  THEN cache' = [cache EXCEPT ![l.key] = answer]
  ELSE UNCHANGED cache

\* Faulty variant: nobody asks whether the effect was cleaned up meanwhile.
FaultyApplies(l) == TRUE

\* What an unguarded effect asked for is shown whatever was selected meanwhile
\* (it cancels nothing).
Applies(l) == l.effect = "on"

\* The effect of a name runs again when a name is added to the store's cache.
Rendered(display) == IF panel = "name" THEN NameAtOnce(selected, cache', display) ELSE display

\* Faulty variant: the next poll is only set when this one succeeded.
FaultyPollsAgain(l, answer) ==
  IF panel \in {"quote", "name"} THEN Started(selected, cache')
  ELSE IF panel \in Polled /\ l.effect = "on" /\ answer = "data" THEN {Sleep(l.key)} ELSE {}

\* The next poll is set when this one is over, whatever came of it.  The effect
\* of the quote runs again whenever the form is rendered, because fromMint is
\* a new object then: an answer, which is rendered, sets its timer again.
PollsAgain(l, answer) ==
  IF panel \in {"quote", "name"} THEN Started(selected, cache')
  ELSE IF panel \in Polled /\ l.effect = "on" THEN {Sleep(l.key)} ELSE {}

Answered(l, answer) ==
  /\ l.at = "asking"
  /\ answer \in IF l.hit = "none" THEN Fetch ELSE {l.hit}
  /\ Kept(l, answer)
  /\ LET display == Rendered(IF Applies(l) THEN Displayed(l.key, answer) ELSE shown)
     IN  shown' = display /\ RowFollows(display)
  /\ loops' = (loops \ {l}) \union PollsAgain(l, answer)
  /\ UNCHANGED <<panel, selected, form>>

\* A poll that was cancelled ends here, and no amount needs no quote.
Woken(l) == IF l.effect = "off" \/ l.key = Nothing THEN {} ELSE {Ask(l.key)}

\* A timer.  That of the quote is set again if what it changes is rendered.
Wakes(l) ==
  /\ l.at = "sleeping"
  /\ \/ loops' = (loops \ {l}) \union Woken(l)
     \/ panel = "quote" /\ loops' = loops \union Woken(l)
  /\ shown' = IF l.key = Nothing THEN Nothing ELSE shown
  /\ UNCHANGED <<panel, selected, cache, form, closes>>

\* The interval of the mark, which does not wait for the answers before; or a
\* frame of the optional stream, whose connection is closed with the effect.
MarkTick ==
  /\ panel = "mark"
  /\ loops' = loops \union {Ask(selected)}
  /\ UNCHANGED <<panel, selected, shown, cache, form, closes>>

CacheExpires(key) ==
  /\ cache[key] # "none"
  /\ cache' = [cache EXCEPT ![key] = "none"]
  /\ UNCHANGED <<panel, selected, shown, loops, form, closes>>

-----------------------------------------------------------------------------
(* The order form and the swap.                                            *)

\* The field keeps its price when another market is selected.
TypePrice(price) ==
  /\ panel = "mark"
  /\ price \in {Nothing, selected}
  /\ typed' = price
  /\ UNCHANGED <<panel, selected, shown, loops, cache, order, closes>>

\* A market order is sent at the price in the field, or else at the mark; what
\* is awaited until it is sent changes neither.  Without both the program
\* refuses it.
SubmitMarketOrder ==
  /\ panel = "mark"
  /\ order' = [market |-> selected, price |-> IF typed # Nothing THEN typed ELSE shown]
  /\ UNCHANGED <<panel, selected, shown, loops, cache, typed, closes>>

\* The button is disabled meanwhile; being rendered sets the timer of the quote.
HandleSwap ==
  /\ panel = "quote" /\ selected # Nothing /\ row = "absent"
  /\ row' = "swapping"
  /\ loops' = CleanUp(loops) \union Started(selected, cache)
  /\ UNCHANGED <<panel, selected, shown, cache, form, handlers>>

\* The amount and the quote on display go; requests that are out go on.
AmountCleared ==
  /\ selected' = Nothing
  /\ shown' = Nothing
  /\ loops' = CleanUp(loops) \union Started(Nothing, cache)

\* executeSwapToUsdc (with a quote of its own) returns, and the amount is cleared
\* whatever was typed by now; or it throws, also when the swap has landed and
\* only its confirmation is missing, and the amount is there to be sent again.
SwapEnds ==
  /\ row = "swapping"
  /\ row' = "absent"
  /\ \/ AmountCleared
     \/ loops' = CleanUp(loops) \union Started(selected, cache) /\ UNCHANGED <<selected, shown>>
  /\ UNCHANGED <<panel, cache, form, handlers>>

ChooseToken ==
  /\ panel = "quote"
  /\ AmountCleared
  /\ UNCHANGED <<panel, cache, form, closes>>

-----------------------------------------------------------------------------
(* Closing a position.                                                     *)

HandleClose ==
  /\ row = "ready"
  /\ row' = "closing"
  /\ handlers' = handlers \union {"own"}
  /\ UNCHANGED <<panel, selected, shown, loops, cache, form>>

\* Signed and confirmed (the transaction may have failed on the chain all the
\* same: its error is not looked at), declined, refused or expired: the button
\* comes back.
CloseEnds ==
  /\ \/ /\ "own" \in handlers
        /\ row' = "ready"
        /\ handlers' = handlers \ {"own"}
     \/ /\ "orphan" \in handlers
        /\ handlers' = handlers \ {"orphan"}
        /\ UNCHANGED row
  /\ UNCHANGED <<panel, selected, shown, loops, cache, form>>

-----------------------------------------------------------------------------
LoopStep(l) == \/ \E answer \in Answers : Answered(l, answer)
               \/ Wakes(l)

DashNext ==
  \/ \E key \in Selections : Select(key)
  \/ \E key \in Keys : CacheExpires(key)
  \/ \E l \in loops : LoopStep(l)
  \/ MarkTick
  \/ \E price \in Keys \union {Nothing} : TypePrice(price)
  \/ SubmitMarketOrder
  \/ HandleSwap \/ SwapEnds \/ ChooseToken
  \/ HandleClose \/ CloseEnds

\* Requests are answered or fail, and timers fire.
DashFairness ==
  /\ \A key \in Keys : WF_dashVars(\E l \in loops : l.key = key /\ l.at = "asking" /\ LoopStep(l))
  /\ WF_dashVars(\E l \in loops : l.at = "sleeping" /\ LoopStep(l))
  /\ WF_dashVars(MarkTick)

DashSpec == DashInit /\ [][DashNext]_dashVars /\ DashFairness

-----------------------------------------------------------------------------
(* Properties.                                                             *)

\* A polled panel has one poll going for what is selected, however often the
\* user changes his mind and whatever failed, and the positions have none while
\* no wallet is connected; a button that waits has a handler.
DashTypeOK ==
  /\ panel \in Panels
  /\ selected \in Selections
  /\ {shown, typed} \subseteq Keys \union {Nothing}
  /\ order \in [market : Keys \union {Nothing}, price : Keys \union {Nothing}]
  /\ loops \subseteq Loops
  /\ cache \in [Keys -> {"none", "data", "empty"}]
  /\ row # "absent" => panel = IF row = "swapping" THEN "quote" ELSE "positions"
  /\ handlers \subseteq {"own", "orphan"}
  /\ row = "closing" <=> "own" \in handlers
  /\ panel \in Polled =>
       IF selected = Nothing
       THEN \A m \in loops : m.effect = "off"
       ELSE \E l \in loops : /\ l.key = selected
                             /\ {m \in loops : m.effect = "on"} = {l}

\* What a panel with a guarded effect comes to show is of the market selected
\* then: no late answer puts another market's data there.
ShowsWhatIsSelected ==
  [][shown' \notin {shown, Nothing} /\ panel \notin Unguarded => shown' = selected']_dashVars

\* A market order at the mark is never priced at another market's mark.
MarketOrdersAtOwnMark ==
  [][order' # order /\ typed = Nothing => order'.price \in {Nothing, order'.market}]_dashVars

\* Once the user stays with a selection and fetching works, a polled panel, the
\* mark and the quote show it for good, whatever failed or was under way before,
\* and no position or quote is left without a wallet or an amount; no name of
\* another owner is left either.
PollsSettle ==
  /\ ~[]<><<\E key \in Selections : Select(key)>>_dashVars
  /\ ~[]<><<\E l \in loops : Answered(l, "empty") \/ Answered(l, "failure")>>_dashVars
  => /\ <>[](panel \in Polled \union {"mark", "quote"} => shown = selected)
     /\ <>[](panel = "name" => shown \in {selected, Nothing})
=============================================================================
