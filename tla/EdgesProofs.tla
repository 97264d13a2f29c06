---------------------------- MODULE EdgesProofs ----------------------------
(***************************************************************************)
(* The dashboard, the faucet, the alert bot and the two copies of the      *)
(* book, for any number of markets, wallets, chats and traders.  No part   *)
(* knows of another: each has its own inductive invariant, and the system  *)
(* of MCEdges keeps them all.                                              *)
(***************************************************************************)
EXTENDS MCEdges, TLAPS

-----------------------------------------------------------------------------
(* The dashboard: a panel whose effect is guarded never comes to show      *)
(* another market than the selected one, a market order at the mark has    *)
(* the mark of its own market, and a polled panel always has exactly one   *)
(* poll going, or none while it has nothing to ask for.                    *)

\* What was not cancelled was asked for the present selection.
Guarded ==
  panel \notin Unguarded => \A l \in loops : l.effect = "on" => l.key = selected

MarkIsOwn == panel = "mark" => shown \in {Nothing, selected}

DashInv == DashTypeOK /\ Guarded /\ MarkIsOwn

LEMMA StartedLoops ==
  ASSUME cache \in [Keys -> {"none", "data", "empty"}], NEW key \in Selections
  PROVE  /\ key \in Keys => Ask(key) \in Loops
         /\ Ask(key).key = key /\ Ask(key).effect = "on"
         /\ Sleep(key) \in Loops /\ Sleep(key).key = key /\ Sleep(key).effect = "on"
  BY DEF Ask, Sleep, Loops, Selections

\* What an effect starts is for the selection, and one request or one timer.
LEMMA StartedOne ==
  ASSUME cache \in [Keys -> {"none", "data", "empty"}], NEW key \in Selections, NEW known, panel \in Panels
  PROVE  /\ Started(key, known) \subseteq Loops
         /\ \A l \in Started(key, known) : l.key = key /\ l.effect = "on"
         /\ panel \notin Unguarded => Started(key, known) = IF key = Nothing THEN {} ELSE {Ask(key)}
<1>1. key # Nothing => key \in Keys
  BY DEF Selections
<1>2. panel \notin Unguarded => panel \notin {"quote", "name"}
  BY DEF Unguarded
<1>3. Started(key, known) \in {{}, {Sleep(key)}} \/ (Started(key, known) = {Ask(key)} /\ key \in Keys)
  BY <1>1 DEF Started
<1>4. panel \notin Unguarded => Started(key, known) = IF key = Nothing THEN {} ELSE {Ask(key)}
  BY <1>2 DEF Started
<1> QED BY <1>2, <1>3, <1>4, StartedLoops

LEMMA SamePanel ==
  ASSUME UNCHANGED panel
  PROVE  Selections' = Selections /\ Loops' = Loops
  BY DEF Selections, Loops

\* One poll for the present selection, if there is one, and none but cancelled
\* ones beside it.
OnePoll(running, key) ==
  IF key = Nothing
  THEN \A m \in running : m.effect = "off"
  ELSE \E l \in running : l.key = key /\ {m \in running : m.effect = "on"} = {l}

LEMMA DashInitInv == DashInit => DashInv
<1> SUFFICES ASSUME DashInit PROVE DashInv
  OBVIOUS
<1>1. /\ cache \in [Keys -> {"none", "data", "empty"}]
      /\ selected \in Selections /\ panel \in Panels
  BY DEF DashInit, Selections
<1>2. loops \subseteq Loops /\ Guarded
  BY <1>1, StartedOne DEF DashInit, Guarded
<1>3. panel \in Polled => OnePoll(loops, selected)
  <2> SUFFICES ASSUME panel \in Polled PROVE OnePoll(loops, selected)
    OBVIOUS
  <2>1. loops = IF selected = Nothing THEN {} ELSE {Ask(selected)}
    BY <1>1, StartedOne DEF DashInit, Polled, Unguarded
  <2>2. Ask(selected).key = selected /\ Ask(selected).effect = "on"
    BY <1>1, StartedLoops
  <2> QED BY <2>1, <2>2 DEF OnePoll
<1> QED BY <1>1, <1>2, <1>3 DEF DashInit, DashInv, DashTypeOK, OnePoll, MarkIsOwn

LEMMA SelectInv ==
  ASSUME DashInv, NEW key \in Selections, Select(key)
  PROVE  DashInv'
<1> USE DEF DashInv, DashTypeOK
<1>1. /\ Started(key, cache) \subseteq Loops
      /\ \A l \in Started(key, cache) : l.key = key /\ l.effect = "on"
      /\ panel \notin Unguarded => Started(key, cache) = IF key = Nothing THEN {} ELSE {Ask(key)}
  BY StartedOne
<1>0. \A l \in Loops : [l EXCEPT !.effect = "off"] \in Loops /\ [l EXCEPT !.effect = "off"].effect = "off"
  BY DEF Loops
<1>2. CleanUp(loops) \subseteq Loops
  BY <1>0 DEF CleanUp
<1>3. panel \notin Unguarded => \A l \in CleanUp(loops) : l.effect = "off"
  <2> SUFFICES ASSUME panel \notin Unguarded, NEW l \in CleanUp(loops) PROVE l.effect = "off"
    OBVIOUS
  <2>1. PICK m \in loops : l = [m EXCEPT !.effect = "off"]
    BY Zenon DEF CleanUp
  <2> QED BY <1>0, <2>1
<1>4. loops' = CleanUp(loops) \union Started(key, cache) /\ selected' = key /\ UNCHANGED <<panel, cache, form>>
  BY DEF Select
<1>5. loops' \subseteq Loops /\ Loops' = Loops /\ Selections' = Selections
  BY <1>1, <1>2, <1>4, SamePanel
<1>6. Guarded'
  BY <1>1, <1>3, <1>4 DEF Guarded
<1>7. panel \in Polled => OnePoll(loops', key)
  <2> SUFFICES ASSUME panel \in Polled PROVE OnePoll(loops', key)
    OBVIOUS
  <2>1. \A l \in CleanUp(loops) : l.effect = "off"
    BY <1>3 DEF Polled, Unguarded
  <2>2. loops' = CleanUp(loops) \union IF key = Nothing THEN {} ELSE {Ask(key)}
    BY <1>1, <1>4 DEF Polled, Unguarded
  <2>3. Ask(key).key = key /\ Ask(key).effect = "on"
    BY StartedLoops
  <2> QED BY <2>1, <2>2, <2>3 DEF OnePoll
<1>8. shown' \in Keys \union {Nothing} /\ MarkIsOwn'
  <2>1. shown' = KeptOnSelect(key) /\ key \in Keys \union {Nothing}
    BY DEF Select, Selections
  <2>2. NameAtOnce(key, cache, shown) \in Keys \union {Nothing}
    BY <2>1 DEF NameAtOnce
  <2>3. shown' \in Keys \union {Nothing} /\ (panel = "mark" => shown' = Nothing)
    BY <2>1, <2>2 DEF KeptOnSelect
  <2> QED BY <1>4, <2>3 DEF MarkIsOwn
<1>9. /\ row' # "absent" => panel = IF row' = "swapping" THEN "quote" ELSE "positions"
      /\ handlers' \subseteq {"own", "orphan"}
      /\ (row' = "closing" <=> "own" \in handlers')
  BY DEF Select, RowFollows, closes
<1> QED BY <1>4, <1>5, <1>6, <1>7, <1>8, <1>9 DEF OnePoll, form

\* A loop that goes on does so for the same selection; one that was cancelled
\* ends.
LEMMA LoopGoesOn ==
  ASSUME DashInv, NEW l \in loops, NEW next \in SUBSET Loops,
         loops' = (loops \ {l}) \union next,
         panel \notin Unguarded /\ l.effect = "off" => next = {},
         panel \in Polled /\ l.effect = "on" => \E m \in next : next = {m} /\ m.key = l.key /\ m.effect = "on",
         panel \notin Unguarded => \A m \in next : m.key = l.key /\ m.effect = "on",
         UNCHANGED <<panel, selected>>
  PROVE  loops' \subseteq Loops /\ Loops' = Loops /\ Guarded' /\ (panel \in Polled => OnePoll(loops', selected))
<1> USE DEF DashInv, DashTypeOK
<1>1. loops' \subseteq Loops /\ Loops' = Loops
  BY DEF Loops, Selections
<1>2. panel \notin Unguarded => \A m \in next : m.key = l.key /\ m.effect = "on" /\ l.effect = "on"
  BY DEF Loops
<1>3. Guarded'
  BY <1>2 DEF Guarded
<1>4. ASSUME panel \in Polled, selected = Nothing PROVE OnePoll(loops', selected)
  <2>1. \A m \in loops : m.effect = "off"
    BY <1>4
  <2>2. next = {}
    BY <1>4, <2>1 DEF Polled, Unguarded
  <2> QED BY <1>4, <2>1, <2>2 DEF OnePoll
<1>5. ASSUME panel \in Polled, selected # Nothing PROVE OnePoll(loops', selected)
  <2>1. PICK k \in loops : k.key = selected /\ {m \in loops : m.effect = "on"} = {k}
    BY <1>5
  <2>2. CASE l.effect = "off"
    <3>1. k \in loops' /\ {m \in loops' : m.effect = "on"} = {k}
      BY <1>5, <2>1, <2>2 DEF Polled, Unguarded
    <3> QED BY <1>5, <2>1, <3>1 DEF OnePoll
  <2>3. CASE l.effect # "off"
    <3>0. l.effect = "on"
      BY <2>3 DEF Loops
    <3>1. l = k
      BY <2>1, <3>0
    <3>2. PICK m \in next : next = {m} /\ m.key = l.key /\ m.effect = "on"
      BY <1>5, <3>0
    <3>3. {n \in loops' : n.effect = "on"} = {m}
      BY <2>1, <3>1, <3>2
    <3> QED BY <1>5, <2>1, <3>1, <3>2, <3>3 DEF OnePoll
  <2> QED BY <2>2, <2>3
<1> QED BY <1>1, <1>3, <1>4, <1>5

LEMMA AnsweredInv ==
  ASSUME DashInv, NEW l \in loops, NEW answer \in Answers, Answered(l, answer)
  PROVE  DashInv' /\ (shown' \notin {shown, Nothing} /\ panel \notin Unguarded => shown' = selected)
<1> USE DEF DashInv, DashTypeOK
<1> DEFINE display == Rendered(IF Applies(l) THEN Displayed(l.key, answer) ELSE shown)
<1>1. /\ shown' = display /\ RowFollows(display)
      /\ loops' = (loops \ {l}) \union PollsAgain(l, answer)
      /\ Kept(l, answer)
      /\ UNCHANGED <<panel, selected, form>>
  BY DEF Answered
<1>2. l \in Loops /\ l.key \in Selections /\ Selections \subseteq Keys \union {Nothing}
  BY DEF Loops, Selections
<1>3. PollsAgain(l, answer) = IF panel \in {"quote", "name"} THEN Started(selected, cache')
                              ELSE IF panel \in Polled /\ l.effect = "on" THEN {Sleep(l.key)} ELSE {}
  BY DEF PollsAgain
<1>4. loops' \subseteq Loops /\ Loops' = Loops /\ Guarded' /\ (panel \in Polled => OnePoll(loops', selected))
  <2>1. /\ Sleep(l.key) \in Loops /\ Sleep(l.key).key = l.key /\ Sleep(l.key).effect = "on"
        /\ Started(selected, cache') \subseteq Loops
    BY <1>2, StartedLoops, StartedOne
  <2>2. PollsAgain(l, answer) \in SUBSET Loops
    BY <1>3, <2>1
  <2>3. /\ panel \notin Unguarded /\ l.effect = "off" => PollsAgain(l, answer) = {}
        /\ panel \notin Unguarded => PollsAgain(l, answer) \in {{}, {Sleep(l.key)}}
        /\ panel \in Polled /\ l.effect = "on" => PollsAgain(l, answer) = {Sleep(l.key)}
    BY <1>3 DEF Polled, Unguarded
  <2>4. /\ panel \in Polled /\ l.effect = "on" =>
             \E m \in PollsAgain(l, answer) : PollsAgain(l, answer) = {m} /\ m.key = l.key /\ m.effect = "on"
        /\ panel \notin Unguarded => \A m \in PollsAgain(l, answer) : m.key = l.key /\ m.effect = "on"
    BY <2>1, <2>3
  <2> QED BY <1>1, <2>2, <2>3, <2>4, LoopGoesOn
<1>5. /\ display \in Keys \union {Nothing}
      /\ display \notin {shown, Nothing} /\ panel \notin Unguarded => display = selected
      /\ panel = "mark" => display \in {Nothing, selected}
  <2> DEFINE found == IF Applies(l) THEN Displayed(l.key, answer) ELSE shown
  <2>1. /\ found \in Keys \union {Nothing}
        /\ found \notin {shown, Nothing} /\ panel \notin Unguarded => found = selected
        /\ panel = "mark" => found \in {Nothing, selected}
    BY <1>2 DEF Applies, Displayed, Guarded, MarkIsOwn, Unguarded
  <2>2. panel # "name" => display = found
    BY DEF Rendered
  <2>3. panel = "name" => display \in Keys \union {Nothing, found}
    BY <1>2 DEF Rendered, NameAtOnce
  <2> HIDE DEF display, found
  <2> QED BY <2>1, <2>2, <2>3 DEF Unguarded
<1>6. cache' \in [Keys -> {"none", "data", "empty"}]
  BY <1>1, <1>2 DEF Kept, Answers
<1>7. /\ row' # "absent" => panel = IF row' = "swapping" THEN "quote" ELSE "positions"
      /\ handlers' \subseteq {"own", "orphan"}
      /\ (row' = "closing" <=> "own" \in handlers')
  BY <1>1 DEF RowFollows, closes
<1> HIDE DEF display
<1> QED BY <1>1, <1>4, <1>5, <1>6, <1>7, SamePanel DEF OnePoll, MarkIsOwn, form

LEMMA WakesInv ==
  ASSUME DashInv, NEW l \in loops, Wakes(l)
  PROVE  DashInv' /\ shown' \in {shown, Nothing}
<1> USE DEF DashInv, DashTypeOK
<1>1. /\ shown' \in {shown, Nothing}
      /\ UNCHANGED <<panel, selected, cache, form, closes>>
  BY DEF Wakes
<1>2. /\ Woken(l) \in SUBSET Loops
      /\ l.effect = "off" => Woken(l) = {}
      /\ \A m \in Woken(l) : m.key = l.key /\ m.effect = "on"
      /\ panel \notin Unguarded /\ l.effect = "on" => Woken(l) = {Ask(l.key)}
  <2>1. l.key \in Selections /\ (l.key # Nothing => l.key \in Keys)
    BY DEF Loops, Selections
  <2>0. panel \notin Unguarded /\ l.effect = "on" => l.key # Nothing
    <3>1. panel \notin Unguarded /\ selected = Nothing => panel \in Polled
      BY DashboardAssumption DEF Selections, Unguarded, Polled, Nothing
    <3> QED BY <3>1 DEF Guarded
  <2>2. Woken(l) = IF l.effect = "off" \/ l.key = Nothing THEN {} ELSE {Ask(l.key)}
    BY DEF Woken
  <2>3. (l.key # Nothing => Ask(l.key) \in Loops) /\ Ask(l.key).key = l.key /\ Ask(l.key).effect = "on"
    BY <2>1, StartedLoops
  <2> QED BY <2>0, <2>1, <2>2, <2>3
<1>3. PICK next \in SUBSET Loops : /\ loops' = (loops \ {l}) \union next
                                   /\ panel \notin Unguarded => next = Woken(l)
  <2>1. CASE loops' = (loops \ {l}) \union Woken(l)
    BY <1>2, <2>1
  <2>2. CASE panel = "quote" /\ loops' = loops \union Woken(l)
    <3>1. loops' = (loops \ {l}) \union (Woken(l) \union {l}) /\ Woken(l) \union {l} \in SUBSET Loops
      BY <1>2, <2>2
    <3> QED BY <2>2, <3>1 DEF Unguarded
  <2> QED BY <2>1, <2>2 DEF Wakes
<1>4. loops' \subseteq Loops /\ Loops' = Loops /\ Guarded' /\ (panel \in Polled => OnePoll(loops', selected))
  <2>1. CASE panel \in Unguarded
    BY <1>1, <1>3, <2>1, LoopGoesOn DEF Polled, Unguarded
  <2>2. CASE panel \notin Unguarded /\ l.effect = "off"
    <3>1. next = {}
      BY <1>2, <1>3, <2>2
    <3> QED BY <1>1, <1>3, <2>2, <3>1, LoopGoesOn
  <2>3. CASE panel \notin Unguarded /\ l.effect # "off"
    <3>1. l.effect = "on"
      BY <2>3 DEF Loops
    <3>2. next = {Ask(l.key)} /\ Ask(l.key) \in Woken(l)
      BY <1>2, <1>3, <2>3, <3>1
    <3>3. Ask(l.key).key = l.key /\ Ask(l.key).effect = "on"
      BY <1>2, <3>2
    <3>4. /\ \E m \in next : next = {m} /\ m.key = l.key /\ m.effect = "on"
          /\ \A m \in next : m.key = l.key /\ m.effect = "on"
      BY <3>2, <3>3
    <3>5. loops' = (loops \ {l}) \union next /\ UNCHANGED <<panel, selected>>
      BY <1>1, <1>3
    <3> HIDE DEF DashInv, DashTypeOK
    <3> QED BY <2>3, <3>1, <3>4, <3>5, LoopGoesOn
  <2> QED BY <2>1, <2>2, <2>3
<1> QED BY <1>1, <1>4, SamePanel DEF OnePoll, MarkIsOwn, form, closes

LEMMA MarkTickInv ==
  ASSUME DashInv, MarkTick
  PROVE  DashInv'
<1> USE DEF DashInv, DashTypeOK
<1>1. /\ panel = "mark" /\ loops' = loops \union {Ask(selected)}
      /\ UNCHANGED <<panel, selected, shown, cache, form, closes>>
  BY DEF MarkTick
<1>2. loops' \subseteq Loops /\ Loops' = Loops /\ Guarded'
  BY <1>1, StartedLoops DEF Guarded, Loops, Selections
<1> QED BY <1>1, <1>2 DEF Polled, Selections, MarkIsOwn, form, closes

\* The steps of the swap.
LEMMA SwapInv ==
  ASSUME DashInv, HandleSwap \/ SwapEnds \/ ChooseToken
  PROVE  DashInv' /\ shown' \in {shown, Nothing} /\ order' = order
<1> USE DEF DashInv, DashTypeOK
<1>1. /\ panel = "quote" /\ UNCHANGED <<panel, cache, typed, order, handlers>>
      /\ row' \in {row, "swapping", "absent"}
      /\ row = "swapping" => row' # "closing"
      /\ row' = row \/ row \in {"absent", "swapping"}
  BY DEF HandleSwap, SwapEnds, ChooseToken, form, closes
<1>2. /\ selected' \in Selections /\ Nothing \in Selections
      /\ shown' \in {shown, Nothing}
  BY <1>1 DEF HandleSwap, SwapEnds, ChooseToken, AmountCleared, Selections
<1>3. loops' \subseteq Loops
  <2>1. CleanUp(loops) \subseteq Loops
    BY <1>1 DEF CleanUp, Unguarded
  <2>2. Started(selected, cache) \subseteq Loops /\ Started(Nothing, cache) \subseteq Loops
    BY <1>1, <1>2, StartedOne
  <2> QED BY <1>1, <2>1, <2>2 DEF HandleSwap, SwapEnds, ChooseToken, AmountCleared
<1>4. row' = "closing" <=> "own" \in handlers'
  BY <1>1
<1> QED BY <1>1, <1>2, <1>3, <1>4, SamePanel DEF Guarded, Unguarded, MarkIsOwn, Polled

\* The steps that leave the loops and the selection alone.
LEMMA OtherInv ==
  ASSUME DashInv,
         \/ \E key \in Keys : CacheExpires(key)
         \/ \E price \in Keys \union {Nothing} : TypePrice(price)
         \/ SubmitMarketOrder \/ HandleClose \/ CloseEnds
         \/ UNCHANGED dashVars
  PROVE  /\ DashInv'
         /\ shown' \in {shown, Nothing}
         /\ order' # order /\ typed = Nothing => order'.price \in {Nothing, order'.market}
<1> USE DEF DashInv, DashTypeOK
<1>1. CASE \E key \in Keys : CacheExpires(key)
  BY <1>1, SamePanel DEF CacheExpires, Guarded, MarkIsOwn, form, closes
<1>2. CASE \E price \in Keys \union {Nothing} : TypePrice(price)
  BY <1>2, SamePanel DEF TypePrice, Guarded, MarkIsOwn, closes
<1>3. CASE SubmitMarketOrder
  BY <1>3, SamePanel DEF SubmitMarketOrder, Selections, Guarded, MarkIsOwn, closes
<1>5. CASE HandleClose
  <2>1. row = "ready" /\ row' = "closing" /\ handlers' = handlers \union {"own"}
    BY <1>5 DEF HandleClose
  <2> QED BY <1>5, <2>1, SamePanel DEF HandleClose, Guarded, MarkIsOwn, form
<1>6. CASE CloseEnds
  <2>1. /\ handlers' \subseteq {"own", "orphan"}
        /\ (row' = "closing" <=> "own" \in handlers')
        /\ row' # "absent" => panel = IF row' = "swapping" THEN "quote" ELSE "positions"
    BY <1>6 DEF CloseEnds
  <2> QED BY <1>6, <2>1, SamePanel DEF CloseEnds, Guarded, MarkIsOwn, form
<1>7. CASE UNCHANGED dashVars
  BY <1>7, SamePanel DEF dashVars, Guarded, MarkIsOwn
<1> QED BY <1>1, <1>2, <1>3, <1>5, <1>6, <1>7

\* Every step keeps the invariant, and does what the two action properties say.
LEMMA DashNextInv ==
  ASSUME DashInv, [DashNext]_dashVars
  PROVE  /\ DashInv'
         /\ shown' \notin {shown, Nothing} /\ panel \notin Unguarded => shown' = selected'
         /\ order' # order /\ typed = Nothing => order'.price \in {Nothing, order'.market}
<1>1. ASSUME NEW key \in Selections, Select(key)
      PROVE  /\ DashInv' /\ order' = order
             /\ panel \notin Unguarded => shown' \in {shown, Nothing}
  BY <1>1, SelectInv DEF Select, KeptOnSelect, form, Unguarded
<1>2. ASSUME NEW l \in loops, NEW answer \in Answers, Answered(l, answer)
      PROVE  /\ DashInv' /\ order' = order
             /\ shown' \notin {shown, Nothing} /\ panel \notin Unguarded => shown' = selected'
  BY <1>2, AnsweredInv DEF Answered, form
<1>3. ASSUME NEW l \in loops, Wakes(l)
      PROVE  DashInv' /\ shown' \in {shown, Nothing} /\ order' = order
  BY <1>3, WakesInv DEF Wakes, form
<1>4. ASSUME MarkTick PROVE DashInv' /\ shown' = shown /\ order' = order
  BY <1>4, MarkTickInv DEF MarkTick, form
<1> QED BY <1>1, <1>2, <1>3, <1>4, SwapInv, OtherInv DEF DashNext, LoopStep

\* A polled panel has exactly one poll going for what is selected, through any
\* selections, answers and closes, and the positions have none while no wallet
\* is connected (components/order-book.tsx, positions-table.tsx).
THEOREM OnePollTheorem == DashSpec => []DashTypeOK
<1>1. DashInv => DashTypeOK
  BY DEF DashInv
<1>2. DashInv /\ [DashNext]_dashVars => DashInv'
  BY DashNextInv
<1> QED BY <1>1, <1>2, DashInitInv, PTL DEF DashSpec

\* No late answer puts another market's data on a panel whose effect is guarded.
THEOREM ShownTheorem == DashSpec => ShowsWhatIsSelected
<1>1. DashInv /\ [DashNext]_dashVars => DashInv'
  BY DashNextInv
<1>2. DashInv /\ [DashNext]_dashVars =>
        [shown' \notin {shown, Nothing} /\ panel \notin Unguarded => shown' = selected']_dashVars
  BY DashNextInv
<1> QED BY <1>1, <1>2, DashInitInv, PTL DEF DashSpec, ShowsWhatIsSelected

\* A market order without a price of the user's is never sent at the mark of
\* another market (order-entry.tsx and the store).
THEOREM MarketOrderTheorem == DashSpec => MarketOrdersAtOwnMark
<1>1. DashInv /\ [DashNext]_dashVars => DashInv'
  BY DashNextInv
<1>2. DashInv /\ [DashNext]_dashVars =>
        [order' # order /\ typed = Nothing => order'.price \in {Nothing, order'.market}]_dashVars
  BY DashNextInv
<1> QED BY <1>1, <1>2, DashInitInv, PTL DEF DashSpec, MarketOrdersAtOwnMark

-----------------------------------------------------------------------------
(* The faucet.  A failed request releases the limit while its other leg    *)
(* goes on, and answers of success come long after the limit was looked    *)
(* at; so the invariant says what the limit means while requests are under *)
(* way.                                                                    *)

\* A success is only forgotten with the limit, and who waits has had none.
LimitInv ==
  /\ FaucetTypeOK
  /\ successes \in [Wallets -> Nat]
  /\ \A r \in Requests : Unanswered(r) => successes[requests[r].wallet] = 0
  /\ \A w \in Wallets : successes[w] <= 1 /\ (successes[w] # 0 => limits[w] = "fresh")

LEMMA InitLimit == FaucetInit => LimitInv
  BY FaucetAssumption, SMTT(30) DEF FaucetInit, LimitInv, FaucetTypeOK, Under, Unanswered, NoRequest

\* The answer to a request, or none yet, keeps the invariant.
LEMMA ReplyLimit ==
  ASSUME LimitInv, NEW r \in Requests, Under(r), NEW req \in Request,
         req.wallet = requests[r].wallet, req.reply = requests[r].reply,
         Reply(r, req), solPool' \in 0 .. MaxPool, restarts' \in 0 .. MaxRestarts
  PROVE  LimitInv'
<1> USE DEF LimitInv, FaucetTypeOK, Under, Unanswered
<1>0. /\ Rest(req) \in Request \union {NoRequest}
      /\ Rest(req) # NoRequest => Rest(req) = req
      /\ requests[r] \in Request /\ requests[r] # NoRequest
  BY DEF Rest
<1>1. CASE Succeeds(req)
  <2>1. /\ requests' = [requests EXCEPT ![r] = NoRequest]
        /\ successes' = [successes EXCEPT ![req.wallet] = @ + 1]
        /\ limits' = limits
    BY <1>1 DEF Reply, Succeeds, Fails
  <2>2. Unanswered(r) /\ successes[req.wallet] = 0 /\ limits[req.wallet] = "fresh" /\ req.wallet \in Wallets
    BY <1>0, <1>1 DEF Succeeds, Request
  <2>3. \A q \in Requests : Unanswered(q)' => Unanswered(q) /\ q # r /\ requests'[q] = requests[q]
    BY <2>1
  <2>4. \A q \in Requests : Unanswered(q)' => requests[q].wallet \in Wallets /\ requests[q].wallet # req.wallet
    BY <2>2, <2>3 DEF Request, NoRequest
  <2> QED BY <2>1, <2>2, <2>3, <2>4
<1>2. CASE Fails(req)
  <2>1. /\ requests' = [requests EXCEPT ![r] = Rest([req EXCEPT !.reply = "failure"])]
        /\ limits' = [limits EXCEPT ![req.wallet] = "none"]
        /\ successes' = successes
    BY <1>2 DEF Reply, Succeeds, Fails
  <2>2. Unanswered(r) /\ successes[req.wallet] = 0 /\ req.wallet \in Wallets
    BY <1>0, <1>2 DEF Fails, Request
  <2>3. /\ Rest([req EXCEPT !.reply = "failure"]) \in Request \union {NoRequest}
        /\ ~Unanswered(r)'
    BY <2>1 DEF Rest, Request, NoRequest
  <2>4. \A q \in Requests : Unanswered(q)' => Unanswered(q) /\ q # r /\ requests'[q] = requests[q]
    BY <2>1, <2>3
  <2>5. \A q \in Requests : Unanswered(q)' => requests[q].wallet \in Wallets /\ requests[q].wallet # req.wallet
    BY <2>2, <2>4 DEF Request, NoRequest
  <2> QED BY <2>1, <2>2, <2>3, <2>4, <2>5
<1>3. CASE ~Succeeds(req) /\ ~Fails(req)
  <2>1. requests' = [requests EXCEPT ![r] = Rest(req)] /\ UNCHANGED <<limits, successes>>
    BY <1>3 DEF Reply
  <2>2. \A q \in Requests : Unanswered(q)' => Unanswered(q) /\ requests'[q].wallet = requests[q].wallet
    BY <1>0, <2>1
  <2> QED BY <1>0, <2>1, <2>2
<1> QED BY <1>1, <1>2, <1>3

LEMMA NextLimit == LimitInv /\ [FaucetNext]_faucetVars => LimitInv'
<1> SUFFICES ASSUME LimitInv, [FaucetNext]_faucetVars PROVE LimitInv'
  OBVIOUS
<1> USE FaucetAssumption
<1>0. /\ solPool \in 0 .. MaxPool /\ restarts \in 0 .. MaxRestarts
      /\ \A r \in Requests : Under(r) => requests[r] \in Request
  BY DEF LimitInv, FaucetTypeOK, Under
<1>1. ASSUME NEW r \in Requests, NEW w \in Wallets, HandleFaucet(r, w) PROVE LimitInv'
  <2>1. /\ limits' = [limits EXCEPT ![w] = "fresh"]
        /\ requests' = [requests EXCEPT ![r] =
                          [wallet |-> w, sol |-> "airdrop", usdc |-> "transfer", reply |-> "none"]]
        /\ UNCHANGED <<solPool, successes, restarts>>
        /\ limits[w] # "fresh"
    BY <1>1 DEF HandleFaucet, IsRateLimited
  <2>2. successes[w] = 0 /\ \A q \in Requests : Unanswered(q) => requests[q].wallet # w
    BY <2>1 DEF LimitInv, FaucetTypeOK
  <2>3. \A q \in Requests : q # r => requests'[q] = requests[q]
    BY <2>1 DEF LimitInv, FaucetTypeOK
  <2>4. requests'[r].wallet = w
    BY <2>1 DEF LimitInv, FaucetTypeOK
  <2>5. requests' \in [Requests -> Request \union {NoRequest}]
    BY <2>1 DEF LimitInv, FaucetTypeOK, Request
  <2>6. \A q \in Requests : q # r /\ Unanswered(q)' => Unanswered(q) /\ requests[q].wallet \in Wallets \ {w}
    BY <2>2, <2>3 DEF LimitInv, FaucetTypeOK, Unanswered, Under, Request
  <2> QED BY <2>1, <2>2, <2>3, <2>4, <2>5, <2>6 DEF LimitInv, FaucetTypeOK
<1>2. ASSUME NEW r \in Requests, AirdropSol(r) PROVE LimitInv'
  <2>1. PICK next \in {"paid", "check"} : Reply(r, [requests[r] EXCEPT !.sol = next])
    BY <1>2 DEF AirdropSol
  <2>2. Under(r)
    BY <1>2 DEF AirdropSol, Under, NoRequest
  <2> QED BY <1>0, <1>2, <2>1, <2>2, ReplyLimit DEF AirdropSol, Request
<1>3. ASSUME NEW r \in Requests, CheckPool(r) PROVE LimitInv'
  <2>1. Under(r)
    BY <1>3 DEF CheckPool, Under, NoRequest
  <2>2. PICK next \in {"failed", "transfer"} : Reply(r, [requests[r] EXCEPT !.sol = next])
    BY <1>3 DEF CheckPool
  <2> QED BY <1>0, <1>3, <2>1, <2>2, ReplyLimit DEF CheckPool, Request
<1>4. ASSUME NEW r \in Requests, TransferSol(r) PROVE LimitInv'
  <2>1. Under(r)
    BY <1>4 DEF TransferSol, Under, NoRequest
  <2>2. PICK next \in {"failed", "paid"} : Reply(r, [requests[r] EXCEPT !.sol = next])
    BY <1>4 DEF TransferSol
  <2>3. solPool' \in 0 .. MaxPool /\ restarts' = restarts
    BY <1>0, <1>4 DEF TransferSol, SolAmount
  <2> QED BY <1>0, <2>1, <2>2, <2>3, ReplyLimit DEF Request
<1>5. ASSUME NEW r \in Requests, TransferUsdc(r) PROVE LimitInv'
  <2>1. Under(r)
    BY <1>5 DEF TransferUsdc, Under, NoRequest
  <2>2. PICK next \in {"failed", "paid"} : Reply(r, [requests[r] EXCEPT !.usdc = next])
    BY <1>5 DEF TransferUsdc
  <2> QED BY <1>0, <1>5, <2>1, <2>2, ReplyLimit DEF TransferUsdc, Request
<1>6. ASSUME NEW w \in Wallets, WindowPasses(w) PROVE LimitInv'
  <2>1. \A r \in Requests : Unanswered(r)' = Unanswered(r) /\ requests'[r] = requests[r]
    BY <1>6 DEF WindowPasses, Unanswered, Under
  <2>2. \A r \in Requests : Unanswered(r) => requests[r].wallet \in Wallets \ {w}
    BY <1>6 DEF WindowPasses, LimitInv, FaucetTypeOK, Unanswered, Under, Request
  <2> QED BY <1>6, <2>1, <2>2 DEF WindowPasses, LimitInv, FaucetTypeOK
<1>7. CASE FaucetRestarts
  <2>1. \A r \in Requests : ~Unanswered(r)'
    BY <1>7 DEF FaucetRestarts, Unanswered, Under
  <2> QED BY <1>0, <1>7, <2>1 DEF FaucetRestarts, LimitInv, FaucetTypeOK
<1>8. CASE UNCHANGED faucetVars
  BY <1>8 DEF faucetVars, LimitInv, FaucetTypeOK, Unanswered, Under
<1> QED BY <1>1, <1>2, <1>3, <1>4, <1>5, <1>6, <1>7, <1>8 DEF FaucetNext, Legs

\* What TLC checks for two wallets and three requests: the limit and the
\* answers of services/faucet belong together, through failures that release
\* the limit, late legs, windows that pass and restarts.
THEOREM OneSuccessTheorem == FaucetSpec => [](FaucetTypeOK /\ OneSuccessPerWindow)
<1>1. LimitInv => FaucetTypeOK /\ OneSuccessPerWindow
  BY DEF LimitInv, OneSuccessPerWindow
<1> QED BY <1>1, InitLimit, NextLimit, PTL DEF FaucetSpec

-----------------------------------------------------------------------------
(* The alert bot: who was told that alerts end gets none, and a failing    *)
(* chat costs no other its alert.  Both are inductive as they stand.       *)

BotInv == BotTypeOK /\ UnsubscribedForGood

LEMMA BotInitInv == BotInit => BotInv
  BY AlertBotAssumption DEF BotInit, BotInv, BotTypeOK, UnsubscribedForGood, NoRow

LEMMA BotNextInv == BotInv /\ [BotNext]_botVars => BotInv'
<1> SUFFICES ASSUME BotInv, [BotNext]_botVars PROVE BotInv'
  OBVIOUS
<1> USE AlertBotAssumption DEF BotInv, BotTypeOK, UnsubscribedForGood
<1>0. \A kind \in Kinds : FindByEventType(kind) \subseteq Rows
  BY DEF FindByEventType, Rows, NoRow
<1>1. ASSUME NEW c \in Chats, NEW w \in Owners, NEW alerts \in (SUBSET Kinds) \ {{}}, Subscribe(c, w, alerts)
      PROVE  BotInv'
  BY <1>1 DEF Subscribe
<1>2. ASSUME NEW c \in Chats, Unsubscribe(c) PROVE BotInv'
  <2>1. table' \in [Owners -> {NoRow} \union [chat : Chats, alerts : (SUBSET Kinds) \ {{}}]]
    BY <1>2 DEF Unsubscribe, Remove
  <2>2. \A w \in Owners : table'[w].chat # c /\ (table'[w] = table[w] \/ table'[w].chat = "none")
    BY <1>2 DEF Unsubscribe, Remove, NoRow
  <2>3. \A e \in Events \ trailing'[c] : todo[e] = {}
    BY <1>2 DEF Unsubscribe
  <2>4. trailing' \in [Chats -> SUBSET Events] /\ \A d \in Chats \ {c} : trailing'[d] = trailing[d]
    BY <1>2 DEF Unsubscribe
  <2> QED BY <1>2, <2>1, <2>2, <2>3, <2>4 DEF Unsubscribe
<1>3. ASSUME NEW e \in Events, NEW kind \in Kinds, DispatchEvent(e, kind) PROVE BotInv'
  <2>1. \A c \in told : \A sub \in FindByEventType(kind) : sub.chat # c
    BY DEF FindByEventType
  <2>2. /\ todo' = [todo EXCEPT ![e] = FindByEventType(kind)]
        /\ owed' = [owed EXCEPT ![e] = FindByEventType(kind)]
        /\ tried' = [tried EXCEPT ![e] = {}]
        /\ trailing' = [c \in Chats |-> trailing[c] \ {e}]
        /\ UNCHANGED <<table, told>>
    BY <1>3 DEF DispatchEvent
  <2>3. /\ owed'[e] = FindByEventType(kind) /\ todo'[e] = FindByEventType(kind) /\ tried'[e] = {}
        /\ \A d \in Events \ {e} : owed'[d] = owed[d] /\ todo'[d] = todo[d] /\ tried'[d] = tried[d]
    BY <2>2
  <2>4. BotTypeOK'
    BY <1>0, <2>2, <2>3
  <2>5. \A c \in told : \A d \in Events \ trailing'[c] : \A sub \in todo'[d] : sub.chat # c
    <3> TAKE c \in told
    <3> TAKE d \in Events \ trailing'[c]
    <3>1. d # e => d \notin trailing[c]
      BY <2>2
    <3> QED BY <2>1, <2>3, <3>1
  <2> QED BY <2>2, <2>4, <2>5
<1>4. ASSUME NEW e \in Events, NEW sub \in Rows, MessageSent(e, sub) \/ MessageFails(e, sub) PROVE BotInv'
  <2>1. /\ sub \in todo[e]
        /\ todo' = [todo EXCEPT ![e] = @ \ {sub}]
        /\ tried' = [tried EXCEPT ![e] = @ \union {sub}]
        /\ UNCHANGED <<table, owed, told, trailing>>
    BY <1>4 DEF MessageSent, MessageFails, history
  <2>2. /\ todo'[e] = todo[e] \ {sub} /\ tried'[e] = tried[e] \union {sub}
        /\ \A d \in Events \ {e} : todo'[d] = todo[d] /\ tried'[d] = tried[d]
    BY <2>1
  <2>3. BotTypeOK'
    BY <2>1, <2>2
  <2> QED BY <2>1, <2>2, <2>3
<1>5. CASE BotRestarts
  BY <1>5 DEF BotRestarts
<1>6. CASE UNCHANGED botVars
  BY <1>6 DEF botVars
<1>7. CASE OnLogs
  <2>1. \A line : TryParseLogLine(line) \subseteq {line.kind}
    BY DEF TryParseLogLine
  <2>2. PICK shape \in Forms, name \in Kinds :
          \E kind \in TryParseLogLine([form |-> shape, kind |-> name]), e \in Events : DispatchEvent(e, kind)
    BY <1>7 DEF OnLogs
  <2>3. TryParseLogLine([form |-> shape, kind |-> name]) \subseteq Kinds
    BY <2>1
  <2> QED BY <1>3, <2>2, <2>3
<1> QED BY <1>1, <1>2, <1>4, <1>5, <1>6, <1>7 DEF BotNext

\* Through commands between two messages of a dispatch, overlapping dispatches
\* and restarts of services/telegram-bot, /unsubscribe keeps its promise.
THEOREM UnsubscribedTheorem == BotSpec => [](BotTypeOK /\ UnsubscribedForGood)
<1>1. BotInv => BotTypeOK /\ UnsubscribedForGood
  BY DEF BotInv
<1> QED BY <1>1, BotInitInv, BotNextInv, PTL DEF BotSpec

-----------------------------------------------------------------------------
(* The two copies of the book.  While the account is delegated, its book   *)
(* on mainnet, the commits on their way and the copy on the rollup are     *)
(* successive books, each the one before with more orders matched.         *)

Disjoint(book) == \A fill \in book.fills : Uses(fill) \intersect book.resting = {}

\* later came from book by matches alone.
Leads(book, later) == Busy(later) = Busy(book) /\ book.fills \subseteq later.fills

Shapes ==
  /\ account \in [owner : {"nobody", "program", "delegation program"}, chunks : 0 .. Chunks, book : Book]
  /\ rollup \in [book : Book, present : BOOLEAN]
  /\ updates \in Seq([book : Book, last : BOOLEAN])
  /\ funded \subseteq users /\ users \subseteq Traders

\* The program has the account back with the last update, which nothing follows.
OneWriter ==
  /\ account.owner = "delegation program" <=>
       rollup.present \/ (updates # <<>> /\ updates[Len(updates)].last)
  /\ updates # <<>> => account.owner = "delegation program"
  /\ rollup.present => \A i \in 1 .. Len(updates) : ~updates[i].last
  /\ \A i \in 1 .. Len(updates) : updates[i].last => i = Len(updates)

BooksDisjoint ==
  /\ Disjoint(account.book) /\ Disjoint(rollup.book)
  /\ \A i \in 1 .. Len(updates) : Disjoint(updates[i].book)

InSuccession ==
  /\ \A i \in 1 .. Len(updates) : Leads(account.book, updates[i].book)
  /\ \A i, j \in 1 .. Len(updates) : i < j => Leads(updates[i].book, updates[j].book)
  /\ rollup.present => /\ Leads(account.book, rollup.book)
                       /\ \A i \in 1 .. Len(updates) : Leads(updates[i].book, rollup.book)

CopiesInv == Shapes /\ OneWriter /\ BooksDisjoint /\ InSuccession

LEMMA NoIndex == ASSUME NEW s, s = <<>> PROVE \A i \in 1 .. Len(s) : FALSE
  OBVIOUS

LEMMA TailFacts ==
  ASSUME NEW S, NEW s \in Seq(S), s # <<>>
  PROVE  \E n \in Nat :
           /\ Len(s) = n + 1 /\ Head(s) = s[1] /\ s[1] \in S
           /\ Tail(s) \in Seq(S) /\ Len(Tail(s)) = n /\ Tail(s) # s
           /\ \A i \in 1 .. n : Tail(s)[i] = s[i + 1] /\ i + 1 \in 1 .. (n + 1)
           /\ 1 \in 1 .. (n + 1)
<1>1. PICK n \in Nat : Len(s) = n + 1
  <2>1. Len(s) \in Nat /\ Len(s) # 0
    OBVIOUS
  <2>2. Len(s) - 1 \in Nat /\ Len(s) = (Len(s) - 1) + 1
    BY <2>1
  <2> QED BY <2>2
<1>2. Tail(s) \in Seq(S) /\ Len(Tail(s)) = n
  BY <1>1
<1>3. Tail(s) # s
  BY <1>1, <1>2
<1> QED BY <1>1, <1>2, <1>3

LEMMA LeadsOn ==
  /\ \A b : Leads(b, b)
  /\ \A b, c, d : Leads(b, c) /\ Leads(c, d) => Leads(b, d)
  BY DEF Leads

LEMMA InBusy ==
  ASSUME NEW book, NEW x
  PROVE  x \in Busy(book) <=> x \in book.resting \/ \E fill \in book.fills : x \in Uses(fill)
  BY DEF Busy

\* What a crank makes of a book.
LEMMA MatchedLeads ==
  ASSUME NEW book \in Book, Disjoint(book), NEW pairs \in Pairings(book)
  PROVE  /\ Matched(book, pairs) \in Book /\ Disjoint(Matched(book, pairs))
         /\ Leads(book, Matched(book, pairs))
         /\ Matched(book, pairs).final = book.final
<1>1. PICK later : later = Matched(book, pairs)
  OBVIOUS
<1>2. pairs \subseteq (Bids \intersect book.resting) \X (Asks \intersect book.resting)
  BY DEF Pairings
<1>3. \A p \in pairs : p[1] \in Bids \intersect book.resting /\ p[2] \in Asks \intersect book.resting
  BY <1>2
<1>4. PICK used : used = UNION {Uses(p) : p \in pairs}
  OBVIOUS
<1>5. used \subseteq book.resting
  BY <1>3, <1>4 DEF Uses
<1>6. /\ later.resting = book.resting \ used /\ later.fills = book.fills \union pairs
      /\ later.final = book.final /\ later.isDelegated = book.isDelegated
      /\ later = [book EXCEPT !.resting = @ \ used, !.fills = @ \union pairs]
  BY <1>1, <1>4 DEF Matched, Book
<1>7. later \in Book
  BY <1>2, <1>6 DEF Book
<1>8. Disjoint(later)
  <2>1. \A p \in pairs : Uses(p) \subseteq used
    BY <1>4
  <2> QED BY <1>6, <2>1 DEF Disjoint
<1>9. Busy(later) = Busy(book)
  <2>1. ASSUME NEW x PROVE x \in Busy(later) <=> x \in Busy(book)
    <3>1. x \in used <=> \E p \in pairs : x \in Uses(p)
      BY <1>4
    <3>2. (\E fill \in later.fills : x \in Uses(fill)) <=> x \in used \/ \E fill \in book.fills : x \in Uses(fill)
      BY <1>6, <3>1
    <3> QED BY <1>5, <1>6, <3>2, InBusy
  <2> QED BY <2>1, Zenon
<1> QED BY <1>1, <1>6, <1>7, <1>8, <1>9 DEF Leads

LEMMA CopiesInit == DelegationInit => CopiesInv
<1> SUFFICES ASSUME DelegationInit PROVE CopiesInv
  OBVIOUS
<1>1. NoBook \in Book /\ Disjoint(NoBook)
  BY DEF NoBook, Book, Disjoint
<1>2. updates \in Seq([book : Book, last : BOOLEAN]) /\ Len(updates) = 0
  BY DEF DelegationInit
<1>3. account.book = NoBook /\ rollup = [book |-> NoBook, present |-> FALSE] /\ account.owner = "nobody"
  BY DEF DelegationInit, NoCopy
<1>4. Shapes
  BY <1>1, <1>2, <1>3, DelegationAssumption DEF DelegationInit, Shapes, Traders
<1>5. OneWriter /\ BooksDisjoint /\ InSuccession
  BY <1>1, <1>2, <1>3 DEF DelegationInit, OneWriter, BooksDisjoint, InSuccession
<1> QED BY <1>4, <1>5 DEF CopiesInv

\* Mainnet writes the account only while the program owns it, and then nothing
\* is on its way and the rollup has no copy.
LEMMA ProgramWrites ==
  ASSUME CopiesInv, account.owner # "delegation program",
         account' \in [owner : {"nobody", "program"}, chunks : 0 .. Chunks, book : Book],
         Disjoint(account'.book), UNCHANGED <<rollup, updates>>,
         funded' \subseteq users', users' \subseteq Traders
  PROVE  CopiesInv'
<1>1. updates = <<>> /\ ~rollup.present /\ (\A i \in 1 .. Len(updates) : FALSE)
  <2>1. updates = <<>> /\ ~rollup.present
    BY DEF CopiesInv, OneWriter
  <2> QED BY <2>1, NoIndex
<1>2. Shapes' /\ account'.owner # "delegation program"
  BY DEF CopiesInv, Shapes, Traders
<1>3. updates' = <<>> /\ (\A i \in 1 .. Len(updates') : FALSE) /\ ~rollup'.present /\ rollup' = rollup
  BY <1>1
<1>4. OneWriter' /\ InSuccession'
  <2>1. OneWriter'
    BY <1>2, <1>3 DEF OneWriter
  <2>2. InSuccession'
    BY <1>3 DEF InSuccession
  <2> QED BY <2>1, <2>2
<1>5. BooksDisjoint'
  BY <1>3 DEF CopiesInv, BooksDisjoint
<1> QED BY <1>2, <1>4, <1>5 DEF CopiesInv

LEMMA MainnetSteps ==
  ASSUME CopiesInv,
         \/ MainnetNext /\ ~DelegateBook
         \/ /\ Writable
            /\ \E pairs \in Pairings(account.book) : account' = [account EXCEPT !.book = Matched(@, pairs)]
            /\ UNCHANGED <<rollup, updates, users, funded>>
  PROVE  CopiesInv' /\ UNCHANGED updates
<1>1. /\ account \in [owner : {"nobody", "program", "delegation program"}, chunks : 0 .. Chunks, book : Book]
      /\ Disjoint(account.book) /\ funded \subseteq users /\ users \subseteq Traders
  BY DEF CopiesInv, Shapes, BooksDisjoint
<1> DEFINE Written(book) ==
      /\ account.owner = "program" /\ book \in Book /\ Disjoint(book)
      /\ account' = [account EXCEPT !.book = book]
      /\ UNCHANGED <<rollup, updates, users>> /\ funded' \subseteq funded
<1>2. ASSUME NEW book, Written(book) PROVE CopiesInv' /\ UNCHANGED updates
  <2>1. account' \in [owner : {"nobody", "program"}, chunks : 0 .. Chunks, book : Book] /\ account'.book = book
    BY <1>1, <1>2
  <2> QED BY <1>1, <1>2, <2>1, ProgramWrites
<1> DEFINE Unwritten == account' = account /\ UNCHANGED <<rollup, updates>> /\ funded' \subseteq users' /\ users' \subseteq Traders
<1>3. ASSUME Unwritten PROVE CopiesInv' /\ UNCHANGED updates
  BY <1>3 DEF CopiesInv, Shapes, OneWriter, BooksDisjoint, InSuccession, Traders
<1>4. CASE InitializeMarket \/ ExtendOrderBook
  <2>1. /\ account'.owner = "program" /\ account'.book = account.book
        /\ account.owner # "delegation program"
        /\ account' \in [owner : {"nobody", "program"}, chunks : 0 .. Chunks, book : Book]
    <3>1. CASE InitializeMarket
      BY <1>1, <3>1 DEF InitializeMarket
    <3>2. CASE ExtendOrderBook
      <4>1. account.owner = "program" /\ account.chunks < Chunks /\ account' = [account EXCEPT !.chunks = @ + 1]
        BY <3>2 DEF ExtendOrderBook
      <4>2. account.chunks \in 0 .. Chunks
        BY <1>1
      <4>3. account.chunks + 1 \in 0 .. Chunks
        BY <4>1, <4>2, DelegationAssumption
      <4> QED BY <1>1, <4>1, <4>3
    <3> QED BY <1>4, <3>1, <3>2
  <2> QED BY <1>1, <1>4, <2>1, ProgramWrites DEF InitializeMarket, ExtendOrderBook
<1>5. CASE FinalizeOrderBookInit
  <2>1. EmptyBook \in Book /\ Disjoint(EmptyBook)
    BY DEF EmptyBook, NoBook, Book, Disjoint
  <2> QED BY <1>2, <1>5, <2>1 DEF FinalizeOrderBookInit
<1>6. ASSUME NEW book \in Book, Disjoint(book), Writable, account' = [account EXCEPT !.book = book],
             UNCHANGED <<rollup, updates, users>>, funded' \subseteq funded
      PROVE  CopiesInv' /\ UNCHANGED updates
  BY <1>2, <1>6 DEF Writable
<1>7. account.book \in Book
  BY <1>1
<1>8. ASSUME NEW pairs \in Pairings(account.book), Writable,
             account' = [account EXCEPT !.book = Matched(@, pairs)], UNCHANGED <<rollup, updates, users, funded>>
      PROVE  CopiesInv' /\ UNCHANGED updates
  <2>1. Matched(account.book, pairs) \in Book /\ Disjoint(Matched(account.book, pairs))
    BY <1>1, <1>7, MatchedLeads
  <2> QED BY <1>6, <1>8, <2>1
<1>9. CASE BankrunMarkOrderBookDelegated
  <2>1. PICK book : book = [account.book EXCEPT !.isDelegated = TRUE]
    OBVIOUS
  <2>2. book \in Book /\ book.resting = account.book.resting /\ book.fills = account.book.fills
    BY <1>7, <2>1 DEF Book
  <2>3. account' = [account EXCEPT !.book = book]
    BY <1>9, <2>1 DEF BankrunMarkOrderBookDelegated
  <2> QED BY <1>1, <1>6, <1>9, <2>2, <2>3 DEF BankrunMarkOrderBookDelegated, Disjoint
<1>10. ASSUME NEW t \in Traders, InitializeUser(t) \/ DepositCollateral(t) \/ WithdrawCollateral(t)
       PROVE  CopiesInv' /\ UNCHANGED updates
  <2>1. Unwritten
    BY <1>1, <1>10 DEF InitializeUser, DepositCollateral, WithdrawCollateral, Traders
  <2> QED BY <1>3, <2>1
<1>11. ASSUME NEW t \in Traders, PlaceOrder(t) \/ CancelOrder(t)
       PROVE  CopiesInv' /\ UNCHANGED updates
  <2>1. ASSUME NEW resting \in SUBSET Traders, \A fill \in account.book.fills : Uses(fill) \intersect resting = {},
               account' = [account EXCEPT !.book.resting = resting]
        PROVE  CopiesInv' /\ UNCHANGED updates
    <3>1. PICK book : book = [account.book EXCEPT !.resting = resting]
      OBVIOUS
    <3>2. /\ book \in Book /\ book.resting = resting /\ book.fills = account.book.fills
          /\ account' = [account EXCEPT !.book = book]
      BY <1>1, <1>7, <2>1, <3>1 DEF Book
    <3>3. Disjoint(book)
      BY <2>1, <3>2 DEF Disjoint
    <3> QED BY <1>6, <1>11, <3>2, <3>3 DEF PlaceOrder, CancelOrder
  <2>2. account.book.resting \subseteq Traders /\ \A fill \in account.book.fills : Uses(fill) \intersect account.book.resting = {}
    BY <1>1, <1>7 DEF Book, Disjoint
  <2>3. CASE PlaceOrder(t)
    <3>1. t \notin Busy(account.book) /\ account' = [account EXCEPT !.book.resting = account.book.resting \union {t}]
      BY <2>3 DEF PlaceOrder
    <3>2. \A fill \in account.book.fills : t \notin Uses(fill)
      BY <3>1, InBusy
    <3>3. \A fill \in account.book.fills : Uses(fill) \intersect (account.book.resting \union {t}) = {}
      BY <2>2, <3>2
    <3> QED BY <2>1, <2>2, <3>1, <3>3
  <2>4. CASE CancelOrder(t)
    <3>1. account' = [account EXCEPT !.book.resting = account.book.resting \ {t}]
      BY <2>4 DEF CancelOrder
    <3>2. \A fill \in account.book.fills : Uses(fill) \intersect (account.book.resting \ {t}) = {}
      BY <2>2
    <3> QED BY <2>1, <2>2, <3>1, <3>2
  <2> QED BY <1>11, <2>3, <2>4
<1>12. ASSUME NEW fill \in Bids \X Asks, ClaimFill(fill)
       PROVE  CopiesInv' /\ UNCHANGED updates
  <2>1. PICK book : book = [account.book EXCEPT !.fills = @ \ {fill}]
    OBVIOUS
  <2>2. /\ book \in Book /\ book.resting = account.book.resting /\ book.fills \subseteq account.book.fills
        /\ account' = [account EXCEPT !.book = book]
    BY <1>1, <1>7, <1>12, <2>1 DEF Book, ClaimFill
  <2>3. Disjoint(book)
    BY <1>1, <2>2 DEF Disjoint
  <2>4. Writable /\ UNCHANGED <<rollup, updates, users>> /\ funded' \subseteq funded
    BY <1>12 DEF ClaimFill
  <2> QED BY <1>6, <2>2, <2>3, <2>4
<1> HIDE DEF Written, Unwritten
<1>13. CASE MainnetNext /\ ~DelegateBook
  BY <1>4, <1>5, <1>8, <1>9, <1>10, <1>11, <1>12, <1>13 DEF MainnetNext, CrankMatch
<1> QED BY <1>8, <1>13

Update == [book : Book, last : BOOLEAN]

\* The copy on the rollup is the account's book at first.
LEMMA DelegateStep ==
  ASSUME CopiesInv, DelegateBook
  PROVE  CopiesInv' /\ UNCHANGED updates
<1>1. /\ account' = [account EXCEPT !.owner = "delegation program"]
      /\ rollup' = [book |-> account.book, present |-> TRUE]
      /\ UNCHANGED <<updates, users, funded>>
      /\ account.owner = "program"
  BY DEF DelegateBook
<1>2. /\ account \in [owner : {"nobody", "program", "delegation program"}, chunks : 0 .. Chunks, book : Book]
      /\ Disjoint(account.book)
  BY DEF CopiesInv, Shapes, BooksDisjoint
<1>3. updates' = <<>> /\ (\A i \in 1 .. Len(updates') : FALSE)
  <2>1. updates' = <<>>
    BY <1>1 DEF CopiesInv, OneWriter
  <2>2. Len(updates') = 0
    BY <2>1
  <2> QED BY <2>1, <2>2
<1>4. /\ account'.owner = "delegation program" /\ account'.book = account.book
      /\ rollup'.book = account.book /\ rollup'.present = TRUE
      /\ account' \in [owner : {"nobody", "program", "delegation program"}, chunks : 0 .. Chunks, book : Book]
      /\ rollup' \in [book : Book, present : BOOLEAN]
  BY <1>1, <1>2
<1>5. Shapes'
  BY <1>1, <1>4 DEF CopiesInv, Shapes, Traders
<1>6. OneWriter' /\ BooksDisjoint' /\ InSuccession'
  <2>1. OneWriter'
    BY <1>3, <1>4 DEF OneWriter
  <2>2. BooksDisjoint'
    BY <1>2, <1>3, <1>4 DEF BooksDisjoint
  <2>3. InSuccession'
    BY <1>3, <1>4, LeadsOn DEF InSuccession
  <2> QED BY <2>1, <2>2, <2>3
<1> QED BY <1>1, <1>5, <1>6 DEF CopiesInv

\* A crank on the rollup takes its copy further.
LEMMA RollupMatches ==
  ASSUME CopiesInv, rollup.present, NEW pairs \in Pairings(rollup.book),
         rollup' = [rollup EXCEPT !.book = Matched(@, pairs)],
         UNCHANGED <<account, updates, users, funded>>
  PROVE  CopiesInv'
<1>1. rollup \in [book : Book, present : BOOLEAN] /\ Disjoint(rollup.book)
  BY DEF CopiesInv, Shapes, BooksDisjoint
<1>2. PICK later : later = Matched(rollup.book, pairs)
  OBVIOUS
<1>3. later \in Book /\ Disjoint(later) /\ Leads(rollup.book, later)
  <2>1. rollup.book \in Book
    BY <1>1
  <2> QED BY <1>1, <1>2, <2>1, MatchedLeads
<1>4. rollup'.book = later /\ rollup'.present = rollup.present /\ rollup' \in [book : Book, present : BOOLEAN]
  BY <1>1, <1>2, <1>3
<1>5. Shapes' /\ OneWriter' /\ BooksDisjoint'
  BY <1>3, <1>4 DEF CopiesInv, Shapes, OneWriter, BooksDisjoint, Traders
<1>6. InSuccession'
  BY <1>3, <1>4, LeadsOn DEF CopiesInv, InSuccession
<1> QED BY <1>5, <1>6 DEF CopiesInv

\* A commit puts the copy on the rollup behind those on their way.
LEMMA CommitKeeps ==
  ASSUME CopiesInv, rollup.present, NEW book \in Book, NEW last \in BOOLEAN,
         book.resting = rollup.book.resting, book.fills = rollup.book.fills,
         updates' = Append(updates, [book |-> book, last |-> last]),
         rollup' = IF last THEN NoCopy ELSE rollup,
         UNCHANGED <<account, users, funded>>
  PROVE  CopiesInv' /\ (updates # <<>> => updates' # Tail(updates))
<1>1. /\ rollup \in [book : Book, present : BOOLEAN] /\ Disjoint(rollup.book)
      /\ updates \in Seq(Update) /\ Len(updates) \in Nat
  <2>1. rollup \in [book : Book, present : BOOLEAN] /\ updates \in Seq([book : Book, last : BOOLEAN])
    BY DEF CopiesInv, Shapes
  <2>2. updates \in Seq(Update)
    BY <2>1, Zenon DEF Update
  <2>3. Len(updates) \in Nat
    BY <2>2
  <2> QED BY <2>1, <2>2, <2>3 DEF CopiesInv, BooksDisjoint
<1>2. account.owner = "delegation program" /\ \A i \in 1 .. Len(updates) : ~updates[i].last
  BY DEF CopiesInv, OneWriter
<1>3. rollup' \in [book : Book, present : BOOLEAN] /\ Disjoint(rollup'.book) /\ (rollup'.present <=> ~last)
  <2>1. CASE last
    <3>1. rollup' = [book |-> NoBook, present |-> FALSE]
      BY <2>1 DEF NoCopy
    <3>2. NoBook \in Book /\ Disjoint(NoBook)
      BY DEF NoBook, Book, Disjoint
    <3>3. [book |-> NoBook, present |-> FALSE] \in [book : Book, present : BOOLEAN]
      BY <3>2
    <3>4. rollup' \in [book : Book, present : BOOLEAN]
      BY <3>1, <3>3, Zenon
    <3>5. rollup'.book = NoBook /\ rollup'.present = FALSE
      BY <3>1
    <3> QED BY <2>1, <3>2, <3>4, <3>5, Zenon
  <2>2. CASE ~last
    BY <1>1, <2>2
  <2> QED BY <2>1, <2>2
<1>4. PICK n \in Nat : n = Len(updates)
  BY <1>1
<1>5. [book |-> book, last |-> last] \in Update
  BY DEF Update
<1>6. /\ updates' \in Seq(Update) /\ Len(updates') = n + 1
      /\ \A i \in 1 .. n : updates'[i] = updates[i]
      /\ updates'[n + 1].book = book /\ updates'[n + 1].last = last
      /\ 1 .. Len(updates') = (1 .. n) \union {n + 1}
      /\ updates' # <<>>
  <2>1. PICK sent \in Update : sent = [book |-> book, last |-> last]
    BY <1>5
  <2>2. updates' = Append(updates, sent)
    BY <2>1
  <2>3. /\ updates' \in Seq(Update) /\ Len(updates') = n + 1
        /\ \A i \in 1 .. n : updates'[i] = updates[i]
        /\ updates'[n + 1] = sent
    BY <1>1, <1>4, <2>2
  <2>4. sent.book = book /\ sent.last = last
    BY <2>1
  <2>5. 1 .. (n + 1) = (1 .. n) \union {n + 1} /\ n + 1 # 0
    OBVIOUS
  <2>6. updates' # <<>>
    BY <2>3, <2>5
  <2> QED BY <2>3, <2>4, <2>5, <2>6
<1>7. Leads(rollup.book, book) /\ Disjoint(book)
  BY <1>1 DEF Leads, Busy, Disjoint
<1>8. Shapes'
  BY <1>3, <1>6 DEF CopiesInv, Shapes, Update, Traders
<1>9. OneWriter'
  <2>1. updates'[Len(updates')].last = last
    BY <1>6
  <2>2. \A i \in 1 .. Len(updates') : updates'[i].last => i = n + 1 /\ last
    BY <1>2, <1>4, <1>6
  <2>3. account'.owner = "delegation program"
    BY <1>2
  <2> QED BY <1>3, <1>6, <2>1, <2>2, <2>3 DEF OneWriter
<1>10. BooksDisjoint'
  <2>2. \A i \in 1 .. Len(updates') : Disjoint(updates'[i].book)
    BY <1>4, <1>6, <1>7 DEF CopiesInv, BooksDisjoint
  <2> QED BY <1>3, <2>2 DEF CopiesInv, BooksDisjoint
<1>11. InSuccession'
  <2>1. /\ \A i \in 1 .. n : Leads(account.book, updates[i].book) /\ Leads(updates[i].book, rollup.book)
        /\ \A i, j \in 1 .. n : i < j => Leads(updates[i].book, updates[j].book)
        /\ Leads(account.book, rollup.book)
    BY <1>4 DEF CopiesInv, InSuccession
  <2>2. /\ \A i \in 1 .. n : Leads(updates[i].book, book)
        /\ Leads(account.book, book) /\ Leads(book, rollup.book)
    <3>1. Leads(book, rollup.book)
      BY DEF Leads, Busy
    <3> QED BY <1>7, <2>1, <3>1, LeadsOn
  <2>3. \A i \in 1 .. Len(updates') : Leads(account.book, updates'[i].book) /\ Leads(updates'[i].book, rollup.book)
    BY <1>6, <2>1, <2>2
  <2>4. \A i, j \in 1 .. Len(updates') : i < j => Leads(updates'[i].book, updates'[j].book)
    <3> SUFFICES ASSUME NEW i \in 1 .. Len(updates'), NEW j \in 1 .. Len(updates'), i < j
                 PROVE  Leads(updates'[i].book, updates'[j].book)
      OBVIOUS
    <3>1. i \in 1 .. n
      BY <1>6
    <3>2. CASE j \in 1 .. n
      BY <1>6, <2>1, <3>1, <3>2
    <3>3. CASE j = n + 1
      BY <1>6, <2>2, <3>1, <3>3
    <3> QED BY <1>6, <3>2, <3>3
  <2>5. rollup'.present => rollup' = rollup
    BY <1>3
  <2> QED BY <2>1, <2>3, <2>4, <2>5 DEF InSuccession
<1>12. updates # <<>> => updates' # Tail(updates)
  <2>1. updates # <<>> => Len(Tail(updates)) = n - 1
    BY <1>1, <1>4
  <2> QED BY <1>6, <2>1
<1> QED BY <1>8, <1>9, <1>10, <1>11, <1>12 DEF CopiesInv

LEMMA CommitSteps ==
  ASSUME CopiesInv, CommitBook \/ CommitAndUndelegateBook
  PROVE  CopiesInv' /\ (updates # <<>> => updates' # Tail(updates))
<1>1. rollup.present /\ rollup.book \in Book /\ UNCHANGED <<account, users, funded>>
  BY DEF CommitBook, CommitAndUndelegateBook, CopiesInv, Shapes
<1>2. CASE CommitBook
  <2>1. updates' = Append(updates, [book |-> rollup.book, last |-> FALSE]) /\ rollup' = rollup
    BY <1>2 DEF CommitBook, Send
  <2> QED BY <1>1, <2>1, CommitKeeps
<1>3. CASE CommitAndUndelegateBook
  <2>1. PICK book : book = [rollup.book EXCEPT !.isDelegated = FALSE]
    OBVIOUS
  <2>2. book \in Book /\ book.resting = rollup.book.resting /\ book.fills = rollup.book.fills
    BY <1>1, <2>1 DEF Book
  <2>3. updates' = Append(updates, [book |-> book, last |-> TRUE]) /\ rollup' = NoCopy
    BY <1>3, <2>1 DEF CommitAndUndelegateBook, Send
  <2> QED BY <1>1, <2>2, <2>3, CommitKeeps
<1> QED BY <1>2, <1>3

\* The oldest commit lands: it becomes the book on mainnet, the rest follow it.
LEMMA LandStep ==
  ASSUME CopiesInv, UpdateLands
  PROVE  CopiesInv' /\ Leads(account.book, account'.book)
<1>1. /\ updates \in Seq([book : Book, last : BOOLEAN]) /\ updates # <<>>
      /\ account \in [owner : {"nobody", "program", "delegation program"}, chunks : 0 .. Chunks, book : Book]
      /\ account.owner = "delegation program"
  BY DEF CopiesInv, Shapes, OneWriter, UpdateLands
<1>2. PICK n \in Nat :
        /\ Len(updates) = n + 1 /\ Head(updates) = updates[1] /\ updates[1] \in [book : Book, last : BOOLEAN]
        /\ Tail(updates) \in Seq([book : Book, last : BOOLEAN]) /\ Len(Tail(updates)) = n
        /\ \A i \in 1 .. n : Tail(updates)[i] = updates[i + 1] /\ i + 1 \in 1 .. (n + 1)
        /\ 1 \in 1 .. (n + 1)
  BY <1>1, TailFacts
<1>3. PICK head : head = updates[1]
  OBVIOUS
<1>4. /\ Len(updates) = n + 1 /\ head \in [book : Book, last : BOOLEAN]
      /\ updates' \in Seq([book : Book, last : BOOLEAN]) /\ Len(updates') = n
      /\ \A i \in 1 .. n : updates'[i] = updates[i + 1] /\ i + 1 \in 1 .. (n + 1)
      /\ 1 \in 1 .. (n + 1)
  <2>1. updates' = Tail(updates)
    BY DEF UpdateLands
  <2> QED BY <1>2, <1>3, <2>1, Zenon
<1>5. /\ account'.book = head.book
      /\ account'.owner = IF head.last THEN "program" ELSE "delegation program"
      /\ account' \in [owner : {"nobody", "program", "delegation program"}, chunks : 0 .. Chunks, book : Book]
      /\ UNCHANGED <<rollup, users, funded>>
  <2>1. account' = [account EXCEPT !.book = head.book, !.owner = IF head.last THEN "program" ELSE @]
    BY <1>2, <1>3, Zenon DEF UpdateLands
  <2>2. head.book \in Book
    BY <1>4
  <2> QED BY <1>1, <2>1, <2>2 DEF UpdateLands
<1>6. Shapes'
  BY <1>4, <1>5 DEF CopiesInv, Shapes, Traders
<1>7. /\ \A i \in 1 .. (n + 1) : updates[i].last => i = n + 1 /\ ~rollup.present
      /\ rollup.present \/ updates[n + 1].last
  BY <1>1, <1>4 DEF CopiesInv, OneWriter
<1>8. OneWriter'
  <2>1. updates' # <<>> <=> n # 0
    BY <1>4
  <2>2. CASE n = 0
    <3>1. head.last <=> ~rollup.present
      BY <1>3, <1>4, <1>7, <2>2
    <3>2. \A i \in 1 .. Len(updates') : FALSE
      BY <1>4, <2>2
    <3>3. (account'.owner = "delegation program") <=> rollup'.present
      BY <1>5, <3>1
    <3>4. account'.owner = "delegation program" <=>
            rollup'.present \/ (updates' # <<>> /\ updates'[Len(updates')].last)
      BY <2>1, <2>2, <3>3
    <3> QED BY <2>1, <2>2, <3>2, <3>4, Zenon DEF OneWriter
  <2>3. CASE n # 0
    <3>1. ~head.last
      BY <1>3, <1>4, <1>7, <2>3
    <3>2. account'.owner = "delegation program"
      BY <1>5, <3>1
    <3>3. updates'[n] = updates[n + 1]
      BY <1>4, <2>3
    <3>4. \A i \in 1 .. n : updates'[i].last => i = n /\ ~rollup.present
      BY <1>4, <1>7
    <3> QED BY <1>4, <1>5, <1>7, <2>1, <2>3, <3>2, <3>3, <3>4 DEF OneWriter
  <2> QED BY <2>2, <2>3
<1>9. BooksDisjoint'
  BY <1>3, <1>4, <1>5 DEF CopiesInv, BooksDisjoint
<1>10. InSuccession'
  <2>1. /\ \A i, j \in 1 .. (n + 1) : i < j => Leads(updates[i].book, updates[j].book)
        /\ rollup.present => \A i \in 1 .. (n + 1) : Leads(updates[i].book, rollup.book)
    BY <1>4 DEF CopiesInv, InSuccession
  <2>2. \A i \in 1 .. n : Leads(account'.book, updates'[i].book)
    <3> SUFFICES ASSUME NEW i \in 1 .. n PROVE Leads(account'.book, updates'[i].book)
      OBVIOUS
    <3>1. 1 < i + 1 /\ i + 1 \in 1 .. (n + 1) /\ updates'[i] = updates[i + 1]
      BY <1>4
    <3> QED BY <1>3, <1>4, <1>5, <2>1, <3>1
  <2>3. \A i, j \in 1 .. n : i < j => Leads(updates'[i].book, updates'[j].book)
    <3> SUFFICES ASSUME NEW i \in 1 .. n, NEW j \in 1 .. n, i < j
                 PROVE  Leads(updates'[i].book, updates'[j].book)
      OBVIOUS
    <3>1. i + 1 < j + 1
      OBVIOUS
    <3> QED BY <1>4, <2>1, <3>1
  <2>4. rollup.present => /\ Leads(account'.book, rollup.book)
                          /\ \A i \in 1 .. n : Leads(updates'[i].book, rollup.book)
    BY <1>3, <1>4, <1>5, <2>1
  <2> QED BY <1>4, <1>5, <2>2, <2>3, <2>4 DEF InSuccession
<1>11. Leads(account.book, account'.book)
  BY <1>3, <1>4, <1>5 DEF CopiesInv, InSuccession
<1> QED BY <1>6, <1>8, <1>9, <1>10, <1>11 DEF CopiesInv

OnlyMatches == updates # <<>> /\ updates' = Tail(updates) => Leads(account.book, account'.book)

LEMMA TailIsShorter == ASSUME CopiesInv PROVE updates # <<>> => Tail(updates) # updates
<1>1. updates \in Seq([book : Book, last : BOOLEAN])
  BY DEF CopiesInv, Shapes
<1> QED BY <1>1, TailFacts

LEMMA CopiesNext == CopiesInv /\ [DelegationNext]_delegationVars => CopiesInv' /\ [OnlyMatches]_delegationVars
<1> SUFFICES ASSUME CopiesInv, [DelegationNext]_delegationVars
             PROVE  CopiesInv' /\ [OnlyMatches]_delegationVars
  OBVIOUS
<1>1. CASE UNCHANGED delegationVars
  <2>1. CopiesInv'
    BY <1>1 DEF delegationVars, CopiesInv, Shapes, OneWriter, BooksDisjoint, InSuccession, Traders
  <2> QED BY <1>1, <2>1
<1>2. CASE MainnetNext /\ ~DelegateBook
  BY <1>2, MainnetSteps, TailIsShorter DEF OnlyMatches
<1>3. CASE DelegateBook
  BY <1>3, DelegateStep, TailIsShorter DEF OnlyMatches
<1>4. CASE CommitBook \/ CommitAndUndelegateBook
  BY <1>4, CommitSteps DEF OnlyMatches
<1>5. CASE UpdateLands
  BY <1>5, LandStep DEF OnlyMatches
<1>6. CASE MatchOrders
  <2>1. CASE /\ Writable /\ account.book.isDelegated
             /\ \E pairs \in Pairings(account.book) : account' = [account EXCEPT !.book = Matched(@, pairs)]
             /\ UNCHANGED <<rollup, updates, users, funded>>
    BY <2>1, MainnetSteps, TailIsShorter DEF OnlyMatches
  <2>2. CASE /\ rollup.present
             /\ \E pairs \in Pairings(rollup.book) : rollup' = [rollup EXCEPT !.book = Matched(@, pairs)]
             /\ UNCHANGED <<account, updates, users, funded>>
    BY <2>2, RollupMatches, TailIsShorter DEF OnlyMatches
  <2> QED BY <1>6, <2>1, <2>2 DEF MatchOrders
<1> QED BY <1>1, <1>2, <1>3, <1>4, <1>5, <1>6 DEF DelegationNext, RollupNext

LEMMA ElementsOf == ASSUME NEW S, NEW s \in Seq(S) PROVE \A i \in 1 .. Len(s) : s[i] \in S
  OBVIOUS

LEMMA CopiesTyped == CopiesInv => DelegationTypeOK
<1> SUFFICES ASSUME CopiesInv PROVE DelegationTypeOK
  OBVIOUS
<1>1. updates \in Seq([book : Book, last : BOOLEAN])
  BY DEF CopiesInv, Shapes
<1>2. \A i \in 1 .. Len(updates) : updates[i] \in [book : Book, last : BOOLEAN]
  BY <1>1, ElementsOf
<1>3. \A b \in {account.book, rollup.book} : \A fill \in b.fills : Uses(fill) \intersect b.resting = {}
  BY DEF CopiesInv, BooksDisjoint, Disjoint
<1>4. Shapes /\ OneWriter
  BY DEF CopiesInv
<1> QED BY <1>2, <1>3, <1>4, Zenon DEF Shapes, OneWriter, DelegationTypeOK

\* A commit of the rollup that lands brings mainnet matches alone, however many
\* are on their way and whatever mainnet did before the delegation.
THEOREM CommitsTheorem == DelegationSpec => []DelegationTypeOK /\ CommitsOnlyMatch
<1>1. [OnlyMatches]_delegationVars =>
        [updates # <<>> /\ updates' = Tail(updates) =>
           /\ Busy(account'.book) = Busy(account.book)
           /\ account.book.fills \subseteq account'.book.fills]_delegationVars
  BY DEF OnlyMatches, Leads
<1> QED BY <1>1, CopiesInit, CopiesNext, CopiesTyped, PTL DEF DelegationSpec, CommitsOnlyMatch

-----------------------------------------------------------------------------
(* The parts together.                                                     *)

ServicesInv == LimitInv /\ BotInv /\ CopiesInv

LEMMA ServicesNext == ServicesInv /\ [EdgesNext]_edgeVars => ServicesInv'
<1> SUFFICES ASSUME ServicesInv, [EdgesNext]_edgeVars PROVE ServicesInv'
  OBVIOUS
<1>1. LimitInv /\ BotInv /\ CopiesInv
  BY DEF ServicesInv
<1>2. [FaucetNext]_faucetVars /\ [BotNext]_botVars /\ [DelegationNext]_delegationVars
  BY DEF EdgesNext, edgeVars
<1> QED BY <1>1, <1>2, NextLimit, BotNextInv, CopiesNext DEF ServicesInv

\* The faucet's limit, the bot's table and the two copies of the book stay what
\* they are, whichever part it is that moves.
THEOREM ServicesTheorem == EdgesSpec => []ServicesTypeOK
<1>1. EdgesInit => ServicesInv
  BY InitLimit, BotInitInv, CopiesInit DEF EdgesInit, ServicesInv
<1>2. ServicesInv => ServicesTypeOK
  BY CopiesTyped DEF ServicesInv, ServicesTypeOK, LimitInv, BotInv
<1> QED BY <1>1, <1>2, ServicesNext, PTL DEF EdgesSpec
=============================================================================
