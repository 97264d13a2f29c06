--------------------------- MODULE SettlerProofs ---------------------------
(***************************************************************************)
(* For any number of traders, runs, fills and copies of a claim: whatever  *)
(* the settler sends, a fill opens one position for each of its traders.   *)
(* What a run works on is in the copy of the book on mainnet, which only   *)
(* grows; so the settler counts no fill that mainnet has not seen.         *)
(***************************************************************************)
EXTENDS Settler, SumsProofs, FiniteSetTheorems

Run == [stage : {"idle", "fetching", "building", "bundled", "submitted"}, todo : SUBSET Ids, fill : 0 .. MaxFills]

\* A run looks at fills of the copy on mainnet, and has one of them in hand.
ReadFrom(run, size) ==
  /\ run.todo \subseteq 1 .. size
  /\ run.stage \in {"building", "bundled", "submitted"} => run.fill \in 1 .. size

RunsReadMainnet == \A r \in Runs : ReadFrom(runs[r], committed)

Inv == TypeOK /\ RunsReadMainnet /\ OnePositionPerFill

-----------------------------------------------------------------------------
(* What a run picks, and what a claim opens.                               *)

LEMMA SizesInOrder ==
  ASSUME TypeOK
  PROVE  /\ committed \in Nat /\ Len(fills) \in Nat /\ committed <= Len(fills)
         /\ committed <= MaxFills /\ 1 .. committed \subseteq Ids
  BY SettlerAssumption DEF TypeOK, Ids

\* The next fill is one of those to look at.
LEMMA ProceedPicks ==
  ASSUME TypeOK, RunsReadMainnet, NEW r \in Runs, NEW todo, todo \subseteq 1 .. committed, NEW counted,
         Proceed(r, todo, counted), committed' = committed
  PROVE  /\ runs' \in [Runs -> Run]
         /\ RunsReadMainnet'
<1>1. committed \in Nat /\ committed <= MaxFills /\ 1 .. committed \subseteq Ids
  BY SizesInOrder
<1>2. runs \in [Runs -> Run]
  BY DEF TypeOK, Run
<1>3. PICK open : open = {f \in todo \ counted : HasOpenings(f)}
  OBVIOUS
<1>4. PICK next : next = CHOOSE f \in open : \A g \in open : f <= g
  OBVIOUS
<1>5. PICK run : run = IF open = {} THEN Idle
                       ELSE [stage |-> "building", todo |-> {f \in todo : f > next}, fill |-> next]
  OBVIOUS
<1>6. runs' = [runs EXCEPT ![r] = run]
  BY <1>3, <1>4, <1>5, Zenon DEF Proceed
<1>7. open # {} => next \in open
  <2> SUFFICES ASSUME open # {} PROVE next \in open
    OBVIOUS
  <2>0. \A f \in todo : f \in Nat
    BY <1>1
  <2>1. open \subseteq Nat
    <3> SUFFICES ASSUME NEW f \in open PROVE f \in Nat
      OBVIOUS
    <3>1. f \in todo
      BY <1>3
    <3> QED BY <2>0, <3>1
  <2>2. \E f \in open : \A g \in open : f <= g
    BY <2>1, NatHasLeast
  <2> QED BY <1>4, <2>2, Zenon
<1>8. run \in Run /\ ReadFrom(run, committed)
  <2>1. CASE open = {}
    <3>1. run = Idle
      BY <1>5, <2>1
    <3> QED BY <1>1, <3>1, SettlerAssumption DEF Idle, Run, ReadFrom
  <2>2. CASE open # {}
    <3>1. run = [stage |-> "building", todo |-> {f \in todo : f > next}, fill |-> next]
      BY <1>5, <2>2
    <3>2. next \in todo
      BY <1>3, <1>7, <2>2
    <3>3. next \in 1 .. committed /\ todo \subseteq Ids /\ Ids \subseteq 0 .. MaxFills
      BY <1>1, <3>2 DEF Ids
    <3>4. {f \in todo : f > next} \subseteq todo
      OBVIOUS
    <3>5. run.stage = "building" /\ run.todo \subseteq todo /\ run.fill = next
      BY <3>1, <3>4
    <3>6. run \in Run
      BY <1>1, <3>1, <3>3, <3>4 DEF Run, Ids
    <3> QED BY <3>2, <3>3, <3>5, <3>6 DEF ReadFrom
  <2> QED BY <2>1, <2>2
<1>9. \A q \in Runs : runs'[q] = IF q = r THEN run ELSE runs[q]
  BY <1>2, <1>6
<1> QED BY <1>2, <1>6, <1>8, <1>9 DEF RunsReadMainnet

\* A claim counts a fill that was not claimed once for each of its traders.
LEMMA OpensOnePosition ==
  ASSUME TypeOK, OnePositionPerFill, NEW f \in 1 .. committed, f \notin claimed,
         OpenPositions(f), UNCHANGED fills
  PROVE  /\ nextPosition' \in [Users -> Nat] /\ claimed' \subseteq 1 .. committed
         /\ OnePositionPerFill'
<1>1. /\ claimed' = claimed \union {f}
      /\ nextPosition' = [u \in Users |-> nextPosition[u] + IF u \in Traders(f) THEN 1 ELSE 0]
      /\ nextPosition \in [Users -> Nat] /\ claimed \subseteq 1 .. committed
  BY DEF OpenPositions, TypeOK
<1>2. nextPosition' \in [Users -> Nat] /\ claimed' \subseteq 1 .. committed
  BY <1>1
<1>3. IsFiniteSet(claimed)
  <2>1. IsFiniteSet(1 .. committed)
    BY SizesInOrder, FS_Interval
  <2> QED BY <1>1, <2>1, FS_Subset
<1>4. ASSUME NEW u \in Users
      PROVE  nextPosition'[u] = Cardinality({g \in claimed' : u \in Traders(g)})
  <2>1. PICK before : before = {g \in claimed : u \in Traders(g)}
    OBVIOUS
  <2>2. IsFiniteSet(before) /\ f \notin before /\ before \subseteq claimed
    BY <1>3, <2>1, FS_Subset
  <2>3. nextPosition[u] = Cardinality(before)
    BY <2>1 DEF OnePositionPerFill
  <2>4. CASE u \in Traders(f)
    <3>1. {g \in claimed' : u \in Traders(g)} = before \union {f}
      BY <1>1, <2>1, <2>4
    <3>2. Cardinality(before \union {f}) = Cardinality(before) + 1
      BY <2>2, FS_AddElement
    <3> QED BY <1>1, <2>3, <2>4, <3>1, <3>2
  <2>5. CASE u \notin Traders(f)
    <3>1. {g \in claimed' : u \in Traders(g)} = before
      BY <1>1, <2>1, <2>5
    <3>2. nextPosition'[u] = nextPosition[u]
      BY <1>1, <2>5
    <3> QED BY <2>3, <3>1, <3>2
  <2> QED BY <2>4, <2>5
<1>5. \A g : Traders(g)' = Traders(g)
  BY DEF Traders
<1>6. OnePositionPerFill'
  BY <1>4, <1>5 DEF OnePositionPerFill
<1> QED BY <1>2, <1>6

\* What the copy on mainnet had it keeps, whatever is matched or committed.
LEMMA MainnetGrows ==
  ASSUME Inv,
         fills' = fills \/ \E fill \in SUBSET Users : fills' = Append(fills, fill),
         Len(fills') <= MaxFills, committed' \in committed .. Len(fills'),
         UNCHANGED <<claimed, nextPosition, claimedFills, runs>>
  PROVE  /\ fills' \in Seq(SUBSET Users)
         /\ committed' \in 0 .. Len(fills') /\ claimed' \subseteq 1 .. committed'
         /\ claimedFills' \subseteq 1 .. committed'
         /\ RunsReadMainnet' /\ OnePositionPerFill'
<1>1. /\ committed \in Nat /\ Len(fills) \in Nat /\ committed <= Len(fills)
      /\ fills \in Seq(SUBSET Users)
      /\ claimed \subseteq 1 .. committed /\ claimedFills \subseteq 1 .. committed
  BY SizesInOrder DEF Inv, TypeOK
<1>2. fills' \in Seq(SUBSET Users) /\ Len(fills') \in Nat
  <2>1. CASE fills' = fills
    BY <1>1, <2>1
  <2>2. CASE \E fill \in SUBSET Users : fills' = Append(fills, fill)
    <3>1. PICK fill \in SUBSET Users : fills' = Append(fills, fill)
      BY <2>2
    <3> QED BY <1>1, <3>1
  <2> QED BY <2>1, <2>2
<1>3. committed' \in Nat /\ committed' <= Len(fills') /\ 1 .. committed \subseteq 1 .. committed'
  BY <1>1, <1>2
<1>4. RunsReadMainnet'
  <2>1. ASSUME NEW r \in Runs PROVE ReadFrom(runs'[r], committed')
    <3>1. ReadFrom(runs[r], committed) /\ runs'[r] = runs[r]
      BY DEF Inv, RunsReadMainnet
    <3> QED BY <1>3, <3>1 DEF ReadFrom
  <2> QED BY <2>1 DEF RunsReadMainnet
<1>5. \A f \in claimed : fills'[f] = fills[f]
  BY <1>1
<1>6. OnePositionPerFill'
  <2>1. ASSUME NEW u \in Users
        PROVE  nextPosition'[u] = Cardinality({f \in claimed' : u \in Traders(f)'})
    <3>1. \A f \in claimed : Traders(f)' = Traders(f)
      BY <1>5 DEF Traders
    <3>2. {f \in claimed' : u \in Traders(f)'} = {f \in claimed : u \in Traders(f)}
      BY <3>1
    <3>3. nextPosition[u] = Cardinality({f \in claimed : u \in Traders(f)})
      BY DEF Inv, OnePositionPerFill
    <3> QED BY <3>2, <3>3
  <2> QED BY <2>1 DEF OnePositionPerFill
<1> QED BY <1>1, <1>2, <1>3, <1>4, <1>6

-----------------------------------------------------------------------------
(* The steps.                                                              *)

LEMMA InitInv == Init => Inv
<1> SUFFICES ASSUME Init PROVE Inv
  OBVIOUS
<1>1. TypeOK
  BY SettlerAssumption DEF Init, TypeOK, Idle, Ids
<1>2. RunsReadMainnet
  BY DEF Init, RunsReadMainnet, ReadFrom, Idle
<1>3. OnePositionPerFill
  <2>1. \A u \in Users : {f \in claimed : u \in Traders(f)} = {}
    BY DEF Init
  <2> QED BY <2>1, FS_EmptySet DEF Init, OnePositionPerFill
<1> QED BY <1>1, <1>2, <1>3 DEF Inv

\* The steps of the book keep it, as they touch neither claims nor runs.
LEMMA BookSteps ==
  ASSUME Inv,
         \/ \E taker, maker \in Users : MatchFill(taker, maker)
         \/ CommitBook \/ UndelegateBook \/ FinishUndelegation \/ DelegateBook \/ OtherChange
  PROVE  Inv'
<1>1. /\ committed \in Nat /\ Len(fills) \in Nat /\ committed <= Len(fills)
      /\ Len(fills) <= MaxFills /\ fills \in Seq(SUBSET Users)
  BY SizesInOrder DEF Inv, TypeOK
<1> DEFINE Grown ==
      /\ fills' = fills \/ \E fill \in SUBSET Users : fills' = Append(fills, fill)
      /\ Len(fills') <= MaxFills /\ committed' \in committed .. Len(fills')
<1>2. ASSUME NEW taker \in Users, NEW maker \in Users, MatchFill(taker, maker) PROVE Grown
  <2>1. fills' = Append(fills, {taker, maker}) /\ Len(fills) < MaxFills
    BY <1>2 DEF MatchFill
  <2>2. Len(fills') = Len(fills) + 1 /\ {taker, maker} \in SUBSET Users
    BY <1>1, <2>1
  <2>3. committed' \in {committed, committed + 1}
    BY <1>2 DEF MatchFill
  <2>4. committed' \in committed .. Len(fills') /\ Len(fills') <= MaxFills
    BY <1>1, <2>1, <2>2, <2>3, SettlerAssumption
  <2> QED BY <2>1, <2>2, <2>4
<1>3. CommitBook \/ UndelegateBook \/ FinishUndelegation \/ DelegateBook \/ OtherChange => Grown
  BY <1>1 DEF CommitBook, UndelegateBook, FinishUndelegation, DelegateBook, OtherChange, chain
<1>4. Grown
  BY <1>2, <1>3
<1>5. UNCHANGED <<claimed, nextPosition, inFlight, socket, stores, claimedFills, runs>>
  BY DEF MatchFill, CommitBook, UndelegateBook, FinishUndelegation, DelegateBook, OtherChange, chain
<1>6. /\ fills' \in Seq(SUBSET Users) /\ Len(fills') <= MaxFills
      /\ committed' \in 0 .. Len(fills') /\ claimed' \subseteq 1 .. committed'
      /\ claimedFills' \subseteq 1 .. committed'
      /\ RunsReadMainnet' /\ OnePositionPerFill'
  <2> HIDE DEF Grown
  <2>1. Grown => /\ fills' = fills \/ \E fill \in SUBSET Users : fills' = Append(fills, fill)
                 /\ Len(fills') <= MaxFills /\ committed' \in committed .. Len(fills')
    BY Zenon DEF Grown
  <2> QED BY <1>4, <1>5, <2>1, MainnetGrows
<1>7. place' \in {"rollup", "returning", "mainnet"} /\ pending' \in 0 .. MaxPending
  <2>1. place \in {"rollup", "returning", "mainnet"} /\ pending \in 0 .. MaxPending
    BY DEF Inv, TypeOK
  <2>2. Notify => pending' \in 0 .. MaxPending
    BY <2>1, SettlerAssumption DEF Notify
  <2> HIDE DEF Grown
  <2>3. CASE \E taker, maker \in Users : MatchFill(taker, maker)
    BY <2>1, <2>2, <2>3 DEF MatchFill
  <2>4. CASE CommitBook \/ UndelegateBook \/ FinishUndelegation \/ OtherChange
    BY <2>1, <2>2, <2>4 DEF CommitBook, UndelegateBook, FinishUndelegation, OtherChange, chain
  <2>5. CASE DelegateBook
    BY <2>1, <2>5, SettlerAssumption DEF DelegateBook
  <2> QED BY <2>3, <2>4, <2>5
<1>8. TypeOK'
  <2> HIDE DEF Grown
  <2>1. /\ nextPosition \in [Users -> Nat] /\ inFlight \in [Ids -> 0 .. MaxCopies]
        /\ socket \in {"open", "closed"} /\ plaintextStore \subseteq Orders /\ encryptedStore \subseteq Orders
        /\ runs \in [Runs -> Run]
    BY DEF Inv, TypeOK, Run
  <2> QED BY <1>5, <1>6, <1>7, <2>1 DEF TypeOK, Run, stores
<1> QED BY <1>6, <1>8 DEF Inv

\* A claim in flight lands or is lost; another one lands.
LEMMA ClaimSteps ==
  ASSUME Inv, NEW f \in Ids, LandClaim(f) \/ LoseClaim(f) \/ ClaimElsewhere(f)
  PROVE  Inv'
<1>1. UNCHANGED <<place, fills, committed, socket, pending, stores, claimedFills, runs>>
  BY DEF LandClaim, LoseClaim, ClaimElsewhere, chain
<1>2. inFlight' \in [Ids -> 0 .. MaxCopies]
  <2>1. inFlight \in [Ids -> 0 .. MaxCopies]
    BY DEF Inv, TypeOK
  <2>2. \/ inFlight' = inFlight
        \/ inFlight[f] > 0 /\ inFlight' = [inFlight EXCEPT ![f] = @ - 1]
    BY Zenon DEF LandClaim, LoseClaim, ClaimElsewhere
  <2>3. inFlight[f] > 0 => inFlight[f] - 1 \in 0 .. MaxCopies
    BY <2>1, SettlerAssumption
  <2> QED BY <2>1, <2>2, <2>3
<1>3. /\ nextPosition' \in [Users -> Nat] /\ claimed' \subseteq 1 .. committed
      /\ OnePositionPerFill'
  <2>1. CASE Claimable(f) /\ OpenPositions(f)
    <3>1. f \in 1 .. committed /\ f \notin claimed
      BY <2>1, SizesInOrder DEF Claimable, Inv, Ids
    <3> QED BY <1>1, <2>1, <3>1, OpensOnePosition DEF Inv
  <2>2. CASE UNCHANGED <<claimed, nextPosition>>
    BY <1>1, <2>2 DEF Inv, TypeOK, OnePositionPerFill, Traders
  <2> QED BY <2>1, <2>2 DEF LandClaim, LoseClaim, ClaimElsewhere, ClaimSucceeds, chain
<1>4. TypeOK'
  BY <1>1, <1>2, <1>3 DEF Inv, TypeOK, stores
<1>5. RunsReadMainnet'
  BY <1>1 DEF Inv, RunsReadMainnet
<1> QED BY <1>3, <1>4, <1>5 DEF Inv

\* A step that leaves the chain alone and keeps what runs work on in the copy.
LEMMA ChainUntouched ==
  ASSUME Inv, UNCHANGED chain, inFlight' \in [Ids -> 0 .. MaxCopies],
         socket' \in {"open", "closed"}, pending' \in 0 .. MaxPending,
         plaintextStore' \subseteq Orders, encryptedStore' \subseteq Orders,
         claimedFills' \subseteq 1 .. committed, runs' \in [Runs -> Run], RunsReadMainnet'
  PROVE  Inv'
<1>1. TypeOK'
  BY DEF Inv, TypeOK, chain, Run
<1>2. OnePositionPerFill'
  BY DEF Inv, OnePositionPerFill, Traders, chain
<1> QED BY <1>1, <1>2 DEF Inv

LEMMA SettlerState ==
  ASSUME Inv
  PROVE  /\ inFlight \in [Ids -> 0 .. MaxCopies]
         /\ socket \in {"open", "closed"} /\ pending \in 0 .. MaxPending
         /\ plaintextStore \subseteq Orders /\ encryptedStore \subseteq Orders
         /\ claimedFills \subseteq 1 .. committed /\ runs \in [Runs -> Run] /\ RunsReadMainnet
  BY DEF Inv, TypeOK, Run

\* The steps of the process that are no run's.
LEMMA ServiceSteps ==
  ASSUME Inv,
         \/ \E order \in Orders : PostPlaintext(order) \/ PostEncryptOrder(order)
         \/ SubscribeToErBook \/ SocketCloses \/ Restart
  PROVE  Inv'
<1>1. UNCHANGED <<chain, inFlight>>
  BY DEF PostPlaintext, PostEncryptOrder, SubscribeToErBook, SocketCloses, Restart
<1>2. /\ socket' \in {"open", "closed"} /\ pending' \in 0 .. MaxPending
      /\ plaintextStore' \subseteq Orders /\ encryptedStore' \subseteq Orders
      /\ claimedFills' \subseteq 1 .. committed
  BY SettlerState, SettlerAssumption
     DEF PostPlaintext, PostEncryptOrder, SubscribeToErBook, SocketCloses, Restart, stores
<1>3. runs' = runs \/ runs' = [r \in Runs |-> Idle]
  BY DEF PostPlaintext, PostEncryptOrder, SubscribeToErBook, SocketCloses, Restart
<1>4. runs' \in [Runs -> Run] /\ RunsReadMainnet'
  <2>1. Idle \in Run /\ Idle.stage = "idle" /\ \A size : ReadFrom(Idle, size)
    BY SettlerAssumption DEF Idle, Run, ReadFrom
  <2>2. committed' = committed
    BY <1>1 DEF chain
  <2> QED BY <1>3, <2>1, <2>2, SettlerState DEF RunsReadMainnet
<1> QED BY <1>1, <1>2, <1>4, SettlerState, ChainUntouched

\* The steps of a run: those that ask, and those that go on with the loop.
LEMMA RunSteps ==
  ASSUME Inv, NEW r \in Runs,
         \/ OnMessage(r) \/ FetchBook(r) \/ FetchFails(r)
         \/ Submission(r)
  PROVE  Inv'
<1>0. /\ runs \in [Runs -> Run] /\ runs[r] \in Run /\ ReadFrom(runs[r], committed)
      /\ \A q \in Runs : ReadFrom(runs[q], committed)
  BY SettlerState DEF RunsReadMainnet
<1>01. OnMessage(r) \/ FetchBook(r) \/ FetchFails(r) \/ SubmitJitoBundle(r) \/ FallbackDirectSubmit(r)
        \/ SubmitFails(r) \/ SubmitAnswered(r) \/ AnswerLost(r)
  BY DEF Submission
<1>1. UNCHANGED <<chain, socket, stores>>
  BY <1>01 DEF OnMessage, FetchBook, FetchFails, SubmitJitoBundle, FallbackDirectSubmit, Send, SubmitFails,
         SubmitAnswered, AnswerLost
<1>2. committed' = committed /\ UNCHANGED <<socket, plaintextStore, encryptedStore>>
  BY <1>1 DEF chain, stores
<1> DEFINE Goal == runs' \in [Runs -> Run] /\ RunsReadMainnet'
<1>3. ASSUME NEW run \in Run, runs' = [runs EXCEPT ![r] = run], ReadFrom(run, committed)
      PROVE  Goal
  <2>1. \A q \in Runs : runs'[q] = IF q = r THEN run ELSE runs[q]
    BY <1>0, <1>3
  <2> QED BY <1>0, <1>2, <1>3, <2>1 DEF RunsReadMainnet
<1>4. ASSUME NEW todo, todo \subseteq 1 .. committed, Proceed(r, todo, claimedFills')
      PROVE  Goal
  BY <1>2, <1>4, ProceedPicks DEF Inv
<1> HIDE DEF Goal
<1>5. ASSUME NEW stage \in {"fetching", "bundled", "submitted"}, runs' = [runs EXCEPT ![r].stage = stage],
             stage # "fetching" => runs[r].stage \in {"building", "bundled"}
      PROVE  Goal
  <2>1. PICK run : run = [runs[r] EXCEPT !.stage = stage]
    OBVIOUS
  <2>2. run \in Run /\ run.stage = stage /\ run.todo = runs[r].todo /\ run.fill = runs[r].fill
    BY <1>0, <2>1 DEF Run
  <2>3. runs' = [runs EXCEPT ![r] = run]
    BY <1>5, <2>1
  <2>4. ReadFrom(run, committed)
    BY <1>0, <1>5, <2>2 DEF ReadFrom
  <2> QED BY <1>3, <1>5, <2>2, <2>3, <2>4
<1>6. CASE OnMessage(r)
  <2>1. Goal
    BY <1>5, <1>6 DEF OnMessage
  <2>2. pending' \in 0 .. MaxPending
    BY <1>6, SettlerState, SettlerAssumption DEF OnMessage
  <2> QED BY <1>1, <1>2, <1>6, <2>1, <2>2, SettlerState, ChainUntouched DEF OnMessage, Goal
<1>7. CASE FetchFails(r)
  <2>1. Idle \in Run /\ Idle.stage = "idle" /\ ReadFrom(Idle, committed)
    BY SettlerAssumption DEF Idle, Run, ReadFrom
  <2>2. Goal
    BY <1>3, <1>7, <2>1 DEF FetchFails
  <2> QED BY <1>1, <1>2, <1>7, <2>2, SettlerState, ChainUntouched DEF FetchFails, Goal
<1>8. CASE SubmitJitoBundle(r) \/ FallbackDirectSubmit(r)
  <2>1. PICK stage \in {"bundled", "submitted"} : Send(r, stage) /\ runs[r].stage \in {"building", "bundled"}
    BY <1>8 DEF SubmitJitoBundle, FallbackDirectSubmit, FallsBack
  <2>2. Goal
    BY <1>5, <2>1 DEF Send
  <2>3. inFlight' \in [Ids -> 0 .. MaxCopies]
    <3>1. /\ inFlight \in [Ids -> 0 .. MaxCopies] /\ inFlight[runs[r].fill] < MaxCopies
          /\ inFlight' = [inFlight EXCEPT ![runs[r].fill] = @ + 1]
      BY <2>1, SettlerState DEF Send
    <3>2. runs[r].fill \in Ids
      BY <1>0, <2>1, SizesInOrder DEF ReadFrom, Inv
    <3>3. inFlight[runs[r].fill] + 1 \in 0 .. MaxCopies
      BY <3>1, <3>2, SettlerAssumption
    <3> QED BY <3>1, <3>2, <3>3
  <2> QED BY <1>1, <1>2, <2>1, <2>2, <2>3, SettlerState, ChainUntouched DEF Send, Goal
<1>9. CASE FetchBook(r)
  <2>1. Proceed(r, (1 .. committed) \ claimed, claimedFills') /\ UNCHANGED <<inFlight, pending, claimedFills>>
    BY <1>9 DEF FetchBook
  <2>2. Goal
    BY <1>4, <2>1
  <2> QED BY <1>1, <1>2, <2>1, <2>2, SettlerState, ChainUntouched DEF Goal
<1>10. CASE SubmitFails(r) \/ SubmitAnswered(r) \/ AnswerLost(r)
  <2>1. Proceed(r, runs[r].todo, claimedFills') /\ UNCHANGED <<inFlight, pending>>
    BY <1>10 DEF SubmitFails, SubmitAnswered, AnswerLost, GoOn
  <2>2. runs[r].todo \subseteq 1 .. committed
    BY <1>0 DEF ReadFrom
  <2>3. Goal
    BY <1>4, <2>1, <2>2
  <2>4. claimedFills' = claimedFills \/ (runs[r].stage \in {"bundled", "submitted"} /\ claimedFills' = claimedFills \union {runs[r].fill})
    BY <1>10 DEF SubmitFails, SubmitAnswered, AnswerLost
  <2>5. claimedFills' \subseteq 1 .. committed
    BY <1>0, <2>4, SettlerState DEF ReadFrom
  <2> QED BY <1>1, <1>2, <2>1, <2>3, <2>5, SettlerState, ChainUntouched DEF Goal
<1> QED BY <1>01, <1>6, <1>7, <1>8, <1>9, <1>10

LEMMA NextInv == Inv /\ [Next]_vars => Inv'
<1> SUFFICES ASSUME Inv, [Next]_vars PROVE Inv'
  OBVIOUS
<1>1. CASE UNCHANGED vars
  BY <1>1 DEF vars, chain, stores, Inv, TypeOK, RunsReadMainnet, OnePositionPerFill, Traders
<1>2. CASE Next
  BY <1>2, BookSteps, ClaimSteps, ServiceSteps, RunSteps DEF Next
<1> QED BY <1>1, <1>2

\* What a run has to do with is in the copy of the book on mainnet, and the
\* settler counts no fill that mainnet has not seen (services/settler).
THEOREM TypeCorrect == Spec => []TypeOK
<1>1. Inv => TypeOK
  BY DEF Inv
<1> QED BY <1>1, InitInv, NextInv, PTL DEF Spec

\* However many runs overlap, copies of a claim land and other claimers come in
\* between, a fill opens one position for each of its traders.
THEOREM OnePositionTheorem == Spec => []OnePositionPerFill
<1>1. Inv => OnePositionPerFill
  BY DEF Inv
<1> QED BY <1>1, InitInv, NextInv, PTL DEF Spec
=============================================================================
