------------------------------ MODULE Settler ------------------------------
(***************************************************************************)
(* The settler service (services/settler/src/index.ts, jito-bundle.ts): it *)
(* keeps the openings traders send it, is notified of every change of the  *)
(* book on the rollup, reads the book on mainnet and submits claim_fill    *)
(* for each fill it can open.  A run of processFills is a sequence of      *)
(* steps cut at its awaits; notifications start runs that overlap.         *)
(*                                                                         *)
(* Of the book only the fills are kept: fill i is fills[i], and the first  *)
(* `committed' of them are in the copy on mainnet.  Sizes and collateral,  *)
(* for which a claim may be refused as well, are not in this module.       *)
(***************************************************************************)
EXTENDS Integers, Sequences, FiniteSets

CONSTANTS
  Users,        \* traders
  Runs,         \* runs of processFills that may overlap
  Formats,      \* the endpoints an order may be posted to, by order
  JitoAccepts,  \* TRUE iff the block engine takes bundles
  Unreliable,   \* TRUE iff requests, sockets, transactions and the process may fail
  MaxFills,     \* bound of the model on the fills ever matched
  MaxPending,   \* bound of the model on the notifications in delivery
  MaxCopies     \* bound of the model on the copies of one claim in flight

Ids == 1 .. MaxFills
Orders == Ids \X {"taker", "maker"}

ASSUME SettlerAssumption ==
  /\ Formats \in [Orders -> SUBSET {"plaintext", "encrypted"}]
  /\ JitoAccepts \in BOOLEAN
  /\ Unreliable \in BOOLEAN
  /\ MaxFills \in Nat
  /\ MaxPending \in Nat
  /\ MaxCopies \in Nat

VARIABLES
  place,           \* where the book may be written
  fills,           \* the two traders of each fill of the book, in the order of fill_id
  committed,       \* fills in the copy of the book on mainnet
  claimed,         \* fills claimed on mainnet
  nextPosition,    \* UserAccount.next_position_idx
  inFlight,        \* copies of the settler's claim of a fill, sent and not settled
  socket,          \* the subscription to the book on the rollup
  pending,         \* accountNotifications in delivery
  plaintextStore,  \* orders whose plaintext is stored
  encryptedStore,  \* orders whose encrypted blob is stored
  claimedFills,    \* fills the settler counts as claimed
  runs             \* the runs of processFills

chain == <<place, fills, committed, claimed, nextPosition>>
stores == <<plaintextStore, encryptedStore>>
vars == <<chain, inFlight, socket, pending, stores, claimedFills, runs>>

Traders(f) == fills[f]

Idle == [stage |-> "idle", todo |-> {}, fill |-> 0]

Init ==
  /\ place = "rollup"
  /\ fills = <<>>
  /\ committed = 0
  /\ claimed = {}
  /\ nextPosition = [u \in Users |-> 0]
  /\ inFlight = [f \in Ids |-> 0]
  /\ socket = "closed"
  /\ pending = 0
  /\ plaintextStore = {}
  /\ encryptedStore = {}
  /\ claimedFills = {}
  /\ runs = [r \in Runs |-> Idle]

-----------------------------------------------------------------------------
(* The book, on the rollup and on mainnet.                                 *)

Notify ==
  pending' = IF socket = "open" /\ pending < MaxPending THEN pending + 1 ELSE pending

\* match_orders on the rollup, crank_match on mainnet.
MatchFill(taker, maker) ==
  /\ taker # maker
  /\ place \in {"rollup", "mainnet"}
  /\ Len(fills) < MaxFills
  /\ fills' = Append(fills, {taker, maker})
  /\ IF place = "rollup" THEN Notify /\ UNCHANGED committed
                         ELSE committed' = committed + 1 /\ UNCHANGED pending
  /\ UNCHANGED <<place, claimed, nextPosition, inFlight, socket, stores, claimedFills, runs>>

\* Every second by the delegation's configuration, or by commit_book.  The book
\* on the rollup stays as it is, so nobody is notified.
CommitBook ==
  /\ place = "rollup"
  /\ committed' = Len(fills)
  /\ UNCHANGED <<place, fills, claimed, nextPosition, inFlight, socket, pending, stores,
                 claimedFills, runs>>

\* commit_and_undelegate_book writes the book on the rollup; mainnet has it later.
UndelegateBook ==
  /\ place = "rollup"
  /\ place' = "returning"
  /\ Notify
  /\ UNCHANGED <<fills, committed, claimed, nextPosition, inFlight, socket, stores,
                 claimedFills, runs>>

FinishUndelegation ==
  /\ place = "returning"
  /\ place' = "mainnet"
  /\ committed' = Len(fills)
  /\ UNCHANGED <<fills, claimed, nextPosition, inFlight, socket, pending, stores,
                 claimedFills, runs>>

DelegateBook ==
  /\ place = "mainnet"
  /\ place' = "rollup"
  /\ UNCHANGED <<fills, committed, claimed, nextPosition, inFlight, socket, pending, stores,
                 claimedFills, runs>>

\* Orders placed or cancelled on the rollup: a change that is no fill.  What
\* is placed or cancelled on mainnet changes an account nobody has subscribed to.
OtherChange ==
  /\ place = "rollup"
  /\ Notify
  /\ UNCHANGED <<chain, inFlight, socket, stores, claimedFills, runs>>

\* Faulty variant: a claimed fill is found again.
FaultyClaimable(f) == place = "mainnet" /\ f <= committed

\* The program writes the book on mainnet only while it is not delegated.
Claimable(f) == place = "mainnet" /\ f <= committed /\ f \notin claimed

\* The settler passes the position accounts of index 0, the program wants
\* those of next_position_idx.
AtIndexZero(f) == \A u \in Traders(f) : nextPosition[u] = 0

ClaimSucceeds(f) == Claimable(f) /\ AtIndexZero(f)

OpenPositions(f) ==
  /\ claimed' = claimed \union {f}
  /\ nextPosition' = [u \in Users |-> nextPosition[u] + IF u \in Traders(f) THEN 1 ELSE 0]

\* A bundle and the send by RPC that follows it hold one signed transaction, of
\* which the chain executes a single copy: the other is as good as lost or refused.
LandClaim(f) ==
  /\ inFlight[f] > 0
  /\ inFlight' = [inFlight EXCEPT ![f] = @ - 1]
  /\ IF ClaimSucceeds(f) THEN OpenPositions(f) ELSE UNCHANGED <<claimed, nextPosition>>
  /\ UNCHANGED <<place, fills, committed, socket, pending, stores, claimedFills, runs>>

\* A transaction expires with its blockhash; a bundle may never be chosen.
LoseClaim(f) ==
  /\ Unreliable
  /\ inFlight[f] > 0
  /\ inFlight' = [inFlight EXCEPT ![f] = @ - 1]
  /\ UNCHANGED <<chain, socket, pending, stores, claimedFills, runs>>

\* claim_fill is permissionless: anybody who knows the openings may claim.
ClaimElsewhere(f) ==
  /\ Claimable(f)
  /\ OpenPositions(f)
  /\ UNCHANGED <<place, fills, committed, inFlight, socket, pending, stores, claimedFills, runs>>

-----------------------------------------------------------------------------
(* The settler.                                                            *)

PostPlaintext(order) ==
  /\ "plaintext" \in Formats[order]
  /\ plaintextStore' = plaintextStore \union {order}
  /\ UNCHANGED <<chain, inFlight, socket, pending, encryptedStore, claimedFills, runs>>

PostEncryptOrder(order) ==
  /\ "encrypted" \in Formats[order]
  /\ encryptedStore' = encryptedStore \union {order}
  /\ UNCHANGED <<chain, inFlight, socket, pending, plaintextStore, claimedFills, runs>>

\* Both sides in the clear, or else both encrypted.
HasOpenings(f) ==
  \/ {<<f, "taker">>, <<f, "maker">>} \subseteq plaintextStore
  \/ {<<f, "taker">>, <<f, "maker">>} \subseteq encryptedStore


\* The loop runs without interruption up to the next fill worth a claim.
Proceed(r, todo, counted) ==
  LET open == {f \in todo \ counted : HasOpenings(f)}
      next == CHOOSE f \in open : \A g \in open : f <= g
  IN  runs' = [runs EXCEPT ![r] =
        IF open = {} THEN Idle
        ELSE [stage |-> "building", todo |-> {f \in todo : f > next}, fill |-> next]]

\* A claim that fails is logged and the loop continues.
GoOn(r, todo, counted) == Proceed(r, todo, counted)

\* ws.on("message"): a notification starts a run, whatever runs are under way.
OnMessage(r) ==
  /\ pending > 0
  /\ runs[r].stage = "idle"
  /\ pending' = pending - 1
  /\ runs' = [runs EXCEPT ![r].stage = "fetching"]
  /\ UNCHANGED <<chain, inFlight, socket, stores, claimedFills>>

\* Faulty variant: the fetch reads the book on the rollup.
FaultyFetchBook(r) ==
  /\ runs[r].stage = "fetching"
  /\ Proceed(r, (1 .. Len(fills)) \ claimed, claimedFills)
  /\ UNCHANGED <<chain, inFlight, socket, pending, stores, claimedFills>>

\* The fetch reads the copy of the book on mainnet.
FetchBook(r) ==
  /\ runs[r].stage = "fetching"
  /\ Proceed(r, (1 .. committed) \ claimed, claimedFills)
  /\ UNCHANGED <<chain, inFlight, socket, pending, stores, claimedFills>>

FetchFails(r) ==
  /\ Unreliable
  /\ runs[r].stage = "fetching"
  /\ runs' = [runs EXCEPT ![r] = Idle]
  /\ UNCHANGED <<chain, inFlight, socket, pending, stores, claimedFills>>

Send(r, stage) ==
  /\ inFlight[runs[r].fill] < MaxCopies
  /\ inFlight' = [inFlight EXCEPT ![runs[r].fill] = @ + 1]
  /\ runs' = [runs EXCEPT ![r].stage = stage]
  /\ UNCHANGED <<chain, socket, pending, stores, claimedFills>>

\* The block engine takes a bundle without executing it.
SubmitJitoBundle(r) ==
  /\ runs[r].stage = "building"
  /\ JitoAccepts
  /\ Send(r, "bundled")

\* The bundle was refused, was lost on its way, or was taken by an engine
\* whose answer is lost: in each case the claim goes to the RPC node.
FallsBack(r) ==
  \/ runs[r].stage = "building" /\ (~JitoAccepts \/ Unreliable)
  \/ runs[r].stage = "bundled" /\ Unreliable

\* fallbackDirectSubmit: the preflight refuses a claim that would fail now.
FallbackDirectSubmit(r) ==
  /\ FallsBack(r)
  /\ ClaimSucceeds(runs[r].fill)
  /\ Send(r, "submitted")

\* The send by RPC fails too: the preflight refuses, or the request is lost.
FallbackFails(r) == FallsBack(r) /\ (Unreliable \/ ~ClaimSucceeds(runs[r].fill))

\* Decryption or the request for a blockhash fails, before anything is sent.
BuildFails(r) == Unreliable /\ runs[r].stage = "building"

\* The submission throws; the fill is not counted, though a bundle whose answer
\* was lost may still be chosen.
SubmitFails(r) ==
  /\ BuildFails(r) \/ FallbackFails(r)
  /\ GoOn(r, runs[r].todo, claimedFills)
  /\ UNCHANGED <<chain, inFlight, socket, pending, stores, claimedFills>>

\* The submission is answered and the fill counted, whatever becomes of it.
SubmitAnswered(r) ==
  /\ runs[r].stage \in {"bundled", "submitted"}
  /\ claimedFills' = claimedFills \union {runs[r].fill}
  /\ Proceed(r, runs[r].todo, claimedFills')
  /\ UNCHANGED <<chain, inFlight, socket, pending, stores>>

\* What was sent by RPC arrived, its answer does not.
AnswerLost(r) ==
  /\ Unreliable
  /\ runs[r].stage = "submitted"
  /\ GoOn(r, runs[r].todo, claimedFills)
  /\ UNCHANGED <<chain, inFlight, socket, pending, stores, claimedFills>>

\* subscribeToErBook, at the start and 3 s after the socket closed; it asks
\* for notifications and looks at no fill.
SubscribeToErBook ==
  /\ socket = "closed"
  /\ socket' = "open"
  /\ UNCHANGED <<chain, inFlight, pending, stores, claimedFills, runs>>

SocketCloses ==
  /\ Unreliable
  /\ socket = "open"
  /\ socket' = "closed"
  /\ pending' = 0
  /\ UNCHANGED <<chain, inFlight, stores, claimedFills, runs>>

\* All the settler knows is in memory.
Restart ==
  /\ Unreliable
  /\ socket' = "closed"
  /\ pending' = 0
  /\ plaintextStore' = {}
  /\ encryptedStore' = {}
  /\ claimedFills' = {}
  /\ runs' = [r \in Runs |-> Idle]
  /\ UNCHANGED <<chain, inFlight>>

\* One of the requests of submitJitoBundle, or the throw that ends it.
Submission(r) ==
  \/ SubmitJitoBundle(r) \/ FallbackDirectSubmit(r) \/ SubmitFails(r)
  \/ SubmitAnswered(r) \/ AnswerLost(r)

Next ==
  \/ \E taker, maker \in Users : MatchFill(taker, maker)
  \/ CommitBook \/ UndelegateBook \/ FinishUndelegation \/ DelegateBook \/ OtherChange
  \/ \E f \in Ids : LandClaim(f) \/ LoseClaim(f) \/ ClaimElsewhere(f)
  \/ \E order \in Orders : PostPlaintext(order) \/ PostEncryptOrder(order)
  \/ \E r \in Runs : OnMessage(r) \/ FetchBook(r) \/ FetchFails(r) \/ Submission(r)
  \/ SubscribeToErBook \/ SocketCloses \/ Restart

Spec == Init /\ [][Next]_vars

\* The event loop resumes every run whose request is answered or has failed.
RunFairness ==
  \A r \in Runs : WF_vars(FetchBook(r) \/ FetchFails(r)) /\ WF_vars(Submission(r))

RunSpec == Spec /\ RunFairness

\* And it takes every message; sent transactions land or expire; the socket is
\* reopened by a timer; the rollup commits every second.  Nobody has to match,
\* post, claim, undelegate or change the book.
Fairness ==
  /\ RunFairness
  /\ WF_vars(\E r \in Runs : OnMessage(r))
  /\ \A f \in Ids : WF_vars(LandClaim(f) \/ LoseClaim(f))
  /\ WF_vars(SubscribeToErBook)
  /\ WF_vars(CommitBook)
  /\ WF_vars(FinishUndelegation)

FairSpec == Spec /\ Fairness

-----------------------------------------------------------------------------
(* Properties.                                                             *)

TypeOK ==
  /\ place \in {"rollup", "returning", "mainnet"}
  /\ fills \in Seq(SUBSET Users) /\ Len(fills) <= MaxFills
  /\ committed \in 0 .. Len(fills)
  /\ claimed \subseteq 1 .. committed
  /\ nextPosition \in [Users -> Nat]
  /\ inFlight \in [Ids -> 0 .. MaxCopies]
  /\ socket \in {"open", "closed"}
  /\ pending \in 0 .. MaxPending
  /\ plaintextStore \subseteq Orders
  /\ encryptedStore \subseteq Orders
  /\ claimedFills \subseteq 1 .. committed
  /\ runs \in [Runs -> [stage : {"idle", "fetching", "building", "bundled", "submitted"},
                        todo : SUBSET Ids, fill : 0 .. MaxFills]]

\* Whatever overlapping runs, repeated submissions, restarts and other claimers
\* send, a fill opens one position for each of its traders.
OnePositionPerFill ==
  \A u \in Users : nextPosition[u] = Cardinality({f \in claimed : u \in Traders(f)})


\* A fill on mainnet whose openings the settler keeps.
Settleable(f) == place = "mainnet" /\ f <= committed /\ HasOpenings(f)

\* index.ts:6: for each unclaimed fill with both plaintexts the settler submits
\* claim_fill; so what a run finds on mainnet is claimed, if the book stays there.
SettledOnceRead ==
  \A f \in Ids : (\E r \in Runs : runs[r].stage = "fetching") /\ Settleable(f)
                 ~> f \in claimed \/ ~Settleable(f)
=============================================================================
