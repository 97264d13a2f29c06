------------------------------ MODULE Trading ------------------------------
(***************************************************************************)
(* Those who place orders, and what they keep of them.  An order can be    *)
(* cancelled and its fill claimed only with its id and the opening of its  *)
(* commitment (salt, size and leverage), which the program never learns:   *)
(* whoever placed it must keep them.  Each client goes its own way about   *)
(* it (client is chosen for the whole behaviour):                          *)
(*   agent    the Zerion agent: retries, a state file, cancels on CLOSE;   *)
(*   browser  the dashboard's order entry: salts in localStorage;          *)
(*   tools    the Torque MCP server: tools called by an assistant;         *)
(*   sealed   a user of the SDK's placeEncryptedOrder.                     *)
(*                                                                         *)
(* Salts are random, so the number of a placing transaction stands for its *)
(* opening; the id of an order is its place in the book's history.         *)
(***************************************************************************)
EXTENDS Naturals, Sequences, FiniteSetsExt

CONSTANTS
  Calls,       \* calls a client may have under way (executeTrade runs, tabs, requests)
  MaxAttempts, \* of withRetry (3)
  MaxSends,    \* bounds of the model on each client's placing transactions
  MaxOthers,   \* bound of the model on the orders of other traders
  MaxOrders,   \* bound of the model on the orders of the book
  MaxFailures  \* bound of the model on lost answers, failed reads and restarts

Clients == {"agent", "browser", "tools", "sealed"}

ASSUME TradingAssumption ==
  /\ IsFiniteSet(Calls)
  /\ MaxAttempts \in Nat \ {0}
  /\ MaxSends \in [Clients -> Nat] /\ MaxOthers \in Nat /\ MaxOrders \in Nat /\ MaxFailures \in Nat

VARIABLES
  client,    \* who runs
  hasUser,   \* the client's UserAccount exists
  book,      \* every order of the book: [commitment, state]
  txs,       \* placing transactions: [initUser, fate]
  cancels,   \* cancelling transactions nobody waits for any more: {[id, opening]}
  kept,      \* what the client has kept: {[id, opening]}
  calls,     \* the calls under way
  failures,  \* failures so far
  lost       \* openings lost so far to failures and to wrong ids (history)

tradingVars == <<client, hasUser, book, txs, cancels, kept, calls, failures, lost>>

NoEntry == [id |-> 0, opening |-> 0]
Quiet == [kind |-> "none", stage |-> "idle", attempt |-> 0, tx |-> 0, entry |-> NoEntry, seen |-> {}]

\* A commitment is the hash of an opening and the trader or, sealed, of a
\* ciphertext; somebody else's is neither.
OthersOrder == [form |-> "others", of |-> 0]
ComputeCommitment(t) == [form |-> "opening", of |-> t]
EncryptOrderBlob(t) == [form |-> "ciphertext", of |-> t]

Commitment(t) == IF client = "sealed" THEN EncryptOrderBlob(t) ELSE ComputeCommitment(t)

Openings == 1 .. Max({MaxSends[cl] : cl \in Clients})
Entries == [id : 0 .. MaxOrders, opening : {0} \union Openings]

Init ==
  /\ client \in Clients
  /\ hasUser \in IF client = "browser" THEN BOOLEAN ELSE {TRUE}
  /\ book = << >>
  /\ txs = << >>
  /\ cancels = {}
  /\ kept = {}
  /\ calls = [c \in Calls |-> Quiet]
  /\ failures = 0
  /\ lost = 0

Fail == failures < MaxFailures /\ failures' = failures + 1

IsOurs(i) == book[i].commitment.form # "others"
InBook(t) == \E i \in DOMAIN book : book[i].commitment = Commitment(t)

-----------------------------------------------------------------------------
(* The program and its other users.                                        *)

\* A transaction lands, perhaps long after its sender stopped waiting for it.
\* One that would create a UserAccount that exists fails as a whole.
PlaceLands(t) ==
  /\ txs[t].fate = "flying"
  /\ IF txs[t].initUser /\ hasUser
     THEN /\ txs' = [txs EXCEPT ![t].fate = "refused"]
          /\ UNCHANGED <<hasUser, book>>
     ELSE /\ Len(book) < MaxOrders
          /\ txs' = [txs EXCEPT ![t].fate = "landed"]
          /\ book' = Append(book, [commitment |-> Commitment(t), state |-> "resting"])
          /\ hasUser' = TRUE
  /\ UNCHANGED <<client, cancels, kept, calls, failures, lost>>

\* It never reaches a leader, or the program refuses the order.
PlaceExpires(t) ==
  /\ txs[t].fate = "flying"
  /\ txs' = [txs EXCEPT ![t].fate = "expired"]
  /\ UNCHANGED <<client, hasUser, book, cancels, kept, calls, failures, lost>>

\* The order under this id rests and its commitment opens.
CancelAccepted(e) ==
  e.id \in DOMAIN book /\ book[e.id] = [commitment |-> [form |-> "opening", of |-> e.opening], state |-> "resting"]

CancelLands(e) ==
  /\ e \in cancels
  /\ CancelAccepted(e)
  /\ book' = [book EXCEPT ![e.id].state = "cancelled"]
  /\ cancels' = cancels \ {e}
  /\ UNCHANGED <<client, hasUser, txs, kept, calls, failures, lost>>

OthersPlace ==
  /\ Len(book) < MaxOrders
  /\ Cardinality({i \in DOMAIN book : ~IsOurs(i)}) < MaxOthers
  /\ book' = Append(book, [commitment |-> OthersOrder, state |-> "resting"])
  /\ UNCHANGED <<client, hasUser, txs, cancels, kept, calls, failures, lost>>

\* match_orders takes an order of ours out of the book.
OrderMatched(i) ==
  /\ book[i].state = "resting" /\ IsOurs(i)
  /\ book' = [book EXCEPT ![i].state = "matched"]
  /\ UNCHANGED <<client, hasUser, txs, cancels, kept, calls, failures, lost>>

-----------------------------------------------------------------------------
(* A call that places.                                                     *)

Return(c) == calls' = [calls EXCEPT ![c] = Quiet]

\* The agent wraps a placement in withRetry.
Attempts == IF client = "agent" THEN MaxAttempts ELSE 1

\* The model's bound; a call that meets it gives up early.
Room == Len(txs) < MaxSends[client]

\* A placing transaction is signed, with a fresh salt, and sent.
Send(c, attempt, initUser) ==
  /\ txs' = Append(txs, [initUser |-> initUser, fate |-> "flying"])
  /\ calls' = [calls EXCEPT ![c] = [Quiet EXCEPT !.kind = "place", !.stage = "confirming",
                                                 !.attempt = attempt, !.tx = Len(txs) + 1]]

\* executeTrade, the tool or the SDK calls placeOrder.
SdkPlaceOrder(c) ==
  /\ client # "browser"
  /\ calls[c].kind = "none"
  /\ Room
  /\ Send(c, 1, FALSE)
  /\ UNCHANGED <<client, hasUser, book, cancels, kept, failures, lost>>

\* placeOrder throws: the agent tries again, the others report the error.
Throw(c) ==
  IF calls[c].attempt < Attempts /\ Room
  THEN Send(c, calls[c].attempt + 1, FALSE)
  ELSE Return(c) /\ UNCHANGED txs

\* The placing transaction of this SDK call is awaited.
Awaits(c) == client # "browser" /\ calls[c].stage = "confirming"

NotPlaced(c) ==
  /\ Awaits(c)
  /\ txs[calls[c].tx].fate = "expired"
  /\ Throw(c)
  /\ UNCHANGED <<client, hasUser, book, cancels, kept, failures, lost>>

\* No answer, though the transaction has landed or may land yet; or the read
\* of the book that follows a confirmed transaction fails.
PlaceUnanswered(c) ==
  /\ Awaits(c)
  /\ Fail
  /\ Throw(c)
  /\ lost' = lost + 1
  /\ UNCHANGED <<client, hasUser, book, cancels, kept>>

\* Faulty variant: next_order_id is taken one order too early.
FaultyOrderIdRead == Len(book) - 1

\* The id is next_order_id - 1 of the book as it is when it is read.
OrderIdRead == Len(book)

\* Faulty variant: the opening of whatever was sent last.
FaultyRecord(t) == [id |-> OrderIdRead, opening |-> IF client = "tools" THEN 0 ELSE Len(txs)]

\* What each client keeps of an order: orderState and its file, the assistant's
\* transcript (without the salt, which the tool does not answer), the caller.
Record(t) == [id |-> OrderIdRead, opening |-> IF client = "tools" THEN 0 ELSE t]

\* Faulty variant: entries are never replaced.
FaultyKeep(e) ==
  /\ kept' = kept \union {e}
  /\ UNCHANGED lost

\* A Map has one entry for an id: a second order under it displaces the first.
Keep(e) ==
  LET displaced == {k \in kept : k.id = e.id /\ k.opening # e.opening}
  IN  /\ kept' = (kept \ displaced) \union {e}
      /\ lost' = lost + Cardinality(displaced)

\* Confirmed, the book is read, at some later time.
ReadOrderId(c) ==
  /\ Awaits(c)
  /\ txs[calls[c].tx].fate = "landed"
  /\ Keep(Record(calls[c].tx))
  /\ Return(c)
  /\ UNCHANGED <<client, hasUser, book, txs, cancels, failures>>

-----------------------------------------------------------------------------
(* The dashboard's order entry.                                            *)

\* buildPlaceOrderTx: the account is created along with the order if it was
\* not there when it looked.
BuildPlaceOrderTx(c) ==
  /\ client = "browser"
  /\ calls[c].kind = "none"
  /\ Room
  /\ Send(c, 1, ~hasUser)
  /\ UNCHANGED <<client, hasUser, book, cancels, kept, failures, lost>>

\* confirmTransaction resolves for a transaction that failed as well: only
\* one that is not seen before its blockhash expires makes it throw.
\* localStorage is keyed by the commitment, not by an id.
HandleSubmit(c) ==
  /\ client = "browser" /\ calls[c].stage = "confirming"
  /\ \/ /\ txs[calls[c].tx].fate \in {"landed", "refused"}
        /\ kept' = kept \union {[id |-> 0, opening |-> calls[c].tx]}
     \/ txs[calls[c].tx].fate = "expired" /\ UNCHANGED kept
  /\ Return(c)
  /\ UNCHANGED <<client, hasUser, book, txs, cancels, failures, lost>>

\* The tab is closed or reloaded, or the answer does not come: the salt was
\* in memory only.
TabGone(c) ==
  /\ client = "browser" /\ calls[c].stage = "confirming"
  /\ Fail
  /\ Return(c)
  /\ lost' = lost + 1
  /\ UNCHANGED <<client, hasUser, book, txs, cancels, kept>>

-----------------------------------------------------------------------------
(* Cancelling.                                                             *)

CancelCall(e, seen) ==
  [kind |-> "close", stage |-> "cancelling", attempt |-> 1, tx |-> 0, entry |-> e, seen |-> seen]

\* One cancel_order, by a tool or the SDK, with what the caller has kept.
CancelStarts(c) ==
  /\ client \in {"tools", "sealed"}
  /\ calls[c].kind = "none"
  /\ \E e \in kept : calls' = [calls EXCEPT ![c] = CancelCall(e, {})]
  /\ UNCHANGED <<client, hasUser, book, txs, cancels, kept, failures, lost>>

\* Faulty variant: without the inner try, the first failure ends the loop.
FaultyNextCancel(c, seen, entries) ==
  IF seen # {} \/ entries = {} THEN Return(c)
  ELSE \E e \in entries : calls' = [calls EXCEPT ![c] = CancelCall(e, {e})]

\* CLOSE iterates over the live Map: on to an entry it has not come to yet.
NextCancel(c, seen, entries) ==
  IF entries \ seen = {} THEN Return(c)
  ELSE \E e \in entries \ seen : calls' = [calls EXCEPT ![c] = CancelCall(e, seen \union {e})]

\* A CLOSE signal: the price of SOL is at most 100.
CloseStarts(c) ==
  /\ client = "agent"
  /\ calls[c].kind = "none"
  /\ NextCancel(c, {}, kept)
  /\ UNCHANGED <<client, hasUser, book, txs, cancels, kept, failures, lost>>

\* The agent deletes the id, whatever is stored under it by now.
CancelConfirmed(c) ==
  LET e == calls[c].entry
      gone == IF client = "agent" THEN {k \in kept : k.id = e.id} ELSE {}
  IN  /\ calls[c].stage = "cancelling"
      /\ CancelAccepted(e)
      /\ book' = [book EXCEPT ![e.id].state = "cancelled"]
      /\ kept' = kept \ gone
      /\ lost' = lost + Cardinality(gone \ {e})
      /\ IF client = "agent" THEN NextCancel(c, calls[c].seen, kept \ gone) ELSE Return(c)
      /\ UNCHANGED <<client, hasUser, txs, cancels, failures>>

\* Faulty variant: the attempts are not counted.
FaultyRetryCancel(c) == UNCHANGED calls

\* Three attempts, then the agent's entry stays and its loop goes on.
RetryCancel(c) ==
  IF client # "agent" THEN Return(c)
  ELSE IF calls[c].attempt < MaxAttempts
       THEN calls' = [calls EXCEPT ![c].attempt = @ + 1]
       ELSE NextCancel(c, calls[c].seen, kept)

\* Refused by the program (matched, cancelled already, a wrong id or opening),
\* or no answer, though it may land yet.
CancelFails(c) ==
  /\ calls[c].stage = "cancelling"
  /\ \/ Fail /\ cancels' = cancels \union {calls[c].entry}
     \/ ~CancelAccepted(calls[c].entry) /\ UNCHANGED <<failures, cancels>>
  /\ RetryCancel(c)
  /\ UNCHANGED <<client, hasUser, book, txs, kept, lost>>

-----------------------------------------------------------------------------
(* The agent ends and starts again.                                        *)

Placing == {c \in Calls : calls[c].kind = "place"}

\* loadOrderState reads what saveOrderState wrote after the last change, or
\* nothing if it died while writing: the file is overwritten in place.
Restart(torn) ==
  /\ client = "agent"
  /\ Fail
  /\ kept' = IF torn THEN {} ELSE kept
  /\ lost' = lost + Cardinality(Placing) + (IF torn THEN Cardinality(kept) ELSE 0)
  /\ calls' = [c \in Calls |-> Quiet]
  /\ cancels' = cancels \union {calls[c].entry : c \in {d \in Calls : calls[d].stage = "cancelling"}}
  /\ UNCHANGED <<client, hasUser, book, txs>>

-----------------------------------------------------------------------------
ProgramStep ==
  \/ \E t \in DOMAIN txs : PlaceLands(t) \/ PlaceExpires(t)
  \/ \E e \in Entries : CancelLands(e)
  \/ OthersPlace
  \/ \E i \in DOMAIN book : OrderMatched(i)

CallStep(c) ==
  \/ NotPlaced(c) \/ PlaceUnanswered(c) \/ ReadOrderId(c)
  \/ HandleSubmit(c) \/ TabGone(c)
  \/ CancelConfirmed(c) \/ CancelFails(c)

Next ==
  \/ ProgramStep
  \/ \E c \in Calls : CallStep(c) \/ SdkPlaceOrder(c) \/ BuildPlaceOrderTx(c) \/ CancelStarts(c) \/ CloseStarts(c)
  \/ \E torn \in BOOLEAN : Restart(torn)

TradingSpec == Init /\ [][Next]_tradingVars

\* A transaction lands or expires and a call is answered or times out; nobody
\* has to trade, and nothing makes the price fall below 100.
TradingFairness ==
  /\ \A t \in Openings : WF_tradingVars(t \in DOMAIN txs /\ (PlaceLands(t) \/ PlaceExpires(t)))
  /\ \A c \in Calls : WF_tradingVars(CallStep(c))

FairTradingSpec == TradingSpec /\ TradingFairness

-----------------------------------------------------------------------------
(* Properties.                                                             *)

\* The calls and what they keep; a Map has one entry for an id.
TradingTypeOK ==
  /\ client \in Clients
  /\ hasUser \in BOOLEAN
  /\ \A i \in DOMAIN book : /\ book[i].commitment \in [form : {"opening", "ciphertext", "others"}, of : 0 .. Len(txs)]
                            /\ book[i].state \in {"resting", "matched", "cancelled"}
  /\ txs \in Seq([initUser : BOOLEAN, fate : {"flying", "landed", "refused", "expired"}])
  /\ cancels \subseteq Entries
  /\ kept \subseteq Entries
  /\ client # "browser" => \A e, k \in kept : e.id = k.id => e = k
  /\ \A c \in Calls : /\ calls[c].kind \in {"none", "place", "close"}
                      /\ calls[c].stage \in {"idle", "confirming", "cancelling"}
                      /\ calls[c].attempt \in 0 .. MaxAttempts
                      /\ calls[c].tx \in 0 .. Len(txs)
                      /\ calls[c].entry \in Entries \union {NoEntry} /\ calls[c].seen \subseteq Entries
  /\ failures \in 0 .. MaxFailures /\ lost \in Nat

\* Orders of ours that live on or have a fill to claim, and of which neither
\* the client nor a call it waits for has the opening.
Unkept ==
  {i \in DOMAIN book :
     /\ IsOurs(i) /\ book[i].state # "cancelled"
     /\ book[i].commitment.of \notin {e.opening : e \in kept} \union {calls[c].tx : c \in Calls}}

\* Nobody loses the opening of an order but by a lost answer, a restart or an
\* entry displaced by another that was read under the same id: retries,
\* overlapping runs and late transactions lose none on their own.
OpeningsAccountedFor == client # "tools" => Cardinality(Unkept) <= lost

\* The id kept with an order is never that of an order before it: the race of
\* placeOrder with other orders only errs forward.
IdsNeverBehind ==
  client # "browser" =>
    \A e \in kept : \A i \in DOMAIN book : book[i].commitment = Commitment(e.opening) => i <= e.id

\* Every call comes to an end: a CLOSE over a Map that grows under it, too.
CallsEnd == \A c \in Calls : []<>(calls[c].kind = "none")

\* The agent keeps closing.
KeepsClosing == []<>(\E c \in Calls : calls[c].kind = "close")

\* An order whose entry is right does not outlive the CLOSE runs, whatever
\* other entries fail.
ClosingCancels ==
  \A e \in [id : 1 .. MaxOrders, opening : Openings] : KeepsClosing => []<>~(client = "agent" /\ e \in kept /\ CancelAccepted(e))

\* sdk/src/client.ts:320: the placed order gets id = next_order_id - 1.
OrderIdIsOwn ==
  client # "browser" => \A e \in kept : e.opening # 0 => book[e.id].commitment = Commitment(e.opening)
=============================================================================
