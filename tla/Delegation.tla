----------------------------- MODULE Delegation -----------------------------
(***************************************************************************)
(* The two copies of the order book account as the calls of the SDK reach  *)
(* them: the account on mainnet, which the program writes while it owns    *)
(* it, and its copy on the rollup while it is delegated.  An admin's       *)
(* client extends, finishes and delegates the account (delegateBook of the *)
(* SDK lacks an argument and throws); the SDK sends orders and claims to   *)
(* mainnet, and cranks and commits to the rollup.                          *)
(*                                                                         *)
(* A trader has one order or fill at a time, a bid meets any ask, and the  *)
(* collateral of one order is all that anybody deposits.  The price levels *)
(* and the fill ring are in OrderBook, the collateral in Clearing.  A call *)
(* that the program refuses or that is lost changes nothing.               *)
(***************************************************************************)
EXTENDS Naturals, Sequences

CONSTANTS
  Bids, Asks, \* traders, by the side they take
  Chunks,     \* extend_order_book calls that the account needs (23 of 10 KiB)
  MaxUpdates, \* bound of the model on the commits on their way to mainnet
  TestHarness \* TRUE iff the is_delegated byte is written as the tests do

ASSUME DelegationAssumption ==
  Chunks \in Nat /\ MaxUpdates \in Nat /\ Bids \intersect Asks = {} /\ TestHarness \in BOOLEAN

VARIABLES
  account, \* the account on mainnet: its owner, its size in chunks, and the book in it
  rollup,  \* its copy on the rollup
  updates, \* commits of the rollup that mainnet has not seen yet
  users,   \* traders with a user account
  funded   \* those with free collateral for one order

delegationVars == <<account, rollup, updates, users, funded>>

Traders == Bids \union Asks
NoBook == [isDelegated |-> FALSE, final |-> FALSE, resting |-> {}, fills |-> {}]
EmptyBook == [NoBook EXCEPT !.final = TRUE]
NoCopy == [book |-> NoBook, present |-> FALSE]

DelegationInit ==
  /\ account = [owner |-> "nobody", chunks |-> 0, book |-> NoBook]
  /\ rollup = NoCopy
  /\ updates = <<>>
  /\ users = {} /\ funded = {}

-----------------------------------------------------------------------------
(* The market and its users, on mainnet.                                   *)

\* The account is made with no bytes in it.
InitializeMarket ==
  /\ account.owner = "nobody"
  /\ account' = [account EXCEPT !.owner = "program"]
  /\ UNCHANGED <<rollup, updates, users, funded>>

ExtendOrderBook ==
  /\ account.owner = "program" /\ account.chunks < Chunks
  /\ account' = [account EXCEPT !.chunks = @ + 1]
  /\ UNCHANGED <<rollup, updates, users, funded>>

FinalizeOrderBookInit ==
  /\ account.owner = "program" /\ account.chunks = Chunks /\ ~account.book.final
  /\ account' = [account EXCEPT !.book = EmptyBook]
  /\ UNCHANGED <<rollup, updates, users, funded>>

InitializeUser(t) ==
  /\ account.owner # "nobody" /\ t \notin users
  /\ users' = users \union {t}
  /\ UNCHANGED <<account, rollup, updates, funded>>

\* Also the collateral that a closed position releases.
DepositCollateral(t) ==
  /\ t \in users \ funded
  /\ funded' = funded \union {t}
  /\ UNCHANGED <<account, rollup, updates, users>>

\* An order or a fill of the trader does not keep him from it.
WithdrawCollateral(t) ==
  /\ t \in funded
  /\ funded' = funded \ {t}
  /\ UNCHANGED <<account, rollup, updates, users>>

-----------------------------------------------------------------------------
(* The book on mainnet.                                                    *)

\* Faulty variant: mainnet writes the account while the rollup has it.
FaultyWritable == account.book.final

\* AccountLoader: the account is the program's, and has its discriminator.
Writable == account.owner = "program" /\ account.book.final

Uses(fill) == {fill[1], fill[2]}
Busy(book) == book.resting \union UNION {Uses(fill) : fill \in book.fills}

\* The book's own rules are in OrderBook; the balance is looked at, not locked.
PlaceOrder(t) ==
  /\ Writable
  /\ t \in funded \ Busy(account.book)
  /\ account' = [account EXCEPT !.book.resting = @ \union {t}]
  /\ UNCHANGED <<rollup, updates, users, funded>>

CancelOrder(t) ==
  /\ Writable
  /\ t \in account.book.resting
  /\ account' = [account EXCEPT !.book.resting = @ \ {t}]
  /\ UNCHANGED <<rollup, updates, users, funded>>

\* Pairs of resting orders, no order twice, until one side has none.
Pairings(book) ==
  {pairs \in SUBSET ((Bids \intersect book.resting) \X (Asks \intersect book.resting)) :
     /\ \A p, q \in pairs : Uses(p) \intersect Uses(q) # {} => p = q
     /\ \/ Bids \intersect book.resting \subseteq {p[1] : p \in pairs}
        \/ Asks \intersect book.resting \subseteq {p[2] : p \in pairs}}

Matched(book, pairs) ==
  [book EXCEPT !.resting = @ \ UNION {Uses(p) : p \in pairs},
               !.fills = @ \union pairs]

\* crank_match, for the admin of a market on devnet: no look at is_delegated.
CrankMatch ==
  /\ Writable
  /\ \E pairs \in Pairings(account.book) : account' = [account EXCEPT !.book = Matched(@, pairs)]
  /\ UNCHANGED <<rollup, updates, users, funded>>

\* Both sides must have their accounts and the collateral by now; it is locked
\* in positions then.
ClaimFill(fill) ==
  /\ Writable
  /\ fill \in account.book.fills /\ Uses(fill) \subseteq funded
  /\ account' = [account EXCEPT !.book.fills = @ \ {fill}]
  /\ funded' = funded \ Uses(fill)
  /\ UNCHANGED <<rollup, updates, users>>

-----------------------------------------------------------------------------
(* Delegation and the rollup.                                              *)

\* delegate_book loads no book: it sets no is_delegated, and takes an account
\* that is not finished too.
DelegateBook ==
  /\ account.owner = "program"
  /\ account' = [account EXCEPT !.owner = "delegation program"]
  /\ rollup' = [book |-> account.book, present |-> TRUE]
  /\ UNCHANGED <<updates, users, funded>>

\* No instruction sets is_delegated; the tests write the byte, for the runtime's
\* sake, into an account that is not delegated.
BankrunMarkOrderBookDelegated ==
  /\ TestHarness
  /\ Writable
  /\ account' = [account EXCEPT !.book.isDelegated = TRUE]
  /\ UNCHANGED <<rollup, updates, users, funded>>

\* Sent to mainnet, as the tests do, or to the rollup.
MatchOrders ==
  /\ \/ /\ Writable /\ account.book.isDelegated
        /\ \E pairs \in Pairings(account.book) : account' = [account EXCEPT !.book = Matched(@, pairs)]
        /\ UNCHANGED rollup
     \/ /\ rollup.present /\ rollup.book.final
        /\ rollup.book.isDelegated
        /\ \E pairs \in Pairings(rollup.book) : rollup' = [rollup EXCEPT !.book = Matched(@, pairs)]
        /\ UNCHANGED account
  /\ UNCHANGED <<updates, users, funded>>

Send(book, last) == updates' = Append(updates, [book |-> book, last |-> last])

\* The admin's call; what the rollup commits by itself every second is no other.
CommitBook ==
  /\ rollup.present /\ rollup.book.final
  /\ Len(updates) < MaxUpdates
  /\ Send(rollup.book, FALSE)
  /\ UNCHANGED <<account, rollup, users, funded>>

CommitAndUndelegateBook ==
  /\ rollup.present /\ rollup.book.final
  /\ Len(updates) < MaxUpdates
  /\ Send([rollup.book EXCEPT !.isDelegated = FALSE], TRUE)
  /\ rollup' = NoCopy
  /\ UNCHANGED <<account, users, funded>>

\* The delegation program writes a committed book, and gives the account back
\* with the last one.
UpdateLands ==
  /\ updates # <<>>
  /\ account' = [account EXCEPT !.book = Head(updates).book,
                                !.owner = IF Head(updates).last THEN "program" ELSE @]
  /\ updates' = Tail(updates)
  /\ UNCHANGED <<rollup, users, funded>>

-----------------------------------------------------------------------------
MainnetNext ==
  \/ InitializeMarket \/ ExtendOrderBook \/ FinalizeOrderBookInit \/ CrankMatch
  \/ BankrunMarkOrderBookDelegated \/ DelegateBook
  \/ \E t \in Traders : InitializeUser(t) \/ DepositCollateral(t) \/ WithdrawCollateral(t)
  \/ \E t \in Traders : PlaceOrder(t) \/ CancelOrder(t)
  \/ \E fill \in Bids \X Asks : ClaimFill(fill)

RollupNext == CommitBook \/ CommitAndUndelegateBook \/ UpdateLands

DelegationNext == MainnetNext \/ RollupNext \/ MatchOrders

\* Anybody cranks the rollup, and what is committed there lands.
DelegationSpec ==
  /\ DelegationInit /\ [][DelegationNext]_delegationVars
  /\ WF_delegationVars(MatchOrders) /\ WF_delegationVars(UpdateLands)

-----------------------------------------------------------------------------
(* Properties.                                                             *)

Book == [isDelegated : BOOLEAN, final : BOOLEAN, resting : SUBSET Traders, fills : SUBSET (Bids \X Asks)]

\* One of the program, the rollup and the last update has the book; no order
\* rests while its trader has a fill.
DelegationTypeOK ==
  /\ account \in [owner : {"nobody", "program", "delegation program"}, chunks : 0 .. Chunks, book : Book]
  /\ rollup \in [book : Book, present : BOOLEAN]
  /\ \A i \in 1 .. Len(updates) : updates[i] \in [book : Book, last : BOOLEAN]
  /\ account.owner = "delegation program" <=>
       rollup.present \/ (updates # <<>> /\ updates[Len(updates)].last)
  /\ rollup.present => \A i \in 1 .. Len(updates) : ~updates[i].last
  /\ \A b \in {account.book, rollup.book} : \A fill \in b.fills : Uses(fill) \intersect b.resting = {}
  /\ funded \subseteq users /\ users \subseteq Traders

\* However commits, cranks, orders, claims and delegations interleave, a commit
\* that lands brings mainnet nothing but matches: it forgets no order and no
\* fill, and brings back none that was cancelled or claimed.
CommitsOnlyMatch ==
  [][updates # <<>> /\ updates' = Tail(updates) =>
       /\ Busy(account'.book) = Busy(account.book)
       /\ account.book.fills \subseteq account'.book.fills]_delegationVars

\* src/programs/darkbook/src/ix/orders.rs:11: delegate_book must be called before
\* match_orders can run on the rollup.  So orders that cross there are matched
\* as long as somebody cranks.
DelegatedOrdersMatch ==
  \A b \in Bids, a \in Asks :
    rollup.present /\ {b, a} \subseteq rollup.book.resting
      ~> ~(rollup.present /\ {b, a} \subseteq rollup.book.resting)
=============================================================================
