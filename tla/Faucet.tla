------------------------------- MODULE Faucet -------------------------------
(***************************************************************************)
(* services/faucet: requests for test money, each with a SOL leg and a     *)
(* USDC leg that run side by side, and the rate limit of one request per   *)
(* wallet in five minutes, which is kept in memory only.                   *)
(*                                                                         *)
(* The window does not pass while a request of the wallet is not answered: *)
(* its transactions expire long before.                                    *)
(***************************************************************************)
EXTENDS Integers

CONSTANTS
  Wallets,
  Requests,    \* requests of the model, used again when they are over
  MaxPool,     \* what the faucet has at first, in tenths of a SOL
  MaxRestarts  \* bound of the model on restarts

ASSUME FaucetAssumption == MaxPool \in Nat /\ MaxRestarts \in Nat

VARIABLES
  limits,    \* rateLimitMap: no entry, one of the last five minutes, or an older one
  requests,  \* the requests under way
  solPool,   \* the faucet's own SOL
  successes, \* answers of success to a wallet in the present window (history)
  restarts

faucetVars == <<limits, requests, solPool, successes, restarts>>

SolAmount == 10 \* SOL_AIRDROP_AMOUNT, in tenths of a SOL
Reserve == 1

NoRequest == [wallet |-> "none", sol |-> "none", usdc |-> "none", reply |-> "none"]

\* A request whose handler was started; the legs of an answered one may go on.
Under(r) == requests[r] # NoRequest

\* While its request is so the dashboard's button is disabled; a page that is
\* loaded again, or another tab, has a button of its own.
Unanswered(r) == Under(r) /\ requests[r].reply = "none"

FaucetInit ==
  /\ limits = [w \in Wallets |-> "none"]
  /\ requests = [r \in Requests |-> NoRequest]
  /\ solPool = MaxPool
  /\ successes = [w \in Wallets |-> 0]
  /\ restarts = 0

-----------------------------------------------------------------------------

\* Faulty variant: the comparison with the window is the wrong way round.
FaultyIsRateLimited(w) == limits[w] = "old"

IsRateLimited(w) == limits[w] = "fresh"

\* POST /faucet.  One that is limited is refused and changes nothing; any other
\* is noted before anything is awaited.
HandleFaucet(r, w) ==
  /\ ~Under(r)
  /\ ~IsRateLimited(w)
  /\ limits' = [limits EXCEPT ![w] = "fresh"]
  /\ requests' = [requests EXCEPT ![r] =
                    [wallet |-> w, sol |-> "airdrop", usdc |-> "transfer", reply |-> "none"]]
  /\ UNCHANGED <<solPool, successes, restarts>>

Over(leg) == leg \in {"paid", "failed"}

\* A request is forgotten when both of its legs are over.
Rest(req) == IF Over(req.sol) /\ Over(req.usdc) THEN NoRequest ELSE req

Succeeds(req) == req.reply = "none" /\ {req.sol, req.usdc} = {"paid"}
Fails(req) == req.reply = "none" /\ "failed" \in {req.sol, req.usdc}

\* Promise.all: success when both legs are paid, failure as soon as one has
\* failed.  The failure releases the limit, though the other leg goes on.
Reply(r, req) ==
  \/ /\ Succeeds(req)
     /\ successes' = [successes EXCEPT ![req.wallet] = @ + 1]
     /\ requests' = [requests EXCEPT ![r] = NoRequest]
     /\ UNCHANGED limits
  \/ /\ Fails(req)
     /\ limits' = [limits EXCEPT ![req.wallet] = "none"]
     /\ requests' = [requests EXCEPT ![r] = Rest([req EXCEPT !.reply = "failure"])]
     /\ UNCHANGED successes
  \/ /\ ~Succeeds(req) /\ ~Fails(req)
     /\ requests' = [requests EXCEPT ![r] = Rest(req)]
     /\ UNCHANGED <<limits, successes>>

\* requestAirdrop: anything that fails, a late confirmation too, falls back to
\* the faucet's own SOL.
AirdropSol(r) ==
  /\ requests[r].sol = "airdrop"
  /\ \E next \in {"paid", "check"} : Reply(r, [requests[r] EXCEPT !.sol = next])
  /\ UNCHANGED <<solPool, restarts>>

\* transferSolFromFaucet reads the balance first ...
CheckPool(r) ==
  /\ requests[r].sol = "check"
  /\ Reply(r, [requests[r] EXCEPT !.sol = IF solPool < SolAmount + Reserve THEN "failed" ELSE "transfer"])
  /\ UNCHANGED <<solPool, restarts>>

\* ... and transfers then.  A transfer that fails before it is sent, or expires,
\* throws, and so does one that lands without being confirmed in time; one that
\* fails on the chain is taken for paid.
TransferSol(r) ==
  /\ requests[r].sol = "transfer"
  /\ \/ /\ solPool >= SolAmount
        /\ solPool' = solPool - SolAmount
        /\ \E next \in {"paid", "failed"} : Reply(r, [requests[r] EXCEPT !.sol = next])
     \/ /\ \E next \in {"failed"} \union (IF solPool < SolAmount THEN {"paid"} ELSE {}) :
             Reply(r, [requests[r] EXCEPT !.sol = next])
        /\ UNCHANGED solPool
  /\ UNCHANGED restarts

\* The token account of the wallet is made at the faucet's expense if need be.
TransferUsdc(r) ==
  /\ requests[r].usdc = "transfer"
  /\ \E next \in {"paid", "failed"} : Reply(r, [requests[r] EXCEPT !.usdc = next])
  /\ UNCHANGED <<solPool, restarts>>

WindowPasses(w) ==
  /\ limits[w] = "fresh"
  /\ \A r \in Requests : Unanswered(r) => requests[r].wallet # w
  /\ limits' = [limits EXCEPT ![w] = "old"]
  /\ successes' = [successes EXCEPT ![w] = 0]
  /\ UNCHANGED <<requests, solPool, restarts>>

\* The process ends, with every request, and forgets every limit.
FaucetRestarts ==
  /\ restarts < MaxRestarts
  /\ restarts' = restarts + 1
  /\ limits' = [w \in Wallets |-> "none"]
  /\ requests' = [r \in Requests |-> NoRequest]
  /\ successes' = [w \in Wallets |-> 0]
  /\ UNCHANGED solPool

-----------------------------------------------------------------------------
Legs(r) == AirdropSol(r) \/ CheckPool(r) \/ TransferSol(r) \/ TransferUsdc(r)

FaucetNext ==
  \/ \E r \in Requests, w \in Wallets : HandleFaucet(r, w)
  \/ \E r \in Requests : Legs(r)
  \/ \E w \in Wallets : WindowPasses(w)
  \/ FaucetRestarts

FaucetSpec == FaucetInit /\ [][FaucetNext]_faucetVars

-----------------------------------------------------------------------------
(* Properties.                                                             *)

Request == [wallet : Wallets, sol : {"airdrop", "check", "transfer", "paid", "failed"},
            usdc : {"transfer", "paid", "failed"}, reply : {"none", "failure"}]

\* A request that is not answered holds its wallet's limit, alone.
FaucetTypeOK ==
  /\ limits \in [Wallets -> {"none", "fresh", "old"}]
  /\ requests \in [Requests -> Request \union {NoRequest}]
  /\ \A r \in Requests : Unanswered(r) => limits[requests[r].wallet] = "fresh"
  /\ \A r, q \in Requests : Unanswered(r) /\ Unanswered(q) /\ r # q => requests[r].wallet # requests[q].wallet
  /\ solPool \in 0 .. MaxPool
  /\ restarts \in 0 .. MaxRestarts

\* A wallet is answered with success once in a window, though a failed request
\* releases the limit and its other leg, still paying, goes on beside the next.
OneSuccessPerWindow == \A w \in Wallets : successes[w] <= 1

=============================================================================
