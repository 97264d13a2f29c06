------------------------------ MODULE MCEdges ------------------------------
(* The dashboard, the faucet, the alert bot and the two copies of the book *)
(* for TLC.  They share no state: a behaviour is of one of them, and the   *)
(* others rest.                                                            *)
EXTENDS Dashboard, Faucet, AlertBot, Delegation

VARIABLE part

edgeVars == <<part, dashVars, faucetVars, botVars, delegationVars>>

EdgesInit ==
  /\ part \in {"dashboard", "faucet", "bot", "delegation"}
  /\ DashInit /\ FaucetInit /\ BotInit /\ DelegationInit
  /\ part # "dashboard" => panel = "history"

EdgesNext ==
  \/ part = "dashboard" /\ DashNext /\ UNCHANGED <<part, faucetVars, botVars, delegationVars>>
  \/ part = "faucet" /\ FaucetNext /\ UNCHANGED <<part, dashVars, botVars, delegationVars>>
  \/ part = "bot" /\ BotNext /\ UNCHANGED <<part, dashVars, faucetVars, delegationVars>>
  \/ part = "delegation" /\ DelegationNext /\ UNCHANGED <<part, dashVars, faucetVars, botVars>>

\* Only of the dashboard is it said what happens in the end.
EdgesSpec == EdgesInit /\ [][EdgesNext]_edgeVars /\ DashFairness

\* States of the others; one request holds a wallet's limit, one chat that
\* fails costs no other its alert, and one copy of the book is written.
ServicesTypeOK == FaucetTypeOK /\ BotTypeOK /\ DelegationTypeOK
=============================================================================
