------------------------------- MODULE MCSdk -------------------------------
(* What is built on the SDK's two halves for TLC: a trader and the price   *)
(* feed.  They share no state: a behaviour is of one of them, and the      *)
(* other rests.                                                            *)
EXTENDS MCTrading, Feed

VARIABLE half

sdkVars == <<half, tradingVars, feedVars>>

SdkInit ==
  /\ half \in {"client", "pyth"}
  /\ Init /\ FeedInit
  /\ half = "client" => owner = "watcher" /\ polling
  /\ half = "pyth" => client = "agent"

SdkNext ==
  \/ half = "client" /\ Next /\ UNCHANGED <<half, feedVars>>
  \/ half = "pyth" /\ FeedNext /\ UNCHANGED <<half, tradingVars>>

SdkSpec == SdkInit /\ [][SdkNext]_sdkVars

\* The half that rests is where nothing has to happen.
FairSdkSpec == SdkSpec /\ TradingFairness /\ FeedFairness

\* States of both halves; an agent keeps one opening for an order, whatever is
\* read late, and a first connection that is pending is being made.
SdkTypeOK == TradingTypeOK /\ FeedTypeOK
=============================================================================
