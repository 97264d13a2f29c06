----------------------------- MODULE MCTrading -----------------------------
(* Small instances of Trading for TLC.                                     *)
EXTENDS Trading

MCMaxSends == [agent |-> 3, browser |-> 2, tools |-> 2, sealed |-> 2]
=============================================================================
