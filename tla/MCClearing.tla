----------------------------- MODULE MCClearing -----------------------------
(* Small instances of Clearing for TLC.                                    *)
EXTENDS Clearing
=============================================================================
