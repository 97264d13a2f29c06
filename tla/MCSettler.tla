----------------------------- MODULE MCSettler -----------------------------
(* Small instances of Settler for TLC.                                     *)
EXTENDS Settler

AllPlaintext == [order \in Orders |-> {"plaintext"}]

\* One fill of each kind of openings.
OneOfEach ==
  [order \in Orders |-> IF order[1] = 1 THEN {"plaintext"} ELSE {"encrypted"}]
=============================================================================
