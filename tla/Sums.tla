-------------------------------- MODULE Sums --------------------------------
(* Sums over the accounts and positions of a market, which are numbered    *)
(* from 1.  PartialSums is a recursive function, not a RECURSIVE operator, *)
(* so that SumsProofs can prove its laws.                                  *)
EXTENDS Integers

PartialSums(f) ==
  LET s[i \in Nat] == IF i = 0 THEN 0 ELSE s[i - 1] + f[i]
  IN  s

\* f[1] + ... + f[n]
SumTo(f, n) == PartialSums(f)[n]
=============================================================================
