------------------------------- MODULE Totals -------------------------------
(* The sum of a vector: a function from any finite set to numbers. *)
EXTENDS Integers, FiniteSetsExt

Total(w) == MapThenSumSet(LAMBDA u : w[u], DOMAIN w)
=============================================================================
