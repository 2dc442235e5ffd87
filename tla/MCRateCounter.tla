--------------------------- MODULE MCRateCounter ---------------------------
(* A small instance of RateCounter. *)
EXTENDS RateCounter, TLC

Symmetric == Permutations(Requests)
=============================================================================
