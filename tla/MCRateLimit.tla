---------------------------- MODULE MCRateLimit ----------------------------
(* A small instance of RateLimit for TLC; calls are interchangeable.        *)
EXTENDS RateLimit, TLC

Symmetry == Permutations(Calls)
=============================================================================
