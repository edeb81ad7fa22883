----------------------------- MODULE MCRateLimit -----------------------------
(***************************************************************************)
(* RateLimit for TLC.                                                      *)
(***************************************************************************)
EXTENDS RateLimit, TLC

ThreadSymmetry == Permutations(Threads)
===============================================================================
