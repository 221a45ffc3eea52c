-------------------------- MODULE MCUsageMetering --------------------------
(* Requests are alike.                                                      *)
EXTENDS UsageMetering, TLC

MCSymmetry == Permutations(Requests)
=============================================================================
