----------------------------- MODULE MCSaleBoot -----------------------------
(* Instances of SaleBoot for TLC.                                          *)
EXTENDS SaleBoot, TLC

Symmetric == Permutations(Buyers)
=============================================================================
