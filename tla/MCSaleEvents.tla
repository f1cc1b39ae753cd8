---------------------------- MODULE MCSaleEvents ----------------------------
(* Instances of SaleEvents for TLC.                                        *)
EXTENDS SaleEvents

CONSTANTS a1, a2
=============================================================================
