---------------------------- MODULE MCOrderFlow ----------------------------
(* Small instances of OrderFlow for TLC.                                   *)
EXTENDS OrderFlow, TLC

Symmetric == Permutations(Req) \cup Permutations(Buyers) \cup Permutations(Apis)

(* Bound: requests arrive while the window is open; outside it they only   *)
(* read.                                                                   *)
WindowOpen == phase = "open"
=============================================================================
