----------------------------- MODULE MCSalePage -----------------------------
(* Instances of SalePage for TLC: a sale that opens and is still open when *)
(* the buyer leaves, or sells out.                                         *)
EXTENDS SalePage

Opening    == <<"upcoming", "active">>
SellingOut == <<"upcoming", "active", "sold_out">>
=============================================================================
