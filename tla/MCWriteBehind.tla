--------------------------- MODULE MCWriteBehind ---------------------------
(* Instances of WriteBehind for TLC.                                       *)
EXTENDS WriteBehind, TLC

CONSTANTS s1, s2, b1, b2, b3, p1, p2, w1, w2, n1, n2, n3

(* One sale with one product; two sales with a product each.               *)
OneProduct  == s1 :> p1
TwoProducts == s1 :> p1 @@ s2 :> p2

(* Names are stable across restarts (WORKER_CONSUMER_ID is set).           *)
StableName  == w1 :> {n1}
StableNames == w1 :> {n1} @@ w2 :> {n2}

(* Names derive from the host name, which a recreated container changes.   *)
HostName  == w1 :> {n1, n3}
HostNames == w1 :> {n1, n3} @@ w2 :> {n2}

Symmetric == Permutations(Buyers)
=============================================================================
