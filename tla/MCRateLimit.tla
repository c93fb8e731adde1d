----------------------------- MODULE MCRateLimit -----------------------------
(* Instances of RateLimit for TLC. *)
EXTENDS RateLimit

CONSTANTS ip1, r1, r2, r3

OneIP == {ip1}
ThreeRequests == {r1, r2, r3}
=============================================================================
