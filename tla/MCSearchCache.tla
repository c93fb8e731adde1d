---------------------------- MODULE MCSearchCache ----------------------------
(* Instances of SearchCache for TLC. *)
EXTENDS SearchCache

CONSTANTS h1, h2, k1, k2

TwoHandlers == {h1, h2}
TwoKeys == {k1, k2}
=============================================================================
