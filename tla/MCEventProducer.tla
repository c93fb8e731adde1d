--------------------------- MODULE MCEventProducer ---------------------------
(* Instances of EventProducer for TLC. *)
EXTENDS EventProducer

CONSTANTS p1, p2, r1, r2, r3

TwoPartitions == {p1, p2}
ThreeRequests == {r1, r2, r3}
=============================================================================
