--------------------------- MODULE MCEventPipeline ---------------------------
(* Instances of EventPipeline for TLC: clicks of one client. *)
EXTENDS EventPipeline

CONSTANTS p1, r1, ip1, mnl, PH, Asia, PPLC

OnePartition == {p1}
OneRequest == {r1}
OneIP == {ip1}
Queries == {mnl}
Values == {PH, Asia, PPLC}

Manila == [ip |-> ip1, query |-> mnl, countries |-> PH, continents |-> Asia,
           feature_codes |-> PPLC]

Clicked == [r \in Request |-> Manila]
=============================================================================
