--------------------------- MODULE MCPersonalizer ---------------------------
(* Instances of Personalizer for TLC. *)
EXTENDS Personalizer

CONSTANTS p1, p2, ip1, mnl, mex, PH, MX, Asia, NA, PPLC

OnePartition == {p1}
TwoPartitions == {p1, p2}
OneIP == {ip1}
Queries == {mnl, mex}
Values == {PH, MX, Asia, NA, PPLC}

Manila(ip) == [ip |-> ip, query |-> mnl, countries |-> PH, continents |-> Asia,
               feature_codes |-> PPLC]
Mexico(ip) == [ip |-> ip, query |-> mex, countries |-> MX, continents |-> NA,
               feature_codes |-> PPLC]

Blank == [Manila(ip1) EXCEPT !.ip = Empty]

\* Two searches of one client that share a feature code and nothing else, and an
\* event without an IP.
AllKinds == {Manila(ip1), Mexico(ip1), Blank}
OneSearch == {Manila(ip1)}
\* One with a value that does not decode, which the loop treats as it does Blank.
OneSearchAndNoise == {Manila(ip1), Malformed}
=============================================================================
