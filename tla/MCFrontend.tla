----------------------------- MODULE MCFrontend -----------------------------
(* Instances of Frontend for TLC. *)
EXTENDS Frontend

CONSTANTS q1, q2

TwoQueries == {q1, q2}

\* Enough of the first query for two more pages; the second has one page.
TwoTotals == [q \in TwoQueries |-> IF q = q1 THEN 3 ELSE 1]
=============================================================================
