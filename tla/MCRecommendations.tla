-------------------------- MODULE MCRecommendations --------------------------
(* Instances of Recommendations for TLC. *)
EXTENDS Recommendations

CONSTANTS c1, c2, c3, c4

FourCountries == {c1, c2, c3, c4}

\* None, just below the five searches that make a signal, and at it.
CountsAtTheSignal == {0, 4, 5}

\* A small limit, and one out of bounds for which 8 is served, which leaves something over
\* when three countries share it.
TwoLimits == {3, 26}

\* No operator of the module tells one country from another.
Symmetry == Permutations(FourCountries)
=============================================================================
