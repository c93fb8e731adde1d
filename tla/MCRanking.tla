----------------------------- MODULE MCRanking -----------------------------
(* Instances of Ranking for TLC. *)
EXTENDS Ranking

CONSTANTS lk, np, us, america, namesake, other, ppl, airp

ThreeCountries == {lk, np, us}

\* The other two are not in the table, as those of Sri Lanka and Nepal.
OneInTable == [c \in {us} |-> america]

NewPlace(i, name, country, feature, population) ==
    [id |-> i, name |-> name, country |-> country, feature |-> feature,
     population |-> population]

FourPlaces == { NewPlace(1, namesake, lk, ppl, 1), NewPlace(2, namesake, us, ppl, 4),
                NewPlace(3, other, np, ppl, 3), NewPlace(4, namesake, us, airp, 2) }

\* Four in one country, so that the second search has two pages.
EightPlaces == FourPlaces \union { NewPlace(5, other, lk, ppl, 6), NewPlace(6, namesake, lk, airp, 5),
                                 NewPlace(7, other, lk, airp, 8), NewPlace(8, other, np, airp, 7) }
Queries == SUBSET FourPlaces \union { EightPlaces, { p \in EightPlaces : p.country = lk } }

SmallCounts == 0..2
SomeRecents == {{}, {namesake}, {other}}

FewLimits == 1..4
=============================================================================
