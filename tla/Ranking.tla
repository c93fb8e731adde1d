------------------------------- MODULE Ranking -------------------------------
(***************************************************************************)
(* What a personalized search makes of its hits: the search in the         *)
(* client's dominant country and the merge (internal/api/handler/search.go)*)
(* and the re-ranking (internal/search/reranker.go).                       *)
(*                                                                         *)
(* Every search the instance allows is an initial state; a step takes its  *)
(* request from one stage to the next, and an answer may be followed by    *)
(* the request for the next page.  Weights are made whole numbers by       *)
(* multiplying the largest counters out, and so the scores are exact.      *)
(***************************************************************************)
EXTENDS Integers, Sequences, FiniteSetsExt, SequencesExt

CONSTANTS
    Country,
    Continent,   \* Continent[c], for the countries of geoip's table
    Place,       \* records: id, name, country, feature, population
    Matches,     \* sets of places that a query may match
    Counts,      \* searches a profile may count for a country
    Recents,     \* sets of names a profile may hold as recent searches
    Limits,      \* limits a request may ask for
    MaxPage      \* bound: pages a client may ask for

None == "none"

ASSUME RankingAssumption ==
    /\ None \notin Country
    /\ \A p \in Place : p.id \in Int /\ p.country \in Country /\ p.population \in Nat
    /\ \A p, q \in Place : p.id = q.id => p = q
    /\ Matches \subseteq SUBSET Place
    /\ IsFiniteSet(Country) /\ IsFiniteSet(Place)
    /\ Counts \subseteq Nat /\ Limits \subseteq Int
    /\ MaxPage \in Nat \ {0}

VARIABLES
    stage,
    profile,   \* countries, features, recent
    request,   \* limit, page, filtered (it names a country)
    hits,      \* the places that match the query
    preferred, \* the dominant country, or None
    global,    \* the page of the first search
    local,     \* the page of the second search
    results,
    answered   \* history: for each earlier page what it showed and what it preferred

vars == <<stage, profile, request, hits, preferred, global, local, results, answered>>

Features == { p.feature : p \in Place }

\* What counters count: one pair for each search.
Searches(f) == UNION { {x} \X (1..f[x]) : x \in DOMAIN f }
Total(f) == Cardinality(Searches(f))

\* maxVal
MaxVal(f) == Max({ f[x] : x \in DOMAIN f } \union {0})

\* Countries that are not in the table are on one continent of that name.
Unknown == "Unknown"
GetContinent(c) == IF c \in DOMAIN Continent THEN Continent[c] ELSE Unknown

\* Every search that counts for a country counts for its continent and for the feature
\* of what was selected.
continents ==
    [k \in { GetContinent(c) : c \in Country } |->
        Cardinality({ s \in Searches(profile.countries) : GetContinent(s[1]) = k })]

\* How often a feature was selected among n selections: never, half of the time, always.
Parts(n) == {0, n \div 2, n - n \div 2, n}

Profiles ==
    UNION { { [countries |-> n, features |-> f, recent |-> r] :
                f \in { g \in [Features -> Parts(Total(n))] : Total(g) = Total(n) } }
            : n \in { m \in [Country -> Counts] : Total(m) > 0 }, r \in Recents }

\* The limit that is served: 10 for none, 50 at most.
Limited(n) == IF n <= 0 THEN 10 ELSE Min({n, 50})

Init ==
    /\ stage = "search"
    /\ profile \in Profiles
    /\ request \in [limit : { Limited(n) : n \in Limits }, page : {1}, filtered : BOOLEAN]
    /\ hits \in Matches
    /\ request.filtered => \A p, q \in hits : p.country = q.country
    /\ preferred = None
    /\ global = <<>> /\ local = <<>> /\ results = <<>>
    /\ answered = <<>>

-----------------------------------------------------------------------------

Slice(s, from, to) == SubSeq(s, from, Min({to, Len(s)}))

\* search.Search: the page of a limit, by population.
Before(p, q) == p.population > q.population \/ (p.population = q.population /\ p.id < q.id)
ByPopulation(places) ==
    [n \in 1..Cardinality(places) |->
        CHOOSE p \in places : Cardinality({ q \in places : Before(q, p) }) = n - 1]

\* What if the page were not passed on?
FirstPage(places, limit) == Slice(ByPopulation(places), 1, limit)
Page(places, limit) ==
    LET n == request.page IN Slice(ByPopulation(places), (n - 1) * limit + 1, n * limit)

\* dominantCountry with a threshold of 30 %; range over a map may meet any of the
\* countries with most searches first.
Dominant ==
    { c \in Country :
        /\ profile.countries[c] = MaxVal(profile.countries)
        /\ 10 * profile.countries[c] >= 3 * Total(profile.countries) }

\* Half of the limit, at least 3; the page is counted in these.
LocalLimit == Max({request.limit \div 2, 3})

\* The elements of s that are not among those of t, in their order.
Without(s, t) ==
    LET kept == { i \in DOMAIN s : s[i] \notin ToSet(t) }
    IN  [n \in 1..Cardinality(kept) |->
            s[CHOOSE i \in kept : Cardinality({ j \in kept : j < i }) = n - 1]]

\* What if the merge were cut at the limit of the second search?
MergedShort(first, others) ==
    Slice(first \o Without(others, first), 1, LocalLimit)
\* The local results, then the others that are not among them, up to the limit.
Merged(first, others) ==
    Slice(first \o Without(others, first), 1, request.limit)

Search ==
    /\ stage = "search"
    /\ stage' = "prefer"
    /\ global' = Page(hits, request.limit)
    /\ results' = global'
    /\ UNCHANGED <<profile, request, hits, preferred, local, answered>>

\* No country dominates or the request names one; or the second search finds nothing
\* or fails.
KeepGlobal ==
    /\ stage = "prefer"
    /\ stage' = "rerank"
    /\ UNCHANGED <<profile, request, hits, preferred, global, local, results, answered>>

Prefer(c) ==
    /\ stage = "prefer"
    /\ ~request.filtered
    /\ c \in Dominant
    /\ stage' = "rerank"
    /\ preferred' = c
    /\ local' = Page({ p \in hits : p.country = c }, LocalLimit)
    /\ local' # <<>>
    /\ results' = Merged(local', global)
    /\ UNCHANGED <<profile, request, hits, global, answered>>

\* What a counter is a share of; of none, if nothing is counted.
Divisor(f) == IF MaxVal(f) = 0 THEN 1 ELSE MaxVal(f)

\* The weights of a place are whole numbers of 1/Unit.
Unit == Divisor(profile.countries) * Divisor(continents) * Divisor(profile.features)
CountryWeight(p) ==
    profile.countries[p.country] * Divisor(continents) * Divisor(profile.features)
ContinentWeight(p) ==
    continents[GetContinent(p.country)] * Divisor(profile.countries) * Divisor(profile.features)
FeatureWeight(p) ==
    profile.features[p.feature] * Divisor(profile.countries) * Divisor(continents)
RecentMatch(p) == IF p.name \in profile.recent THEN Unit ELSE 0

\* The score above the base, which is the same for all, in 1/10000 of them.
Signal(p) ==
    4000 * CountryWeight(p) + 2000 * ContinentWeight(p)
    + 1500 * FeatureWeight(p) + 2500 * RecentMatch(p)

MaxPopulation == Max({1} \union { p.population : p \in ToSet(results) })

\* What if the population weighed as much as a signal?
PopulationSignal(p) == 1000 * Unit * p.population
PopulationWeight(p) == Unit * p.population

\* With the largest population multiplied out too.
Score(p) == Signal(p) * MaxPopulation + PopulationWeight(p)

BestFirst(s) == \A i, j \in DOMAIN s : i < j => Score(s[i]) >= Score(s[j])

\* Rerank: sort.Slice leaves the order of equal scores open.
Rerank ==
    /\ stage = "rerank"
    /\ stage' = "answer"
    /\ \E s \in SetToSeqs(ToSet(results)) : BestFirst(s) /\ results' = s
    /\ UNCHANGED <<profile, request, hits, preferred, global, local, answered>>

Showing == [places |-> ToSet(results), preferred |-> preferred]

\* The client asks for the next page of the same search.
NextPage ==
    /\ stage = "answer"
    /\ request.page < MaxPage
    /\ stage' = "search"
    /\ request' = [request EXCEPT !.page = @ + 1]
    /\ answered' = Append(answered, Showing)
    /\ preferred' = None
    /\ global' = <<>> /\ local' = <<>> /\ results' = <<>>
    /\ UNCHANGED <<profile, hits>>

Next == Search \/ KeepGlobal \/ (\E c \in Country : Prefer(c)) \/ Rerank \/ NextPage

Spec == Init /\ [][Next]_vars

-----------------------------------------------------------------------------
(* Properties. *)

TypeOK ==
    /\ stage \in {"search", "prefer", "rerank", "answer"}
    /\ preferred \in Country \union {None}
    /\ \A s \in {global, local, results} :
         /\ ToSet(s) \subseteq hits
         /\ IsInjective(s)
    /\ Len(global) <= request.limit /\ Len(results) <= request.limit

Done == stage = "answer"

\* Personalization neither shortens a page nor shows a place twice, and drops a place of
\* the plain answer only for a place of the preferred country on a full page.
PageStaysFull ==
    Done => /\ Len(results) >= Len(global)
            /\ IsInjective(results)
            /\ ~(ToSet(global) \subseteq ToSet(results)) =>
                 Len(results) = request.limit /\ preferred # None

\* Paging under personalization, whose second search counts its pages by a limit of its
\* own: only a place of a preferred country is shown on two pages, and while the pages
\* prefer one country none of its places is passed over, if a page has room for the second
\* search's.  Other places may be: those cut from a full page never come again.
PagesSpareTheLocals ==
    LET pages == Append(answered, Showing)
        Locals(c) == ByPopulation({ p \in hits : p.country = c })
        Prefers(c, n) == pages[n].preferred = c \/ Len(Locals(c)) <= (n - 1) * LocalLimit
    IN  Done =>
          /\ \A m, n \in DOMAIN pages : m # n =>
               \A p \in pages[m].places \cap pages[n].places :
                  p.country \in {pages[m].preferred, pages[n].preferred}
          /\ \A c \in Country :
               LocalLimit <= request.limit /\ (\A n \in DOMAIN pages : Prefers(c, n)) =>
                  ToSet(Slice(Locals(c), 1, Len(pages) * LocalLimit))
                     \subseteq UNION { pages[n].places : n \in DOMAIN pages }

Ahead(p, q) ==
    \E i, j \in DOMAIN results : i < j /\ results[i] = p /\ results[j] = q

\* The formula's comment: the population only matters between equal profile scores, which
\* is so while the largest counters multiply to less than 500: the weights are multiples
\* of 0.05, and so much more than the population's 0.0001 (see README).
PopulationOnlyBreaksTies ==
    Done /\ Unit < 500 =>
        \A p, q \in ToSet(results) :
            Ahead(p, q) => \/ Signal(p) > Signal(q)
                           \/ Signal(p) = Signal(q) /\ p.population >= q.population
=============================================================================
