--------------------------- MODULE Recommendations ---------------------------
(***************************************************************************)
(* GET /api/v1/recommendations (internal/api/handler/recommendations.go):  *)
(* two goroutines fetch a section each, from the client's history and from *)
(* where its address is; when both have ended the handler puts together    *)
(* what there is, or falls back to the largest towns.  Any call to Redis,  *)
(* ip-api.com and Typesense may fail, and no failure is reported.          *)
(*                                                                         *)
(* A town is a country and its rank by population there.                   *)
(***************************************************************************)
EXTENDS Integers, Sequences, FiniteSetsExt, SequencesExt

CONSTANTS
    CountryCode,
    Counters,    \* searches a profile may count for a country
    MaxTowns,  \* bound: towns the index has of a country
    AskedLimits     \* limits that are asked for; 0 stands for what is not a number

Nothing == "none"
OpenSea == "open sea"  \* a location without a country

ASSUME RecommendationsAssumption ==
    /\ {Nothing, OpenSea} \cap CountryCode = {} /\ IsFiniteSet(CountryCode)
    /\ Counters \subseteq Nat /\ MaxTowns \in Nat /\ AskedLimits \subseteq Int

VARIABLES
    countries, \* the profile's counters
    towns,     \* towns[c]: how many the index has
    popular,   \* the index has a town of more than 500 000 inhabitants
    home,      \* the country ip-api.com has for the address, OpenSea, or Nothing
    limit,
    history,   \* where the first goroutine is
    ranked,    \* the countries it has yet to ask for
    items,     \* the items it has
    nearby,    \* where the second goroutine is
    near,      \* its items
    sections,  \* the answer: the names of its sections, or Nothing
    faults     \* the calls that failed

given == <<countries, towns, popular, home, limit>>
first == <<history, ranked, items>>
second == <<nearby, near>>
recVars == <<given, first, second, sections, faults>>

Section == {"history", "nearby", "global"}
Call == {"profile", "country", "lookup", "box", "widen", "global"}

\* The limit that is served.
ServedLimit(n) == IF n \in 1..25 THEN n ELSE 8

RecInit ==
    /\ countries \in [CountryCode -> Counters]
    /\ towns \in [CountryCode -> 0..MaxTowns]
    /\ popular \in BOOLEAN
    /\ popular => \E c \in CountryCode : towns[c] > 0
    /\ home \in CountryCode \union {Nothing, OpenSea}
    /\ limit \in { ServedLimit(n) : n \in AskedLimits }
    /\ history = "profile" /\ ranked = <<>> /\ items = <<>>
    /\ nearby = "lookup" /\ near = <<>>
    /\ sections = <<Nothing>>
    /\ faults = {}

-----------------------------------------------------------------------------

Fails(call) == faults' = faults \union {call}

\* searchByCountry: at most n towns of c.
Towns(c, n) == [i \in 1..Min({n, towns[c]}) |-> <<c, i>>]

Searched == { c \in CountryCode : countries[c] > 0 }

\* profileHasSignal
HasSignal == \E c \in CountryCode : countries[c] >= 5

MostFirst(s) == \A i, j \in DOMAIN s : i < j => countries[s[i]] >= countries[s[j]]

MaxCountries == Min({3, Cardinality(Searched)})
\* What if what the division leaves over were nobody's?
EqualShare == limit \div MaxCountries
PerCountry == limit \div MaxCountries + 2

\* GetProfile and the ranking of the countries; equal ones in any order.
ReadProfile ==
    /\ history = "profile"
    /\ \/ /\ HasSignal
          /\ \E s \in SetToSeqs(Searched) : MostFirst(s) /\ ranked' = SubSeq(s, 1, MaxCountries)
          /\ history' = "countries"
          /\ UNCHANGED faults
       \/ ~HasSignal /\ history' = "done" /\ UNCHANGED <<ranked, faults>>
       \/ Fails("profile") /\ history' = "done" /\ UNCHANGED ranked
    /\ UNCHANGED <<given, items, second, sections>>

UpToLimit(hits) == SubSeq(items \o hits, 1, Min({limit, Len(items) + Len(hits)}))

\* The next of the countries, until there are enough items.
AskCountry ==
    /\ history = "countries"
    /\ ranked # <<>> /\ Len(items) < limit
    /\ \/ items' = UpToLimit(Towns(Head(ranked), PerCountry)) /\ UNCHANGED faults
       \/ Fails("country") /\ UNCHANGED items
    /\ ranked' = Tail(ranked)
    /\ UNCHANGED <<given, history, second, sections>>

HistoryDone ==
    /\ history = "countries"
    /\ ranked = <<>> \/ Len(items) >= limit
    /\ history' = "done"
    /\ UNCHANGED <<given, ranked, items, second, sections, faults>>

\* geo.LookupIP: no location for a private address, nor when the service fails.
Lookup ==
    /\ nearby = "lookup"
    /\ \/ nearby' = (IF home = Nothing THEN "done" ELSE "box") /\ UNCHANGED faults
       \/ home # Nothing /\ Fails("lookup") /\ nearby' = "done"
    /\ UNCHANGED <<given, first, near, sections>>

\* nearbyRecommendations: the towns around, some of the home country's, or
\* of any country around a location without one.
AskBox ==
    /\ nearby = "box"
    /\ \/ /\ \E c \in IF home = OpenSea THEN CountryCode ELSE {home} :
               \E n \in 1..towns[c] : near' = Towns(c, Min({n, limit}))
          /\ nearby' = "done"
          /\ UNCHANGED faults
       \/ /\ nearby' = IF home \in CountryCode THEN "widen" ELSE "done"
          /\ UNCHANGED near
          /\ UNCHANGED faults \/ Fails("box")
    /\ UNCHANGED <<given, first, sections>>

Widen ==
    /\ nearby = "widen"
    /\ nearby' = "done"
    /\ \/ near' = Towns(home, limit) /\ UNCHANGED faults
       \/ Fails("widen") /\ UNCHANGED near
    /\ UNCHANGED <<given, first, sections>>

\* What if the handler did not wait for the second goroutine?
OneDone == history = "done"
BothDone == history = "done" /\ nearby = "done"

\* globalRecommendations asks for large towns only, so it may find none where there are
\* towns.
Fallback(found) == IF found = <<>> /\ popular THEN <<"global">> ELSE found

\* wg.Wait and the sections that have items.
Assemble ==
    LET found == (IF items # <<>> THEN <<"history">> ELSE <<>>)
                 \o (IF near # <<>> THEN <<"nearby">> ELSE <<>>)
    IN  /\ sections = <<Nothing>>
        /\ BothDone
        /\ \/ sections' = Fallback(found) /\ UNCHANGED faults
           \/ found = <<>> /\ Fails("global") /\ sections' = <<>>
        /\ UNCHANGED <<given, first, second>>

RecNext == ReadProfile \/ AskCountry \/ HistoryDone \/ Lookup \/ AskBox \/ Widen \/ Assemble

RecSpec == RecInit /\ [][RecNext]_recVars

-----------------------------------------------------------------------------
(* Properties. *)

RecTypeOK ==
    /\ popular \in BOOLEAN
    /\ history \in {"profile", "countries", "done"}
    /\ nearby \in {"lookup", "box", "widen", "done"}
    /\ ToSet(ranked) \subseteq CountryCode
    /\ Len(items) <= limit /\ Len(near) <= limit
    /\ sections = <<Nothing>> \/ ToSet(sections) \subseteq Section
    /\ faults \subseteq Call

Answered == sections # <<Nothing>>

\* What the goroutines found when they ended is all in the answer, the popular places are
\* for clients that have nothing of their own, and while the index has a town large enough
\* for it only the failure of this last resort leaves a client with nothing.
NothingFoundIsLost ==
    Answered =>
        /\ items # <<>> => "history" \in ToSet(sections)
        /\ near # <<>> => "nearby" \in ToSet(sections)
        /\ "global" \in ToSet(sections) => items = <<>> /\ near = <<>>
        /\ popular /\ sections = <<>> => "global" \in faults

CountriesShown == { items[i][1] : i \in DOMAIN items }

\* The history section of a client with a signal: no town twice, each country's largest
\* first and the most searched countries first of all; it is full, whatever is left over
\* when the limit is divided by the countries, if each of these has its share of towns
\* and no call failed.
HistorySectionIsFull ==
    Answered /\ HasSignal =>
        /\ IsInjective(items)
        /\ \A c \in CountriesShown :
             LET shown == { items[i][2] : i \in { j \in DOMAIN items : items[j][1] = c } }
             IN  shown = 1..Cardinality(shown)
        /\ \A i, j \in DOMAIN items : i < j => countries[items[i][1]] >= countries[items[j][1]]
        /\ (\A c \in Searched : towns[c] * MaxCountries >= limit)
              /\ faults \cap {"profile", "country"} = {} => Len(items) = limit
=============================================================================
