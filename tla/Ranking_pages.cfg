SPECIFICATION Spec
CONSTANTS
    lk = lk
    np = np
    us = us
    america = america
    namesake = namesake
    other = other
    ppl = ppl
    airp = airp
    Country <- ThreeCountries
    Continent <- OneInTable
    Place <- EightPlaces
    Matches <- Queries
    Counts <- SmallCounts
    Recents <- SomeRecents
    Limits <- FewLimits
    MaxPage = 3
INVARIANT PageStaysFull
INVARIANT PagesSpareTheLocals
INVARIANT PopulationOnlyBreaksTies
CHECK_DEADLOCK FALSE
