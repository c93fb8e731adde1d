SPECIFICATION RecSpec
CONSTANTS
    c1 = c1
    c2 = c2
    c3 = c3
    c4 = c4
    CountryCode <- FourCountries
    Counters <- CountsAtTheSignal
    MaxTowns = 3
    AskedLimits <- TwoLimits
INVARIANT HistorySectionIsFull
INVARIANT NothingFoundIsLost
CHECK_DEADLOCK FALSE
SYMMETRY Symmetry
