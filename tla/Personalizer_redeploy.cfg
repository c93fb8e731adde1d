SPECIFICATION FairSpec
CONSTANTS
    p1 = p1
    p2 = p2
    ip1 = ip1
    mnl = mnl
    mex = mex
    PH = PH
    MX = MX
    Asia = Asia
    NA = NA
    PPLC = PPLC
    Empty = Empty
    Malformed = Malformed
    Partition <- TwoPartitions
    IP <- OneIP
    Query <- Queries
    Value <- Values
    Message <- OneSearch
    RecentLimit = 1
    TTLDays = 30
    MaxRetries = 0
    FaultKinds = {"crash", "sigterm", "rejoin"}
    MaxFaults = 2
    MaxLog = 2
    MaxWipes = 0
INVARIANT CommittedIsCounted
PROPERTY CommitsMoveForward
PROPERTY CommitsCatchUp
CHECK_DEADLOCK FALSE
