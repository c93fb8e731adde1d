SPECIFICATION Spec
CONSTANTS
    p1 = p1
    p2 = p2
    ip1 = ip1
    mnl = mnl
    mex = mex
    PH = PH
    MX = MX
    Asia = Asia
    NA = NA
    PPLC = PPLC
    Empty = Empty
    Malformed = Malformed
    Partition <- OnePartition
    IP <- OneIP
    Query <- Queries
    Value <- Values
    Message <- OneSearchAndNoise
    RecentLimit = 1
    TTLDays = 30
    MaxRetries = 0
    FaultKinds = {"break"}
    MaxFaults = 1
    MaxLog = 2
    MaxWipes = 0
INVARIANT CommittedIsCounted
CHECK_DEADLOCK FALSE
