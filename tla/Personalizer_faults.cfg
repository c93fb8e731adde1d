SPECIFICATION Spec
CONSTANTS
    p1 = p1
    p2 = p2
    ip1 = ip1
    mnl = mnl
    mex = mex
    PH = PH
    MX = MX
    Asia = Asia
    NA = NA
    PPLC = PPLC
    Empty = Empty
    Malformed = Malformed
    Partition <- OnePartition
    IP <- OneIP
    Query <- Queries
    Value <- Values
    Message <- AllKinds
    RecentLimit = 1
    TTLDays = 30
    MaxRetries = 1
    FaultKinds = {"crash", "sigterm", "break", "commit", "rejoin"}
    MaxFaults = 2
    MaxLog = 3
    MaxWipes = 1
INVARIANT TypeOK
INVARIANT CommittedIsInProfile
INVARIANT RecentBounded
INVARIANT CountedOnceIfUndisturbed
INVARIANT NoKeyForever
PROPERTY ImplementsLedger
CHECK_DEADLOCK FALSE
