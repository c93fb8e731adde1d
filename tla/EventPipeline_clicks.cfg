SPECIFICATION FairSpec
CONSTANTS
    p1 = p1
    r1 = r1
    ip1 = ip1
    mnl = mnl
    PH = PH
    Asia = Asia
    PPLC = PPLC
    Empty = Empty
    Malformed = Malformed
    Partition <- OnePartition
    Request <- OneRequest
    EventOf <- Clicked
    IP <- OneIP
    Query <- Queries
    Value <- Values
    MaxAttempts = 2
    RecentLimit = 1
    TTLDays = 30
    MaxRetries = 0
    FaultKinds = {"sigterm", "rejoin", "crash", "break"}
    MaxFaults = 2
    MaxWipes = 1
INVARIANT ClicksCounted
INVARIANT OvercountBounded
PROPERTY ClicksSettle
