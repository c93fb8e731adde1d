SPECIFICATION FairSpec
CONSTANTS
    ip1 = ip1
    r1 = r1
    r2 = r2
    r3 = r3
    IP <- OneIP
    Request <- ThreeRequests
    Window = 3
    Limit = 2
    MaxRetries = 1
    MaxCount = 3
    MaxFaults = 2
INVARIANT EveryCounterExpires
INVARIANT BurstBounded
INVARIANT RefusedOnlyWhenFull
PROPERTY ImplementsFixedWindow
PROPERTY RefusalsEnd
