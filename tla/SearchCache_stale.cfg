SPECIFICATION FairCacheSpec
CONSTANTS
    h1 = h1
    h2 = h2
    k1 = k1
    k2 = k2
    Handler <- TwoHandlers
    Key <- TwoKeys
    CacheTTL = 2
    MaxLag = 1
    MaxVersion = 2
    MaxFaults = 1
INVARIANT CacheNotTooOld
PROPERTY CacheCatchesUp
