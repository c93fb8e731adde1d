SPECIFICATION FairSpec
CONSTANTS
    p1 = p1
    p2 = p2
    r1 = r1
    r2 = r2
    r3 = r3
    Partition <- TwoPartitions
    Request <- ThreeRequests
    MaxAttempts = 2
INVARIANT NothingVanishes
INVARIANT FailedLeavesNothing
INVARIANT PartitionKeepsOrder
PROPERTY RecordedSettles
