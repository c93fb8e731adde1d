SPECIFICATION FairSpec
CONSTANTS
    w1 = w1
    w2 = w2
    byCountry = byCountry
    Gone = Gone
    Lines = 10
    Unparsable = {2}
    TooLong = {10}
    BatchSize = 2
    Worker <- TwoWorkers
    Index <- OneIndex
    Options <- SomeFlags
    FaultKinds = {"die", "postgres", "delete", "documents"}
    MaxFaults = 1
    MaxRuns = 2
INVARIANT EachRecordOnce
INVARIANT DoneMeansLoaded
PROPERTY RestartsRepair
