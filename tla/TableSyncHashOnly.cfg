SPECIFICATION FairSpec
CONSTANTS
    Null = Null
    HasPK = FALSE
    Keys = {k1, k2}
    Values = {v1, v2}
    Runs = {r1}
    Files = {1, 2, 3, 4, 5, 6, 7, 8, 9}
    Threshold = 80
    BatchSize = 2
    MaxClock = 2
    MaxWrites = 2
    MaxFaults = 1
INVARIANTS
    SyncExact
PROPERTIES
    IncrementalKeepsRows
    Converges
