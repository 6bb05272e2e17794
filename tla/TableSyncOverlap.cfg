SPECIFICATION FairSpec
CONSTANTS
    Null = Null
    HasPK = TRUE
    Keys = {k1, k2}
    Values = {v1, v2}
    Runs = {r1, r2}
    Files = {1, 2, 3, 4, 5, 6, 7, 8, 9}
    Threshold = 80
    BatchSize = 2
    MaxClock = 1
    MaxWrites = 1
    MaxFaults = 0
INVARIANTS
    TypeOK
    SyncExact
    PrimaryKeyKept
    ValuesExact
PROPERTIES
    Converges
