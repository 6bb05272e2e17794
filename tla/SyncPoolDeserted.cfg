SPECIFICATION Spec
CONSTANTS
    Null = Null
    Tables = {t1, t2}
    Workers = {w1, w2}
    MaxOutages = 0
    MaxDrops = 0
    MaxDeaths = 2
    MaxSignals = 0
    MaxFaults = 2
INVARIANTS
    CompleteMeansReported
CHECK_DEADLOCK FALSE
