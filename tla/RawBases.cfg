SPECIFICATION Spec
CONSTANTS
    Bases = {b1, b2}
    Tables = {t1}
    Records = {r1, r2}
    Workers = 1
    Threshold = 2
    BaseThreshold = 2
    MaxRuns = 2
    MaxChanges = 1
    MaxFaults = 1
PROPERTY OnlyGoneDeleted
CHECK_DEADLOCK FALSE
