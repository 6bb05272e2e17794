SPECIFICATION Spec
CONSTANTS
    Jobs = {mirrors}
    Tagged = {mirrors}
    Ids = {r1, r2, r3}
    MaxConcurrent = 2
    MaxRetries = 1
    MaxManual = 0
    MaxHangs = 1
    MaxDeploys = 0
INVARIANTS
    Serial
CHECK_DEADLOCK FALSE
