SPECIFICATION FairSpec
CONSTANTS
    Jobs = {mirrors, lake}
    Tagged = {mirrors}
    Ids = {r1, r2}
    MaxConcurrent = 2
    MaxRetries = 1
    MaxManual = 2
    MaxHangs = 1
    MaxDeploys = 1
INVARIANTS
    TypeOK
    NoPileUp
    SerialButForTimeouts
PROPERTIES
    QueueSurvivesRestart
    RunsEnd
CHECK_DEADLOCK FALSE
