SPECIFICATION Spec
CONSTANTS
    VARCHAR = VARCHAR
    LegacyJSON = LegacyJSON
    Null = Null
    Keys = {k1}
    Names = {a, b}
    SourceTypes = {VARCHAR, BIGINT}
    Values = {v}
    HasPK = TRUE
    Shuffles = FALSE
    MaxChanges = 1
    MaxFaults = 1
INVARIANTS
    ColumnsAlwaysFilled
