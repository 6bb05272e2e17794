SPECIFICATION FairSpec
CONSTANTS
    VARCHAR = VARCHAR
    LegacyJSON = LegacyJSON
    Null = Null
    Keys = {k1}
    Names = {a, b}
    SourceTypes = {VARCHAR, BIGINT}
    Values = {v}
    HasPK = TRUE
    Shuffles = FALSE
    MaxChanges = 2
    MaxFaults = 1
INVARIANTS
    TypeOK
    ColumnsMatch
    ColumnsFilled
PROPERTIES
    NoChurn
    ColumnsSettle
