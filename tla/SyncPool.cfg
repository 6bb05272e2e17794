SPECIFICATION FairSpec
CONSTANTS
    Null = Null
    Tables = {t1, t2}
    Workers = {w1, w2}
    MaxOutages = 1
    MaxDrops = 1
    MaxDeaths = 1
    MaxSignals = 2
    MaxFaults = 2
INVARIANTS
    TypeOK
    OnePlace
    TriedTwiceAtMost
    NothingForgotten
    CompleteIsComplete
PROPERTIES
    ResultsAreFinal
    IsWorkBag
    EveryoneLeaves
CHECK_DEADLOCK FALSE
