SPECIFICATION Spec
CONSTANTS
    Null = Null
    BookEntities = {"e1", "e2"}
    BookIds = {1, 2}
    BookMain = "main"
    BookPage = 1
    MaxBookTokens = 4
    MaxBookChanges = 1
    MaxBookFaults = 1
    LoginClients = {"a", "b"}
    LoginPeople = {"p"}
    LoginSessionTtl = 1
    LoginCodeTtl = 1
    MaxLogins = 2
    MaxLoginClock = 4
    FilloutForms = {"f1", "f2"}
    FilloutIds = {1, 2}
    FilloutPage = 1
    FilloutFormsFlush = 2
    FilloutFlush = 2
    MaxFilloutChanges = 2
    MaxFilloutFaults = 2
    PeopleUsers = {"u", "v"}
    PeopleNames = {"n"}
    PeopleIds = {1, 2, 3}
    PeopleStart <- Duplicates
    PeopleBatch = 1
    MaxPeopleChanges = 2
    MaxPeopleFaults = 1
    PullSubmissions = {"s1", "s2"}
    PullUser <- OneUser
    PullProgram <- OneProgram
    PullPrograms = {"p", "q"}
    PullFiles = {"a", "b"}
    MaxPullFaults = 1
    QueryClients = {"c1", "c2"}
    QueryPool = 1
    QueryAttempts = 2
    CacheEntries = 1
    CacheTtl = 0
    MaxQueryRows = 3
    MaxQueryResults = 2
    MaxQueryClock = 1
    MaxQueryFaults = 1
    WizardRequests = {1, 2}
    WizardIds = {"a", "b"}
    WizardSources = {"x"}
    WizardsKept = 1
    MaxWizardRequests = 4
    DltRuns = {1, 2}
    DltChunks = {1, 2}
    DltRuntime = 1
    DltAge = 2
    MaxDltClock = 4
    MaxDltFaults = 1
    BackupTables = {"t1", "t2"}
    BackupOrder <- ByName
    BackupRuns = {"r1", "r2"}
    LastBackup = 2
    LastVersion = 2
    MaxBackupFaults = 1
    PassTables = {"t1", "t2"}
    PassRows = {1}
    PassWorkers = {"w1", "w2"}
    PassBatch = 1
    MaxPassEdits = 1
    MaxPassFaults = 1
    DigestTables = {"t", "s"}
    DigestNames = {"a", "_row_hash"}
    DigestHidden = {"_row_hash"}
    DigestTypes = {"byval", "varlena", "fixed"}
    DigestData <- Extremes
    MaxDigestColumns = 2
    MaxDigestEdits = 2
    MirrorRecords = {1, 2}
    MirrorKinds = {"", "float", "boolean"}
    MirrorCells <- Awkward
    MirrorSample = 1
    MaxMirrorEdits = 2
INVARIANTS
    TypeOK
    AccessKept
    RequestsServed
    LoadsSound
PROPERTIES
    NothingMissed
    OnlyGoneDeleted
    CleanRunExact
CHECK_DEADLOCK FALSE
