SPECIFICATION Spec
CONSTANTS
    Null = Null
    LastEvent = 4
    AuditPage = 1
    MaxAuditFaults = 2
    LastDay = 4
    MaxDailyFaults = 2
    MetricsCampaigns = {"c1", "c2", "c3"}
    MetricsPages <- LongCampaigns
    MetricsShort = {"c1"}
    MetricsDelays = {0, 3}
    MetricsBudget = 5
    MetricsMaxRuntime = 8
    MetricsMargin = 2
    MaxMetricsFaults = 1
    TextCampaigns = {"c1", "c2"}
    TextDrafts = {1, 2}
    TextBatch = 1
    TextLimit = 1
    MaxTextFaults = 1
    AudienceAddresses = {"a1", "a2"}
    AudienceNames = {"n1", "n2"}
    AudienceSelves = {"", "nonbinary"}
    AudienceGenderize <- ManAndOther
    AudienceYears = 1
    MaxAudienceEdits = 2
    MaxAudienceFaults = 1
    ProjectIds = {1}
    ProjectAddresses = {"a", "b"}
    ProjectUrls = {"u", "w"}
    ProjectGitHub = {"u"}
    ProjectStart <- Submitted
    ProjectSearchLimit = 1
    MaxProjectEdits = 1
    MaxProjectFaults = 1
    HashesTables = {"t1"}
    HashesRows = {1, 2}
    HashesWorkers = {"w1"}
    HashesBatch = 1
    MaxHashesEdits = 1
    MaxHashesFaults = 2
    GrantTables = {"t"}
    GrantColumns = {"a", "b"}
    GrantStreams <- EachKind
    GrantStart <- ExceptB
    MaxGrantChanges = 2
    MaxGrantRenders = 2
    MaxGrantFaults = 1
    SiteRuns = {1, 2}
    SiteSpend <- TwoBuilds
    SitePrivate <- OneWithheld
    MaxSiteHands = 1
    MaxSiteFaults = 1
INVARIANTS
    TypeOK
    HistoryContiguous
    ResultMatchesInput
    CampaignsSafe
PROPERTIES
    ReadersCatchUp
    RecordsSettle
    CampaignsServed
CHECK_DEADLOCK FALSE
