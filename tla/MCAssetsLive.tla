---------------------------- MODULE MCAssetsLive ----------------------------
(* The assets that owe the warehouse something in the end.  They share no  *)
(* state, so a behaviour exercises one of them while the others stay in    *)
(* their initial state; a property is about one hazard, with a conjunct    *)
(* for every asset that meets it.                                          *)
EXTENDS Integers, Sequences, FiniteSets

CONSTANTS
    Null,           \* no value
    LastEvent, AuditPage, MaxAuditFaults,  \* Slack audit logs
    LastDay, MaxDailyFaults,  \* Slack analytics
    MetricsCampaigns, MetricsPages, MetricsShort, MetricsDelays,  \* Loops metrics
    MetricsBudget, MetricsMaxRuntime, MetricsMargin, MaxMetricsFaults,  \* and its times
    TextCampaigns, TextDrafts, TextBatch, TextLimit, MaxTextFaults,  \* Loops campaigns
    AudienceAddresses, AudienceNames, AudienceSelves,  \* Loops audience
    AudienceGenderize, AudienceYears, MaxAudienceEdits, MaxAudienceFaults,  \* and its bounds
    ProjectIds, ProjectAddresses, ProjectUrls, ProjectGitHub,  \* Unified YSWS
    ProjectStart, ProjectSearchLimit, MaxProjectEdits, MaxProjectFaults,  \* and its bounds
    HashesTables, HashesRows, HashesWorkers, HashesBatch,  \* row hashes
    MaxHashesEdits, MaxHashesFaults,  \* and their bounds
    GrantTables, GrantColumns, GrantStreams, GrantStart,  \* reader grants
    MaxGrantChanges, MaxGrantRenders, MaxGrantFaults,  \* and their bounds
    SiteRuns, SiteSpend, SitePrivate,  \* true-spend site
    MaxSiteHands, MaxSiteFaults  \* and its bounds

ASSUME HistoryAssumption == {LastEvent, LastDay} \subseteq Nat /\ AuditPage \in Nat \ {0}

ASSUME MarginAssumption ==
    /\ IsFiniteSet(MetricsCampaigns) /\ MetricsPages \in [MetricsCampaigns -> Nat \ {0}]
    /\ MetricsDelays \subseteq Nat /\ {MetricsBudget, MetricsMaxRuntime, MetricsMargin} \subseteq Nat

ASSUME AudienceAssumption ==
    /\ AudienceAddresses # {} /\ AudienceNames # {} /\ "" \notin AudienceNames
    /\ AudienceGenderize \in [AudienceNames -> {"male", "female", "gender-neutral", "error"}]
    /\ AudienceYears \in Nat /\ MaxAudienceEdits \in Nat /\ MaxAudienceFaults \in Nat

ASSUME ProjectAssumption ==
    /\ IsFiniteSet(ProjectIds)
    /\ ProjectStart \in [ProjectIds -> [addr : ProjectAddresses \cup {""}, code : ProjectUrls \cup {""},
                                      play : ProjectUrls \cup {""}]]
    /\ MaxProjectEdits \in Nat /\ MaxProjectFaults \in Nat

ASSUME HashesAssumption ==
    /\ IsFiniteSet(HashesTables) /\ "" \notin HashesTables /\ HashesWorkers # {}
    /\ MaxHashesEdits \in Nat /\ MaxHashesFaults \in Nat

ASSUME GrantAssumption ==
    /\ GrantStreams \subseteq [kind : {"off", "all", "except", "only"}, cols : SUBSET GrantColumns]
    /\ GrantStart \in [GrantTables -> GrantStreams]
    /\ {MaxGrantChanges, MaxGrantRenders, MaxGrantFaults} \subseteq Nat

\* The builds of dbt are counted from 0.
ASSUME SiteAssumption ==
    /\ \E n \in DOMAIN SiteSpend : n \in Nat /\ DOMAIN SiteSpend = 0 .. n
    /\ MaxSiteHands \in Nat /\ MaxSiteFaults \in Nat

LongCampaigns == [c1 |-> 1, c2 |-> 4, c3 |-> 2]
ManAndOther == [n1 |-> "male", n2 |-> "gender-neutral"]
Submitted == [p \in ProjectIds |-> [addr |-> "a", code |-> "u", play |-> "w"]]
EachKind == {[kind |-> "off", cols |-> {}], [kind |-> "all", cols |-> {}],
             [kind |-> "except", cols |-> {"b"}], [kind |-> "only", cols |-> {"a"}]}
ExceptB == [t \in GrantTables |-> [kind |-> "except", cols |-> {"b"}]]
TwoBuilds == [b \in 0 .. 1 |-> [o \in {"p", "q"} |-> b + 1]]
OneWithheld == [b \in 0 .. 1 |-> IF b = 1 THEN {"p"} ELSE {}]

VARIABLES
    asset,
    now, auditRows, backfilled, auditPc, mode, oldest, cursor, auditFaults,
    torn,
    today, files, gone, days, dailyPc, dailyCurrent, found, dailyFaults, cut,
    contact, year, raw, audienceTodo, geo, gender, age, prepared,
    audienceEdits, audienceFaults, answers,
    metricsRows, metricsFetched, elapsed, metricsPc, clock, deadline,
    startKnown, metricsTodo, metricsCurrent, page, metricsFaults,
    api, table, fresh, analysed, campaignPc, campaignTodo, campaignCurrent,
    campaignRecords, campaignFaults,
    row, recent, wants, phase, projectTodo, out, left, lost, projectFetched,
    projectEdits, projectFaults,
    searchRow, searchRecent, searchWants, searchPhase, searchTodo, searchOut,
    searchLeft, searchLost, searchFetched, searchEdits, searchFaults,
    main, handler, queue, stop, hashesPc, on, hit, status, stale, writing,
    touched, hashesEdits, hashesFaults,
    remote, name, members, export, load, columns, joinsAudience, listing,
    mirror, joinsRun, joinsTodo, new, read, mixed, join, joinsChanges,
    joinsFaults,
    catalog, stream, acl, password, url, script, settled, copied, report,
    grantsChanges, renders, grantsFaults,
    marts, siteRun, branch, hands, siteFaults,
    onHand, placed, bought, inventory, orders, purchases, stockTodo,
    stockRows, stockRecords, stockChanges, stockFaults

Audit == INSTANCE SlackAuditLogs WITH
    Events <- 1 .. LastEvent, PageSize <- AuditPage,
    MaxFaults <- MaxAuditFaults, rows <- auditRows, pc <- auditPc,
    faults <- auditFaults
Daily == INSTANCE SlackAnalytics WITH
    Days <- 1 .. LastDay, MaxFaults <- MaxDailyFaults, pc <- dailyPc,
    current <- dailyCurrent, faults <- dailyFaults
Audience == INSTANCE LoopsAudience WITH
    Addresses <- AudienceAddresses, Names <- AudienceNames,
    Selves <- AudienceSelves, Genderize <- AudienceGenderize,
    Years <- 0 .. AudienceYears, MaxEdits <- MaxAudienceEdits,
    MaxFaults <- MaxAudienceFaults, todo <- audienceTodo,
    edits <- audienceEdits, faults <- audienceFaults
Metrics == INSTANCE LoopsMetrics WITH
    Campaigns <- MetricsCampaigns, Pages <- MetricsPages,
    Short <- MetricsShort, Delays <- MetricsDelays, Budget <- MetricsBudget,
    MaxRuntime <- MetricsMaxRuntime, Margin <- MetricsMargin, None <- "",
    MaxFaults <- MaxMetricsFaults, rows <- metricsRows,
    fetched <- metricsFetched, pc <- metricsPc, todo <- metricsTodo,
    current <- metricsCurrent, faults <- metricsFaults
Campaign == INSTANCE LoopsCampaigns WITH
    Campaigns <- TextCampaigns, Drafts <- TextDrafts, BatchSize <- TextBatch,
    BatchLimit <- TextLimit, MaxFaults <- MaxTextFaults, pc <- campaignPc,
    todo <- campaignTodo, current <- campaignCurrent,
    records <- campaignRecords, faults <- campaignFaults
Project == INSTANCE YswsProjects WITH
    Projects <- ProjectIds, Addresses <- ProjectAddresses,
    Urls <- ProjectUrls, GitHub <- ProjectGitHub, Start <- ProjectStart,
    SearchLimit <- ProjectSearchLimit, MaxEdits <- MaxProjectEdits,
    MaxFaults <- MaxProjectFaults, todo <- projectTodo,
    fetched <- projectFetched, edits <- projectEdits, faults <- projectFaults
Search == INSTANCE YswsProjects WITH
    Projects <- {1, 2}, Addresses <- {}, Urls <- {}, GitHub <- {},
    Start <- [p \in {1, 2} |-> [addr |-> "", code |-> "", play |-> ""]],
    SearchLimit <- 1, MaxEdits <- 0, MaxFaults <- 2, row <- searchRow,
    recent <- searchRecent, wants <- searchWants, phase <- searchPhase,
    todo <- searchTodo, out <- searchOut, left <- searchLeft,
    lost <- searchLost, fetched <- searchFetched, edits <- searchEdits,
    faults <- searchFaults
Hashes == INSTANCE RowHashes WITH
    Tables <- HashesTables, Rows <- HashesRows, Workers <- HashesWorkers,
    BatchSize <- HashesBatch, MaxEdits <- MaxHashesEdits,
    MaxFaults <- MaxHashesFaults, pc <- hashesPc, edits <- hashesEdits,
    faults <- hashesFaults
Joins == INSTANCE LoopsLists WITH
    Lists <- {"l1"}, Names <- {"n1", "n2"}, Contacts <- {"c"},
    MaxChanges <- 1, MaxFaults <- 1, audience <- joinsAudience,
    run <- joinsRun, todo <- joinsTodo, changes <- joinsChanges,
    faults <- joinsFaults
Grants == INSTANCE ReaderGrants WITH
    Tables <- GrantTables, Columns <- GrantColumns, Streams <- GrantStreams,
    Start <- GrantStart, MaxChanges <- MaxGrantChanges,
    MaxRenders <- MaxGrantRenders, MaxFaults <- MaxGrantFaults,
    changes <- grantsChanges, faults <- grantsFaults
Site == INSTANCE TrueSpendSite WITH
    Runs <- SiteRuns, Spend <- SiteSpend, Private <- SitePrivate,
    MaxHands <- MaxSiteHands, MaxFaults <- MaxSiteFaults, run <- siteRun,
    faults <- siteFaults
Stock == INSTANCE ZenStock WITH
    Skus <- {"k"}, Purchases <- {1, 2}, Of <- [p \in {1, 2} |-> "k"],
    Priced <- {1}, Itemised <- {}, MaxChanges <- 3, MaxFaults <- 1,
    todo <- stockTodo, rows <- stockRows, records <- stockRecords,
    changes <- stockChanges, faults <- stockFaults

audit == <<
    now, auditRows, backfilled, auditPc, mode, oldest, cursor, auditFaults,
    torn>>
daily == <<
    today, files, gone, days, dailyPc, dailyCurrent, found, dailyFaults, cut>>
audience == <<
    contact, year, raw, audienceTodo, geo, gender, age, prepared,
    audienceEdits, audienceFaults, answers>>
metrics == <<
    metricsRows, metricsFetched, elapsed, metricsPc, clock, deadline,
    startKnown, metricsTodo, metricsCurrent, page, metricsFaults>>
campaign == <<
    api, table, fresh, analysed, campaignPc, campaignTodo, campaignCurrent,
    campaignRecords, campaignFaults>>
project == <<
    row, recent, wants, phase, projectTodo, out, left, lost, projectFetched,
    projectEdits, projectFaults>>
search == <<
    searchRow, searchRecent, searchWants, searchPhase, searchTodo, searchOut,
    searchLeft, searchLost, searchFetched, searchEdits, searchFaults>>
hashes == <<
    main, handler, queue, stop, hashesPc, on, hit, status, stale, writing,
    touched, hashesEdits, hashesFaults>>
joins == <<
    remote, name, members, export, load, columns, joinsAudience, listing,
    mirror, joinsRun, joinsTodo, new, read, mixed, join, joinsChanges,
    joinsFaults>>
grants == <<
    catalog, stream, acl, password, url, script, settled, copied, report,
    grantsChanges, renders, grantsFaults>>
site == <<
    marts, siteRun, branch, hands, siteFaults>>
stock == <<
    onHand, placed, bought, inventory, orders, purchases, stockTodo,
    stockRows, stockRecords, stockChanges, stockFaults>>
vars == <<
    asset, audit, daily, audience, metrics, campaign, project, search, hashes,
    joins, grants, site, stock>>

Init ==
    /\ asset \in {
           "audit", "daily", "audience", "metrics", "campaign", "project",
           "search", "hashes", "joins", "grants", "site", "stock"}
    /\ Audit!Init
    /\ Daily!Init
    /\ Audience!Init
    /\ Metrics!Init
    /\ Campaign!Init
    /\ Project!Init
    /\ Search!Init
    /\ Hashes!Init
    /\ Joins!Init
    /\ Grants!Init
    /\ Site!Init
    /\ Stock!Init
    /\ asset # "joins" => remote = [l \in {"l1"} |-> "none"]

Next ==
    \/ /\ asset = "audit" /\ Audit!Next
       /\ UNCHANGED <<
              asset, daily, audience, metrics, campaign, project, search,
              hashes, joins, grants, site, stock>>
    \/ /\ asset = "daily" /\ Daily!Next
       /\ UNCHANGED <<
              asset, audit, audience, metrics, campaign, project, search,
              hashes, joins, grants, site, stock>>
    \/ /\ asset = "audience" /\ Audience!Next
       /\ UNCHANGED <<
              asset, audit, daily, metrics, campaign, project, search, hashes,
              joins, grants, site, stock>>
    \/ /\ asset = "metrics" /\ Metrics!Next
       /\ UNCHANGED <<
              asset, audit, daily, audience, campaign, project, search,
              hashes, joins, grants, site, stock>>
    \/ /\ asset = "campaign" /\ Campaign!Next
       /\ UNCHANGED <<
              asset, audit, daily, audience, metrics, project, search, hashes,
              joins, grants, site, stock>>
    \/ /\ asset = "project" /\ Project!Next
       /\ UNCHANGED <<
              asset, audit, daily, audience, metrics, campaign, search,
              hashes, joins, grants, site, stock>>
    \/ /\ asset = "search" /\ Search!Next
       /\ UNCHANGED <<
              asset, audit, daily, audience, metrics, campaign, project,
              hashes, joins, grants, site, stock>>
    \/ /\ asset = "hashes" /\ Hashes!Next
       /\ UNCHANGED <<
              asset, audit, daily, audience, metrics, campaign, project,
              search, joins, grants, site, stock>>
    \/ /\ asset = "joins" /\ Joins!Next
       /\ UNCHANGED <<
              asset, audit, daily, audience, metrics, campaign, project,
              search, hashes, grants, site, stock>>
    \/ /\ asset = "grants" /\ Grants!Next
       /\ UNCHANGED <<
              asset, audit, daily, audience, metrics, campaign, project,
              search, hashes, joins, site, stock>>
    \/ /\ asset = "site" /\ Site!Next
       /\ UNCHANGED <<
              asset, audit, daily, audience, metrics, campaign, project,
              search, hashes, joins, grants, stock>>
    \/ /\ asset = "stock" /\ Stock!Next
       /\ UNCHANGED <<
              asset, audit, daily, audience, metrics, campaign, project,
              search, hashes, joins, grants, site>>

Spec ==
    /\ Init /\ [][Next]_vars
    /\ WF_audit(asset = "audit" /\ (Audit!Start \/ Audit!ReadPage))
    /\ WF_daily(asset = "daily" /\ (Daily!Start \/ Daily!Forward \/ Daily!Backward \/ Daily!Underflow))
    /\ WF_audience(asset = "audience" /\ Audience!Run)
    /\ WF_metrics(asset = "metrics" /\ Metrics!Run)
    /\ \A c \in MetricsCampaigns : WF_metrics(asset = "metrics" /\ Metrics!Elapse(c))
    /\ WF_campaign(asset = "campaign" /\ Campaign!Run)
    /\ \A c \in TextCampaigns : WF_campaign(asset = "campaign" /\ Campaign!Elapse(c))
    /\ WF_project(asset = "project" /\ Project!Run)
    /\ \A p \in ProjectIds : WF_project(asset = "project" /\ Project!Day(p))
    /\ WF_search(asset = "search" /\ Search!Run)
    /\ WF_hashes(asset = "hashes" /\ Hashes!Main)
    /\ \A w \in HashesWorkers : WF_hashes(asset = "hashes" /\ Hashes!Work(w))
    /\ \A t \in HashesTables : WF_hashes(asset = "hashes" /\ Hashes!EndWrite(t))
    /\ SF_joins(asset = "joins" /\ Joins!Load)
    /\ WF_joins(asset = "joins" /\ Joins!Mirror)
    /\ WF_joins(asset = "joins" /\ Joins!Unpivot)
    /\ WF_grants(asset = "grants" /\ Grants!Check)
    /\ WF_site(asset = "site" /\ Site!Rebuild)
    /\ \A r \in SiteRuns : WF_site(asset = "site" /\ Site!Run(r))
    /\ WF_stock(asset = "stock" /\ Stock!SyncInventory)
    /\ WF_stock(asset = "stock" /\ Stock!SyncOrders)
    /\ WF_stock(asset = "stock" /\ Stock!SyncPurchases)
    /\ WF_stock(asset = "stock" /\ Stock!Run)

-----------------------------------------------------------------------------
(* The component at work keeps its types.                                  *)
TypeOK ==
    CASE asset = "audit" -> Audit!TypeOK
      [] asset = "daily" -> Daily!TypeOK
      [] asset = "audience" -> Audience!TypeOK
      [] asset = "metrics" -> Metrics!TypeOK
      [] asset = "campaign" -> Campaign!TypeOK
      [] asset = "project" -> Project!TypeOK
      [] asset = "search" -> Search!TypeOK
      [] asset = "hashes" -> Hashes!TypeOK
      [] asset = "joins" -> Joins!TypeOK
      [] asset = "grants" -> Grants!TypeOK
      [] asset = "site" -> Site!TypeOK
      [] asset = "stock" -> Stock!TypeOK

(* A cut run leaves no hole behind in an append-only history.              *)
(* - Slack audit logs: once the backfill is done nothing below the newest  *)
(*   stored event is missing, but for what an incremental run cut short    *)
(*   had still to read.                                                    *)
(* - Slack analytics: no day is left out between two stored ones, and      *)
(*   unless a backfill was cut short the table holds all the published     *)
(*   days below its newest.                                                *)
HistoryContiguous ==
    /\ asset = "audit" => Audit!NoHoles
    /\ asset = "daily" => Daily!Contiguous /\ Daily!HistoryKept

(* What was computed from an input stands beside that input, however runs  *)
(* fail and inputs change in between.                                      *)
(* - Loops audience: the coordinates are of the address that was hashed,   *)
(*   and the best-known gender follows from the answers that were hashed.  *)
(* - Unified YSWS: a project whose hash ends its archiving has each of its *)
(*   URLs archived.                                                        *)
(* - Row hashes: a table recorded as hashed has old hashes only where      *)
(*   another session wrote meanwhile.                                      *)
(* - Reader grants: a script applied to what it was rendered from leaves   *)
(*   the reader with what the streams need.                                *)
(* - True-spend site: the listed and the withheld spend are the total      *)
(*   published beside them.                                                *)
ResultMatchesInput ==
    /\ asset = "audience" => Audience!ResultMatchesHash
    /\ asset = "project" => Project!SettledIsArchived
    /\ asset = "hashes" => Hashes!HashedUnlessTouched
    /\ asset = "grants" => Grants!GrantsMatch
    /\ asset = "site" => Site!NumbersAddUp

(* What a run decided early still holds when it acts on it.                *)
(* - Loops recipient metrics: the deadline is looked at between campaigns  *)
(*   only, and yet a run that reaches its limit with a campaign under way  *)
(*   has one that itself took longer than the margin, unless the start of  *)
(*   the run could not be read.                                            *)
(* - Loops campaigns: the text offered for publication is the one that was *)
(*   sent, never a draft that was still being written when it was fetched. *)
CampaignsSafe ==
    /\ asset = "metrics" => Metrics!DoneBeforeKilled
    /\ asset = "campaign" => Campaign!NoDraftPublished

(* If runs go on and faults and edits stop, readers catch up.              *)
(* - Slack audit logs: every event is stored, or lost in such a hole.      *)
(* - Slack analytics: a published day newer than the table is stored,      *)
(*   unless a day without a file stands before it.                         *)
(* - Loops audience: coordinates and age become those of the address and   *)
(*   the birthday, and no run undoes what people edit.                     *)
(* - Loops mailing lists: the join table comes to be who is on the list.   *)
(* - True-spend site: the branch comes to show the marts as they are,      *)
(*   however runs overlap and pushes are refused.                          *)
ReadersCatchUp ==
    /\ (asset = "audit" => Audit!Archived)
    /\ (asset = "daily" => Daily!CaughtUp)
    /\ (asset = "audience" => Audience!CatchesUp)
    /\ (asset = "joins" => Joins!JoinCatchesUp)
    /\ (asset = "site" => Site!SiteCatchesUp)
    /\ Audience!EditsKept

(* If runs go on and faults and edits stop, records settle.                *)
(* - Unified YSWS: location, repository and archives follow the edits made *)
(*   while runs had old values in hand, every project is searched for      *)
(*   although a run takes the newest only, and the warehouse gets what the *)
(*   run wrote.                                                            *)
(* - Zenventory stock: what Airtable shows of a SKU becomes its stock, its *)
(*   units to come and its cost, however the mirrors interleave.           *)
(* - Row hashes: a pass ends although its workers wait for locks, and the  *)
(*   hashes come to be those of the rows, unless a signal came while the   *)
(*   handler of another held its lock.                                     *)
(* - Reader grants: a drift that stays is reported.                        *)
RecordsSettle ==
    /\ asset = "project" =>
          /\ Project!LocationSettles /\ Project!RepositorySettles
          /\ Project!UrlsArchived
    /\ asset = "search" => Search!EveryoneSearched
    /\ asset = "stock" => Stock!StockSettles
    /\ asset = "hashes" => Hashes!PassEnds /\ Hashes!HashesSettle
    /\ asset = "grants" => Grants!DriftReported
    /\ Project!WarehouseHasUpdates

(* A campaign's turn comes.                                                *)
(* - Loops recipient metrics: no campaign stays due although runs stop     *)
(*   early and incomplete ones come first, and a fetch cut short is        *)
(*   repaired.                                                             *)
(* - Loops campaigns: every sent campaign is analysed some day.            *)
CampaignsServed ==
    /\ (asset = "metrics" =>
           Metrics!EveryDueHasItsTurn /\ Metrics!Repaired)
    /\ (asset = "campaign" => Campaign!SentIsAnalysed)
=============================================================================
