------------------------------ MODULE MCAssets ------------------------------
(* The assets and services that merge what they read into what others      *)
(* write too, or that keep something between runs.  They share no state,   *)
(* so a behaviour exercises one of them; a property is about one hazard,   *)
(* with a conjunct for every component that meets it.                      *)
EXTENDS Integers, Sequences, FiniteSets

CONSTANTS
    Null,           \* no value
    BookEntities, BookIds, BookMain, BookPage,  \* QuickBooks
    MaxBookTokens, MaxBookChanges, MaxBookFaults,  \* and its bounds
    LoginClients, LoginPeople, LoginSessionTtl, LoginCodeTtl,  \* warehouse-mcp
    MaxLogins, MaxLoginClock,  \* and its bounds
    FilloutForms, FilloutIds, FilloutPage, FilloutFormsFlush, FilloutFlush,  \* Fillout
    MaxFilloutChanges, MaxFilloutFaults,  \* and its bounds
    PeopleUsers, PeopleNames, PeopleIds, PeopleStart, PeopleBatch,  \* Slack users
    MaxPeopleChanges, MaxPeopleFaults,  \* and its bounds
    PullSubmissions, PullUser, PullProgram,  \* Dashbored
    PullPrograms, PullFiles, MaxPullFaults,  \* and its files and bounds
    QueryClients, QueryPool, QueryAttempts, CacheEntries, CacheTtl,  \* queries
    MaxQueryRows, MaxQueryResults, MaxQueryClock, MaxQueryFaults,  \* and their bounds
    WizardRequests, WizardIds, WizardSources, WizardsKept, MaxWizardRequests,  \* wizards
    DltRuns, DltChunks, DltRuntime, DltAge, MaxDltClock, MaxDltFaults,  \* dlt
    BackupTables, BackupOrder, BackupRuns,  \* backups
    LastBackup, LastVersion, MaxBackupFaults,  \* and their bounds
    PassTables, PassRows, PassWorkers, PassBatch,  \* the pass over the row hashes
    MaxPassEdits, MaxPassFaults,  \* and its bounds
    DigestTables, DigestNames, DigestHidden,  \* pg_rowhash
    DigestTypes, DigestData,  \* its types
    MaxDigestColumns, MaxDigestEdits,  \* and its bounds
    MirrorRecords, MirrorKinds, MirrorCells, MirrorSample, MaxMirrorEdits  \* Airtable mirrors

ASSUME BooksAssumption ==
    /\ BookMain \notin BookEntities
    /\ "none" \notin BookEntities \cup {BookMain}
    /\ IsFiniteSet(BookIds) /\ BookIds \subseteq Int /\ BookPage \in Nat

ASSUME LoginAssumption ==
    /\ LoginSessionTtl \in Nat /\ LoginCodeTtl \in Nat

ASSUME FilloutAssumption ==
    /\ IsFiniteSet(FilloutIds) /\ FilloutIds \subseteq Int /\ FilloutPage \in Nat

\* Airtable's ids as the order in which it lists the records.
ASSUME PeopleAssumption ==
    /\ IsFiniteSet(PeopleIds) /\ PeopleIds \subseteq Int
    /\ DOMAIN PeopleStart \subseteq PeopleIds
    /\ \A i \in DOMAIN PeopleStart :
          PeopleStart[i] \in [user : PeopleUsers, type : {"Admin", "Member"}, admin : BOOLEAN,
                             name : PeopleNames \cup {""}]

ASSUME QueryAssumption ==
    /\ CacheEntries \in Nat \ {0} /\ CacheTtl \in Nat
    /\ {QueryPool, QueryAttempts, MaxQueryRows} \subseteq Nat

ASSUME WizardAssumption == WizardsKept \in Nat \ {0}

\* A run is ended before its directory is old enough to be swept.
ASSUME DltAssumption ==
    /\ {DltRuntime, DltAge} \subseteq Nat /\ DltRuntime <= DltAge

ASSUME BackupAssumption == BackupTables # {} /\ LastBackup \in Nat \ {0} /\ LastVersion \in Nat

ASSUME PassAssumption ==
    /\ IsFiniteSet(PassTables) /\ "" \notin PassTables /\ PassWorkers # {}
    /\ MaxPassEdits \in Nat /\ MaxPassFaults \in Nat

\* What Airtable declares pins a column to numbers or to truth values.
ASSUME MirrorAssumption ==
    /\ MirrorKinds \subseteq {"", "boolean", "integer", "float"}
    /\ \A cell \in MirrorCells : Len(cell) \in Nat /\ DOMAIN cell = 1 .. Len(cell)
    /\ Null \notin {"true", "false", "zero", "one", "two", "half", "textOne"}

\* Numbers of one byte, and values of one length in the type that has one.
ASSUME DigestAssumption ==
    /\ DigestTypes \subseteq {"byval", "varlena", "cstring", "fixed"}
    /\ MaxDigestColumns \in 1 .. 255
    /\ "byval" \in DigestTypes /\ DigestData["byval"] \subseteq (-256) .. 255
    /\ \A type \in DigestTypes \ {"byval"} : DigestData[type] \subseteq Seq(0 .. 255)
    /\ \A type \in DigestTypes \cap {"varlena", "cstring"} :
          \A v \in DigestData[type] : Len(v) <= 255
    /\ "fixed" \in DigestTypes => \A v, w \in DigestData["fixed"] : Len(v) = Len(w)

\* No commit is told from a commit.
ASSUME PullAssumption ==
    /\ PullProgram \in [PullSubmissions -> PullPrograms]
    /\ Null \notin [by : PullSubmissions, base : [PullFiles -> SUBSET PullPrograms],
                   tree : [PullFiles -> SUBSET PullPrograms]]

ByName == [t1 |-> 1, t2 |-> 2]
Extremes == [byval |-> {-1, 0}, varlena |-> {<<>>, <<65>>},
             fixed |-> {[i \in 1 .. 8 |-> 255], [i \in 1 .. 8 |-> 0]}]
Awkward == {<<>>, <<Null>>, <<"true">>, <<"one">>, <<"half">>, <<"date">>,
            <<"text">>, <<"one", "two">>}
Duplicates ==
    [i \in 1 .. 2 |-> [user |-> "u", type |-> "Member", admin |-> FALSE, name |-> "n"]]
OneUser == [s \in PullSubmissions |-> "u"]
OneProgram == [s \in PullSubmissions |-> "p"]

VARIABLES
    part,
    slack, membersTable, metaPc, teams, membersPages, membersBatch, seenIds,
    enrichPc, ids, profile, membersEdits, membersFaults, oldNames, oldFields,
    zoomNow, zoomHeld, active, asset, zoomRows, zoomMark, zoomPc, zoomStart,
    end, zoomTodo, newest, zoomSeen, zoomFaults, first, skipped,
    objects, booksRows, stamped, alive, valid, booksStored, seed, access,
    holder, booksPc, booksHeld, booksStart, issued, booksChanges, booksFaults,
    booksShifted, unsaved, excused,
    today, version, tables, files, backupListed, backupPc, snapshot,
    backupLeft, backupFaults, cut, beside,
    formsForms, gone, formRows, subRows, formStamps, subStamps, formBuf,
    subBuf, formsListed, formsPc, formsAt, offset, formsChanges, formsFaults,
    formsShifted,
    kind, report, childTable, childBatch, childTodo, childPc, childFaults,
    childFetched,
    queryNow, free, call, queryCache, results, queryPage, queryFaults,
    loginNow, requests, pending, codes, granted,
    dltNow, dltRun, dirs, dltTable, alone, swept, dltFaults,
    rawRemote, rawRows, baseRows, rawQueue, baseQueue, rawPhase, runs, job,
    kept, rawSeen, rawClean, rawChanges, rawFaults,
    airtableNow, airtableAt, visible, airtableStored, airtableMark, reading,
    began, airtableStart, cursor, airtableBatch, due, outrun, airtableFaults,
    spendingNow, link, prefix, spend, mart, shown, counted, stats, terms,
    counts, spendingPhase, spendingUpdate, spendingLeft, calm, spendingEdits,
    spendingFaults,
    source, records, peoplePhase, existing, desired, delete, peopleUpdate,
    create, peopleClean, peopleChanges, peopleFaults,
    ordersOpen, ordersTable, labor, ordersPhase, total, ordersStale,
    ordersPages, ordersFetched, begun, ordersFaults,
    shipmentNow, shipped, shipmentStored,
    answers, commits, highwayStatus, got, highwayPage, was, highwayTable,
    recorded, pushes, highwayFaults,
    passMain, handler, passQueue, stop, passPc, on, hit, passStatus,
    passStale, writing, touched, passEdits, passFaults,
    hashColumns, row, hashCache, hashed, hashEdits,
    joinedRemote, name, joinedMembers, export, load, joinedColumns, audience,
    listing, joinedMirror, joinedRun, joinedTodo, new, joinedRead, mixed,
    join, joinedChanges, joinedFaults,
    pullMain, fork, refs, pullPrs, pullPhase, base, tree, lost, pullFaults,
    store, req, wizardPrs, intended, wizardSince, reset, raced, count,
    catalogNow, items, catalogTable, catalogPage, catalogSince, catalogRead,
    catalogOpen, catalogEdits, catalogFaults,
    declared, cells, frame, mirrorTable, column, aborted, mirrorEdits

Members == INSTANCE SlackMembers WITH
    Users <- {"u1", "u2"}, Teams <- {"t1", "t2"},
    Member <- [t1 |-> {"u1"}, t2 |-> {"u1", "u2"}], Versions <- {1, 2},
    MaxEdits <- 1, MaxFaults <- 1, table <- membersTable,
    pages <- membersPages, batch <- membersBatch, edits <- membersEdits,
    faults <- membersFaults
Zoom == INSTANCE ZoomSync WITH
    Users <- {"u1", "u2"}, Ticks <- 1 .. 6, Overlap <- 2, Lookback <- 4,
    ChunkLength <- 2, BatchSize <- 1, MaxMeetings <- 2, MaxFaults <- 1,
    now <- zoomNow, held <- zoomHeld, rows <- zoomRows, mark <- zoomMark,
    pc <- zoomPc, start <- zoomStart, todo <- zoomTodo, seen <- zoomSeen,
    faults <- zoomFaults
Books == INSTANCE QuickBooks WITH
    Entities <- BookEntities, Ids <- BookIds, Main <- BookMain,
    PageSize <- BookPage, MaxTokens <- MaxBookTokens,
    MaxChanges <- MaxBookChanges, MaxFaults <- MaxBookFaults,
    rows <- booksRows, stored <- booksStored, pc <- booksPc,
    held <- booksHeld, start <- booksStart, changes <- booksChanges,
    faults <- booksFaults, shifted <- booksShifted
Backup == INSTANCE DailyBackups WITH
    Tables <- BackupTables, Order <- BackupOrder, Runs <- BackupRuns,
    Days <- 1 .. LastBackup, Versions <- 1 .. LastVersion,
    MaxFaults <- MaxBackupFaults, listed <- backupListed, pc <- backupPc,
    left <- backupLeft, faults <- backupFaults
Forms == INSTANCE Fillout WITH
    Forms <- FilloutForms, Ids <- FilloutIds, PageSize <- FilloutPage,
    FormsFlush <- FilloutFormsFlush, SubmissionsFlush <- FilloutFlush,
    MaxChanges <- MaxFilloutChanges, MaxFaults <- MaxFilloutFaults,
    forms <- formsForms, listed <- formsListed, pc <- formsPc, at <- formsAt,
    changes <- formsChanges, faults <- formsFaults, shifted <- formsShifted
Child == INSTANCE ZoomChildren WITH
    Meetings <- {"m1", "m2"}, Accounts <- {"a"}, Sessions <- {1, 2},
    Times <- {1, 2}, Guest <- "", BatchSize <- 2, MaxEntries <- 2,
    MaxFaults <- 1, table <- childTable, batch <- childBatch,
    todo <- childTodo, pc <- childPc, faults <- childFaults,
    fetched <- childFetched
Query == INSTANCE McpQueries WITH
    Clients <- QueryClients, PoolSize <- QueryPool,
    MaxAttempts <- QueryAttempts, MaxEntries <- CacheEntries, Ttl <- CacheTtl,
    MaxRows <- MaxQueryRows, MaxQueries <- MaxQueryResults,
    MaxClock <- MaxQueryClock, MaxFaults <- MaxQueryFaults, now <- queryNow,
    cache <- queryCache, page <- queryPage, faults <- queryFaults
Login == INSTANCE McpSessions WITH
    Clients <- LoginClients, People <- LoginPeople,
    SessionTtl <- LoginSessionTtl, CodeTtl <- LoginCodeTtl,
    MaxRequests <- MaxLogins, MaxClock <- MaxLoginClock, now <- loginNow
Dlt == INSTANCE DltLoad WITH
    Runs <- DltRuns, Chunks <- DltChunks, MaxRuntime <- DltRuntime,
    MaxAge <- DltAge, MaxClock <- MaxDltClock, MaxFaults <- MaxDltFaults,
    now <- dltNow, run <- dltRun, table <- dltTable, faults <- dltFaults
Raw == INSTANCE RawBases WITH
    Bases <- {"b1", "b2"}, Tables <- {"t1"}, Records <- {"r1", "r2"},
    Workers <- 1, Threshold <- 2, BaseThreshold <- 2, MaxRuns <- 2,
    MaxChanges <- 1, MaxFaults <- 1, remote <- rawRemote, rows <- rawRows,
    queue <- rawQueue, phase <- rawPhase, seen <- rawSeen, clean <- rawClean,
    changes <- rawChanges, faults <- rawFaults
Airtable == INSTANCE AirtableAudit WITH
    Events <- 1 .. 3, Overlap <- 2, MaxLag <- 1, BatchSize <- 2,
    MaxClock <- 4, MaxFaults <- 1, now <- airtableNow, at <- airtableAt,
    stored <- airtableStored, mark <- airtableMark, start <- airtableStart,
    batch <- airtableBatch, faults <- airtableFaults
Spending == INSTANCE YswsPrograms WITH
    Programs <- {"p", "q"}, Roots <- {"r"}, Prefixes <- {"x", "y"},
    SignUps <- [x |-> {1, 2}, y |-> {1}], MaxAge <- 0, MaxSpend <- 1,
    MaxClock <- 1, MaxEdits <- 2, MaxFaults <- 1, now <- spendingNow,
    phase <- spendingPhase, update <- spendingUpdate, left <- spendingLeft,
    edits <- spendingEdits, faults <- spendingFaults
People == INSTANCE SlackUsersSync WITH
    Users <- PeopleUsers, Names <- PeopleNames, Ids <- PeopleIds,
    Start <- PeopleStart, BatchSize <- PeopleBatch,
    MaxChanges <- MaxPeopleChanges, MaxFaults <- MaxPeopleFaults,
    phase <- peoplePhase, update <- peopleUpdate, clean <- peopleClean,
    changes <- peopleChanges, faults <- peopleFaults
Orders == INSTANCE ZenOrders WITH
    PerPage <- 2, MaxOrders <- 4, MaxFaults <- 1, Shipments <- {1, 2},
    Overlap <- 1, MaxLate <- 1, MaxClock <- 3, open <- ordersOpen,
    table <- ordersTable, phase <- ordersPhase, stale <- ordersStale,
    pages <- ordersPages, fetched <- ordersFetched, faults <- ordersFaults,
    now <- shipmentNow, stored <- shipmentStored
Highway == INSTANCE HighwayGithub WITH
    Key <- [u |-> "r", v |-> "r", x |-> "s"], New <- {"s"}, PerPage <- 1,
    MaxPages <- 2, MaxPushes <- 2, MaxFaults <- 1, status <- highwayStatus,
    page <- highwayPage, table <- highwayTable, faults <- highwayFaults
Pass == INSTANCE RowHashes WITH
    Tables <- PassTables, Rows <- PassRows, Workers <- PassWorkers,
    BatchSize <- PassBatch, MaxEdits <- MaxPassEdits,
    MaxFaults <- MaxPassFaults, main <- passMain, queue <- passQueue,
    pc <- passPc, status <- passStatus, stale <- passStale,
    edits <- passEdits, faults <- passFaults
Hash == INSTANCE RowHash WITH
    Tables <- DigestTables, Names <- DigestNames, HashNames <- DigestHidden,
    Types <- DigestTypes, Data <- DigestData, MaxColumns <- MaxDigestColumns,
    MaxEdits <- MaxDigestEdits, columns <- hashColumns, cache <- hashCache,
    edits <- hashEdits
Joined == INSTANCE LoopsLists WITH
    Lists <- {"l1", "l2"}, Names <- {"n1", "n2"}, Contacts <- {"c"},
    MaxChanges <- 1, MaxFaults <- 1, remote <- joinedRemote,
    members <- joinedMembers, columns <- joinedColumns,
    mirror <- joinedMirror, run <- joinedRun, todo <- joinedTodo,
    read <- joinedRead, changes <- joinedChanges, faults <- joinedFaults
Pull == INSTANCE PullRequests WITH
    Submissions <- PullSubmissions, User <- PullUser, Program <- PullProgram,
    Programs <- PullPrograms, Files <- PullFiles, MaxFaults <- MaxPullFaults,
    main <- pullMain, prs <- pullPrs, phase <- pullPhase, faults <- pullFaults
Wizard == INSTANCE WizardSession WITH
    Requests <- WizardRequests, Wids <- WizardIds, Sources <- WizardSources,
    MaxWizards <- WizardsKept, MaxRequests <- MaxWizardRequests,
    prs <- wizardPrs, since <- wizardSince
Catalog == INSTANCE ZenItems WITH
    Items <- 1 .. 2, PerPage <- 1, MaxClock <- 2, MaxEdits <- 3,
    MaxFaults <- 1, now <- catalogNow, table <- catalogTable,
    page <- catalogPage, since <- catalogSince, read <- catalogRead,
    open <- catalogOpen, edits <- catalogEdits, faults <- catalogFaults
Mirror == INSTANCE AirtableMirror WITH
    Records <- MirrorRecords, Kinds <- MirrorKinds, Cells <- MirrorCells,
    Sample <- MirrorSample, MaxEdits <- MaxMirrorEdits, table <- mirrorTable,
    edits <- mirrorEdits

members == <<
    slack, membersTable, metaPc, teams, membersPages, membersBatch, seenIds,
    enrichPc, ids, profile, membersEdits, membersFaults, oldNames, oldFields>>
zoom == <<
    zoomNow, zoomHeld, active, asset, zoomRows, zoomMark, zoomPc, zoomStart,
    end, zoomTodo, newest, zoomSeen, zoomFaults, first, skipped>>
books == <<
    objects, booksRows, stamped, alive, valid, booksStored, seed, access,
    holder, booksPc, booksHeld, booksStart, issued, booksChanges, booksFaults,
    booksShifted, unsaved, excused>>
backup == <<
    today, version, tables, files, backupListed, backupPc, snapshot,
    backupLeft, backupFaults, cut, beside>>
forms == <<
    formsForms, gone, formRows, subRows, formStamps, subStamps, formBuf,
    subBuf, formsListed, formsPc, formsAt, offset, formsChanges, formsFaults,
    formsShifted>>
child == <<
    kind, report, childTable, childBatch, childTodo, childPc, childFaults,
    childFetched>>
query == <<
    queryNow, free, call, queryCache, results, queryPage, queryFaults>>
login == <<
    loginNow, requests, pending, codes, granted>>
dlt == <<
    dltNow, dltRun, dirs, dltTable, alone, swept, dltFaults>>
raw == <<
    rawRemote, rawRows, baseRows, rawQueue, baseQueue, rawPhase, runs, job,
    kept, rawSeen, rawClean, rawChanges, rawFaults>>
airtable == <<
    airtableNow, airtableAt, visible, airtableStored, airtableMark, reading,
    began, airtableStart, cursor, airtableBatch, due, outrun, airtableFaults>>
spending == <<
    spendingNow, link, prefix, spend, mart, shown, counted, stats, terms,
    counts, spendingPhase, spendingUpdate, spendingLeft, calm, spendingEdits,
    spendingFaults>>
people == <<
    source, records, peoplePhase, existing, desired, delete, peopleUpdate,
    create, peopleClean, peopleChanges, peopleFaults>>
orders == <<
    ordersOpen, ordersTable, labor, ordersPhase, total, ordersStale,
    ordersPages, ordersFetched, begun, ordersFaults>>
shipment == <<
    shipmentNow, shipped, shipmentStored>>
highway == <<
    answers, commits, highwayStatus, got, highwayPage, was, highwayTable,
    recorded, pushes, highwayFaults>>
pass == <<
    passMain, handler, passQueue, stop, passPc, on, hit, passStatus,
    passStale, writing, touched, passEdits, passFaults>>
hash == <<
    hashColumns, row, hashCache, hashed, hashEdits>>
joined == <<
    joinedRemote, name, joinedMembers, export, load, joinedColumns, audience,
    listing, joinedMirror, joinedRun, joinedTodo, new, joinedRead, mixed,
    join, joinedChanges, joinedFaults>>
pull == <<
    pullMain, fork, refs, pullPrs, pullPhase, base, tree, lost, pullFaults>>
wizard == <<
    store, req, wizardPrs, intended, wizardSince, reset, raced, count>>
catalog == <<
    catalogNow, items, catalogTable, catalogPage, catalogSince, catalogRead,
    catalogOpen, catalogEdits, catalogFaults>>
mirror == <<
    declared, cells, frame, mirrorTable, column, aborted, mirrorEdits>>
vars == <<
    part, members, zoom, books, backup, forms, child, query, login, dlt, raw,
    airtable, spending, people, orders, shipment, highway, pass, hash, joined,
    pull, wizard, catalog, mirror>>

Init ==
    /\ part \in {
           "members", "zoom", "books", "backup", "forms", "child", "query",
           "login", "dlt", "raw", "airtable", "spending", "people", "orders",
           "shipment", "highway", "pass", "hash", "joined", "pull", "wizard",
           "catalog", "mirror"}
    /\ Members!Init
    /\ Zoom!Init
    /\ Books!Init
    /\ Backup!Init
    /\ Forms!Init
    /\ Child!Init
    /\ Query!Init
    /\ Login!Init
    /\ Dlt!Init
    /\ Raw!Init
    /\ Airtable!Init
    /\ Spending!Init
    /\ People!Init
    /\ Orders!Init
    /\ Highway!Init
    /\ Pass!Init
    /\ Hash!Init
    /\ Joined!Init
    /\ Pull!Init
    /\ Wizard!Init
    /\ Catalog!Init
    /\ Mirror!Init
    /\ part # "zoom" => asset = "meetings"
    /\ part # "child" => kind = "participants"
    /\ part # "raw" => rawRemote = {}
    /\ part # "joined" => joinedRemote = [l \in {"l1", "l2"} |-> "none"]
    /\ part # "mirror" => declared = ""

Next ==
    \/ /\ part = "members" /\ Members!Next
       /\ UNCHANGED <<
              part, zoom, books, backup, forms, child, query, login, dlt, raw,
              airtable, spending, people, orders, shipment, highway, pass,
              hash, joined, pull, wizard, catalog, mirror>>
    \/ /\ part = "zoom" /\ Zoom!Next
       /\ UNCHANGED <<
              part, members, books, backup, forms, child, query, login, dlt,
              raw, airtable, spending, people, orders, shipment, highway,
              pass, hash, joined, pull, wizard, catalog, mirror>>
    \/ /\ part = "books" /\ Books!Next
       /\ UNCHANGED <<
              part, members, zoom, backup, forms, child, query, login, dlt,
              raw, airtable, spending, people, orders, shipment, highway,
              pass, hash, joined, pull, wizard, catalog, mirror>>
    \/ /\ part = "backup" /\ Backup!Next
       /\ UNCHANGED <<
              part, members, zoom, books, forms, child, query, login, dlt,
              raw, airtable, spending, people, orders, shipment, highway,
              pass, hash, joined, pull, wizard, catalog, mirror>>
    \/ /\ part = "forms" /\ Forms!Next
       /\ UNCHANGED <<
              part, members, zoom, books, backup, child, query, login, dlt,
              raw, airtable, spending, people, orders, shipment, highway,
              pass, hash, joined, pull, wizard, catalog, mirror>>
    \/ /\ part = "child" /\ Child!Next
       /\ UNCHANGED <<
              part, members, zoom, books, backup, forms, query, login, dlt,
              raw, airtable, spending, people, orders, shipment, highway,
              pass, hash, joined, pull, wizard, catalog, mirror>>
    \/ /\ part = "query" /\ Query!Next
       /\ UNCHANGED <<
              part, members, zoom, books, backup, forms, child, login, dlt,
              raw, airtable, spending, people, orders, shipment, highway,
              pass, hash, joined, pull, wizard, catalog, mirror>>
    \/ /\ part = "login" /\ Login!Next
       /\ UNCHANGED <<
              part, members, zoom, books, backup, forms, child, query, dlt,
              raw, airtable, spending, people, orders, shipment, highway,
              pass, hash, joined, pull, wizard, catalog, mirror>>
    \/ /\ part = "dlt" /\ Dlt!Next
       /\ UNCHANGED <<
              part, members, zoom, books, backup, forms, child, query, login,
              raw, airtable, spending, people, orders, shipment, highway,
              pass, hash, joined, pull, wizard, catalog, mirror>>
    \/ /\ part = "raw" /\ Raw!Next
       /\ UNCHANGED <<
              part, members, zoom, books, backup, forms, child, query, login,
              dlt, airtable, spending, people, orders, shipment, highway,
              pass, hash, joined, pull, wizard, catalog, mirror>>
    \/ /\ part = "airtable" /\ Airtable!Next
       /\ UNCHANGED <<
              part, members, zoom, books, backup, forms, child, query, login,
              dlt, raw, spending, people, orders, shipment, highway, pass,
              hash, joined, pull, wizard, catalog, mirror>>
    \/ /\ part = "spending" /\ Spending!Next
       /\ UNCHANGED <<
              part, members, zoom, books, backup, forms, child, query, login,
              dlt, raw, airtable, people, orders, shipment, highway, pass,
              hash, joined, pull, wizard, catalog, mirror>>
    \/ /\ part = "people" /\ People!Next
       /\ UNCHANGED <<
              part, members, zoom, books, backup, forms, child, query, login,
              dlt, raw, airtable, spending, orders, shipment, highway, pass,
              hash, joined, pull, wizard, catalog, mirror>>
    \/ /\ part = "orders" /\ Orders!OrderNext
       /\ UNCHANGED <<
              part, members, zoom, books, backup, forms, child, query, login,
              dlt, raw, airtable, spending, people, shipment, highway, pass,
              hash, joined, pull, wizard, catalog, mirror>>
    \/ /\ part = "shipment" /\ Orders!ShipmentNext
       /\ UNCHANGED <<
              part, members, zoom, books, backup, forms, child, query, login,
              dlt, raw, airtable, spending, people, orders, highway, pass,
              hash, joined, pull, wizard, catalog, mirror>>
    \/ /\ part = "highway" /\ Highway!Next
       /\ UNCHANGED <<
              part, members, zoom, books, backup, forms, child, query, login,
              dlt, raw, airtable, spending, people, orders, shipment, pass,
              hash, joined, pull, wizard, catalog, mirror>>
    \/ /\ part = "pass" /\ Pass!Next
       /\ UNCHANGED <<
              part, members, zoom, books, backup, forms, child, query, login,
              dlt, raw, airtable, spending, people, orders, shipment, highway,
              hash, joined, pull, wizard, catalog, mirror>>
    \/ /\ part = "hash" /\ Hash!Next
       /\ UNCHANGED <<
              part, members, zoom, books, backup, forms, child, query, login,
              dlt, raw, airtable, spending, people, orders, shipment, highway,
              pass, joined, pull, wizard, catalog, mirror>>
    \/ /\ part = "joined" /\ Joined!Next
       /\ UNCHANGED <<
              part, members, zoom, books, backup, forms, child, query, login,
              dlt, raw, airtable, spending, people, orders, shipment, highway,
              pass, hash, pull, wizard, catalog, mirror>>
    \/ /\ part = "pull" /\ Pull!Next
       /\ UNCHANGED <<
              part, members, zoom, books, backup, forms, child, query, login,
              dlt, raw, airtable, spending, people, orders, shipment, highway,
              pass, hash, joined, wizard, catalog, mirror>>
    \/ /\ part = "wizard" /\ Wizard!Next
       /\ UNCHANGED <<
              part, members, zoom, books, backup, forms, child, query, login,
              dlt, raw, airtable, spending, people, orders, shipment, highway,
              pass, hash, joined, pull, catalog, mirror>>
    \/ /\ part = "catalog" /\ Catalog!Next
       /\ UNCHANGED <<
              part, members, zoom, books, backup, forms, child, query, login,
              dlt, raw, airtable, spending, people, orders, shipment, highway,
              pass, hash, joined, pull, wizard, mirror>>
    \/ /\ part = "mirror" /\ Mirror!Next
       /\ UNCHANGED <<
              part, members, zoom, books, backup, forms, child, query, login,
              dlt, raw, airtable, spending, people, orders, shipment, highway,
              pass, hash, joined, pull, wizard, catalog>>

Spec ==
    /\ Init /\ [][Next]_vars

-----------------------------------------------------------------------------
(* The component at work keeps its types.                                  *)
TypeOK ==
    CASE part = "members" -> Members!TypeOK
      [] part = "zoom" -> Zoom!TypeOK
      [] part = "books" -> Books!TypeOK
      [] part = "backup" -> Backup!TypeOK
      [] part = "forms" -> Forms!TypeOK
      [] part = "child" -> Child!TypeOK
      [] part = "query" -> Query!TypeOK
      [] part = "login" -> Login!TypeOK
      [] part = "dlt" -> Dlt!TypeOK
      [] part = "raw" -> Raw!TypeOK
      [] part = "airtable" -> Airtable!TypeOK
      [] part = "spending" -> Spending!TypeOK
      [] part = "people" -> People!TypeOK
      [] part = "orders" -> Orders!TypeOK
      [] part = "shipment" -> Orders!TypeOK
      [] part = "highway" -> Highway!TypeOK
      [] part = "pass" -> Pass!TypeOK
      [] part = "hash" -> Hash!TypeOK
      [] part = "joined" -> Joined!TypeOK
      [] part = "pull" -> Pull!TypeOK
      [] part = "wizard" -> Wizard!TypeOK
      [] part = "catalog" -> Catalog!TypeOK
      [] part = "mirror" -> Mirror!TypeOK

(* A reader that goes by time windows, pages or batches misses nothing.    *)
(* - Zoom: what ended before the point the next run reads from is stored.  *)
(* - Slack members: a user not edited since the read has the name and the  *)
(*   fields of Slack, although two assets write the row.                   *)
(* - Zoom details: each entry of a report has its row, of rejoined         *)
(*   sessions and of guests too.                                           *)
(* - Zenventory: orders placed or closed while pages are read are not      *)
(*   passed over, and late shipments fall within the overlap; an item      *)
(*   changed is passed over only if it changed while pages were read or in *)
(*   the second of a stored stamp.                                         *)
(* - Airtable audit log: a run that finishes has stored all it could see   *)
(*   when it began, late events too.                                       *)
(* - Highway: no failed or partial scrape takes commits away.              *)
NothingMissed ==
    /\ [](part = "zoom" => Zoom!NoneLost)
    /\ [](part = "members" => Members!MembersFresh)
    /\ [](part = "child" => Child!EveryEntryHasItsRow)
    /\ [](part = "orders" => Orders!NoOrderSkipped)
    /\ Orders!OrdersComplete /\ Orders!NoShipmentMissed
    /\ Airtable!NoneMissed
    /\ Highway!CommitsKept /\ Catalog!ItemsTaken

(* What is deleted or replaced is what was to go and nothing else,         *)
(* although runs read page by page, fail in parts and race with edits.     *)
(* - QuickBooks: entities, swept by the stamp of the run.                  *)
(* - Fillout: submissions of forms that failed or were skipped, and the    *)
(*   list of forms.                                                        *)
(* - Slack users at Airtable: no user who stays loses the last record.     *)
(* - Dashbored: a merged pull request takes nothing away that others       *)
(*   merged meanwhile, and a failed submission deletes the branch of no    *)
(*   other.                                                                *)
OnlyGoneDeleted ==
    /\ Books!OnlyGoneDeleted
    /\ Forms!OnlyGoneDeleted /\ Forms!CatalogueKept
    /\ People!NobodyDropped
    /\ Pull!NothingReverted /\ Pull!OthersBranchKept

(* A run without a fault leaves exactly what the source had.               *)
(* - Fillout: a run that deletes leaves what Fillout has.                  *)
(* - raw_all_bases: a run without an error keeps what was there all along, *)
(*   and after any run nothing that was gone stays.                        *)
(* - Slack users: one Airtable record for each user, with its type.        *)
(* - True spend: no program shows the spend of a root it does not link to, *)
(*   or the sign-ups of a prefix it does not have.                         *)
(* - Loops mailing lists: an unpivot no load disturbs leaves who is on     *)
(*   which list.                                                           *)
CleanRunExact ==
    /\ Forms!SweptExact
    /\ Raw!CleanRunExact /\ Raw!NothingGoneStays
    /\ People!OneRecordEach
    /\ Spending!SpendOfItsRoot /\ Spending!SignUpsOfItsPrefix
    /\ Joined!JoinExact

(* A token is used once and in time.                                       *)
(* - QuickBooks: threads that see the same expiry refresh once, and a live *)
(*   refresh token is kept unless a crash or a failed INSERT lost it.      *)
(* - warehouse-mcp: a sign-in gives at most one token, to the client that  *)
(*   asked, while it may still be waiting.                                 *)
AccessKept ==
    /\ part = "books" => Books!OneRefreshPerExpiry /\ Books!NotLockedOut
    /\ part = "login" => Login!OneToken /\ Login!TokenInTime

(* The web services do what a request asks, once and whole, beside others. *)
(* - warehouse-mcp: no connection of the pool leaks, and a query the       *)
(*   server refused is not run again.                                      *)
(* - The cache keeps the newest results until they expire, and pages put   *)
(*   together are the result.                                              *)
(* - Dashbored: an open pull request declares its own program only, a      *)
(*   refused submission leaves no branch but where an answer or a worker   *)
(*   was lost, and requests that only read the session undo no write.      *)
RequestsServed ==
    /\ part = "query" =>
          /\ Query!NoConnectionLeaks /\ Query!RefusedOnce
          /\ Query!CacheKeepsRecent /\ Query!PagesInOrder
    /\ part = "pull" => Pull!AddsItsOwn /\ Pull!NoStrayBranch
    /\ part = "wizard" => Wizard!WritesKept /\ Wizard!RecentKept

(* Loads and copies are sound.                                             *)
(* - dlt: the sweep takes no directory of a run that still works in it,    *)
(*   and a load nobody interferes with leaves its rows once, retried or    *)
(*   not.                                                                  *)
(* - Airtable mirrors: a column of declared type never changes it,         *)
(*   whatever its values look like, and values survive the typing.         *)
(* - Daily backups: metadata.json names the files that are there, unless a *)
(*   run was cut off in the folder or worked beside another.               *)
(* - Row hashes: a pass records every table, and one as done whose hashes  *)
(*   are old only if another session wrote to it.                          *)
(* - pg_rowhash: the hash of a row stays the same when what it covers      *)
(*   does, and only then but for a NULL that takes the place of a value    *)
(*   which begins as NULL is written.                                      *)
LoadsSound ==
    /\ part = "dlt" => Dlt!SweepsOnlyTheDead /\ Dlt!LoadedExactly
    /\ part = "mirror" => Mirror!PinnedNeverAborts /\ Mirror!ValuesSurvive
    /\ part = "backup" => Backup!ListTellsFiles
    /\ part = "pass" => Pass!HashedUnlessTouched /\ Pass!AllRecorded
    /\ part = "hash" => Hash!HashTells
=============================================================================
