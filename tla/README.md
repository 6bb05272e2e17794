# A verification development for the data warehouse

This directory holds TLA+ models of the `orpheus_engine` data warehouse, TLC
configurations that check them on small instances, and TLAPS proofs about them.
Paths below are relative to `src/`; `DL` is
`orpheus_engine/defs/ducklake/definitions.py`.

## 1. Inventory

The program is a Dagster deployment. Its jobs copy other systems (application
databases, Airtable, Slack, Loops, Zoom, Fillout, QuickBooks, Zenventory) into
a Postgres *warehouse*, derive tables there, write some results back to
Airtable, and copy the whole warehouse into a *DuckLake* (a data lake on object
storage). A read-only MCP server and a few Flask sites read the warehouse.

| component | state it keeps | operations | hard behaviour |
|---|---|---|---|
| DuckLake row hashes (`DL`, `pg_rowhash.c`) | `_row_hash`, `_row_hash_at` on every warehouse row; a queue and threads | add the columns; hash stale rows in batches | mirrors write during the pass; locked rows are skipped; errors of a table do not fail the run; a fixed `now()` per transaction; cancelled queries |
| DuckLake table sync (`DL`) | the lake's tables; temporary metadata and changed rows of a run | download hashes, diff, full resync, or dedup / fetch / delete / update / insert | every statement is a transaction of its own; mirrors and other runs write in between; crashes; swallowed errors |
| DuckLake schema sync (`DL`) | the lake's columns | create, drop, add, retype, backfill | DDL is auto-committed; a retry after a lost connection sees the new schema and an unfilled column |
| DuckLake worker pool (`DL`) | the queue of tables, per-table status, connections, the stop flag | take, sync, retry, requeue, mark, terminate | threads, connection loss, requeueing, interrupts, end-of-queue test |
| Scheduling (`orpheus_engine/schedules.py`, `docker_deploy/dagster.yaml`, `scripts/cancel_orphaned_runs.py`, `defs/janitor`) | run records: status, tags, age | skip-if-running evaluation, queue, start, retry, time out, cancel orphans, purge | check-then-act against manual launches and retries, restarts, a hung run that blocks its schedule |
| Slack (`defs/slack`) | events, days and members in the warehouse; a backfill flag | page, insert, advance; two assets write one table | a crash between pages; events that arrive meanwhile |
| Zoom (`defs/zoom`) | meetings, recordings, reports; a mark per asset | chunks of time per user, upserts by key | errors of one user, keys that collide, windows that must meet |
| QuickBooks (`defs/quickbooks_online`) | rotating refresh tokens in Postgres and memory | refresh, persist, page, upsert, sweep | the provider rotates the token before it is persisted; several threads see one expiry |
| Fillout (`defs/fillout`) | forms and submissions; one write queue | threads page, flush, delete stale rows | deletion only if nothing failed |
| Loops (`defs/loops`, `defs/loops_campaign_and_metrics_export`) | contacts, mailing lists, campaigns, recipient metrics | geocode, derive, update; unpivot; fetch, analyse, publish; page and commit under a deadline | results stored beside hashes of inputs that change; loads that truncate; deadlines racing slow pages |
| Airtable (`defs/airtable*`), dlt (`defs/dlt`) | mirrored tables, a raw copy of every base, the audit log, pipeline directories | fetch, type, load; queue, flush, sweep; overlap; truncate and insert, sweep directories | values that change a column's type; failed bases; late events; retries and leaked directories |
| Unified YSWS DB, true spend (`defs/unified_ysws_db`) | fields of Airtable records | pipelines look up, one asset merges and writes | people edit while runs have old values in hand; partial batches |
| Slack users, Highway (`defs/slack_users_sync`, `defs/highway_github`) | Airtable records; commits | plan and batches; pages newest first | failed batches; pages that shift |
| Zenventory (`defs/agh_fulfillment_zenventory`, `defs/zenventory_inventory_airtable_sync`) | orders, items, shipments, stock; Airtable records | four incremental readers; a one-way sync | paging by rank while orders come and go; late records |
| Daily backups (`defs/shared/daily_backups.py`) | Parquet files and `metadata.json` per day | delete stale, write payloads, write the list | crashes and second runs in between |
| Sling reader grants (`defs/sling`, `scripts/provision_warehouse_reader.py`) | grants, password, a rendered script, the last report | derive, render, apply, verify, check | migrations and edits between rendering and applying |
| warehouse-mcp | pending sign-ins, codes, a result cache, a connection pool | authorize, exchange, query, page | expiry, eviction, lost connections |
| Dashbored (`dashbored/app`) | the session and its wizards; branches and pull requests | forms, introspection, submission, rollback | threads without a lock on the session; merges between two reads of `main` |
| True-spend site (`defs/ysws_true_spend_site`) | a git branch | read marts, reconcile, replace the tree, push | dbt rebuilds meanwhile; overlapping runs |
| dbt models, enrichment helpers | SQL; wrappers of one HTTP call | | not modelled: pure queries, and calls whose failures are faults of their callers |

What makes each correct: the lake equals the hashed part of the source but for
rows written meanwhile, has one row per key, and converges once the mirrors
rest; an added column ends with the source's values; no table is lost,
processed twice at once, or left unreported; scheduled runs of a job do not
overlap and none is blocked for ever. Of the feeds: a reader misses nothing, a
sweep deletes only what is gone, a result stands beside the input it was
computed from, a token is used once and in time, and once edits and faults stop
everything catches up.

## 2. Plan

The warehouse exists to be copied faithfully, so the copy came first, then what
runs it, then the feeds and services.

| order | modules | state |
|---|---|---|
| 1 | `TableSync`, `WorkBag`, `SyncPool` | checked; every safety property and the refinement proved |
| 2 | `SchemaSync`, `RunScheduling` | checked; every safety property proved |
| 3 | `RowHashes`, `RowHash` | checked; every safety property proved |
| 4 | Slack, Zoom, QuickBooks, Fillout, backups, Loops | checked |
| 5 | Airtable, dlt, Unified YSWS, Zenventory, Slack users, Highway, reader grants | checked |
| 6 | `McpQueries`, `McpSessions`, `PullRequests`, `WizardSession`, `TrueSpendSite` | checked |
| 7 | `AccessKept`, `OnlyGoneDeleted`, `HistoryContiguous`, `CampaignsSafe`, `ResultMatchesInput`, `RequestsServed`, `LoadsSound` of the feeds and services | proved |
| 8 | `CleanRunExact`, `NothingMissed` and the types of the feeds | checked only |

How they compose. `SyncPool` takes tables from a bag and gives a sync an
outcome; `SchemaSync` is the first half of such a sync and has the second half
as one step; `TableSync` is that second half statement by statement, with the
hash pass of the job before it. `RowHashes` is that hash pass over all tables,
with its threads, and `RowHash` is what one hash covers. `RunScheduling` says
which runs of a job may be under way together; `TableSync` takes that set as its
constant `Runs`, and has two overlapping runs in one configuration because
`RunScheduling` shows that the untagged DuckLake job can overlap with itself.
`SyncPool` implements the abstract `WorkBag` through a refinement mapping.

The feeds share the warehouse but no table, and no two of them read what the
other writes except inside the modules that say so (`SlackMembers`, `ZenStock`,
`LoopsLists`, `YswsProjects` compose the assets that share a table). So
`MCAssets` and `MCAssetsLive` put them side by side: a behaviour picks one
component, that one moves, the others stay in their initial states. Their
state spaces add up instead of multiplying, and each question of the kind "does
a sweep delete only what is gone?" is asked once, of everyone it concerns.

## 3. Modules

Each `X.tla` is a component with its properties at the end, and a `.cfg` gives
its constants values. `MCAssets` and `MCAssetsLive` instantiate the feeds and
services: those that theorems are about with constants of their own, which the
configurations set, the others with the values of their instance written into
the module. `XProofs.tla` holds the theorems. A definition
commented as a *slip*, or an unused variant right above a definition, is a
plausible mistake in the definition below it. No specification uses it; it is
there to show that a property notices it.

### TableSync: one table

Sources: `worker_process_table` (DL:443-576), `download_sync_metadata`,
`compute_sync_diff`, `bulk_load_table`, `sync_table_incremental`
(DL:1672-2384); the mirrors of `defs/sling/assets.py`.

* State. `src` is the warehouse table, a set of records with the columns the
  code tells apart: the key, the content, `_row_hash` and `_row_hash_at`;
  `hasCol` says whether the two hash columns are there (a full refresh drops
  them). `lake` is the DuckLake table; a lake row names the data file it lies
  in, so that equal rows of two INSERTs are two rows, as in the code. `pc`,
  `meta`, `todo`, `live` and `changed` are a run's temporary tables and
  decisions. `touched`, `disturbed`, `miscounted` and `racy` are history
  variables that only the properties read.
* Actions. One per statement that commits by itself: `BeginBatch` fixes the
  transaction time, `HashBatch` updates at most `BatchSize` stale rows and may
  skip locked ones, `Download`, `Diff`, `Clear` and `Load` are the full resync,
  `Dedup`, `Fetch`, `Delete`, `Update` and `Insert` the incremental one. Mirror
  writes fall anywhere between. `Abort` is a crash or an error at any of them,
  `EndHashEarly` an error that the hash pass swallows, `DiffMiscount` the bare
  `except` that takes a failed count for zero rows (DL:1769).
* What is abstracted. A row's content is one value and its hash is that value:
  no collisions. `ROW_NUMBER() = 1` picks any row. A failed
  run is retried by Dagster from the failed step, so its sync starts again
  without a hash pass (`StartSync`); the retry inside a worker looks the same to
  one table.

### WorkBag and SyncPool: the worker pool

Sources: `SyncProgress`, `sync_worker_loop`, `_ducklake_sync_impl`
(DL:780-960, 2560-2926).

* State. `queue` is `table_queue`; per worker its place in the loop, its table,
  its Postgres connection (`open`, `broken` once the warehouse dropped it,
  `closed` once psycopg noticed), whether it is on its second try and the
  outcome of the last; per table its status, its results and how often it was
  marked; the flags; and `handler`, the frames of the signal handler on the main
  thread's stack, since a second signal interrupts the first one's handler.
* Actions. A worker's steps are those between which another thread can matter:
  the check of the flags, the take, the timeout of an empty `get` and the check
  that follows it, the health check, the requeue, the statuses, the decision to
  retry, the result, the exit. Sections under `progress.lock` are single steps
  taken while no handler holds the lock. `Die` is a `get_ducklake_connection`
  that raises, which ends the thread.
* `WorkBag` forgets workers, connections and signals: tables are taken, handed
  back, reported, or dropped after a cancellation. `Bag` maps `SyncPool` to it:
  `todo` is the set of queued tables, `busy` those the workers have.

### SchemaSync: the columns of a table

Sources: `sync_table_schema`, `backfill_columns`, `sync_table` (DL:1286-1616,
2440-2558), `pg_rowhash.c`.

* State. `attrs` is the source's descriptor, a sequence of named and typed
  columns; `src` and `hash` hold a row's values by position, because
  `rowhash_128b` covers the values and not their names or types; `cols` and
  `lake` are by name. `drops`, `adds`, `backfill` and `names` are what a run read
  and decided, and go stale. The history variable `seats` has every position a
  name ever had.
* Actions. The source may be created anew with other columns, get a column or a
  value. A run plans, drops and adds column by column (each ALTER commits by
  itself, whatever the comment at DL:1549 says), backfills in one UPDATE, reads
  the column names once more and syncs the rows, here in one step. `Crash`
  ends it anywhere, `Mismatch` when a column it counts on is gone.

### RunScheduling: how jobs come to run

Sources: `schedules.py`, `docker_deploy/dagster.yaml`, `scripts/start.sh`,
`scripts/cancel_orphaned_runs.py`, `defs/janitor/definitions.py`.

* State. A run has a `status` in the instance database and a `process` in the
  container, and these may disagree; `queue` is the coordinator's; `ticking`
  are the schedules between the check for a run in flight and the request;
  `orphans` is the list the boot script works through.
* Actions. The tick in two steps, manual launches, the retry daemon, the
  coordinator under its limits, starts, ends, hangs, the three timeouts, the
  janitor, and the boot sequence of a new container, during which the webserver
  already takes launches. Dagster itself is not in the repository; its actions
  are what the configuration asks of it, and are marked external in the map.

### The feeds and services

All take their inputs (edits at the other system, faults, clocks) as actions of
their own with bounds, and have one action per request or transaction.

| module | follows | what is kept, what is left out |
|---|---|---|
| `RowHashes` | `worker_loop`, `worker_process_table` (DL:300-760) | threads, batches, locked rows, the handler of signals with its lock, cancel and drain; a hash is whether it is that of the row |
| `RowHash` | `pg_rowhash.c` | the bytes of each kind of datum, excluded and dropped columns, the cached descriptor; the digest is its bytes |
| `SlackAuditLogs`, `SlackAnalytics`, `SlackMembers` | `defs/slack` | pages and marks; days and files; two assets on one table |
| `ZoomSync`, `ZoomChildren` | `defs/zoom` | time in half days, chunks, per-user errors; keys of report entries and batches |
| `QuickBooks` | `quickbooks_online` | `TokenManager` with its lock, threads per entity, pages, sweep |
| `Fillout` | `fillout` | form threads and the write queue with its two buffers |
| `DailyBackups` | `shared/daily_backups.py` | object by object, two runs in one folder |
| `LoopsAudience`, `LoopsLists`, `LoopsMetrics`, `LoopsCampaigns` | `loops*` | hash beside result; load and unpivot; deadline and pages; texts, AI batches |
| `AirtableMirror`, `RawBases`, `AirtableAudit`, `DltLoad` | `airtable*`, `dlt` | types of one field through two assets; queue and sweep; overlap; directories and retries |
| `YswsProjects`, `YswsPrograms` | `unified_ysws_db` | what was read, what is written, what was edited meanwhile |
| `SlackUsersSync`, `HighwayGithub` | same-named directories | plan and batches; pages that shift under pushes |
| `ZenOrders`, `ZenItems`, `ZenStock` | Zenventory | ranks and pages of orders, window of shipments; watermark; three mirrors and the upsert |
| `ReaderGrants` | `sling/reader_grants.py`, `reader_grant_drift.py`, the provisioning script | grants as sets of columns; what the mirror could copy |
| `McpQueries`, `McpSessions` | `warehouse-mcp` | pool, retry, cache, pages; sessions, codes, tokens with lifetimes |
| `PullRequests`, `WizardSession` | `dashbored` | commits as what files declare; a session read, changed and written back |
| `TrueSpendSite` | `ysws_true_spend_site` | which build each mart was read from; the head of the branch |

## 4. What the configurations show

| run | instance | distinct states | shows |
|---|---|---|---|
| `table_hash_only` | 2 rows, 2 contents, no primary key, 2 writes, 1 fault | 482,618 | exactness and readers by hash; convergence |
| `table_overlap` | 2 rows, primary key, 2 overlapping runs, 1 write | 1,234,686 | exactness of each run, one row per key; together they converge |
| `table_stale_hash` | 2 rows, 1 run, 2 writes | | *violated*: equal hashes with different values |
| `pool` | 2 tables, 2 workers, 2 of: outage, dropped connection, death; 2 signals | 939,297 | six safety properties, `WorkBag` is implemented, the run and all workers end unless a second signal comes inside the handler of the first |
| `pool_deserted` | 2 tables, 2 workers that die | | *violated*: complete with nothing done |
| `schema_sync` | 1 row, 2 names, 2 types, 2 changes, 1 fault | 901,012 | columns match, are filled, settle, and are not rebuilt for nothing |
| `schema_lost_backfill` | the same with 1 change | | *violated*: a column added, never filled |
| `scheduling` | 2 jobs, 2 run ids, 2 manual actions, one hang and deployment each | 200,946 | no pile-up; overlap only behind a timeout; the queue survives a restart; serial runs end unless untagged ones hold every slot |
| `scheduling_overlap` | 1 job, one hang | | *violated*: two processes of a serial job |
| `assets` | 23 components, each with the least members that interfere | 1,139,539 | the seven properties below |
| `assets_live` | 12 components, with fairness | 99,789 | the seven properties below |
| `raw_bases_deleted` | 2 bases, 2 records, 1 fault | | *violated*: rows deleted whose records are still there |

The five violated properties are what a comment or docstring says and the code
does not do; `PROJECT.json` quotes the lines. Beside each, a passing property
says what does hold: `ValuesExact` where no stale row is copied,
`CompleteIsComplete` where one worker got as far as its loop, `ColumnsFilled`
where no run ended between an ADD and the sync of the rows,
`SerialButForTimeouts`, and `CleanRunExact` for a copy without an error.

`assets` and `assets_live` ask these questions, each with a conjunct per
component that meets the hazard (the comment above each property in the MC
module names them):

* `NothingMissed`: readers by window, page, rank or batch (Zoom, Slack members,
  Zenventory orders, items and shipments, the Airtable audit log, Highway).
* `OnlyGoneDeleted`: sweeps and replacements (QuickBooks, Fillout, Slack users,
  and what a merged pull request of Dashbored does to `main`).
* `CleanRunExact`: what is there after a run without a fault (Fillout, raw
  bases, Slack users, true spend and sign-ups, mailing lists).
* `AccessKept`: tokens (QuickBooks, warehouse-mcp).
* `RequestsServed`: queries and pages (warehouse-mcp), submissions and sessions
  (Dashbored).
* `LoadsSound`: dlt directories and loads, typing of mirrors, backups, the
  row-hash pass and what a row hash tells apart.
* `HistoryContiguous`: append-only histories (Slack audit logs and analytics).
* `ResultMatchesInput`: results beside inputs (audience, projects, row hashes,
  reader grants, the numbers of the site).
* `CampaignsSafe` and `CampaignsServed`: deadlines, drafts, starvation (Loops).
* `ReadersCatchUp`, `RecordsSettle`: what happens once edits and faults stop.

**Bounds.** Every counter has a constant for a bound, which appears in the guards of
the environment's actions only (writes of others, faults, outages, signals,
changes, manual actions, hangs, deployments) and never holds back the program;
`MaxClock` bounds the distinct times, where there is a clock.
Two rows are the least for which a threshold of 80 percent is not always
reached by a single change. Two writes are the least that return a
row to an old value, which the stale-hash behaviour needs. Two tables and two workers
are the least for a worker that finds the queue empty while another still holds
a table it may hand back, and two faults let an outage meet a signal or a
dead worker.
Two columns are the least for a rename, a retype beside an unchanged
column, and a swap. Run ids are used again once the janitor has purged their
runs, so behaviours are not bounded in length. Nine data files are more than
any instance fills. Two signals are the least for one to meet the handler of
another, in the pool and in the hash pass.
Of the feeds an instance has two of what a property confuses
or races (entities, users, forms, tables, clients, requests, submissions), pages
and batches small enough that two are needed, and a fault, which can fall on any
step and after which runs go on; two edits where the second has to meet a half
done repair of the first, three events where a run has to outlast its overlap.
A component with two kinds of questions has an instance for each: the hash
pass has two workers for what is recorded (`Pass`, without fairness) and one worker,
two rows and two signals for what settles (`Hashes`); `YswsProjects` has one project
with edits for what settles (`Project`), and two projects, a search of one per run and two
faults for whether every project is searched (`Search`). Where section 5 has a theorem for a property, it
removes the bounds.

No configuration uses symmetry. Deadlock is checked for `TableSync` and
`SchemaSync`, whose jobs are started for ever; a pool ends, a scheduling
instance whose ids are all taken by hung runs stops, and so does a component
whose clock, edits and faults are used up.

**Fairness.** It is weak but for one case and given only to what the program or
its platform schedules:

* `TableSync`: a run that has begun goes on and the schedule starts it again
  (`HashStep \/ SyncStep`); a statement that cannot succeed because its column
  is gone returns its error (`~hasCol /\ ...`). Not the mirrors, and not faults.
* `SyncPool`: each thread (`WorkerStep(w)`), the main thread and its handlers,
  and the end of an outage, without which the pool requeues for ever by design
  (the back-off of DL:2607). Dying is not forced: `Attach` is enabled with `Die`.
* `SchemaSync`: the run and the next scheduled run (`SyncStep`).
* `RunScheduling`: the coordinator, the boot script, and per run the retry
  daemon, the launcher, the end of a process that does not hang, the monitor's
  timeouts and the janitor. Not `Release`: a hung process may hang for ever.
  Not `Stalled` either: the launcher need not notice a dead process.
* The feeds: the schedule starts an asset again and a run that has begun goes
  on (`Run`, `Start \/ ...`), each asset or thread by itself where several share
  a table; time passes (`Elapse`, `Day`). Never edits, faults or pushes.
* `RowHashes`: also `EndWrite`, that another session's transaction ends, without
  which a worker waits for its lock for ever.
* `LoopsLists`: `Load` strongly. The load's TRUNCATE waits for readers of
  the audience; Postgres queues lock requests, so that readers who come later
  cannot pass it for ever, but weak fairness alone would let them.
* `TrueSpendSite`: dbt finishes a build it began (`Rebuild`), and runs go on.

`RunsEnd` has the disjunct `Occupied` because the coordinator's slots are shared and
the DuckLake job has no `dagster/max_runtime`: when its runs hang in every slot, no
serial job starts again until somebody intervenes.

## 5. What is proved

The theorems hold for all values of the constants that satisfy the named
assumptions of the modules: any tables, rows, values, workers and runs, any
threshold and batch size, and any bound.

**`TableSyncProofs`.** The assumptions are that NULL is no key, value or time, that
`HasPK` is a Boolean and that bounds are naturals. `TypeCorrect` comes
first. None of the properties is inductive: what a run is about to write depends
on a diff taken several statements before, against tables others have written
since. `IInv` is `TypeOK`, `Honest` (without a copied stale row every lake row
has the hash of its own value) and, for each run, `RunInv`, which says for each
phase what has been achieved in terms of the metadata: what was fetched covers
what the diff counted, after the DELETE nothing is in the lake that the metadata
does not know, after the UPDATE nothing differs, after the INSERT nothing is
missing, with an exception for rows in `touched`. The lemmas `Own...` show that
each statement of a run establishes its phase. `Frame` shows once that any step
of somebody else either leaves `RunInv` alone or sets the history variable that
excuses it. `SyncIsExact`, `PrimaryKeyIsKept` and `ValuesAreExact` follow.
`IncrementalKeepsIds` is an action property and needs only the types: each
statement of an incremental sync puts back what it takes away, or takes what the
metadata does not have.

**`SyncPoolProofs`.** The assumptions are that there are finitely many tables and
workers, at least one of each, and that `Null` is no table; the bounds do not
enter. The proofs are layered, each using the always-theorems before it:

1. `Typed`: the type invariant and `Holds` (a worker has a table exactly between the
   take and the result). Without `Holds` a requeue could put NULL into the queue.
2. `TableIsInOnePlace`. Only five actions move tables (`OnlyMovesMove`), and a lemma
   for each says what it does to the queued, the busy and the reported
   tables; those lemmas also carry 3 and 6. That the initial queue has no
   repetition is a counting argument on a finite surjection.
3. `NoTableForgotten`, from `Flagged`: no frame of the handler, however nested, is
   past setting the flags unless they are set, so nothing is drained before.
4. `CompleteRunIsComplete`, from `Concluded` (the main thread concludes without
   a signal only when all workers are gone) and `Attended` (when one has left an empty
   queue, it is still empty or somebody is running who will look at it).
5. `RetriesAreBounded` and `ResultsStayFinal`: the number of tries of a table is
   a function of its worker's place (`Counted`), and zero while it is queued. `Final`
   ties the status of a table to the outcome of the try that its worker is about to
   report, and `ReportsStay` has that nobody writes to a table once it is reported.
6. `PoolIsWorkBag`: the refinement, initial states and steps.

**`SchemaSyncProofs`.** The assumptions: finitely many names, types that are told
apart, and a NULL that is neither a value nor a row. `IInv` has four parts.
`Typed` says what a plan in each phase consists of. `Planned` says that what is
left of it gives the lake the source's columns, and is needed because the ALTERs
commit one by one; it holds while the source has not moved since the plan, or
as long as the hashes of a pass still have the width of the source. `Unaltered`
says that a source nobody altered has nothing to alter, which gives `NoChurn`.
`Accounted` explains each value in the lake as the part of the row's hash at a
position its name has had (`seats`); it is what makes the backfill provable,
since a hash covers positions and a column is filled by name. The theorems are
`SchemaTypeCorrect`, `ColumnsAlwaysMatch`, `BackfillCompletes`, `AltersOnlyWhenAltered`.

**`RunSchedulingProofs`.** Any jobs, run ids and numbers of retries, manual actions,
hangs and deployments; at least one slot. `Typed` contains the facts about the
coordinator's queue: no run is in it twice, and it has exactly the queued runs,
although runs are taken out of its middle. Then `ScheduledOnce` (a job whose
schedule is ticking has no scheduled run in flight, any other at most one) gives
`NothingPilesUp`, and `OneInProgress` gives `SerialUnlessTimedOut`. The cases of a
run's step are sorted once (`StepKinds`): it only ends runs, starts one, or asks
for one. `RestartSparesQueue` is an action property.

The proofs of the feeds and services are about `MCAssets` and `MCAssetsLive`. A
behaviour of these is one of a single component, so an invariant is a conjunction of
one per component, and each component's is proved by itself from its actions.

**`ServiceProofs`**, the proofs of `TokensKept` and `RequestsKept`.
For QuickBooks, `BooksInv`: the lock's holder is the one thread between the POST and
the INSERT (`OneHolder`), entities work only while the main thread syncs
(`MainFirst`), no token but the newest can be valid, and whoever refreshes has seen
it refused (`NewestOnly`). For the sign-in, `LoginInv`: a request is waiting, or has
a code, or is over, never two of them. For queries, `QueryInv`: the connections
held by clients and the free ones make up the pool (`Connected`); results are
numbered, and the cache has the last ones that are still live (`Numbered`, `Kept`),
by counting, since an entry is evicted only by younger ones; and what a
client has of a result is a prefix of it that ends where its next page begins
(`Reading`). For pull requests, `OwnInv`: besides `PullInv` (below), what a
submission has patched is its base and its own program (`Own`), and a branch of a
submission that was refused is gone. For the wizard, `WizardInv`:
what a request has read of the session is what is stored unless another has written
since (`Fresh`), and until two requests have raced the store is what
the requests intended, and a wizard missing from it has been followed by as many others as
are kept (`Undisturbed`). Assumed: the cache has room for
one entry and one wizard is kept; limits and lifetimes are naturals.

**`LoadProofs`**, the proofs of `DeletesOnlyGone` and `LoadsAreSound`.
`DeletesOnlyGone` is an action property. Each of the four components deletes
by what it has read, so that its invariant says what is accounted for.
`SweepInv` (QuickBooks) and `FormsInv` (Fillout) are about paging by offset: unless
something was deleted meanwhile, all that comes before the next page is stamped or in
a buffer, and with a page that is not full, everything is. That rests on counting:
the ranks of a finite set of integers are exactly 0 to its size minus one (`RankTaken`),
so that a page that is not full is the last (`LastPage`). `FormsInv` also has that
no form that succeeded is missing from the stamps and buffers, which is why losing a
buffer has to fail a form. `PeopleInv` (Slack users): while deletions are under way,
everybody who was read and has a record has one that is not to be deleted, the first
listed. `PullInv` (Dashbored): a base is never ahead of `main` and a commit takes nothing
from its base, so a merge only adds; and a branch between its creation and its
pull request belongs to the submission that made it, so that no other deletes it.
Assumed: entities, submissions and records are ordered like integers and finitely many, records
are well-formed at first, programs are among those of the warehouse, and no
commit is NULL.

`LoadsAreSound` has five parts. `DltInv`: a run at work has its directory, made
after the run began, and has not run longer than it may (`InItsDir`); and
unless another run interferes, what the table holds during a load is what the attempt has loaded so far
(`LoadedSoFar`). Assumed:
`dagster/max_runtime` is at most the age at which a directory is taken for dead
(`DltAssumption`; in the code at most 6 hours, and 24). `MirrorInv`: a declared
column keeps its kind through the frame and the table, and rows keep their values.
`BackupInv`: a metadata file and the payloads beside it are of one snapshot unless
the folder was written by two runs or one was cut off in it (`Beside`, `InFolder`,
`Mended`). `PassInv`: a table is in the queue, with a worker or recorded, and what a
worker has still to hash is what it found old, or was written since (`Holding`, `Queued`,
`TakenUp`, `Covered`); the same argument is `HashesInv` below, for a pass that is
run in every state of the warehouse. `DltInv`, `BackupInv` and `HashInv` are in the next
module, which `LoadProofs` extends.

**`DigestProofs`**, besides dlt and the backups: two rows of a table, at any two times, have the same digest when
they agree in what the digest covers, and otherwise only if some column shows NULL in
the one and, in the other, a value of fixed length that begins with the eight bytes of NULL
(`StreamTells`, `MistakenAt`; section 6). The stream of bytes is put
together from pieces, one per live column: its number, and its value in
the form of its type. Where two streams first differ is found by
looking at their first unequal column. A piece tells its value if no piece is the
beginning of another of the same column (`Told`, `Clash`); NULL, a fixed eight bytes without a
length, is the difficult case and is decided by what follows it (`Retold`): the number of the next column or
the end. `HashInv` says that columns keep their numbers and types
(`TablesStand`), that the cached descriptor is one the table has had with the
same columns live (`DescriptorStands`), and that each digest kept was that of a row the table had
(`HashesStand`). `DigestAssumption` has the limits of the model:
`RowHash` has the lowest byte of a number only, hence at most 255 columns, values of at most
255 bytes and by-value values from -256 to 255; and values of fixed length have one length
(the catalogue's `typlen`).

**`AssetsLiveProofs`**, the proofs of `HistoryHasNoHoles` (`AuditInv`, `DailyInv`: what a
run has read, what it has still to read, and what lies below its mark),
`CampaignsAreSafe` (`MetricsInv`, `CampaignInv`) and `ResultsMatchInputs`.
Assumed for the first: any numbers of events and
days and a page of at least one. Of the campaigns only that times and pages are
numbers (`MarginAssumption`): a campaign may have any number of pages, and what is proved is that one
still under way when the run reaches its limit has itself taken longer than the margin, if the
start of the run was read from its record. `MetricsInv` has the reason: since its pick,
which was before the deadline, the time that has passed is that of its own pages (`SincePicked`). That
finite sets of numbers have a greatest and a least element is proved from the
well-foundedness of strict inclusion, without induction.
`ResultsMatchInputs` has five parts, all of one kind: what a run is about to write was
computed from what it has read, and what is stored beside a hash was computed from
what was hashed, whoever has edited the input since. `AudienceInv` and `ProjectInv` say so of
contacts and projects, `HashesInv` of the tables of a hash pass, `GrantsInv` of the
grants, the rendered script and the report of the drift check, and `SiteInv` of
the marts that were read, validated and pushed. Assumed: the tables of the hash pass and the
projects are finitely many, the worker set is not empty, the initial
states are well-formed, and bounds are naturals.

**Only model-checked.** Liveness (`Converges`, `EveryoneLeaves`,
`ColumnsSettle`, `RunsEnd`, `ReadersCatchUp`, `RecordsSettle`, `CampaignsServed`)
is out of the prover's reach, as is everything under fairness. Of the feeds and
services, `NothingMissed`, `CleanRunExact` and the two type invariants (which are about
all of the components at once) are checked on the instances above and not proved;
of the types, the parts that the theorems need are proved with them.

## 6. Observations that are not properties

What the models had to admit, and the properties except. Each is the code's
behaviour as modelled; none was needed for a run of its own.

DuckLake

* DL:1769: an error while the lake's rows are counted is swallowed and the count
  taken for zero, so the run inserts the table again beside its old rows.
  `DiffMiscount` has it; `Converges` shows that the next run repairs it.
* DL:2840, and DL:679-695 of the hash pass: `handle_termination` takes
  `progress.lock` (DL:129), which is not reentrant. A second signal that arrives
  while the main thread's handler holds it interrupts that handler and waits for
  the lock for ever, and so do the workers. `AcquireLock` has the guard, the
  instances have the two signals, and `EveryoneLeaves`, `PassEnds` and
  `HashesSettle` name this end as their only exception (`Stuck` in the hash pass).
  The mutex inside `queue.Queue`, which a handler that drains the
  queue can meet in the same way, is not modelled.
* A full refresh may bring a column to another position. Hashes cover positions
  only, so that values can then stand beside the wrong name; `ColumnsFilled` excepts
  that (`Seated`). `Shuffles = FALSE` keeps the instances to the other cases; the
  theorems hold for both.
* A hash worker that connects after the cancel is never cancelled, and a table
  that failed reports no row updated though batches of it were committed.
* `pg_rowhash.c:173`: NULL and -1 of a type passed by value have one hash.
* `pg_rowhash.c:171-204`: a value of fixed length has no length before it, so that
  one whose first eight bytes are 0xFF can be taken for NULL: the `macaddr8`
  ff:ff:ff:ff:ff:ff:ff:ff always, in the same column with the others unchanged, and a `uuid` when the
  bytes after them equal the number and beginning of the next column. `HashTells`
  says so (`Mistakable`); the instance has the first case in it.

Slack, Zoom

* An interrupted first backfill of the analytics never resumes; the forward fill
  stops for good at a day without a file. An incremental run of the audit logs
  cut after its newest page leaves a hole that no later run reads.
* Profile fields that were cleared at Slack stay in the warehouse.
* Entries of a Zoom report that Zoom itself does not tell apart have one key and share a row
  (`zoom/meetings.py:719-723` says so of anonymous answers, and it is so for two participations
  of one session and time); `EveryEntryHasItsRow` is of what Zoom tells apart (`Told`).
* The last batch of `zoom_meeting_participant_details` has fewer placeholders
  than columns and fails the run. Recordings skip a user's error and advance the
  mark all the same; month chunks made of timestamps skip a day.

QuickBooks, Fillout, backups

* A refresh token is persisted after it was rotated: a crash or a failed INSERT in
  between needs somebody to sign in again. Paging by offset while entities are
  deleted can hide a row for one run.
* Fillout's buffer is emptied before its batch is committed. An answer without a
  list of responses (`fillout/definitions.py:357`) ends its form as if it were the last page, and the
  sweep then deletes the rows that come after until the next run (`PageWithoutList`;
  `OnlyGoneDeleted` excepts it).
* Two runs on one day, or one cut short, leave payloads unlike `metadata.json`
  until the next run that is alone.

Loops

* `loops_processed_audience` looks for the wrong suffix, so updates of existing
  columns are not applied (`loops/definitions.py:1087`). Lost AI answers and an
  "error" of Genderize are stored under the new hash and not asked for again.
* When the record of the run or its start time cannot be read
  (`loops_campaign_and_metrics_export/definitions.py:2307-2310`), the deadline of the
  recipient metrics is that of the budget only, and the run's limit can come with any campaign under
  way; so it can when a campaign has more pages than the margin allows for.
  `DoneBeforeKilled` excepts exactly these two.
* Campaigns that never complete can use up the time the others need when what is
  left of a run only reaches them; campaigns sent one to two weeks ago are never due.
* A mailing list gone from the API stays; a renamed one leaves an empty column
  that the join may pick; a load that overlaps the unpivot gives a partial join
  until a run is undisturbed.

Airtable, dlt, Unified YSWS

* raw_all_bases: the violated property of section 4.
* A column of numbers in text loses leading zeros, and one without any record
  comes as text whatever is declared. An audit-log run that sees no event leaves
  no mark, so that the next one reads everything; one that takes longer than the
  overlap less the lag of the log can leave events behind for good (`outrun`, which
  `NoneMissed` excepts).
* Overlapping untagged dlt runs interleave truncation and insertion.
* The archive hash of a project never settles after a URL is removed or when it
  has trailing spaces. An error of gh-proxy is recorded as a missing repository
  beside the old stars. Programs that share a sign-up prefix get twice the count
  (`unified_ysws_db/definitions.py:777`).
* Slack users: flags and names are never cleared at Airtable and rewritten by
  every run; an empty result of the warehouse deletes all records.

Zenventory, Highway

* Orders deleted at Zenventory shift ranks, and new orders are then missed for
  good. The items' watermark is strict and read over several pages: changes made
  while paging, or in the same second, are lost.
* A commit shifted from one page to the next comes twice in one INSERT, which
  fails the run; a history longer than the page limit is recorded as complete.

Services and sites

* warehouse-mcp keeps pending sign-ins and unexchanged codes until it restarts.
* Dashbored: if the answer to the creation of a branch or to its deletion is lost,
  or a maintainer closes the pull request, the branch stays and every retry is
  refused. Pages that show a flashed message write the session they loaded back.
* A stream that is switched off keeps its grants, which only `--verify-reader`
  notices, and the new password is in the environment before the script that
  sets it was applied.
* True-spend site: every document index carries the time it was built
  (`documents.py:532`), so that every run commits, although the module's
  docstring says that nothing is committed when nothing changed
  (`definitions.py:9-14`). Only spend is reconciled: the sums of revenue come
  from another statement than its list. Overlapping runs can put an older site
  over a newer one until the next run.

## 7. What is not modelled

Progress display, statistics, logging and formatting; SQL text and quoting;
hash collisions; the object store below DuckLake; Dagster's own database; rate
limiting by sleeping. Of the feeds: the column lists of tables, HTML and
Markdown conversion, CSV and Parquet encoding, full refreshes that replace a table
in one transaction (Airtable users, the programs sync), the text and layout of
the site, previews, validation of forms and the patching of files in Dashbored.
The dbt models are queries, and the enrichment helpers wrap one call each. `PROJECT.json`
says for every component what of it is left out.
