----------------------------- MODULE TableSync -----------------------------
(***************************************************************************)
(* One warehouse table copied into DuckLake by materialize_ducklake_job:   *)
(* worker_process_table of warehouse_row_hashes stamps every source row    *)
(* with a hash of its content, then sync_table_incremental of              *)
(* ducklake_sync compares the hashes with the lake and repairs the         *)
(* difference.  Both run statement by statement against stores that the    *)
(* mirror jobs, and other runs of the same job, keep writing.              *)
(*                                                                         *)
(* A row's content is one value and its hash is that value (no collision   *)
(* is modelled), so a source row is stale when hash # val.                 *)
(***************************************************************************)
EXTENDS Naturals, FiniteSets

CONSTANTS
    Keys,       \* identities of source rows (the primary key, or the ctid)
    Values,     \* contents of a row
    Null,       \* SQL NULL: no hash yet, no hash time yet
    HasPK,      \* does the table have a primary key?
    Runs,       \* runs of the job that may be under way together
    Files,      \* data files of the lake table; each INSERT writes a new one
    Threshold,  \* full_resync_threshold, a percentage
    BatchSize,  \* rows hashed by one UPDATE
    MaxClock,   \* bound on the distinct transaction times
    MaxWrites,  \* bound on the writes of the mirrors
    MaxFaults   \* bound on crashes, errors and skipped locks

ASSUME NullAssumption == Null \notin Keys \cup Values \cup Nat
ASSUME HasPKAssumption == HasPK \in BOOLEAN
ASSUME BoundAssumption == MaxClock \in Nat /\ MaxWrites \in Nat /\ MaxFaults \in Nat

Hashes == Values \cup {Null}
Times == (0 .. MaxClock) \cup {Null}

SourceRows == [key : Keys, val : Values, hash : Hashes, at : Times]
MetaRows == [key : Keys, hash : Values, at : Times]
LakeRows == [key : Keys, file : Files, val : Values, hash : Hashes]

Phases == {"idle", "failed", "hash", "sync", "diff", "clear", "load", "dedup", "fetch",
           "delete", "update", "insert", "done"}
Synced == {"diff", "clear", "load", "dedup", "fetch", "delete", "update", "insert", "done"}
Compared == Synced \ {"diff"}
Operations == {"del", "upd", "ins"}

VARIABLES
    src,        \* the warehouse table
    hasCol,     \* does the warehouse table have the _row_hash columns?
    clock,      \* the warehouse's clock
    lake,       \* the DuckLake table
    pc,         \* the phase of each run
    txn,        \* start of each run's hashing transaction, Null outside one
    meta,       \* _sync_metadata of each run
    todo,       \* the operations for which compute_sync_diff counted rows
    live,       \* is src_relation the warehouse table itself?
    changed,    \* _sync_changed_rows of each run
    writes,     \* writes the mirrors have made
    faults,     \* faults that have happened
    touched,    \* history: source rows written since the run's download
    disturbed,  \* history: did another run write the lake since the run's diff?
    miscounted, \* history: did the run's diff swallow an error?
    racy        \* history: was a stale row ever copied?

source == <<src, hasCol, clock>>
local == <<txn, meta, todo, live, changed>>
bounds == <<writes, faults>>
history == <<touched, disturbed, miscounted, racy>>
vars == <<src, hasCol, clock, lake, pc, txn, meta, todo, live, changed, writes,
          faults, touched, disturbed, miscounted, racy>>

(***************************************************************************)
(* The SQL the code is built from.                                         *)
(***************************************************************************)

\* The column a row is matched by: the primary key, or else the hash.
Id(x) == IF HasPK THEN x.key ELSE x.hash

\* The join condition: NULL equals nothing.
SameId(x, y) == Id(x) = Id(y) /\ Id(x) # Null

\* A row of y that already is what x should become.
SameRow(x, y) == SameId(x, y) /\ x.hash = y.hash

StaleIfUnhashed(s) == s.hash = Null \* slip: the pass skips rows that have a hash
Stale(s) == s.hash # s.val

\* What one UPDATE of the hash pass writes.
StampWithoutTime(s, t) == [s EXCEPT !.hash = s.val] \* slip
Stamp(s, t) == [key |-> s.key, val |-> s.val, hash |-> s.val, at |-> t]

Hashed == {s \in src : s.hash # Null}

NoRepeatedId(S) == {{x \in S : \A y \in S : Id(x) = Id(y) => x = y}} \* slip: rn >= 1

\* What ROW_NUMBER() OVER (PARTITION BY id) = 1 may keep of S.
OnePerId(S) == {T \in SUBSET S : /\ \A x \in S : \E y \in T : Id(x) = Id(y)
                                 /\ \A x, y \in T : Id(x) = Id(y) => x = y}

\* Lake rows written by one INSERT of the source rows S into the file f.
Copies(S, f) == {[key |-> s.key, file |-> f, val |-> s.val, hash |-> s.hash] : s \in S}

\* A data file that holds none of the lake's rows, if there is one.
FileIsFree(f) == \A d \in lake : d.file # f
NewFile == CHOOSE f \in Files : FileIsFree(f)

ToInsert(M) == {m \in M : \A d \in lake : ~SameId(m, d)}
ToUpdate(M) == {p \in M \X lake : SameId(p[1], p[2]) /\ p[1].hash # p[2].hash}
DeleteNothing(M) == {} \* slip
ToDelete(M) == {d \in lake : \A m \in M : ~SameId(m, d)}

\* compute_sync_diff's decision to reload the table: change_pct >= threshold.
FullResync(M) ==
    LET total == Cardinality(ToInsert(M)) + Cardinality(ToUpdate(M)) + Cardinality(ToDelete(M))
        size == IF M = {} THEN 1 ELSE Cardinality(M)
    IN  total * 100 >= Threshold * size

Counted(M) == {o \in Operations : \/ o = "ins" /\ ToInsert(M) # {}
                                  \/ o = "upd" /\ ToUpdate(M) # {}
                                  \/ o = "del" /\ ToDelete(M) # {}}

\* The relation the UPDATE and the INSERT read: the rows fetched by the
\* watermark, or the warehouse table as it is by then.
Relation(r) == IF live[r] THEN src ELSE changed[r]

(***************************************************************************)
(* Initial states: the mirror has loaded the table and no run has started. *)
(***************************************************************************)
Init ==
    /\ src \in {S \in SUBSET [key : Keys, val : Values, hash : {Null}, at : {Null}] :
                    \A x, y \in S : x.key = y.key => x = y}
    /\ hasCol = FALSE
    /\ clock = 0
    /\ lake = {}
    /\ pc = [r \in Runs |-> "idle"]
    /\ txn = [r \in Runs |-> Null]
    /\ meta = [r \in Runs |-> {}]
    /\ todo = [r \in Runs |-> {}]
    /\ live = [r \in Runs |-> FALSE]
    /\ changed = [r \in Runs |-> {}]
    /\ writes = 0
    /\ faults = 0
    /\ touched = [r \in Runs |-> {}]
    /\ disturbed = [r \in Runs |-> FALSE]
    /\ miscounted = [r \in Runs |-> FALSE]
    /\ racy = FALSE

\* The source rows K are written under the runs that have downloaded.
Touch(K) == touched' = [q \in Runs |-> IF pc[q] \in Synced THEN touched[q] \cup K ELSE {}]

(***************************************************************************)
(* The mirrors (Sling and dlt) write the source table at any time.         *)
(***************************************************************************)
MirrorWrite ==
    /\ writes < MaxWrites
    /\ writes' = writes + 1
    /\ UNCHANGED <<clock, lake, pc, local, faults, disturbed, miscounted, racy>>

\* An incremental stream adds a row; it knows nothing of the hash columns.
MirrorInsert(k, v) ==
    /\ MirrorWrite
    /\ \A s \in src : s.key # k
    /\ src' = src \cup {[key |-> k, val |-> v, hash |-> Null, at |-> Null]}
    /\ Touch({k})
    /\ UNCHANGED hasCol

\* An upsert changes a row in place and leaves its old hash beside it.
MirrorUpsert(s, v) ==
    /\ MirrorWrite
    /\ v # s.val
    /\ src' = (src \ {s}) \cup {[s EXCEPT !.val = v]}
    /\ Touch({s.key})
    /\ UNCHANGED hasCol

MirrorDelete(s) ==
    /\ MirrorWrite
    /\ src' = src \ {s}
    /\ Touch({s.key})
    /\ UNCHANGED hasCol

\* A full refresh drops the table and creates it again, without the columns.
MirrorReplace ==
    /\ MirrorWrite
    /\ src' = {[key |-> s.key, val |-> s.val, hash |-> Null, at |-> Null] : s \in src}
    /\ hasCol' = FALSE
    /\ Touch(Keys)

Mirror == \/ \E k \in Keys, v \in Values : MirrorInsert(k, v)
          \/ \E s \in src, v \in Values : MirrorUpsert(s, v)
          \/ \E s \in src : MirrorDelete(s)
          \/ MirrorReplace

(***************************************************************************)
(* worker_process_table of warehouse_row_hashes.                           *)
(***************************************************************************)
At(r, phase) == pc[r] = phase
Goto(r, phase) == pc' = [pc EXCEPT ![r] = phase]

\* The temporary tables go with the run's connection, and its history with it.
Forget(r) ==
    /\ meta' = [meta EXCEPT ![r] = {}]
    /\ todo' = [todo EXCEPT ![r] = {}]
    /\ live' = [live EXCEPT ![r] = FALSE]
    /\ changed' = [changed EXCEPT ![r] = {}]
    /\ touched' = [touched EXCEPT ![r] = {}]
    /\ disturbed' = [disturbed EXCEPT ![r] = FALSE]
    /\ miscounted' = [miscounted EXCEPT ![r] = FALSE]

\* ALTER TABLE ... ADD COLUMN IF NOT EXISTS, in a transaction of its own.
StartHash(r) ==
    /\ pc[r] \in {"idle", "done", "failed"}
    /\ Goto(r, "hash")
    /\ hasCol' = TRUE
    /\ Forget(r)
    /\ UNCHANGED <<src, clock, lake, txn, bounds, racy>>

\* The first statement of the next transaction fixes its now().  Two
\* transactions may begin within one tick.
BeginBatch(r) ==
    /\ At(r, "hash")
    /\ txn[r] = Null
    /\ txn' = [txn EXCEPT ![r] = clock]
    /\ clock' \in {clock, clock + 1} \cap (0 .. MaxClock)
    /\ UNCHANGED <<src, hasCol, lake, pc, meta, todo, live, changed, bounds, history>>

\* One UPDATE of at most BatchSize stale rows, and its commit.  Whichever rows
\* LIMIT takes and SKIP LOCKED leaves.
HashBatch(r) ==
    /\ At(r, "hash")
    /\ txn[r] # Null
    /\ hasCol
    /\ \E B \in SUBSET {s \in src : Stale(s)} :
        /\ B # {}
        /\ Cardinality(B) <= BatchSize
        /\ src' = (src \ B) \cup {Stamp(s, txn[r]) : s \in B}
        /\ Touch({s.key : s \in B})
    /\ txn' = [txn EXCEPT ![r] = Null]
    /\ UNCHANGED <<hasCol, clock, lake, pc, meta, todo, live, changed, bounds,
                   disturbed, miscounted, racy>>

\* The UPDATE that finds nothing to do ends the pass over the table.
EndHash(r) ==
    /\ At(r, "hash")
    /\ txn[r] # Null
    /\ hasCol
    /\ \A s \in src : ~Stale(s)
    /\ txn' = [txn EXCEPT ![r] = Null]
    /\ Goto(r, "sync")
    /\ UNCHANGED <<source, lake, meta, todo, live, changed, bounds, history>>

\* The pass ends with stale rows left: every one of them was locked, or the
\* statement failed.  An error of one table does not fail the asset, so the
\* sync goes ahead.
EndHashEarly(r) ==
    /\ At(r, "hash")
    /\ IF hasCol THEN faults < MaxFaults /\ faults' = faults + 1 ELSE faults' = faults
    /\ txn' = [txn EXCEPT ![r] = Null]
    /\ Goto(r, "sync")
    /\ UNCHANGED <<source, lake, meta, todo, live, changed, writes, history>>

\* Dagster retries a failed run from the step that failed (run_retries): the
\* sync is started again without a hash pass before it.
StartSync(r) ==
    /\ At(r, "failed")
    /\ Goto(r, "sync")
    /\ UNCHANGED <<source, lake, local, bounds, history>>

(***************************************************************************)
(* sync_table_incremental of ducklake_sync: one action per statement that  *)
(* reads or writes one of the two stores.                                  *)
(***************************************************************************)

\* sync_table skips a table without the column; sync_table_incremental skips
\* one that has rows but no hash on any of them.
SkipTable(r) ==
    /\ At(r, "sync")
    /\ ~hasCol \/ (Hashed = {} /\ src # {})
    /\ Goto(r, "idle")
    /\ UNCHANGED <<source, lake, local, bounds, history>>

\* download_sync_metadata: the hashed rows, as _sync_metadata.
Download(r) ==
    /\ At(r, "sync")
    /\ hasCol
    /\ Hashed # {} \/ src = {}
    /\ Goto(r, "diff")
    /\ meta' = [meta EXCEPT ![r] = {[key |-> s.key, hash |-> s.hash, at |-> s.at] : s \in Hashed}]
    /\ UNCHANGED <<source, lake, txn, todo, live, changed, bounds, history>>

\* compute_sync_diff counts what differs and the caller picks the strategy.
Diff(r) ==
    /\ At(r, "diff")
    /\ todo' = [todo EXCEPT ![r] = Counted(meta[r])]
    /\ Goto(r, IF lake = {} THEN "load" ELSE IF FullResync(meta[r]) THEN "clear" ELSE "dedup")
    /\ UNCHANGED <<source, lake, txn, meta, live, changed, bounds, history>>

\* The count of the lake's rows fails, the bare except takes it for an empty
\* table, and the load goes ahead on top of the rows that are there.
DiffMiscount(r) ==
    /\ At(r, "diff")
    /\ lake # {}
    /\ faults < MaxFaults
    /\ faults' = faults + 1
    /\ todo' = [todo EXCEPT ![r] = {"ins"}]
    /\ Goto(r, "load")
    /\ miscounted' = [miscounted EXCEPT ![r] = TRUE]
    /\ UNCHANGED <<source, lake, txn, meta, live, changed, writes, touched, disturbed, racy>>

\* Every write of the lake by r is one the other runs did not reckon with.
WriteLake(r, rows) ==
    /\ lake' = rows
    /\ disturbed' = [q \in Runs |-> disturbed[q] \/ (q # r /\ rows # lake /\ pc[q] \in Compared)]

\* Full resync: DELETE everything ...
Clear(r) ==
    /\ At(r, "clear")
    /\ WriteLake(r, {})
    /\ Goto(r, "load")
    /\ UNCHANGED <<source, local, bounds, touched, miscounted, racy>>

\* ... and, in a statement of its own, bulk_load_table the hashed rows.
Load(r) ==
    /\ At(r, "load")
    /\ hasCol
    /\ \E f \in Files : FileIsFree(f)
    /\ WriteLake(r, lake \cup Copies(Hashed, NewFile))
    /\ racy' = (racy \/ \E s \in Hashed : Stale(s))
    /\ Goto(r, "done")
    /\ UNCHANGED <<source, local, bounds, touched, miscounted>>

\* Keep one lake row per primary key, or per hash.
Dedup(r) ==
    /\ At(r, "dedup")
    /\ \E rows \in OnePerId(lake) : WriteLake(r, rows)
    /\ Goto(r, "fetch")
    /\ UNCHANGED <<source, local, bounds, touched, miscounted, racy>>

\* The rows of the diff, seen from the metadata.
Missing(r) == {m \in meta[r] : \A d \in lake : ~SameRow(m, d)}

\* The watermark is the earliest hash time of the rows M.
SinceWatermark(s, M) == s.at # Null /\ \E m \in M : m.at <= s.at

\* Materialize the rows hashed at or after the earliest hash time of the diff;
\* without a watermark the statements read the warehouse table itself.
Fetch(r) ==
    /\ At(r, "fetch")
    /\ IF todo[r] \cap {"ins", "upd"} = {} \/ Missing(r) = {} \/ \E m \in Missing(r) : m.at = Null
       THEN /\ live' = [live EXCEPT ![r] = TRUE]
            /\ changed' = [changed EXCEPT ![r] = {}]
       ELSE /\ hasCol
            /\ live' = [live EXCEPT ![r] = FALSE]
            /\ changed' = [changed EXCEPT ![r] = {s \in src : SinceWatermark(s, Missing(r))}]
    /\ Goto(r, "delete")
    /\ UNCHANGED <<source, lake, txn, meta, todo, bounds, history>>

Delete(r) ==
    /\ At(r, "delete")
    /\ WriteLake(r, IF "del" \in todo[r] THEN lake \ ToDelete(meta[r]) ELSE lake)
    /\ Goto(r, "update")
    /\ UNCHANGED <<source, local, bounds, touched, miscounted, racy>>

\* SET of every column and of the hash.
OverwrittenHash(d, s) == [d EXCEPT !.hash = s.hash] \* slip
Overwritten(d, s) == [key |-> d.key, file |-> d.file, val |-> s.val, hash |-> s.hash]

\* The source row s overwrites the lake row d.
Overwrites(r, s, d) ==
    /\ SameId(s, d)
    /\ s.hash # d.hash
    /\ \E m \in meta[r] : SameId(m, s)

Updates(r) == {p \in Relation(r) \X lake : Overwrites(r, p[1], p[2])}

Update(r) ==
    /\ At(r, "update")
    /\ IF HasPK /\ "upd" \in todo[r]
       THEN /\ live[r] => hasCol
            /\ WriteLake(r, {d \in lake : \A p \in Updates(r) : p[2] # d}
                            \cup {Overwritten(p[2], p[1]) : p \in Updates(r)})
            /\ racy' = (racy \/ \E p \in Updates(r) : Stale(p[1]))
       ELSE WriteLake(r, lake) /\ UNCHANGED racy
    /\ Goto(r, "insert")
    /\ UNCHANGED <<source, local, bounds, touched, miscounted>>

RowsHashed(r) == {s \in Relation(r) : s.hash # Null /\ \E m \in meta[r] : SameId(m, s)} \* slip
NewRows(r) == {s \in Relation(r) : /\ s.hash # Null
                                   /\ \E m \in meta[r] : SameId(m, s)
                                   /\ \A d \in lake : ~SameId(d, s)}

Insert(r) ==
    /\ At(r, "insert")
    /\ IF "ins" \in todo[r]
       THEN /\ live[r] => hasCol
            /\ \E f \in Files : FileIsFree(f)
            /\ \E S \in OnePerId(NewRows(r)) :
                /\ WriteLake(r, lake \cup Copies(S, NewFile))
                /\ racy' = (racy \/ \E s \in S : Stale(s))
       ELSE WriteLake(r, lake) /\ UNCHANGED racy
    /\ Goto(r, "done")
    /\ UNCHANGED <<source, local, bounds, touched, miscounted>>

\* The statement under way fails, the run is terminated, or its container is
\* killed.  A statement that reads the columns fails by itself when a full
\* refresh has dropped them.
Abort(r) ==
    /\ pc[r] \notin {"idle", "done", "failed"}
    /\ IF hasCol THEN faults < MaxFaults /\ faults' = faults + 1 ELSE faults' = faults
    /\ Goto(r, IF At(r, "hash") THEN "idle" ELSE "failed")
    /\ txn' = [txn EXCEPT ![r] = Null]
    /\ Forget(r)
    /\ UNCHANGED <<source, lake, writes, racy>>

HashStep(r) == StartHash(r) \/ BeginBatch(r) \/ HashBatch(r) \/ EndHash(r)
SyncStep(r) == \/ SkipTable(r) \/ Download(r) \/ Diff(r) \/ Clear(r) \/ Load(r)
               \/ Dedup(r) \/ Fetch(r) \/ Delete(r) \/ Update(r) \/ Insert(r)
Fault(r) == EndHashEarly(r) \/ DiffMiscount(r) \/ Abort(r)

Next == Mirror \/ \E r \in Runs : HashStep(r) \/ SyncStep(r) \/ StartSync(r) \/ Fault(r)

Spec == Init /\ [][Next]_vars

\* The schedule starts the job again and again and a started run proceeds; a
\* run whose statement cannot succeed gets its error.  Nothing is assumed of
\* the mirrors, of manual materializations or of faults.
Fairness == \A r \in Runs : /\ WF_vars(HashStep(r) \/ SyncStep(r))
                            /\ WF_vars(~hasCol /\ (EndHashEarly(r) \/ Abort(r)))

FairSpec == Spec /\ Fairness

(***************************************************************************)
(* Properties.                                                             *)
(***************************************************************************)

\* Every variable keeps its type, and a hashed row has a time (the two columns
\* of worker_process_table are always written together).
TypeOK ==
    /\ src \subseteq SourceRows
    /\ \A x, y \in src : x.key = y.key => x = y
    /\ \A s \in src : s.hash = Null <=> s.at = Null
    /\ hasCol \in BOOLEAN
    /\ clock \in 0 .. MaxClock
    /\ lake \subseteq LakeRows
    /\ pc \in [Runs -> Phases]
    /\ txn \in [Runs -> Times]
    /\ meta \in [Runs -> SUBSET MetaRows]
    /\ todo \in [Runs -> SUBSET Operations]
    /\ live \in [Runs -> BOOLEAN]
    /\ changed \in [Runs -> SUBSET SourceRows]
    /\ writes \in 0 .. MaxWrites
    /\ faults \in 0 .. MaxFaults
    /\ touched \in [Runs -> SUBSET Keys]
    /\ disturbed \in [Runs -> BOOLEAN]
    /\ miscounted \in [Runs -> BOOLEAN]
    /\ racy \in BOOLEAN

\* A lake row that the sync could not have known about: it is, or it matches,
\* a source row written after the download.
Excused(r, d) == \/ d.key \in touched[r]
                 \/ \E m \in meta[r] : m.key \in touched[r] /\ SameId(m, d)

\* Between the hashed source rows left alone since r's download and the lake
\* rows nothing is missing and nothing is left over.
Mirrored(r) ==
    /\ \A s \in Hashed : s.key \notin touched[r] => \E d \in lake : SameRow(s, d)
    /\ \A d \in lake : Excused(r, d) \/ \E s \in Hashed : s.key \notin touched[r] /\ SameRow(s, d)

\* A run that finishes leaves every row that was hashed and that nobody wrote
\* since its download mirrored, and no row that is not the source's: whatever
\* the lake held before (duplicates, half a resync, another run's rows),
\* whatever the mirrors write meanwhile, in a full resync as in an incremental
\* one, with or without a primary key.
SyncExact ==
    \A r \in Runs :
        pc[r] = "done" /\ ~disturbed[r] /\ ~miscounted[r] => Mirrored(r)

\* A finished sync of a table with a primary key leaves one lake row per key,
\* even when overlapping loads had doubled them (Step 3.5 of the code).
PrimaryKeyKept ==
    HasPK => \A r \in Runs :
        pc[r] = "done" /\ ~disturbed[r] /\ ~miscounted[r]
            => \A x, y \in lake : x.key = y.key => x = y

\* r has finished, and nobody wrote the source since it downloaded a table
\* whose hashes were all up to date, nor the lake since it compared them.
Undisturbed(r) ==
    /\ pc[r] = "done"
    /\ touched[r] = {}
    /\ ~disturbed[r]
    /\ \A s \in src : ~Stale(s)

SameValues == /\ \A s \in src : \E d \in lake : SameId(s, d) /\ d.val = s.val
              /\ \A d \in lake : \E s \in src : SameId(s, d) /\ d.val = s.val

\* The lake then has the source's contents, not only its hashes, provided no
\* row was ever copied between a mirror's write and its next hash.
ValuesExact ==
    \A r \in Runs : Undisturbed(r) /\ ~miscounted[r] /\ ~racy => SameValues

\* Outside a full resync a reader of the lake never loses a row of the source:
\* no statement of the run removes the last lake row of an id it downloaded.
IncrementalKeepsRows ==
    [][\A r \in Runs : pc[r] \in {"dedup", "fetch", "delete", "update", "insert"} /\ pc'[r] # pc[r] =>
            \A m \in meta[r] : (\E d \in lake : SameId(m, d)) => \E d \in lake' : SameId(m, d)]_vars

\* When the mirrors come to rest, the scheduled runs hash every row and bring
\* the lake to the source's hashes, one row for each key or hash (overlapping
\* loads may have doubled them), and it stays so.
Converged == /\ \A s \in src : s.hash = s.val /\ \E d \in lake : SameRow(s, d)
             /\ \A d \in lake : \E s \in src : SameRow(s, d)
             /\ \A x, y \in lake : Id(x) = Id(y) => x = y
Converges == <>[]Converged

\* What the asset promises: a modified row has a different hash and is found by
\* it, so an undisturbed sync ends with the source's contents.
HashDetectsChanges ==
    \A r \in Runs : Undisturbed(r) /\ ~miscounted[r] => SameValues
=============================================================================
