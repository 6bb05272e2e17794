----------------------------- MODULE DailyBackups -----------------------------
(***************************************************************************)
(* write_daily_parquet_backup: one folder per source and day, with a       *)
(* Parquet file for each table and a metadata.json that lists them.  A     *)
(* folder is rewritten by every run of the day, object by object; nothing  *)
(* keeps two runs from writing it at once.                                 *)
(***************************************************************************)
EXTENDS Naturals, FiniteSets

CONSTANTS
    Tables,       \* file names; a deployment may change which are backed up
    Order,        \* Order[t]: place of t in the sorted list
    Runs,         \* runs that may be under way at once
    Days,         \* 1 .. n
    Versions,     \* of the data of all tables
    MaxFaults

VARIABLES
    today, version,
    tables,       \* tables backed up by the code deployed
    files,        \* day -> table -> version stored, or 0
    listed,       \* day -> table -> version in metadata.json, or 0
    pc,           \* run -> "idle", "sweep", "put" or "meta"
    snapshot,     \* run -> [day, content]: content[t] is the version of t, or 0
    left,         \* run -> files still to put
    faults,
    cut,          \* history: days a run was cut off in, or not alone in, and none since mended
    beside        \* history: runs that met another one in their folder

vars == <<today, version, tables, files, listed, pc, snapshot, left, faults, cut, beside>>

NoFiles == [t \in Tables |-> 0]
NoSnapshot == [day |-> 1, content |-> NoFiles]
Writing(r) == pc[r] # "idle"
Writers(d) == {r \in Runs : pc[r] \in {"put", "meta"} /\ snapshot[r].day = d}
Busy(d) == {r \in Runs : Writing(r) /\ snapshot[r].day = d}

Init ==
    /\ today = 1 /\ version = 1 /\ tables = Tables
    /\ files = [d \in Days |-> NoFiles] /\ listed = files
    /\ pc = [r \in Runs |-> "idle"] /\ left = [r \in Runs |-> {}]
    /\ snapshot = [r \in Runs |-> NoSnapshot]
    /\ faults = 0 /\ cut = {} /\ beside = {}

Midnight ==
    /\ today + 1 \in Days /\ today' = today + 1
    /\ UNCHANGED <<version, tables, files, listed, pc, snapshot, left, faults, cut, beside>>

Load ==
    /\ version + 1 \in Versions /\ version' = version + 1
    /\ UNCHANGED <<today, tables, files, listed, pc, snapshot, left, faults, cut, beside>>

Deploy ==
    /\ \A r \in Runs : ~Writing(r)
    /\ \E T \in SUBSET Tables \ {{}} : tables' = T
    /\ UNCHANGED <<today, version, files, listed, pc, snapshot, left, faults, cut, beside>>

(* The day is fixed, in the time zone of the backups, and the tables are   *)
(* in memory.                                                              *)
Begin(r) ==
    /\ pc[r] = "idle"
    /\ pc' = [pc EXCEPT ![r] = "sweep"]
    /\ snapshot' = [snapshot EXCEPT ![r] =
           [day |-> today, content |-> [t \in Tables |-> IF t \in tables THEN version ELSE 0]]]
    /\ left' = [left EXCEPT ![r] = tables]
    /\ beside' = IF Busy(today) # {} THEN beside \cup Busy(today) \cup {r} ELSE beside
    /\ UNCHANGED <<today, version, tables, files, listed, faults, cut>>

(* _delete_stale_payload_files: files that this run will not put.          *)
Sweep(r) ==
    /\ pc[r] = "sweep" /\ pc' = [pc EXCEPT ![r] = "put"]
    /\ files' = [files EXCEPT ![snapshot[r].day] =
                    [t \in Tables |-> IF t \in left[r] THEN @[t] ELSE 0]]
    /\ UNCHANGED <<today, version, tables, listed, snapshot, left, faults, cut, beside>>

Put(r) ==
    /\ pc[r] = "put"
    /\ \E t \in left[r] :
           /\ \A u \in left[r] : Order[t] <= Order[u]
           /\ files' = [files EXCEPT ![snapshot[r].day][t] = snapshot[r].content[t]]
           /\ left' = [left EXCEPT ![r] = @ \ {t}]
           /\ pc' = [pc EXCEPT ![r] = IF left[r] = {t} THEN "meta" ELSE "put"]
    /\ UNCHANGED <<today, version, tables, listed, snapshot, faults, cut, beside>>

(* The list goes last.  A run that was alone in its folder mends what      *)
(* earlier ones left there.                                                *)
PutMetadata(r) ==
    /\ pc[r] = "meta" /\ pc' = [pc EXCEPT ![r] = "idle"]
    /\ listed' = [listed EXCEPT ![snapshot[r].day] = snapshot[r].content]
    /\ cut' = IF r \in beside THEN cut \cup {snapshot[r].day} ELSE cut \ {snapshot[r].day}
    /\ snapshot' = [snapshot EXCEPT ![r] = NoSnapshot] /\ beside' = beside \ {r}
    /\ UNCHANGED <<today, version, tables, files, left, faults>>

(* A request fails and the asset with it, or the run is killed, perhaps    *)
(* with some of the stale files deleted.                                   *)
Fail(r) ==
    /\ Writing(r) /\ faults < MaxFaults /\ faults' = faults + 1
    /\ pc' = [pc EXCEPT ![r] = "idle"] /\ left' = [left EXCEPT ![r] = {}]
    /\ snapshot' = [snapshot EXCEPT ![r] = NoSnapshot]
    /\ cut' = cut \cup {snapshot[r].day} /\ beside' = beside \ {r}
    /\ \E S \in SUBSET (IF pc[r] = "sweep" THEN Tables \ left[r] ELSE {}) :
           files' = [files EXCEPT ![snapshot[r].day] = [t \in Tables |-> IF t \in S THEN 0 ELSE @[t]]]
    /\ UNCHANGED <<today, version, tables, listed>>

Next ==
    \/ Midnight \/ Load \/ Deploy
    \/ \E r \in Runs : Begin(r) \/ Sweep(r) \/ Put(r) \/ PutMetadata(r) \/ Fail(r)

Spec == Init /\ [][Next]_vars

-----------------------------------------------------------------------------

TypeOK ==
    /\ today \in Days /\ version \in Versions /\ tables \subseteq Tables
    /\ \A d \in Days, t \in Tables : {files[d][t], listed[d][t]} \subseteq Versions \cup {0}
    /\ \A r \in Runs : /\ pc[r] \in {"idle", "sweep", "put", "meta"}
                       /\ snapshot[r].day \in 1 .. today /\ left[r] \subseteq tables
    /\ cut \subseteq Days /\ faults \in 0 .. MaxFaults

(* The list of a day names the files that are there, each as it was        *)
(* listed, and no other file is there: unless a run is writing the folder, *)
(* was cut off in it, or wrote it beside another.                          *)
ListTellsFiles ==
    \A d \in Days : Writers(d) = {} /\ d \notin cut => files[d] = listed[d]
=============================================================================
