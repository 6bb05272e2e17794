------------------------------- MODULE RawBases -------------------------------
(* airtable_raw_all_bases_sync: every base the token sees is copied, record  *)
(* by record, by a few threads that share a write queue; at the end the rows *)
(* this run has not stamped are deleted, whatever went wrong before.         *)
(* Records are created and deleted at Airtable meanwhile.                    *)
EXTENDS Naturals, FiniteSets

CONSTANTS
    Bases,          \* every base there may be
    Tables,         \* the tables of each
    Records,        \* record ids of a table
    Workers,        \* CONCURRENT_BASES
    Threshold,      \* FLUSH_THRESHOLD
    BaseThreshold,  \* 100 bases
    MaxRuns,        \* bound: runs
    MaxChanges,     \* bound: changes at Airtable
    MaxFaults       \* bound: requests and flushes that fail

VARIABLES
    remote,         \* the records at Airtable: <<base, table, record>>
    rows,           \* the records table: record -> run that stamped it
    baseRows,       \* the bases table: base -> run that stamped it
    queue,          \* _records_buf
    baseQueue,      \* _bases_buf
    phase, runs,    \* of the run, and runs begun
    job,            \* per base: waiting, its table under way and what was read
    kept,           \* history: records there since the run began
    seen,           \* history: records there at some time of the run
    clean,          \* history: nothing went wrong in this run
    changes, faults

vars == <<remote, rows, baseRows, queue, baseQueue, phase, runs, job, kept,
          seen, clean, changes, faults>>

AllRecords == Bases \X Tables \X Records
Of(base, table) == {x \in remote : x[1] = base /\ x[2] = table}
Busy == {b \in Bases : job[b].step \in {"schema", "tables"}}
Waiting == [step |-> "waiting", tables |-> {}, read |-> {}]

TypeOK ==
    /\ remote \subseteq AllRecords /\ queue \subseteq AllRecords
    /\ DOMAIN rows \subseteq AllRecords /\ DOMAIN baseRows \subseteq Bases
    /\ \A x \in DOMAIN rows : rows[x] \in 1 .. runs
    /\ baseQueue \subseteq Bases /\ Cardinality(baseQueue) < BaseThreshold
    /\ Cardinality(Busy) <= Workers
    /\ phase \in {"idle", "copy", "delete"} /\ runs \in 0 .. MaxRuns
    /\ \A b \in Bases : job[b] \in
           [step : {"waiting", "schema", "tables", "done"},
            tables : SUBSET Tables, read : SUBSET AllRecords]

Init ==
    /\ remote \in {{}, AllRecords}
    /\ rows = [x \in {} |-> 0] /\ baseRows = [b \in {} |-> 0]
    /\ queue = {} /\ baseQueue = {} /\ phase = "idle" /\ runs = 0
    /\ job = [b \in Bases |-> Waiting]
    /\ kept = {} /\ seen = {} /\ clean = TRUE /\ changes = 0 /\ faults = 0

Change(x) ==
    /\ changes < MaxChanges /\ changes' = changes + 1
    /\ remote' = IF x \in remote THEN remote \ {x} ELSE remote \cup {x}
    /\ kept' = kept \ {x} /\ seen' = seen \cup {x}
    /\ UNCHANGED <<rows, baseRows, queue, baseQueue, phase, runs, job, clean,
                   faults>>

Stamped(f, xs) == [x \in DOMAIN f \cup xs |-> IF x \in xs THEN runs ELSE f[x]]

(* The bases are listed, all of their threads wait for a worker.             *)
Begin ==
    /\ phase = "idle" /\ runs < MaxRuns
    /\ phase' = "copy" /\ runs' = runs + 1
    /\ job' = [b \in Bases |-> Waiting]
    /\ queue' = {} /\ baseQueue' = {}
    /\ kept' = remote /\ seen' = remote /\ clean' = TRUE
    /\ UNCHANGED <<remote, rows, baseRows, changes, faults>>

TakeBase(b) ==
    /\ phase = "copy" /\ job[b].step = "waiting" /\ Cardinality(Busy) < Workers
    /\ job' = [job EXCEPT ![b].step = "schema"]
    /\ UNCHANGED <<remote, rows, baseRows, queue, baseQueue, phase, runs, kept,
                   seen, clean, changes, faults>>

AtStep(b, step) == phase = "copy" /\ job[b].step = step

(* The base's tables are known and its own row is queued; a full buffer of   *)
(* bases is written.                                                         *)
Schema(b) ==
    /\ AtStep(b, "schema")
    /\ job' = [job EXCEPT ![b] = [step |-> "tables", tables |-> Tables,
                                  read |-> {}]]
    /\ LET buffer == baseQueue \cup {b}
       IN  IF Cardinality(buffer) >= BaseThreshold
           THEN baseQueue' = {} /\ baseRows' = Stamped(baseRows, buffer)
           ELSE baseQueue' = buffer /\ UNCHANGED baseRows
    /\ UNCHANGED <<remote, rows, queue, phase, runs, kept, seen, clean, changes,
                   faults>>

(* The schema cannot be read, or the write of the full buffer fails, and the *)
(* rows of other bases in it are lost.                                       *)
FailBase(b, flush) ==
    /\ AtStep(b, "schema") /\ faults < MaxFaults /\ faults' = faults + 1
    /\ flush => Cardinality(baseQueue) + 1 >= BaseThreshold
    /\ job' = [job EXCEPT ![b].step = "done"]
    /\ baseQueue' = IF flush THEN {} ELSE baseQueue
    /\ clean' = FALSE
    /\ UNCHANGED <<remote, rows, baseRows, queue, phase, runs, kept, seen,
                   changes>>

(* The table under way: one of those left.                                   *)
Table(b) == CHOOSE t \in job[b].tables : TRUE
Unread(b) == Of(b, Table(b)) \ job[b].read

(* A page is pushed; a full buffer goes to the table under the queue's lock. *)
Push(b, x) ==
    /\ AtStep(b, "tables") /\ job[b].tables # {} /\ x \in Unread(b)
    /\ job' = [job EXCEPT ![b].read = @ \cup {x}]
    /\ LET buffer == queue \cup {x}
       IN  IF Cardinality(buffer) >= Threshold
           THEN queue' = {} /\ rows' = Stamped(rows, buffer)
           ELSE queue' = buffer /\ UNCHANGED rows
    /\ UNCHANGED <<remote, baseRows, baseQueue, phase, runs, kept, seen, clean,
                   changes, faults>>

EndTable(b) ==
    /\ AtStep(b, "tables") /\ job[b].tables # {} /\ Unread(b) \cap kept = {}
    /\ job' = [job EXCEPT ![b].tables = @ \ {Table(b)}, ![b].read = {}]
    /\ UNCHANGED <<remote, rows, baseRows, queue, baseQueue, phase, runs, kept,
                   seen, clean, changes, faults>>

(* A rate limit in the middle of a table: it is read again from the start.   *)
RateLimited(b) ==
    /\ AtStep(b, "tables") /\ job[b].read # {} /\ faults < MaxFaults
    /\ faults' = faults + 1
    /\ job' = [job EXCEPT ![b].read = {}]
    /\ UNCHANGED <<remote, rows, baseRows, queue, baseQueue, phase, runs, kept,
                   seen, clean, changes>>

(* Another error gives the table up; if it was the flush that failed, what   *)
(* was in the buffer is lost, other threads' rows too.                       *)
FailTable(b, flush) ==
    /\ AtStep(b, "tables") /\ job[b].tables # {} /\ faults < MaxFaults
    /\ faults' = faults + 1 /\ clean' = FALSE
    /\ job' = [job EXCEPT ![b].tables = @ \ {Table(b)}, ![b].read = {}]
    /\ queue' = IF flush THEN {} ELSE queue
    /\ UNCHANGED <<remote, rows, baseRows, baseQueue, phase, runs, kept, seen,
                   changes>>

EndBase(b) ==
    /\ AtStep(b, "tables") /\ job[b].tables = {}
    /\ job' = [job EXCEPT ![b].step = "done"]
    /\ UNCHANGED <<remote, rows, baseRows, queue, baseQueue, phase, runs, kept,
                   seen, clean, changes, faults>>

FlushAll ==
    /\ phase = "copy" /\ \A b \in Bases : job[b].step = "done"
    /\ rows' = Stamped(rows, queue) /\ baseRows' = Stamped(baseRows, baseQueue)
    /\ queue' = {} /\ baseQueue' = {} /\ phase' = "delete"
    /\ UNCHANGED <<remote, runs, job, kept, seen, clean, changes, faults>>

Current(f) == [x \in {y \in DOMAIN f : f[y] = runs} |-> f[x]]

DeleteStale ==
    /\ phase = "delete"
    /\ rows' = Current(rows) /\ baseRows' = Current(baseRows)
    /\ phase' = "idle"
    /\ UNCHANGED <<remote, queue, baseQueue, runs, job, kept, seen, clean,
                   changes, faults>>

(* The run dies, or its last flush or the deletion fails.                    *)
Die ==
    /\ phase # "idle" /\ faults < MaxFaults /\ faults' = faults + 1
    /\ phase' = "idle" /\ clean' = FALSE
    /\ UNCHANGED <<remote, rows, baseRows, queue, baseQueue, runs, job, kept,
                   seen, changes>>

Next ==
    \/ Begin \/ FlushAll \/ DeleteStale \/ Die
    \/ \E x \in AllRecords : Change(x)
    \/ \E b \in Bases :
          \/ TakeBase(b) \/ Schema(b) \/ EndTable(b)
          \/ RateLimited(b) \/ EndBase(b)
          \/ \E x \in AllRecords : Push(b, x)
          \/ \E flush \in BOOLEAN : FailBase(b, flush) \/ FailTable(b, flush)

Spec == Init /\ [][Next]_vars

-----------------------------------------------------------------------------
(* A run without an error leaves every base, and every record that was   *)
(* there all along.                                                          *)
CleanRunExact ==
    [][DeleteStale /\ clean =>
           kept \subseteq DOMAIN rows' /\ DOMAIN baseRows' = Bases]_vars

(* Whatever went wrong, what is not at Airtable any more is gone when a run  *)
(* finishes.                                                                 *)
NothingGoneStays == [][DeleteStale => DOMAIN rows' \subseteq seen]_vars

(* "Stale" rows are those of records Airtable has no more: a record that was *)
(* there all along stays.                                                    *)
OnlyGoneDeleted ==
    [][\A x \in DOMAIN rows \ DOMAIN rows' : x \notin kept]_vars
=============================================================================
