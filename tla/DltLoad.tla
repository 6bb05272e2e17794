------------------------------- MODULE DltLoad --------------------------------
(* A dlt load that replaces a warehouse table.  Each run works in a directory*)
(* of its own, sweeps the directories that crashed runs have left behind,    *)
(* and retries once, in a fresh directory, when the load fails with one of   *)
(* the known local failures.  dlt itself truncates the table and inserts the *)
(* load package chunk by chunk, each committed on its own.                   *)
EXTENDS Naturals, FiniteSets

CONSTANTS
    Runs,           \* the materializations, 1 .. n
    Chunks,         \* insert jobs of a load package
    MaxRuntime,     \* dagster/max_runtime of the job
    MaxAge,         \* max_age_hours of the sweep
    MaxClock,       \* bound: the clock
    MaxFaults       \* bound: failed loads and killed runs

VARIABLES
    now,
    run,            \* phase, attempt, start and work still to insert of each run
    dirs,           \* pipeline directories: whose, which attempt, made when
    table,          \* rows of the table, as the chunks that inserted them
    alone,          \* history: nobody else touched the table while the run loaded
    swept,          \* when the last sweep was
    faults

vars == <<now, run, dirs, table, alone, swept, faults>>

Phases == {"planned", "starting", "loading", "done", "failed", "killed"}
Working(r) == run[r].phase \in {"starting", "loading"}
HasDir(r) == \E d \in dirs : d.run = r /\ d.attempt = run[r].attempt
Without(r) == {d \in dirs : d.run # r}

TypeOK ==
    /\ now \in 0 .. MaxClock /\ swept \in 0 .. now /\ faults \in 0 .. MaxFaults
    /\ run \in [Runs -> [phase : Phases, attempt : 1 .. 2, start : 0 .. now,
                         left : SUBSET Chunks]]
    /\ dirs \subseteq [run : Runs, attempt : 1 .. 2, made : 0 .. now]
    /\ table \subseteq [run : Runs, attempt : 1 .. 2, chunk : Chunks]
    /\ alone \subseteq Runs
    /\ \A r \in Runs : Cardinality({d \in dirs : d.run = r}) <= 1

Init ==
    /\ now = 0 /\ dirs = {} /\ table = {} /\ alone = {} /\ swept = 0
    /\ faults = 0
    /\ run = [r \in Runs |-> [phase |-> "planned", attempt |-> 1, start |-> 0,
                              left |-> {}]]

(* Run monitoring ends a run that has reached max_runtime.                   *)
Tick ==
    /\ now < MaxClock
    /\ \A r \in Runs : Working(r) => now < run[r].start + MaxRuntime
    /\ now' = now + 1
    /\ UNCHANGED <<run, dirs, table, alone, swept, faults>>

Stale(d) == now > d.made + MaxAge
(* The sweep, and a directory of the run's own.                              *)
Begin(r) ==
    /\ run[r].phase = "planned"
    /\ run' = [run EXCEPT ![r] = [phase |-> "starting", attempt |-> 1,
                                  start |-> now, left |-> Chunks]]
    /\ dirs' = {d \in dirs : ~ Stale(d)}
               \cup {[run |-> r, attempt |-> 1, made |-> now]}
    /\ swept' = now
    /\ UNCHANGED <<now, table, alone, faults>>

Truncate(r) ==
    /\ run[r].phase = "starting" /\ HasDir(r)
    /\ run' = [run EXCEPT ![r].phase = "loading"]
    /\ table' = {}
    /\ alone' = {r}
    /\ UNCHANGED <<now, dirs, swept, faults>>

Insert(r, chunk) ==
    /\ run[r].phase = "loading" /\ HasDir(r) /\ chunk \in run[r].left
    /\ run' = [run EXCEPT ![r].left = @ \ {chunk}]
    /\ table' = table \cup {[run |-> r, attempt |-> run[r].attempt,
                             chunk |-> chunk]}
    /\ alone' = alone \cap {r}
    /\ UNCHANGED <<now, dirs, swept, faults>>

Finish(r) ==
    /\ run[r].phase = "loading" /\ run[r].left = {}
    /\ run' = [run EXCEPT ![r].phase = "done"]
    /\ dirs' = Without(r)
    /\ UNCHANGED <<now, table, alone, swept, faults>>

(* _dlt_retryable_reason: once, from the beginning, in a fresh directory.    *)
RetryFresh(r) ==
    /\ run' = [run EXCEPT ![r] = [phase |-> "starting", attempt |-> 2,
                                  start |-> @.start, left |-> Chunks]]
    /\ dirs' = Without(r) \cup {[run |-> r, attempt |-> 2, made |-> now]}

GiveUp(r) ==
    /\ run' = [run EXCEPT ![r].phase = "failed"]
    /\ dirs' = Without(r)

(* The load fails, for one of the known local reasons or not.                *)
Fail(r, retryable) ==
    /\ Working(r) /\ faults < MaxFaults /\ faults' = faults + 1
    /\ IF retryable /\ run[r].attempt = 1 THEN RetryFresh(r) ELSE GiveUp(r)
    /\ UNCHANGED <<now, table, alone, swept>>

(* A redeploy, the OOM killer or max_runtime: no finally block runs.         *)
Kill(r) ==
    /\ Working(r)
    /\ \/ now = run[r].start + MaxRuntime /\ UNCHANGED faults
       \/ faults < MaxFaults /\ faults' = faults + 1
    /\ run' = [run EXCEPT ![r].phase = "killed"]
    /\ UNCHANGED <<now, dirs, table, alone, swept>>

Next ==
    \/ Tick
    \/ \E r \in Runs :
          \/ Begin(r) \/ Truncate(r) \/ Finish(r) \/ Kill(r)
          \/ \E chunk \in Chunks : Insert(r, chunk)
          \/ \E retryable \in BOOLEAN : Fail(r, retryable)

Spec == Init /\ [][Next]_vars

-----------------------------------------------------------------------------
(* The sweep takes what crashed runs left, and never the directory of a run  *)
(* that still works in it.                                                   *)
SweepsOnlyTheDead ==
    /\ \A r \in Runs : Working(r) => HasDir(r)
    /\ \A d \in dirs : Working(d.run) \/ swept <= d.made + MaxAge

(* Retried or not, a load that nobody interfered with leaves exactly its     *)
(* rows, each once.                                                          *)
LoadedExactly ==
    \A r \in alone : run[r].phase = "done" =>
        table = [run : {r}, attempt : {run[r].attempt}, chunk : Chunks]
=============================================================================
