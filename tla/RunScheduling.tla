--------------------------- MODULE RunScheduling ---------------------------
(***************************************************************************)
(* How the jobs come to run: the schedules of orpheus_engine/schedules.py  *)
(* and definitions.py, the limits and timeouts that docker_deploy/         *)
(* dagster.yaml gives to Dagster's coordinator and monitor, the clean-up   *)
(* of orphaned runs when the container starts (scripts/start.sh and        *)
(* scripts/cancel_orphaned_runs.py), and the janitor of old runs.          *)
(*                                                                         *)
(* Dagster itself is modelled from what the configuration asks of it.  A   *)
(* run has a status in the instance database and a process in the          *)
(* container, and the two may disagree: the limits read the status, the    *)
(* data is written by the process.                                         *)
(***************************************************************************)
EXTENDS Naturals, Sequences, FiniteSets

CONSTANTS
    Jobs,
    Tagged,         \* jobs with dagster/max_runtime and orpheus/serial-job,
                    \* whose schedules skip a tick while a run is in flight
    Ids,            \* run ids; a purged run's id is used again
    MaxConcurrent,  \* max_concurrent_runs
    MaxRetries,     \* max_retries
    MaxManual,      \* bound on runs launched from the UI
    MaxHangs,       \* bound on processes that hang
    MaxDeploys      \* bound on restarts of the container

ASSUME SchedulingAssumption ==
    /\ Jobs # {} /\ Tagged \subseteq Jobs
    /\ MaxConcurrent \in Nat \ {0}
    /\ {MaxRetries, MaxManual, MaxHangs, MaxDeploys} \subseteq Nat

VARIABLES
    job,        \* the job of each run
    kind,       \* "scheduled", "manual" or "retry"
    status,     \* its status in the database
    process,    \* "none", "alive", "hung" or "dead"
    queue,      \* the queued runs, oldest first
    ticking,    \* jobs whose schedule has decided to request a run
    pending,    \* failed runs the retry daemon has yet to look at
    orphans,    \* what cancel_orphaned_runs has yet to cancel
    container,  \* "up", "booting" (webserver only) or "cleaning"
    counts      \* what has happened so far, by kind

run == <<job, kind, status, process>>
vars == <<run, queue, ticking, pending, orphans, container, counts>>

Free == "free"
NoJob == CHOOSE j \in Jobs : TRUE  \* a free id's
InProgress == {"STARTING", "STARTED", "CANCELING"}
InFlight == {"QUEUED"} \cup InProgress
Terminal == {"SUCCESS", "FAILURE", "CANCELED"}
Events == {"manual", "hang", "deploy"}

Having(S, j) == {r \in Ids : status[r] \in S /\ job[r] = j}
Count(e) == counts' = [counts EXCEPT ![e] = @ + 1]

Init ==
    /\ job = [r \in Ids |-> NoJob]
    /\ kind = [r \in Ids |-> "scheduled"]
    /\ status = [r \in Ids |-> Free]
    /\ process = [r \in Ids |-> "none"]
    /\ queue = << >>
    /\ ticking = {}
    /\ pending = {}
    /\ orphans = {}
    /\ container = "up"
    /\ counts = [e \in Events |-> 0]

-----------------------------------------------------------------------------
(* Runs are requested.                                                     *)

\* A new run of j enters the queue.
Enqueue(j, k) ==
    \E r \in Ids :
        /\ status[r] = Free
        /\ job' = [job EXCEPT ![r] = j]
        /\ kind' = [kind EXCEPT ![r] = k]
        /\ status' = [status EXCEPT ![r] = "QUEUED"]
        /\ process' = [process EXCEPT ![r] = "none"]
        /\ queue' = Append(queue, r)

\* Slip: only runs that have started count as in flight.
SkipIfStarted(j) == Having(InProgress, j) # {}

\* _evaluation_fn finds a run in flight.
SkipTick(j) == j \in Tagged /\ Having(InFlight, j) # {}

Evaluate(j) ==
    /\ container = "up"
    /\ j \notin ticking /\ ~SkipTick(j)
    /\ ticking' = ticking \cup {j}
    /\ UNCHANGED <<run, queue, pending, orphans, container, counts>>

RequestRun(j) ==
    /\ container = "up" /\ j \in ticking
    /\ Enqueue(j, "scheduled")
    /\ ticking' = ticking \ {j}
    /\ UNCHANGED <<pending, orphans, container, counts>>

\* A run launched from the UI; the webserver is up before the daemon is.
LaunchManually(j) ==
    /\ counts["manual"] < MaxManual
    /\ Enqueue(j, "manual")
    /\ Count("manual")
    /\ UNCHANGED <<ticking, pending, orphans, container>>

\* run_retries: one more run for a failed one that is no retry itself.
Retry(r) ==
    /\ container = "up" /\ r \in pending
    /\ pending' = pending \ {r}
    /\ IF kind[r] = "retry" \/ MaxRetries = 0
       THEN UNCHANGED <<run, queue>>
       ELSE Enqueue(job[r], "retry")
    /\ UNCHANGED <<ticking, orphans, container, counts>>

-----------------------------------------------------------------------------
(* Runs are started and end.                                               *)

Running == {r \in Ids : status[r] \in InProgress}

\* Slip: the concurrency limit has no tags.
HasSlot(r) == Cardinality(Running) < MaxConcurrent

\* The coordinator's limits: on all runs, and on those of one serial job.
MayStart(r) ==
    /\ Cardinality(Running) < MaxConcurrent
    /\ job[r] \in Tagged => Having(InProgress, job[r]) = {}

\* The first queued run that may start does.
Dequeue ==
    \E i \in DOMAIN queue :
        /\ container = "up"
        /\ MayStart(queue[i])
        /\ \A h \in 1 .. i - 1 : ~MayStart(queue[h])
        /\ status' = [status EXCEPT ![queue[i]] = "STARTING"]
        /\ queue' = SubSeq(queue, 1, i - 1) \o SubSeq(queue, i + 1, Len(queue))
        /\ UNCHANGED <<job, kind, process, ticking, pending, orphans, container, counts>>

Ended(r, s) ==
    /\ status' = [status EXCEPT ![r] = s]
    /\ pending' = IF s = "FAILURE" THEN pending \cup {r} ELSE pending

Start(r) ==
    /\ container = "up" /\ status[r] = "STARTING"
    /\ status' = [status EXCEPT ![r] = "STARTED"]
    /\ process' = [process EXCEPT ![r] = "alive"]
    /\ UNCHANGED <<job, kind, queue, ticking, pending, orphans, container, counts>>

\* start_timeout_seconds: the launcher never got it going.
StartTimeout(r) ==
    /\ container = "up" /\ status[r] = "STARTING"
    /\ Ended(r, "FAILURE")
    /\ UNCHANGED <<job, kind, process, queue, ticking, orphans, container, counts>>

\* The process reports what became of it, if the run is still its own.
Finish(r, s) ==
    /\ process[r] = "alive"
    /\ s \in IF status[r] = "CANCELING" THEN {"CANCELED"} ELSE {"SUCCESS", "FAILURE"}
    /\ process' = [process EXCEPT ![r] = "dead"]
    /\ IF status[r] \in InProgress THEN Ended(r, s) ELSE UNCHANGED <<status, pending>>
    /\ UNCHANGED <<job, kind, queue, ticking, orphans, container, counts>>

\* A lock or a dead source holds the process; signals do not reach it.
Hang(r) ==
    /\ process[r] = "alive" /\ counts["hang"] < MaxHangs
    /\ process' = [process EXCEPT ![r] = "hung"]
    /\ Count("hang")
    /\ UNCHANGED <<job, kind, status, queue, ticking, pending, orphans, container>>

Release(r) ==
    /\ process[r] = "hung"
    /\ process' = [process EXCEPT ![r] = "alive"]
    /\ UNCHANGED <<job, kind, status, queue, ticking, pending, orphans, container, counts>>

Terminate(r) ==
    /\ status[r] = "STARTED" /\ counts["manual"] < MaxManual
    /\ status' = [status EXCEPT ![r] = "CANCELING"]
    /\ Count("manual")
    /\ UNCHANGED <<job, kind, process, queue, ticking, pending, orphans, container>>

\* cancel_timeout_seconds: the status moves on without the process.
CancelTimeout(r) ==
    /\ container = "up" /\ status[r] = "CANCELING"
    /\ Ended(r, "CANCELED")
    /\ UNCHANGED <<job, kind, process, queue, ticking, orphans, container, counts>>

\* dagster/max_runtime: the process is told to stop, which one that hangs
\* does not hear and another may take its time over; the run has failed.
MaxRuntime(r) ==
    /\ container = "up" /\ status[r] = "STARTED" /\ job[r] \in Tagged
    /\ \E p \in {process[r]} \cup {q \in {"dead"} : process[r] = "alive"} :
           process' = [process EXCEPT ![r] = p]
    /\ Ended(r, "FAILURE")
    /\ UNCHANGED <<job, kind, queue, ticking, orphans, container, counts>>

\* The monitor finds that a run's process is gone.
Stalled(r) ==
    /\ container = "up" /\ status[r] = "STARTED" /\ process[r] = "dead"
    /\ Ended(r, "FAILURE")
    /\ UNCHANGED <<job, kind, process, queue, ticking, orphans, container, counts>>

\* purge_old_run_history deletes a run that ended so long ago that its
\* process and its retry are over.
Purge(r) ==
    /\ container = "up"
    /\ status[r] \in Terminal /\ r \notin pending /\ process[r] \in {"none", "dead"}
    /\ status' = [status EXCEPT ![r] = Free]
    /\ job' = [job EXCEPT ![r] = NoJob]
    /\ kind' = [kind EXCEPT ![r] = "scheduled"]
    /\ process' = [process EXCEPT ![r] = "none"]
    /\ UNCHANGED <<queue, ticking, pending, orphans, container, counts>>

-----------------------------------------------------------------------------
(* The container is replaced: start.sh.                                    *)

Deploy ==
    /\ container = "up" /\ counts["deploy"] < MaxDeploys
    /\ container' = "booting"
    /\ process' = [r \in Ids |-> IF process[r] = "none" THEN "none" ELSE "dead"]
    /\ ticking' = {}
    /\ Count("deploy")
    /\ UNCHANGED <<job, kind, status, queue, pending, orphans>>

\* Slip: queued runs are taken for orphans.
AllInFlight == {r \in Ids : status[r] \in InFlight}
Inflight == {r \in Ids : status[r] \in {"STARTED", "STARTING", "CANCELING"}}

\* cancel_orphaned_runs lists the runs in progress, or gives up.
ListOrphans ==
    /\ container = "booting"
    /\ orphans' = Inflight
    /\ container' = "cleaning"
    /\ UNCHANGED <<run, queue, ticking, pending, counts>>

SkipCleanup ==
    /\ container = "booting"
    /\ container' = "up"
    /\ UNCHANGED <<run, queue, ticking, pending, orphans, counts>>

CancelOrphan(r) ==
    /\ container = "cleaning" /\ r \in orphans
    /\ orphans' = orphans \ {r}
    /\ status' = [status EXCEPT ![r] = "CANCELED"]
    /\ UNCHANGED <<job, kind, process, queue, ticking, pending, container, counts>>

\* terminateRun fails; the loop goes on with the next run.
MissOrphan(r) ==
    /\ container = "cleaning" /\ r \in orphans
    /\ orphans' = orphans \ {r}
    /\ UNCHANGED <<run, queue, ticking, pending, container, counts>>

StartDaemon ==
    /\ container = "cleaning" /\ orphans = {}
    /\ container' = "up"
    /\ UNCHANGED <<run, queue, ticking, pending, orphans, counts>>

-----------------------------------------------------------------------------
Boot == ListOrphans \/ SkipCleanup \/ StartDaemon
        \/ \E r \in Ids : CancelOrphan(r) \/ MissOrphan(r)

\* Slip: no run has dagster/max_runtime.
MonitorUntagged(r) == StartTimeout(r) \/ CancelTimeout(r)
Monitor(r) == StartTimeout(r) \/ CancelTimeout(r) \/ MaxRuntime(r)
End(r) == \E s \in Terminal : Finish(r, s)

Next ==
    \/ \E j \in Jobs : Evaluate(j) \/ RequestRun(j) \/ LaunchManually(j)
    \/ Dequeue \/ Boot \/ Deploy
    \/ \E r \in Ids : \/ Retry(r) \/ Start(r) \/ End(r) \/ Monitor(r) \/ Purge(r)
                      \/ Hang(r) \/ Release(r) \/ Terminate(r) \/ Stalled(r)

Spec == Init /\ [][Next]_vars

(* The daemons loop, the monitor polls, the container boots, a process     *)
(* that does not hang ends.  A hung process need not ever go on, and the   *)
(* launcher need not be able to tell that a process is gone.               *)
Fairness ==
    /\ WF_vars(Dequeue) /\ WF_vars(Boot)
    /\ \A r \in Ids : /\ WF_vars(Retry(r)) /\ WF_vars(Start(r)) /\ WF_vars(End(r))
                      /\ WF_vars(Monitor(r)) /\ WF_vars(Purge(r))

FairSpec == Spec /\ Fairness

-----------------------------------------------------------------------------
(* Properties.                                                             *)

TypeOK ==
    /\ job \in [Ids -> Jobs]
    /\ kind \in [Ids -> {"scheduled", "manual", "retry"}]
    /\ status \in [Ids -> {Free} \cup InFlight \cup Terminal]
    /\ process \in [Ids -> {"none", "alive", "hung", "dead"}]
    /\ {queue[i] : i \in DOMAIN queue} = {r \in Ids : status[r] = "QUEUED"}
    /\ Len(queue) = Cardinality({r \in Ids : status[r] = "QUEUED"})
    /\ ticking \subseteq Jobs
    /\ pending \subseteq {r \in Ids : status[r] = "FAILURE"}
    /\ orphans \subseteq Ids
    /\ container \in {"up", "booting", "cleaning"}

\* However slow a job is, its schedule adds no second run to the one it has
\* waiting or under way ("runs used to pile up"); what else is queued was
\* launched by hand or is a retry.
NoPileUp ==
    \A j \in Tagged :
        Cardinality({r \in Having(InFlight, j) : kind[r] = "scheduled"}) <= 1

Live(r) == process[r] \in {"alive", "hung"}
Abandoned(r) == Live(r) /\ status[r] \notin InProgress

\* Two processes of one serial job work side by side only if a timeout ended
\* the run of one of them in the database alone: not through manual runs,
\* retries, or a restart of the container.
SerialButForTimeouts ==
    \A q, r \in Ids :
        q # r /\ job[q] = job[r] /\ job[q] \in Tagged /\ Live(q) /\ Live(r)
            => Abandoned(q) \/ Abandoned(r)

\* A restart cancels no queued run: the runs it ends had begun.
QueueSurvivesRestart ==
    [][\A r \in Ids : status[r] = "QUEUED" /\ container # "up" => status'[r] = "QUEUED"]_vars

\* Runs without dagster/max_runtime hold every slot.
Occupied == Cardinality({r \in Running : job[r] \notin Tagged}) >= MaxConcurrent

\* Every run of a serial job comes to an end, hung or orphaned, so its
\* schedule is never skipped for ever: unless runs of the DuckLake job, which
\* nothing ends when they hang, hold every slot.
RunsEnd ==
    \A r \in Ids :
        status[r] \in InFlight /\ job[r] \in Tagged ~> status[r] \in Terminal \/ Occupied

\* "queues those instead of letting them run over an in-progress sync".
Serial ==
    \A q, r \in Ids :
        q # r /\ job[q] = job[r] /\ job[q] \in Tagged => ~(Live(q) /\ Live(r))
=============================================================================
