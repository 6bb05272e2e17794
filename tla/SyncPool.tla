------------------------------ MODULE SyncPool ------------------------------
(***************************************************************************)
(* The worker pool of the DuckLake sync (_ducklake_sync_impl and           *)
(* sync_worker_loop of orpheus_engine/defs/ducklake/definitions.py).  The  *)
(* main thread fills a queue with the tables, starts the workers and joins *)
(* them; a worker takes a table, makes sure of its Postgres connection,    *)
(* syncs the table, syncs it once more if the connection was lost on the   *)
(* way, and appends a result.  Termination signals run a handler on the    *)
(* main thread, which may itself be interrupted by another signal.         *)
(*                                                                         *)
(* What a sync does to a table is module TableSync; here it has an         *)
(* outcome.  Sections of a worker under the lock of the progress object    *)
(* are single steps, taken when no handler holds that lock.                *)
(***************************************************************************)
EXTENDS Naturals, Sequences, FiniteSets

CONSTANTS
    Tables,       \* what get_all_tables found
    Workers,
    MaxOutages,   \* bound: how often the warehouse goes away
    MaxDrops,     \* bound: single connections it drops
    MaxDeaths,    \* bound: failures of get_ducklake_connection
    MaxSignals,   \* bound: SIGTERM and SIGINT received
    MaxFaults,    \* bound: all of these together
    Null

ASSUME PoolAssumption ==
    /\ Tables # {} /\ IsFiniteSet(Tables)
    /\ Workers # {} /\ IsFiniteSet(Workers)
    /\ Null \notin Tables

ASSUME BoundsAssumption ==
    {MaxOutages, MaxDrops, MaxDeaths, MaxSignals, MaxFaults} \subseteq Nat

VARIABLES
    queue,     \* table_queue
    pc,        \* where each worker is
    table,     \* the table a worker has, or Null
    pg,        \* its Postgres connection
    again,     \* it is on its second try of the table
    outcome,   \* stats of its last try
    status,    \* progress.tables[t].status
    results,   \* how many results each table has
    marked,    \* how often each table is in progress.tables_completed
    stop,      \* stop_workers and terminated
    handler,   \* frames of the signal handler on the main thread's stack
    main,      \* where the main thread is below them
    up,        \* the warehouse accepts connections
    faults     \* what has gone wrong so far, by kind

workerVars == <<pc, table, pg, again, outcome>>
reportVars == <<status, results, marked>>
envVars == <<up, faults>>
vars == <<queue, workerVars, reportVars, stop, handler, main, envVars>>

Running == {"loop", "get", "empty", "took", "sync", "syncing", "after", "record"}
Gone == {"left", "died"}
Phases == {"start", "attach", "leaving"} \cup Running \cup Gone
Connections == {"none", "open", "broken", "closed"}
Outcomes == {"none", "ok", "missing", "error"}
Frames == {"flags", "lock", "interrupt", "drain"}
Kinds == {"outage", "drop", "death", "signal"}

\* No frame of the handler holds progress.lock.
LockFree == \A i \in DOMAIN handler : handler[i] # "interrupt"
Top == handler[Len(handler)]
Elements(seq) == {seq[i] : i \in DOMAIN seq}

Init ==
    /\ \E order \in [1 .. Cardinality(Tables) -> Tables] :
           /\ Elements(order) = Tables
           /\ queue = order
    /\ pc = [w \in Workers |-> "start"]
    /\ table = [w \in Workers |-> Null]
    /\ pg = [w \in Workers |-> "none"]
    /\ again = [w \in Workers |-> FALSE]
    /\ outcome = [w \in Workers |-> "none"]
    /\ status = [t \in Tables |-> "pending"]
    /\ results = [t \in Tables |-> 0]
    /\ marked = [t \in Tables |-> 0]
    /\ stop = FALSE
    /\ handler = << >>
    /\ main = "joining"
    /\ up = TRUE
    /\ faults = [k \in Kinds |-> 0]

-----------------------------------------------------------------------------
(* The warehouse: it goes away, taking every connection along, comes back, *)
(* and drops single connections.  A worker learns of it at its next query. *)

CanStill(kind, bound) ==
    /\ faults[kind] < bound
    /\ faults["outage"] + faults["drop"] + faults["death"] + faults["signal"] < MaxFaults

Broken(c) == IF c = "open" THEN "broken" ELSE c

Outage ==
    /\ up /\ CanStill("outage", MaxOutages)
    /\ up' = FALSE
    /\ faults' = [faults EXCEPT !["outage"] = @ + 1]
    /\ pg' = [w \in Workers |-> Broken(pg[w])]
    /\ UNCHANGED <<queue, pc, table, again, outcome, reportVars, stop, handler, main>>

Restore ==
    /\ ~up
    /\ up' = TRUE
    /\ UNCHANGED <<queue, workerVars, reportVars, stop, handler, main, faults>>

DropConnection(w) ==
    /\ pg[w] = "open" /\ CanStill("drop", MaxDrops)
    /\ pg' = [pg EXCEPT ![w] = "broken"]
    /\ faults' = [faults EXCEPT !["drop"] = @ + 1]
    /\ UNCHANGED <<queue, pc, table, again, outcome, reportVars, stop, handler, main, up>>

-----------------------------------------------------------------------------
(* A worker.                                                               *)

GoTo(w, phase) == pc' = [pc EXCEPT ![w] = phase]

\* get_warehouse_connection_with_retry: None when the outage outlasts it.
Connect(w) == pg' = [pg EXCEPT ![w] = IF up THEN "open" ELSE "none"]

Start(w) ==
    /\ pc[w] = "start"
    /\ Connect(w)
    /\ GoTo(w, "attach")
    /\ UNCHANGED <<queue, table, again, outcome, reportVars, stop, handler, main, envVars>>

Attach(w) ==
    /\ pc[w] = "attach" /\ LockFree
    /\ GoTo(w, "loop")
    /\ UNCHANGED <<queue, table, pg, again, outcome, reportVars, stop, handler, main, envVars>>

\* get_ducklake_connection raises: the exception ends the thread.
Die(w) ==
    /\ pc[w] = "attach" /\ LockFree /\ CanStill("death", MaxDeaths)
    /\ GoTo(w, "died")
    /\ pg' = [pg EXCEPT ![w] = "none"]
    /\ faults' = [faults EXCEPT !["death"] = @ + 1]
    /\ UNCHANGED <<queue, table, again, outcome, reportVars, stop, handler, main, up>>

CheckStop(w) ==
    /\ pc[w] = "loop"
    /\ GoTo(w, IF stop THEN "leaving" ELSE "get")
    /\ UNCHANGED <<queue, table, pg, again, outcome, reportVars, stop, handler, main, envVars>>

Take(w) ==
    /\ pc[w] = "get" /\ queue # << >>
    /\ table' = [table EXCEPT ![w] = Head(queue)]
    /\ queue' = Tail(queue)
    /\ again' = [again EXCEPT ![w] = FALSE]
    /\ GoTo(w, "took")
    /\ UNCHANGED <<pg, outcome, reportVars, stop, handler, main, envVars>>

GetTimesOut(w) ==
    /\ pc[w] = "get" /\ queue = << >>
    /\ GoTo(w, "empty")
    /\ UNCHANGED <<queue, table, pg, again, outcome, reportVars, stop, handler, main, envVars>>

\* Slip: an empty queue is waited on until a signal comes.
RecheckStop(w) ==
    /\ pc[w] = "empty"
    /\ GoTo(w, IF stop THEN "leaving" ELSE "loop")
    /\ UNCHANGED <<queue, table, pg, again, outcome, reportVars, stop, handler, main, envVars>>

Recheck(w) ==
    /\ pc[w] = "empty"
    /\ GoTo(w, IF stop \/ queue = << >> THEN "leaving" ELSE "loop")
    /\ UNCHANGED <<queue, table, pg, again, outcome, reportVars, stop, handler, main, envVars>>

\* The connection is fine, or could be opened again.
EnsureConnection(w) ==
    /\ pc[w] = "took"
    /\ IF pg[w] \in {"none", "closed"}
       THEN up /\ Connect(w)
       ELSE pg' = pg
    /\ GoTo(w, "sync")
    /\ UNCHANGED <<queue, table, again, outcome, reportVars, stop, handler, main, envVars>>

\* Slip: the table is let go before it is put back.
RequeueNothing(w) ==
    /\ pc[w] = "took" /\ pg[w] \in {"none", "closed"} /\ ~up
    /\ Connect(w)
    /\ queue' = Append(queue, Null)
    /\ table' = [table EXCEPT ![w] = Null]
    /\ GoTo(w, "loop")
    /\ UNCHANGED <<again, outcome, reportVars, stop, handler, main, envVars>>

\* Slip: the table is put back and synced too.
RequeueAndSync(w) ==
    /\ pc[w] = "took" /\ pg[w] \in {"none", "closed"} /\ ~up
    /\ Connect(w)
    /\ queue' = Append(queue, table[w])
    /\ GoTo(w, "sync")
    /\ UNCHANGED <<table, again, outcome, reportVars, stop, handler, main, envVars>>

\* Slip: the worker goes on without the table.
RequeueForgotten(w) ==
    /\ pc[w] = "took" /\ pg[w] \in {"none", "closed"} /\ ~up
    /\ Connect(w)
    /\ table' = [table EXCEPT ![w] = Null]
    /\ GoTo(w, "loop")
    /\ UNCHANGED <<queue, again, outcome, reportVars, stop, handler, main, envVars>>

\* Slip: the worker puts the table back and gives up instead of backing off.
RequeueAndLeave(w) ==
    /\ pc[w] = "took" /\ pg[w] \in {"none", "closed"} /\ ~up
    /\ Connect(w)
    /\ queue' = Append(queue, table[w])
    /\ table' = [table EXCEPT ![w] = Null]
    /\ GoTo(w, "leaving")
    /\ UNCHANGED <<again, outcome, reportVars, stop, handler, main, envVars>>

Requeue(w) ==
    /\ pc[w] = "took" /\ pg[w] \in {"none", "closed"} /\ ~up
    /\ Connect(w)
    /\ queue' = Append(queue, table[w])
    /\ table' = [table EXCEPT ![w] = Null]
    /\ GoTo(w, "loop")
    /\ UNCHANGED <<again, outcome, reportVars, stop, handler, main, envVars>>

\* Slip: an error leaves the status alone.
MarkGoodOnly(t, s) ==
    /\ LockFree
    /\ status' = IF s = "error" THEN status ELSE [status EXCEPT ![t] = s]
    /\ marked' = [marked EXCEPT ![t] = @ + 1]
    /\ UNCHANGED results

\* progress.mark_completed and progress.mark_skipped.
Mark(t, s) ==
    /\ LockFree
    /\ status' = [status EXCEPT ![t] = s]
    /\ marked' = [marked EXCEPT ![t] = @ + 1]
    /\ UNCHANGED results

\* The table has no _row_hash column: skipped, with an error in the stats.
SkipTable(w) ==
    /\ pc[w] = "sync" /\ pg[w] = "open"
    /\ Mark(table[w], "skipped")
    /\ outcome' = [outcome EXCEPT ![w] = "missing"]
    /\ GoTo(w, "after")
    /\ UNCHANGED <<queue, table, pg, again, stop, handler, main, envVars>>

BeginTable(w) ==
    /\ pc[w] = "sync" /\ pg[w] = "open" /\ LockFree
    /\ status' = [status EXCEPT ![table[w]] = "syncing"]
    /\ GoTo(w, "syncing")
    /\ UNCHANGED <<queue, table, pg, again, outcome, results, marked, stop, handler, main,
                   envVars>>

\* The sync changed rows, or found the table in sync or without hashes.
FinishTable(w, s) ==
    /\ pc[w] = "syncing"
    /\ s \in {"completed", "skipped"}
    /\ Mark(table[w], s)
    /\ outcome' = [outcome EXCEPT ![w] = "ok"]
    /\ GoTo(w, "after")
    /\ UNCHANGED <<queue, table, pg, again, stop, handler, main, envVars>>

\* Any exception: the rollback that follows notices a dropped connection.
FailTable(w) ==
    /\ pc[w] = "syncing" \/ (pc[w] = "sync" /\ pg[w] = "broken")
    /\ Mark(table[w], "error")
    /\ pg' = [pg EXCEPT ![w] = IF @ = "broken" THEN "closed" ELSE @]
    /\ outcome' = [outcome EXCEPT ![w] = "error"]
    /\ GoTo(w, "after")
    /\ UNCHANGED <<queue, table, again, stop, handler, main, envVars>>

\* TerminatedException or InterruptException: no result, the worker leaves.
Interrupted(w) ==
    /\ pc[w] = "syncing" /\ stop
    /\ Mark(table[w], "error")
    /\ table' = [table EXCEPT ![w] = Null]
    /\ GoTo(w, "leaving")
    /\ UNCHANGED <<queue, pg, again, outcome, stop, handler, main, envVars>>

LostConnection(w) == outcome[w] \in {"error", "missing"} /\ pg[w] = "closed"

\* Slip: a table is tried until its connection lives.
RetryForEver(w) ==
    /\ pc[w] = "after"
    /\ IF LostConnection(w)
       THEN Connect(w) /\ GoTo(w, IF up THEN "sync" ELSE "record")
       ELSE GoTo(w, "record") /\ UNCHANGED pg
    /\ UNCHANGED <<queue, table, again, outcome, reportVars, stop, handler, main, envVars>>

AfterTable(w) ==
    /\ pc[w] = "after"
    /\ IF LostConnection(w) /\ ~again[w]
       THEN /\ Connect(w)
            /\ again' = [again EXCEPT ![w] = up]
            /\ GoTo(w, IF up THEN "sync" ELSE "record")
       ELSE GoTo(w, "record") /\ UNCHANGED <<pg, again>>
    /\ UNCHANGED <<queue, table, outcome, reportVars, stop, handler, main, envVars>>

Record(w) ==
    /\ pc[w] = "record"
    /\ results' = [results EXCEPT ![table[w]] = @ + 1]
    /\ table' = [table EXCEPT ![w] = Null]
    /\ GoTo(w, "loop")
    /\ UNCHANGED <<queue, pg, again, outcome, status, marked, stop, handler, main, envVars>>

Leave(w) ==
    /\ pc[w] = "leaving" /\ LockFree
    /\ GoTo(w, "left")
    /\ pg' = [pg EXCEPT ![w] = "none"]
    /\ UNCHANGED <<queue, table, again, outcome, reportVars, stop, handler, main, envVars>>

WorkerStep(w) ==
    \/ Start(w) \/ Attach(w) \/ Die(w) \/ CheckStop(w) \/ Take(w) \/ GetTimesOut(w)
    \/ Recheck(w) \/ EnsureConnection(w) \/ Requeue(w) \/ SkipTable(w) \/ BeginTable(w)
    \/ (\E s \in {"completed", "skipped"} : FinishTable(w, s))
    \/ FailTable(w) \/ Interrupted(w) \/ AfterTable(w) \/ Record(w) \/ Leave(w)

-----------------------------------------------------------------------------
(* The main thread and handle_termination.                                 *)

\* The handlers are installed until the run is summed up.
Signal ==
    /\ main \in {"joining", "joined"} /\ CanStill("signal", MaxSignals)
    /\ handler' = Append(handler, "flags")
    /\ faults' = [faults EXCEPT !["signal"] = @ + 1]
    /\ UNCHANGED <<queue, workerVars, reportVars, stop, main, up>>

HandlerAt(frame) == handler # << >> /\ Top = frame
Frame(frame) == handler' = [handler EXCEPT ![Len(handler)] = frame]

SetFlags ==
    /\ HandlerAt("flags")
    /\ stop' = TRUE
    /\ Frame("lock")
    /\ UNCHANGED <<queue, workerVars, reportVars, main, envVars>>

AcquireLock ==
    /\ HandlerAt("lock") /\ LockFree
    /\ Frame("interrupt")
    /\ UNCHANGED <<queue, workerVars, reportVars, stop, main, envVars>>

\* interrupt_all_queries returns; what it interrupts is Interrupted.
ReleaseLock ==
    /\ HandlerAt("interrupt")
    /\ Frame("drain")
    /\ UNCHANGED <<queue, workerVars, reportVars, stop, main, envVars>>

Drain ==
    /\ HandlerAt("drain") /\ queue # << >>
    /\ queue' = Tail(queue)
    /\ UNCHANGED <<workerVars, reportVars, stop, handler, main, envVars>>

Return ==
    /\ HandlerAt("drain") /\ queue = << >>
    /\ handler' = SubSeq(handler, 1, Len(handler) - 1)
    /\ UNCHANGED <<queue, workerVars, reportVars, stop, main, envVars>>

Join ==
    /\ main = "joining" /\ handler = << >>
    /\ stop \/ \A w \in Workers : pc[w] \in Gone
    /\ main' = "joined"
    /\ UNCHANGED <<queue, workerVars, reportVars, stop, handler, envVars>>

Conclude ==
    /\ main = "joined" /\ handler = << >>
    /\ main' = IF stop THEN "terminated" ELSE "complete"
    /\ UNCHANGED <<queue, workerVars, reportVars, stop, handler, envVars>>

MainStep == SetFlags \/ AcquireLock \/ ReleaseLock \/ Drain \/ Return \/ Join \/ Conclude

Next ==
    \/ \E w \in Workers : WorkerStep(w) \/ DropConnection(w)
    \/ MainStep \/ Signal \/ Outage \/ Restore

Spec == Init /\ [][Next]_vars

(* Threads are scheduled, a query ends, and an outage does too.  Dying is  *)
(* never forced: Attach stays possible where Die is.                       *)
Fairness ==
    /\ \A w \in Workers : WF_vars(WorkerStep(w))
    /\ WF_vars(MainStep)
    /\ WF_vars(Restore)

FairSpec == Spec /\ Fairness

-----------------------------------------------------------------------------
(* Properties.                                                             *)

Busy == {table[w] : w \in Workers} \ {Null}
Reported == {t \in Tables : results[t] > 0}
SomeoneStayed == \E w \in Workers : pc[w] = "left"

TypeOK ==
    /\ queue \in Seq(Tables)
    /\ pc \in [Workers -> Phases]
    /\ table \in [Workers -> Tables \cup {Null}]
    /\ pg \in [Workers -> Connections]
    /\ again \in [Workers -> BOOLEAN]
    /\ outcome \in [Workers -> Outcomes]
    /\ status \in [Tables -> {"pending", "syncing", "completed", "skipped", "error"}]
    /\ results \in [Tables -> Nat]
    /\ marked \in [Tables -> Nat]
    /\ stop \in BOOLEAN
    /\ handler \in Seq(Frames)
    /\ main \in {"joining", "joined", "complete", "terminated"}
    /\ up \in BOOLEAN
    /\ faults \in [Kinds -> Nat]

\* A table is in one place: whatever is requeued, retried or drained, it is
\* never with two workers, nor with one and in the queue, nor queued after it
\* has its result (sync_worker_loop).
OnePlace ==
    /\ \A v, w \in Workers : table[v] = table[w] /\ table[v] # Null => v = w
    /\ \A i, j \in DOMAIN queue : queue[i] = queue[j] => i = j
    /\ Elements(queue) \cap Busy = {}
    /\ Reported \cap (Elements(queue) \cup Busy) = {}

\* A lost connection costs a table one more try and no second result
\* ("reconnect and retry it once").
TriedTwiceAtMost == \A t \in Tables : marked[t] <= 2 /\ results[t] <= 1

\* The status that goes with the outcome of a try.
Verdict(o) == CASE o = "ok" -> {"completed", "skipped"}
                [] o = "missing" -> {"skipped"}
                [] o = "error" -> {"error"}
                [] OTHER -> {}

\* A table gets its result with the status of its last try, that of the
\* worker that reports it, and keeps it whatever the other workers, a signal
\* or an outage do; no mark is added either.
ResultsAreFinal ==
    [][\A t \in Tables :
          /\ results'[t] # results[t] =>
                \E w \in Workers : table[w] = t /\ status'[t] \in Verdict(outcome[w])
          /\ results[t] > 0 =>
                UNCHANGED <<results[t], status[t], marked[t]>>]_vars

\* Until a signal stops the pool no table is forgotten: a worker that leaves
\* because the queue is empty leaves no requeued table behind.
NothingForgotten == ~stop => Tables \subseteq Elements(queue) \cup Busy \cup Reported

\* A run that completes with a worker that got as far as its loop has a
\* result for every table.
CompleteIsComplete == main = "complete" /\ SomeoneStayed => Reported = Tables

\* The pool is a bag of work (WorkBag).
Bag == INSTANCE WorkBag WITH
    todo <- Elements(queue),
    busy <- Busy,
    reported <- Reported,
    state <- CASE main = "complete" -> IF SomeoneStayed THEN "finished" ELSE "deserted"
               [] stop -> "cancelled"
               [] OTHER -> "open"
IsWorkBag == Bag!Spec

\* The run and every worker end, whether the tables are done or a signal
\* comes, however often the warehouse goes away and comes back.  Only a
\* signal within the handling of another can keep them: its handler waits
\* for the lock, which is not reentrant, that the one below it holds.
EveryoneLeaves ==
    \/ <>(main \in {"complete", "terminated"} /\ \A w \in Workers : pc[w] \in Gone)
    \/ <>[](HandlerAt("lock") /\ ~LockFree)

\* "DUCKLAKE SYNC COMPLETE!" is said of a run that left no table pending.
CompleteMeansReported == main = "complete" => Reported = Tables
=============================================================================
