----------------------------- MODULE RowHashes ------------------------------
(* The row-hash pass over the warehouse.  Worker threads take tables from a  *)
(* queue; each opens a connection of its own, adds the hash columns, and     *)
(* hashes the rows whose hash is out of date batch by batch, passing over    *)
(* rows that another session has locked.  A termination signal stops the     *)
(* workers, cancels the queries of those that have registered a connection   *)
(* and drains the queue, while they go on in parallel.  Its handler runs on  *)
(* the main thread and takes a lock that is not reentrant: a signal may come *)
(* while another is handled.                                                 *)
EXTENDS Naturals, Sequences, FiniteSets, SequencesExt

CONSTANTS
    Tables,         \* the tables of the warehouse
    Rows,           \* the rows of a table
    Workers,        \* the worker threads
    BatchSize,      \* rows of a batch
    MaxEdits,       \* bound: transactions of other sessions
    MaxFaults       \* bound: errors and termination signals

None == ""          \* no table
Querying == {"alter", "count", "update"}
Final == {"completed", "skipped", "error"}

VARIABLES
    main,           \* the main thread: "idle", or "join" in a pass
    handler,        \* where each call of handle_termination on its stack is
    queue,          \* table_queue
    stop,           \* stop_workers
    pc, on,         \* what a worker is at, and with which table
    hit,            \* the workers whose running query has been cancelled
    status,         \* TableProgress.status
    stale,          \* table -> rows whose _row_hash is not that of the row
    writing,        \* table -> rows another session's transaction has locked
    touched,        \* table -> rows so locked since the pass altered it
    edits, faults

vars == <<main, handler, queue, stop, pc, on, hit, status, stale, writing,
          touched, edits, faults>>

TypeOK ==
    /\ main \in {"idle", "join"} /\ queue \in Seq(Tables)
    /\ handler \in Seq({"lock", "cancel", "drain"})
    /\ stop \in BOOLEAN /\ hit \subseteq Workers
    /\ pc \in [Workers -> {"done", "next", "fetch", "connect", "register",
                           "check"} \cup Querying]
    /\ on \in [Workers -> Tables \cup {None}]
    /\ status \in [Tables -> {"pending", "running"} \cup Final]
    /\ {stale, writing, touched} \subseteq [Tables -> SUBSET Rows]
    /\ edits \in 0 .. MaxEdits /\ faults \in 0 .. MaxFaults

Init ==
    /\ main = "idle" /\ handler = <<>> /\ queue = <<>> /\ stop = FALSE /\ hit = {}
    /\ pc = [w \in Workers |-> "done"] /\ on = [w \in Workers |-> None]
    /\ status = [t \in Tables |-> "pending"]
    /\ stale = [t \in Tables |-> Rows]
    /\ writing = [t \in Tables |-> {}] /\ touched = writing
    /\ edits = 0 /\ faults = 0

data == <<stale, writing, touched, edits>>

-----------------------------------------------------------------------------
(* The main thread.                                                          *)
Start ==
    /\ main = "idle" /\ main' = "join"
    /\ queue' = SetToSeq(Tables) /\ stop' = FALSE
    /\ pc' = [w \in Workers |-> "next"]
    /\ status' = [t \in Tables |-> "pending"]
    /\ UNCHANGED <<handler, on, hit, data, faults>>

(* All threads are joined, with no timeout.                                  *)
End ==
    /\ main = "join" /\ handler = <<>> /\ \A w \in Workers : pc[w] = "done"
    /\ main' = "idle"
    /\ UNCHANGED <<handler, queue, stop, pc, on, hit, status, data, faults>>

(* A signal calls handle_termination, within a call under way if need be.    *)
Terminate ==
    /\ main = "join" /\ faults < MaxFaults /\ faults' = faults + 1
    /\ stop' = TRUE /\ handler' = Append(handler, "lock")
    /\ UNCHANGED <<main, queue, pc, on, hit, status, data>>

HandlerAt(frame) == handler # <<>> /\ Last(handler) = frame
Frame(frame) == handler' = [handler EXCEPT ![Len(handler)] = frame]

(* No interrupted call holds progress.lock.                                  *)
LockFree == \A i \in DOMAIN handler : handler[i] # "cancel"

AcquireLock ==
    /\ HandlerAt("lock") /\ LockFree /\ Frame("cancel")
    /\ UNCHANGED <<main, queue, stop, pc, on, hit, status, data, faults>>

(* A cancel request reaches the query a registered connection runs just now, *)
(* and is lost on a connection between two queries.                          *)
Cancel ==
    /\ HandlerAt("cancel") /\ Frame("drain")
    /\ \E s \in SUBSET {w \in Workers : pc[w] \in Querying} : hit' = hit \cup s
    /\ UNCHANGED <<main, queue, stop, pc, on, status, data, faults>>

Drain ==
    /\ HandlerAt("drain")
    /\ IF queue = <<>> THEN handler' = Front(handler) /\ UNCHANGED queue
                       ELSE queue' = Tail(queue) /\ UNCHANGED handler
    /\ UNCHANGED <<main, stop, pc, on, hit, status, data, faults>>

Main == Start \/ End \/ AcquireLock \/ Cancel \/ Drain

-----------------------------------------------------------------------------
(* A worker.                                                                 *)
Goto(w, from, to) == pc[w] = from /\ pc' = [pc EXCEPT ![w] = to]

(* A result is recorded and the connection unregistered and closed.          *)
Record(w, s) ==
    /\ LockFree
    /\ status' = [status EXCEPT ![on[w]] = s]
    /\ pc' = [pc EXCEPT ![w] = "next"] /\ on' = [on EXCEPT ![w] = None]
    /\ hit' = hit \ {w}

Ask(w) ==
    /\ Goto(w, "next", IF stop THEN "done" ELSE "fetch")
    /\ UNCHANGED <<queue, on, status, stale, touched, hit>>

Take(w) ==
    /\ IF queue = <<>>
       THEN Goto(w, "fetch", "done") /\ UNCHANGED <<queue, on>>
       ELSE /\ Goto(w, "fetch", "connect")
            /\ on' = [on EXCEPT ![w] = Head(queue)] /\ queue' = Tail(queue)
    /\ UNCHANGED <<status, stale, touched, hit>>

(* The table is shown as running, and a connection opened.                   *)
Connect(w) ==
    /\ LockFree /\ Goto(w, "connect", "register")
    /\ status' = [status EXCEPT ![on[w]] = "running"]
    /\ UNCHANGED <<queue, on, stale, touched, hit>>

Register(w) ==
    /\ LockFree /\ Goto(w, "register", "alter")
    /\ UNCHANGED <<queue, on, status, stale, touched, hit>>

(* ALTER TABLE waits for every transaction that holds rows of the table.     *)
Alter(w) ==
    /\ w \notin hit /\ Goto(w, "alter", "count") /\ writing[on[w]] = {}
    /\ touched' = [touched EXCEPT ![on[w]] = {}]
    /\ UNCHANGED <<queue, on, status, stale, hit>>

Count(w) ==
    /\ w \notin hit /\ pc[w] = "count"
    /\ IF stale[on[w]] = {}
       THEN Record(w, "skipped")
       ELSE /\ LockFree /\ Goto(w, "count", "check")
            /\ UNCHANGED <<on, status, hit>>
    /\ UNCHANGED <<queue, stale, touched>>

(* Between two batches a worker looks whether it is to stop.                 *)
Check(w) ==
    /\ pc[w] = "check"
    /\ IF stop
       THEN Record(w, "error")
       ELSE Goto(w, "check", "update") /\ UNCHANGED <<on, status, hit>>
    /\ UNCHANGED <<queue, stale, touched>>

(* A batch, FOR UPDATE SKIP LOCKED, and its commit.                          *)
Batch(w) ==
    LET t == on[w]
        free == stale[t] \ writing[t]
        size == IF Cardinality(free) < BatchSize THEN Cardinality(free)
                                                 ELSE BatchSize
    IN  /\ w \notin hit /\ pc[w] = "update"
        /\ IF free = {}
           THEN Record(w, "completed") /\ UNCHANGED stale
           ELSE /\ \E b \in SUBSET free :
                      /\ Cardinality(b) = size
                      /\ stale' = [stale EXCEPT ![t] = @ \ b]
                /\ Goto(w, "update", "check") /\ UNCHANGED <<on, status, hit>>
        /\ UNCHANGED <<queue, touched>>

Cancelled(w) ==
    /\ w \in hit /\ Record(w, "error") /\ UNCHANGED <<queue, stale, touched>>

Work(w) ==
    /\ \/ Ask(w) \/ Take(w) \/ Connect(w) \/ Register(w) \/ Alter(w)
       \/ Count(w) \/ Check(w) \/ Batch(w) \/ Cancelled(w)
    /\ UNCHANGED <<main, handler, stop, writing, edits, faults>>

(* The connection cannot be opened, or a statement fails.                    *)
Fail(w) ==
    /\ pc[w] \in {"connect"} \cup Querying
    /\ faults < MaxFaults /\ faults' = faults + 1
    /\ Record(w, "error") /\ UNCHANGED <<main, handler, queue, stop, data>>

-----------------------------------------------------------------------------
(* Other sessions: a transaction locks rows and commits or rolls back.       *)
Write(t) ==
    /\ edits < MaxEdits /\ edits' = edits + 1 /\ writing[t] = {}
    /\ \E rows \in SUBSET Rows \ {{}} :
          /\ writing' = [writing EXCEPT ![t] = rows]
          /\ touched' = [touched EXCEPT ![t] = @ \cup rows]
    /\ UNCHANGED <<main, handler, queue, stop, pc, on, hit, status, stale,
                   faults>>

EndWrite(t) ==
    /\ writing[t] # {} /\ writing' = [writing EXCEPT ![t] = {}]
    /\ stale' \in {stale, [stale EXCEPT ![t] = @ \cup writing[t]]}
    /\ UNCHANGED <<main, handler, queue, stop, pc, on, hit, status, touched,
                   edits, faults>>

Next ==
    \/ Main \/ Terminate
    \/ \E w \in Workers : Work(w) \/ Fail(w)
    \/ \E t \in Tables : Write(t) \/ EndWrite(t)

(* The program's own threads are scheduled; other sessions end what they     *)
(* began.                                                                    *)
Spec ==
    /\ Init /\ [][Next]_vars
    /\ WF_vars(Main)
    /\ \A w \in Workers : WF_vars(Work(w))
    /\ \A t \in Tables : WF_vars(EndWrite(t))

-----------------------------------------------------------------------------
(* A table recorded as done, by a pass that may have been told to stop, has  *)
(* rows with an old hash only where another session was at work since the    *)
(* pass began with it.                                                       *)
HashedUnlessTouched ==
    \A t \in Tables :
        status[t] \in {"completed", "skipped"} => stale[t] \subseteq touched[t]

(* When the threads are joined each table has been recorded, unless the pass *)
(* was terminated; then those nobody took are pending and none is running.   *)
AllRecorded ==
    main = "idle" =>
        /\ \A t \in Tables : status[t] # "running"
        /\ stop \/ queue = <<>>
        /\ ~stop => \/ \A t \in Tables : status[t] = "pending"
                    \/ \A t \in Tables : status[t] # "pending"

(* The main thread waits for a lock that a call it interrupted holds.        *)
Stuck == HandlerAt("lock") /\ ~LockFree

(* The pass ends although its threads are joined without a timeout: a worker *)
(* that nobody cancelled waits no longer than other sessions take.  Only two *)
(* signals, the second within the handling of the first, can keep it.        *)
PassEnds == main # "idle" ~> (main = "idle" \/ Stuck)

(* Pass after pass every hash becomes that of its row, whatever was locked,  *)
(* cancelled or failed on the way, unless a pass hangs like this.            *)
HashesSettle == (\A t \in Tables : <>[](stale[t] = {})) \/ <>[]Stuck
=============================================================================
