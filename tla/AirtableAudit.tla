----------------------------- MODULE AirtableAudit ----------------------------
(* airtable_audit_log_events: pages in ascending order from the newest time  *)
(* the last successful run has seen, less an overlap, because an event shows *)
(* up some time after it happened.  That time is kept in the metadata of the *)
(* materialization, so a run that fails leaves the old one in force.         *)
EXTENDS Naturals, FiniteSets

CONSTANTS
    Events,         \* 1 to some number: the events there will be, in order
    Overlap,        \* OVERLAP
    MaxLag,         \* how late an event may show up
    BatchSize,      \* BATCH_SIZE
    MaxClock,       \* bound: the clock
    MaxFaults       \* bound: runs cut short

VARIABLES
    now,
    at,             \* when each event happened; absent: not yet
    visible,        \* the events the API shows
    stored,         \* the table
    mark,           \* latest_event_timestamp of the last run, or 0
    reading,        \* a run is under way
    began, start,   \* when it began, and the time it reads from
    cursor,         \* the events it has read
    batch,          \* read and not yet written
    due,            \* history: visible when the run began
    outrun,         \* history: not yet visible when a run began that took
                    \* longer than the overlap is beyond MaxLag
    faults

vars == <<now, at, visible, stored, mark, reading, began, start, cursor,
          batch, due, outrun, faults>>

Happened == DOMAIN at
Times(events) == {at[e] : e \in events}
Latest(events) == CHOOSE t \in Times(events) : \A u \in Times(events) : u <= t

TypeOK ==
    /\ now \in 1 .. MaxClock /\ Happened \subseteq Events
    /\ visible \subseteq Happened /\ stored \subseteq Happened
    /\ batch \subseteq cursor /\ cursor \subseteq visible
    /\ Cardinality(batch) < BatchSize
    /\ {mark, began, start} \subseteq 0 .. now /\ reading \in BOOLEAN
    /\ due \subseteq visible /\ outrun \subseteq Happened
    /\ faults \in 0 .. MaxFaults

Init ==
    /\ now = 1 /\ at = [e \in {} |-> 0] /\ visible = {} /\ stored = {}
    /\ mark = 0 /\ reading = FALSE /\ began = 0 /\ start = 0
    /\ cursor = {} /\ batch = {}
    /\ due = {} /\ outrun = {} /\ faults = 0

(* No event stays hidden for longer than MaxLag.                             *)
Tick ==
    /\ now < MaxClock
    /\ \A e \in Happened \ visible : now < at[e] + MaxLag
    /\ now' = now + 1
    /\ UNCHANGED <<at, visible, stored, mark, reading, began, start, cursor,
                   batch, due, outrun, faults>>

Happen(e) ==
    /\ e = Cardinality(Happened) + 1
    /\ at' = [x \in Happened \cup {e} |-> IF x = e THEN now ELSE at[x]]
    /\ UNCHANGED <<now, visible, stored, mark, reading, began, start, cursor,
                   batch, due, outrun, faults>>

Show(e) ==
    /\ e \in Happened \ visible
    /\ visible' = visible \cup {e}
    /\ UNCHANGED <<now, at, stored, mark, reading, began, start, cursor,
                   batch, due, outrun, faults>>

From(time) == IF time > Overlap THEN time - Overlap ELSE 0
Begin ==
    /\ ~ reading /\ reading' = TRUE /\ began' = now
    /\ start' = From(mark) /\ cursor' = {} /\ batch' = {}
    /\ due' = visible
    /\ UNCHANGED <<now, at, visible, stored, mark, outrun, faults>>

Unread == {e \in visible \ cursor : at[e] >= start
                                 /\ \A x \in cursor : at[x] <= at[e]}

(* The next event in ascending order; a full batch is written.               *)
Read(e) ==
    /\ reading /\ e \in Unread /\ \A x \in Unread : at[e] <= at[x]
    /\ cursor' = cursor \cup {e}
    /\ IF Cardinality(batch) + 1 = BatchSize
       THEN batch' = {} /\ stored' = stored \cup batch \cup {e}
       ELSE batch' = batch \cup {e} /\ UNCHANGED stored
    /\ UNCHANGED <<now, at, visible, mark, reading, began, start, due,
                   outrun, faults>>

(* The rest is written.  A run that saw no event leaves no mark.             *)
Finish ==
    /\ reading /\ Unread = {} /\ reading' = FALSE
    /\ stored' = stored \cup batch /\ batch' = {}
    /\ mark' = IF cursor = {} THEN 0 ELSE Latest(cursor)
    /\ outrun' = IF now + MaxLag > began + Overlap
                 THEN outrun \cup (Happened \ due) ELSE outrun
    /\ UNCHANGED <<now, at, visible, began, start, cursor, due, faults>>

Fail ==
    /\ reading /\ faults < MaxFaults /\ faults' = faults + 1
    /\ reading' = FALSE /\ batch' = {}
    /\ UNCHANGED <<now, at, visible, stored, mark, began, start, cursor, due,
                   outrun>>

Next ==
    \/ Tick \/ Begin \/ Finish \/ Fail
    \/ \E e \in Events : Happen(e) \/ Show(e) \/ Read(e)

Spec == Init /\ [][Next]_vars

-----------------------------------------------------------------------------
(* A run that finishes leaves in the table every event the API showed when   *)
(* it began, those that showed up late included, whichever runs were cut     *)
(* short before.  Only a run longer than the overlap allows for can lose     *)
(* some, and only of those it could not see when it began.                   *)
NoneMissed == [][Finish => due \ outrun \subseteq stored']_vars
=============================================================================
