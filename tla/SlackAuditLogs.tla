--------------------------- MODULE SlackAuditLogs ---------------------------
(***************************************************************************)
(* slack_audit_logs: the Enterprise Grid audit log, read page by page from *)
(* the newest event to the oldest, every page committed by itself, and a   *)
(* flag that says whether the whole history was ever read.  An event is    *)
(* the second it was created at (the boundary second of a query is Slack's *)
(* affair).                                                                *)
(***************************************************************************)
EXTENDS Naturals, FiniteSetsExt

CONSTANTS
    Events,      \* 1 .. n, in the order Slack creates them
    PageSize,    \* the "limit" of get_audit_logs_page
    MaxFaults    \* bound on runs that end early

VARIABLES
    now,         \* the newest event of the log at Slack
    rows,        \* slack.audit_logs
    backfilled,  \* slack._audit_logs_sync_state: backfill_complete
    pc,          \* "idle" or "paging"
    mode,        \* what the run read of the flag when it began
    oldest,      \* the high-water mark of the run; 0 stands for None
    cursor,      \* the next page holds events below this one
    faults,
    torn         \* history: the holes left by incremental runs cut short

vars == <<now, rows, backfilled, pc, mode, oldest, cursor, faults, torn>>

HighWater == Max(rows \cup {0})

(* What Slack still has for the query: events after oldest, below the      *)
(* cursor.  An event created while the pages are read lies above it.       *)
Remaining == {e \in Events : oldest < e /\ e < cursor}

(* get_audit_logs_page: newest first; a 429 is waited out and retried.     *)
Page == {e \in Remaining : Cardinality({f \in Remaining : f > e}) < PageSize}

Init ==
    /\ now = 0 /\ rows = {} /\ backfilled = FALSE
    /\ pc = "idle" /\ mode = FALSE /\ oldest = 0 /\ cursor = 0
    /\ faults = 0 /\ torn = {}

(* An audited action somewhere in the Slack organization.                  *)
Occur ==
    /\ now + 1 \in Events
    /\ now' = now + 1
    /\ UNCHANGED <<rows, backfilled, pc, mode, oldest, cursor, faults, torn>>

StartFromNewest == \* slip: a backfill goes on from the newest row
    /\ pc = "idle"
    /\ pc' = "paging" /\ mode' = backfilled
    /\ oldest' = HighWater /\ cursor' = now + 1
    /\ UNCHANGED <<now, rows, backfilled, faults, torn>>

(* The asset starts: it reads the flag and, once the history is in, asks   *)
(* for nothing older than the newest row.                                  *)
Start ==
    /\ pc = "idle"
    /\ pc' = "paging" /\ mode' = backfilled
    /\ oldest' = IF backfilled THEN HighWater ELSE 0
    /\ cursor' = now + 1
    /\ UNCHANGED <<now, rows, backfilled, faults, torn>>

(* One turn of the loop: the page is upserted and committed                *)
(* (_upsert_audit_logs_batch, ON CONFLICT DO NOTHING); without a next      *)
(* cursor the run ends, and a backfill records that it is complete.        *)
ReadPage ==
    /\ pc = "paging"
    /\ rows' = rows \cup Page
    /\ IF Remaining = Page
       THEN /\ pc' = "idle" /\ cursor' = 0
            /\ backfilled' = TRUE
       ELSE /\ cursor' = Min(Page)
            /\ UNCHANGED <<pc, backfilled>>
    /\ UNCHANGED <<now, mode, oldest, faults, torn>>

(* An API error, a timeout, a lost connection, or the end of the run's     *)
(* process: the pages committed stay.                                      *)
Interrupt ==
    /\ pc = "paging" /\ faults < MaxFaults
    /\ pc' = "idle" /\ cursor' = 0 /\ faults' = faults + 1
    /\ torn' = IF mode /\ HighWater > oldest THEN torn \cup Remaining ELSE torn
    /\ UNCHANGED <<now, rows, backfilled, mode, oldest>>

Next == Occur \/ Start \/ ReadPage \/ Interrupt

Spec == Init /\ [][Next]_vars

-----------------------------------------------------------------------------

TypeOK ==
    /\ now \in Events \cup {0} /\ rows \subseteq Events
    /\ {backfilled, mode} \subseteq BOOLEAN
    /\ pc \in {"idle", "paging"}
    /\ oldest \in Events \cup {0} /\ cursor \in 0 .. now + 1
    /\ faults \in 0 .. MaxFaults /\ torn \subseteq Events

(* Once the flag is set, what lies below the newest row is all there,      *)
(* except in the part of the log the run under way is about to read and in *)
(* what an incremental run that stored its newest pages and then ended     *)
(* early had still to read: no later run asks for that.  A backfill cut    *)
(* short leaves no hole, it starts over from the newest event.             *)
NoHoles ==
    backfilled =>
        \A e \in Events : e < HighWater =>
            e \in rows \/ e \in torn \/ (pc = "paging" /\ e \in Remaining)

(* Every event is stored in the end, or lost in such a hole.               *)
Archived == \A e \in Events : [](now >= e => <>(e \in rows \/ e \in torn))
=============================================================================
