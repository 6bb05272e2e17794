------------------------------- MODULE Fillout -------------------------------
(***************************************************************************)
(* fillout_sync: a pool of threads reads forms and their submissions page  *)
(* by page into one WriteQueue, which upserts full buffers stamped with    *)
(* the run; rows without the stamp are deleted if every form succeeded.    *)
(***************************************************************************)
EXTENDS Integers, FiniteSets

CONSTANTS
    Forms,
    Ids,           \* of submissions, in the order the API lists them
    PageSize,
    FormsFlush, SubmissionsFlush,    \* thresholds
    MaxChanges, MaxFaults

VARIABLES
    forms,         \* form -> ids of its submissions at Fillout
    gone,          \* forms deleted at Fillout
    formRows,      \* form -> "none", "bare" (no question catalogue), "full"
    subRows,       \* form -> ids stored
    formStamps, subStamps,      \* rows stamped by this run
    formBuf, subBuf,            \* _forms_buf, _subs_buf
    listed,        \* forms of this run
    pc,            \* "idle", "pool" or "sweep"
    at,            \* form -> "queued", "stream", "done" or "failed"
    offset,
    changes, faults,
    shifted        \* history: during the run a form or a submission went
                   \* away, or an answer came without its list

vars == <<forms, gone, formRows, subRows, formStamps, subStamps, formBuf, subBuf, listed, pc, at,
          offset, changes, faults, shifted>>
api == <<forms, gone, changes, shifted>>
tables == <<formRows, subRows, formStamps, subStamps>>
buffers == <<formBuf, subBuf>>

Page(f) == {i \in forms[f] : Cardinality({j \in forms[f] : j < i}) - offset[f] \in 0 .. PageSize - 1}
NoRows == [f \in Forms |-> {}]

Init ==
    /\ forms = [f \in Forms |-> Ids] /\ gone = {}
    /\ formRows = [f \in Forms |-> "full"] /\ subRows = forms
    /\ formStamps = {} /\ subStamps = NoRows /\ formBuf = {} /\ subBuf = {}
    /\ listed = {} /\ pc = "idle" /\ at = [f \in Forms |-> "done"] /\ offset = [f \in Forms |-> 0]
    /\ changes = 0 /\ faults = 0 /\ shifted = FALSE

DeleteSubmission(f, i) ==
    /\ changes < MaxChanges /\ changes' = changes + 1 /\ i \in forms[f]
    /\ forms' = [forms EXCEPT ![f] = @ \ {i}]
    /\ shifted' = (shifted \/ pc # "idle")
    /\ UNCHANGED <<gone, tables, buffers, listed, pc, at, offset, faults>>

DeleteForm(f) ==
    /\ changes < MaxChanges /\ changes' = changes + 1 /\ f \notin gone
    /\ gone' = gone \cup {f} /\ forms' = [forms EXCEPT ![f] = {}]
    /\ shifted' = (shifted \/ pc # "idle")
    /\ UNCHANGED <<tables, buffers, listed, pc, at, offset, faults>>

-----------------------------------------------------------------------------
(* WriteQueue.  The lock is held from the push to the commit, so that a    *)
(* push and the flush it brings are one step.  A buffer is emptied before  *)
(* its rows are committed.                                                 *)

Over(B, n) == Cardinality(B) > n \* slip: > for >=
Full(B, n) == Cardinality(B) >= n

Keeping(f, metadata) == IF metadata = "bare" /\ formRows[f] = "full" THEN "full" ELSE metadata

UpsertForms(B) ==
    /\ formRows' = [f \in Forms |-> IF \E b \in B : b.form = f
                                    THEN Keeping(f, (CHOOSE b \in B : b.form = f).metadata)
                                    ELSE formRows[f]]
    /\ formStamps' = formStamps \cup {b.form : b \in B}

UpsertSubmissions(B) ==
    /\ subRows' = [f \in Forms |-> subRows[f] \cup {b.id : b \in {c \in B : c.form = f}}]
    /\ subStamps' = [f \in Forms |-> subStamps[f] \cup {b.id : b \in {c \in B : c.form = f}}]

-----------------------------------------------------------------------------

(* The list of forms fails: the asset fails.  Otherwise it is complete.    *)
ListForms ==
    /\ pc = "idle" /\ pc' = "pool"
    /\ listed' = Forms \ gone
    /\ at' = [f \in Forms |-> IF f \in gone THEN "done" ELSE "queued"]
    /\ offset' = [f \in Forms |-> 0]
    /\ formStamps' = {} /\ subStamps' = NoRows /\ shifted' = FALSE
    /\ UNCHANGED <<forms, gone, formRows, subRows, buffers, changes, faults>>

(* Metadata that cannot be read leaves a form with the fields of the list. *)
PushForm(f) ==
    /\ pc = "pool" /\ at[f] = "queued"
    /\ \E m \in {"full", "bare"} :
       LET B == formBuf \cup {[form |-> f, metadata |-> m]}
       IN  /\ m = "bare" => faults < MaxFaults \/ f \in gone
           /\ faults' = IF m = "bare" /\ f \notin gone THEN faults + 1 ELSE faults
           /\ m = "full" => f \notin gone
           /\ IF Full(B, FormsFlush)
              THEN UpsertForms(B) /\ formBuf' = {}
              ELSE formBuf' = B /\ UNCHANGED <<formRows, formStamps>>
    /\ at' = [at EXCEPT ![f] = "stream"]
    /\ UNCHANGED <<api, subRows, subStamps, subBuf, listed, pc, offset>>

(* A page of a form that is still there.                                   *)
PushPage(f) ==
    /\ pc = "pool" /\ at[f] = "stream" /\ f \notin gone
    /\ LET B == subBuf \cup {[form |-> f, id |-> i] : i \in Page(f)}
       IN  IF Full(B, SubmissionsFlush)
           THEN UpsertSubmissions(B) /\ subBuf' = {}
           ELSE subBuf' = B /\ UNCHANGED <<subRows, subStamps>>
    /\ IF Cardinality(Page(f)) < PageSize
       THEN at' = [at EXCEPT ![f] = "done"] /\ offset' = offset
       ELSE at' = at /\ offset' = [offset EXCEPT ![f] = @ + PageSize]
    /\ UNCHANGED <<api, formRows, formStamps, formBuf, listed, pc, faults>>

(* An answer without a list of responses is taken for the last page.       *)
PageWithoutList(f) ==
    /\ pc = "pool" /\ at[f] = "stream" /\ f \notin gone
    /\ faults < MaxFaults /\ faults' = faults + 1
    /\ at' = [at EXCEPT ![f] = "done"] /\ shifted' = TRUE
    /\ UNCHANGED <<forms, gone, changes, tables, buffers, listed, pc, offset>>

(* A request, or the flush its push brought: the rows of other forms in    *)
(* the buffer are lost with it, the error is this form's.                  *)
FailForm(f) ==
    /\ pc = "pool" /\ at[f] \in {"queued", "stream"}
    /\ at' = [at EXCEPT ![f] = "failed"]
    /\ \/ f \in gone /\ UNCHANGED <<buffers, faults>>
       \/ /\ faults < MaxFaults /\ faults' = faults + 1
          /\ \/ UNCHANGED buffers
             \/ at[f] = "queued" /\ Cardinality(formBuf) + 1 >= FormsFlush /\ formBuf' = {} /\ subBuf' = subBuf
             \/ /\ at[f] = "stream" /\ formBuf' = formBuf
                /\ Cardinality(subBuf) + Cardinality(Page(f)) >= SubmissionsFlush /\ subBuf' = {}
    /\ UNCHANGED <<api, tables, listed, pc, offset>>

(* flush_all, once every form is done or failed.                           *)
FlushAll ==
    /\ pc = "pool" /\ \A f \in Forms : at[f] \in {"done", "failed"}
    /\ UpsertForms(formBuf) /\ UpsertSubmissions(subBuf)
    /\ formBuf' = {} /\ subBuf' = {} /\ pc' = "sweep"
    /\ UNCHANGED <<api, listed, at, offset, faults>>

CanDeleteStale == \A f \in listed : at[f] # "failed"

(* delete_stale_rows, in one transaction.                                  *)
Sweep ==
    /\ pc = "sweep" /\ pc' = "idle"
    /\ IF CanDeleteStale
       THEN /\ subRows' = [f \in Forms |-> subRows[f] \cap subStamps[f]]
            /\ formRows' = [f \in Forms |-> IF f \in formStamps THEN formRows[f] ELSE "none"]
       ELSE UNCHANGED <<subRows, formRows>>
    /\ UNCHANGED <<api, formStamps, subStamps, buffers, listed, at, offset, faults>>

(* The list, the last flush or the deletion fails, or the run is killed.   *)
FailRun ==
    /\ pc # "idle" /\ faults < MaxFaults /\ faults' = faults + 1
    /\ pc' = "idle" /\ formBuf' = {} /\ subBuf' = {}
    /\ UNCHANGED <<api, tables, listed, at, offset>>

Next ==
    \/ \E f \in Forms : \/ \E i \in Ids : DeleteSubmission(f, i)
                        \/ DeleteForm(f) \/ PushForm(f) \/ PushPage(f)
                        \/ PageWithoutList(f) \/ FailForm(f)
    \/ ListForms \/ FlushAll \/ Sweep \/ FailRun

Spec == Init /\ [][Next]_vars

-----------------------------------------------------------------------------

TypeOK ==
    /\ gone \subseteq Forms /\ listed \subseteq Forms /\ formStamps \subseteq Forms
    /\ \A f \in Forms : /\ forms[f] \cup subRows[f] \cup subStamps[f] \subseteq Ids
                        /\ formRows[f] \in {"none", "bare", "full"}
                        /\ at[f] \in {"queued", "stream", "done", "failed"}
    /\ formBuf \subseteq [form : Forms, metadata : {"bare", "full"}]
    /\ subBuf \subseteq [form : Forms, id : Ids]
    /\ Cardinality(formBuf) < FormsFlush /\ Cardinality(subBuf) < SubmissionsFlush
    /\ pc \in {"idle", "pool", "sweep"} /\ faults \in 0 .. MaxFaults

(* What is still at Fillout is not deleted, even if a buffer was lost with *)
(* rows of forms that succeeded; unless something was deleted at Fillout   *)
(* while the pages were read, or a page came without its list, which can   *)
(* hide rows for one run.                                                  *)
OnlyGoneDeleted ==
    [][~shifted =>
        \A f \in Forms : /\ subRows[f] \ subRows'[f] \subseteq Ids \ forms[f]
                         /\ formRows[f] # "none" /\ formRows'[f] = "none" => f \in gone]_vars

(* A form keeps its question catalogue when a run cannot read it again.    *)
CatalogueKept ==
    [][\A f \in Forms : formRows[f] = "full" => formRows'[f] # "bare"]_vars

(* A run that deletes leaves exactly what Fillout has, if nothing changed. *)
SweptExact ==
    [][pc = "sweep" /\ CanDeleteStale /\ pc' = "idle" /\ ~shifted /\ faults' = faults =>
        \A f \in Forms : subRows'[f] = forms[f] /\ (formRows'[f] = "none") = (f \in gone)]_vars
=============================================================================
