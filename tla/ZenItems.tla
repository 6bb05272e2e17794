------------------------------ MODULE ZenItems ------------------------------
(* The items of Zenventory: every run pages through them all and upserts   *)
(* those modified after the newest one it has.  Stamps are seconds, and    *)
(* items change while the pages are read.                                  *)
EXTENDS Naturals, Sequences, FiniteSetsExt, TLC

CONSTANTS
    Items,     \* 1 .. n, in the order the API lists them
    PerPage,
    MaxClock,  \* seconds
    MaxEdits,
    MaxFaults  \* requests that fail for good

VARIABLES
    now,
    items,     \* id -> when it was last modified, and its version
    table,     \* agh_fulfillment_zenventory.items
    page,      \* the next page to read, 0 between runs
    since,     \* max(modified_date) when the run began, {} for an empty table
    read,      \* the records fetched
    open,      \* items modified too late for the last run to tell
    edits, faults

vars == <<now, items, table, page, since, read, open, edits, faults>>

Pages == (Cardinality(DOMAIN items) + PerPage - 1) \div PerPage
Page(n) == {i \in DOMAIN items : (i - 1) \div PerPage = n - 1}

Record == [modified : 0 .. MaxClock, version : 0 .. MaxEdits]

TypeOK ==
    /\ now \in 0 .. MaxClock
    /\ DOMAIN items \subseteq Items /\ DOMAIN table \subseteq Items
    /\ \A i \in DOMAIN items : items[i] \in Record
    /\ \A i \in DOMAIN table : table[i] \in Record
    /\ page \in 0 .. Pages + 1 /\ since \subseteq 0 .. MaxClock
    /\ DOMAIN read \subseteq Items /\ open \subseteq Items
    /\ edits \in 0 .. MaxEdits /\ faults \in 0 .. MaxFaults

Init ==
    /\ now = 0 /\ items = [i \in {1} |-> [modified |-> 0, version |-> 0]]
    /\ table = <<>> /\ page = 0 /\ since = {} /\ read = <<>>
    /\ open = {} /\ edits = 0 /\ faults = 0

-----------------------------------------------------------------------------
\* A second passes; what changes from now on has a later stamp than all a
\* finished run has stored.
Tick ==
    /\ now < MaxClock
    /\ now' = now + 1
    /\ UNCHANGED <<items, table, page, since, read, open, edits, faults>>

(* An item is created, at the end of the list, or edited. *)
Edit(i) ==
    /\ edits < MaxEdits
    /\ i \in DOMAIN items \/ i = Cardinality(DOMAIN items) + 1
    /\ items' = (i :> [modified |-> now, version |-> edits + 1]) @@ items
    /\ open' = IF page > 0 \/ \E j \in DOMAIN table : table[j].modified = now
               THEN open \cup {i} ELSE open \ {i}
    /\ edits' = edits + 1
    /\ UNCHANGED <<now, table, page, since, read, faults>>

\* get_max_modified_date, when the run begins.
Newest == {Max({table[i].modified : i \in DOMAIN table}) : x \in DOMAIN table}

Begin ==
    /\ page = 0
    /\ page' = 1 /\ since' = Newest /\ read' = <<>>
    /\ UNCHANGED <<now, items, table, open, edits, faults>>

(* _paginate: the next page, up to the last there is by now. *)
ReadPage ==
    /\ page \in 1 .. Pages
    /\ read' = [i \in Page(page) |-> items[i]] @@ read
    /\ page' = page + 1
    /\ UNCHANGED <<now, items, table, since, open, edits, faults>>

New(r) == \A s \in since : r.modified > s

(* The pages are read: what is new is upserted in one transaction. *)
Upsert ==
    /\ page > Pages
    /\ table' = [i \in {j \in DOMAIN read : New(read[j])} |-> read[i]] @@ table
    /\ page' = 0
    /\ read' = <<>> /\ since' = {}
    /\ UNCHANGED <<now, items, open, edits, faults>>

(* A request fails after its retries: the run stores nothing. *)
Fail ==
    /\ page > 0 /\ faults < MaxFaults
    /\ page' = 0 /\ read' = <<>> /\ since' = {}
    /\ faults' = faults + 1
    /\ UNCHANGED <<now, items, table, open, edits>>

Next ==
    \/ Tick \/ Begin \/ ReadPage \/ Upsert \/ Fail
    \/ \E i \in Items : Edit(i)

Spec == Init /\ [][Next]_vars

-----------------------------------------------------------------------------
(* A run that finishes has stored every item as it is, or as an edit left  *)
(* it that came while pages were read or in the second of a stored stamp:  *)
(* no other change is passed over, whatever failed or changed before.      *)
ItemsTaken ==
    [][(page > 0 /\ page' = 0 /\ faults' = faults) =>
        \A i \in DOMAIN items \ open :
            i \in DOMAIN table' /\ table'[i] = items[i]]_vars
=============================================================================
