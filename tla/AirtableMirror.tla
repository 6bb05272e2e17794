--------------------------- MODULE AirtableMirror ---------------------------
(* One field of an Airtable table on its way to the warehouse.  An asset     *)
(* fetches the records, picks a type for the column from what the field is   *)
(* declared as or else from the values, and casts them; a second asset may   *)
(* make dates of text and replaces the warehouse table.  A column keeps its  *)
(* type at the warehouse: dlt aborts a load that brings another one.         *)
EXTENDS Naturals, Sequences, FiniteSets

CONSTANTS
    Records,        \* the records, 1 .. n
    Kinds,          \* what the field may be declared as, "" for another type
    Cells,          \* the values of the field: sequences of scalars
    Sample,         \* SAMPLE_SIZE
    MaxEdits,       \* bound: edits at Airtable
    Null            \* an error or a special value

VARIABLES
    declared,       \* the kind that the field's declared type pins
    cells,          \* per record: none, one or several scalars
    frame,          \* the fetched frame: kind, rows, and the cells it is from
    table,          \* the warehouse table: rows, and the cells they are from
    column,         \* the type of its column
    aborted,        \* how the last load ended
    edits

vars == <<declared, cells, frame, table, column, aborted, edits>>

Number == [true |-> "1", false |-> "0", zero |-> "0", one |-> "1",
           two |-> "2", half |-> "0.5", textOne |-> "1"]
Numeric(s) == s \in DOMAIN Number
Whole(s) == Numeric(s) /\ s # "half"
Boolish(s) == s \in {"true", "false", "zero", "one"}

(* What a scalar stands for, whatever type it is cast to.                    *)
Meaning(s) == IF Numeric(s) THEN Number[s] ELSE s
\* What is known of a cell, each value in its place.
Meanings(cell) == [i \in {j \in DOMAIN cell : cell[j] # Null} |-> Meaning(cell[i])]

Types == {"list", "boolean", "integer", "float", "text", "date"}

TypeOK ==
    /\ declared \in Kinds /\ cells \in [Records -> Cells]
    /\ frame.kind \in (Types \ {"date"}) \cup {"none"}
    /\ table.kind \in Types \cup {"none"}
    /\ {frame.from, table.from} \subseteq [Records -> Cells]
    /\ {DOMAIN frame.rows, DOMAIN table.rows} = {Records}
    /\ column \in (Types \ {"list"}) \cup {"none"} /\ aborted \in BOOLEAN
    /\ edits \in 0 .. MaxEdits

Empty == [r \in Records |-> <<>>]
Init ==
    /\ declared \in Kinds
    /\ cells = Empty /\ column = "none" /\ aborted = FALSE /\ edits = 0
    /\ frame = [kind |-> "none", rows |-> Empty, from |-> Empty]
    /\ table = frame

(* A field holds what its declared type allows, or an error; a lookup        *)
(* several of them.                                                          *)
Allowed(s) ==
    \/ s = Null \/ declared = ""
    \/ declared = "boolean" /\ s \in {"true", "false"}
    \/ declared = "integer" /\ s \in {"zero", "one", "two"}
    \/ declared = "float" /\ s \in {"zero", "one", "two", "half"}

Edit(r, cell) ==
    /\ edits < MaxEdits /\ edits' = edits + 1
    /\ \A i \in 1 .. Len(cell) : Allowed(cell[i])
    /\ cells[r] # cell /\ cells' = [cells EXCEPT ![r] = cell]
    /\ UNCHANGED <<declared, frame, table, column, aborted>>

-----------------------------------------------------------------------------
(* The type of the column, by the values of the records.                     *)
Inferred ==
    LET values == {cells[r][1] : r \in {x \in Records : cells[x] # <<>>}}
        known == values \ {Null}
    IN  IF values = {} \/ \E s \in known : ~ Numeric(s) THEN "text"
        ELSE IF (\A s \in known : Boolish(s)) /\ Cardinality(known) <= 2
        THEN "boolean"
        ELSE IF \A s \in known : Whole(s) THEN "integer" ELSE "float"

Several == \E r \in Records : Len(cells[r]) > 1

KindByValues == IF Several THEN "list" ELSE Inferred
Kind == IF Several THEN "list"
        ELSE IF declared # "" THEN declared ELSE Inferred

(* A cast truncates to an integer, and takes any number but 0 for true.      *)
Cast(kind, s) ==
    CASE kind = "boolean" ->
            IF s \in {"false", "zero"} THEN "0" ELSE "1"
      [] kind = "integer" /\ s = "half" -> "0"
      [] OTHER -> Meaning(s)

(* A value that is no number is null in a column of numbers.                 *)
Castable(kind, s) == kind \in {"integer", "float"} => Numeric(s)
CastCell(kind, cell) ==
    [i \in {j \in DOMAIN cell : cell[j] # Null /\ Castable(kind, cell[j])}
        |-> Cast(kind, cell[i])]

Fetch ==
    /\ frame' = [kind |-> Kind, from |-> cells,
                 rows |-> [r \in Records |-> CastCell(Kind, cells[r])]]
    /\ UNCHANGED <<declared, cells, table, column, aborted, edits>>

-----------------------------------------------------------------------------
(* A text column whose first values are dates, nine out of ten, is a column  *)
(* of dates; what is none becomes null.                                      *)
Sampled == {frame.rows[r] : r \in {x \in Records :
                                      x <= Sample /\ frame.rows[x] # <<>>}}
IsDate(row) == row = <<"date">>
Dates ==
    /\ frame.kind = "text" /\ Sampled # {}
    /\ \A row \in Sampled : IsDate(row)
LoadedKind == IF Dates THEN "date" ELSE frame.kind

(* Several values go to a child table, where their type does not matter.     *)
Load ==
    /\ frame.kind # "none"
    /\ aborted' = (column # "none" /\ LoadedKind \notin {"list", column})
    /\ IF aborted' THEN UNCHANGED <<table, column>>
       ELSE /\ column' = IF LoadedKind = "list" THEN column ELSE LoadedKind
            /\ table' = [kind |-> LoadedKind, from |-> frame.from,
                         rows |-> [r \in Records |->
                                      IF Dates /\ ~ IsDate(frame.rows[r])
                                      THEN <<>> ELSE frame.rows[r]]]
    /\ UNCHANGED <<declared, cells, frame, edits>>

Next ==
    \/ Fetch \/ Load
    \/ \E r \in Records, cell \in Cells : Edit(r, cell)

Spec == Init /\ [][Next]_vars

-----------------------------------------------------------------------------
(* Whatever the values of a field with a pinned type happen to look like,    *)
(* its column never changes its type, so no load of it is aborted.           *)
PinnedNeverAborts == declared # "" => ~ aborted

(* Unless the first values of a text column look like dates, a row has what  *)
(* the record had, in whatever type: only errors become null.                *)
ValuesSurvive ==
    table.kind # "date" =>
        \A r \in Records : table.rows[r] = Meanings(table.from[r])
=============================================================================
