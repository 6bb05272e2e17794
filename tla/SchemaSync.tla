----------------------------- MODULE SchemaSync -----------------------------
(***************************************************************************)
(* The columns of one DuckLake table: sync_table_schema, backfill_columns  *)
(* and the order sync_table runs them in, ahead of the sync of the rows    *)
(* (module TableSync, one step here).  Every ALTER commits by itself, and  *)
(* the source may be altered or created anew at any moment.                *)
(*                                                                         *)
(* rowhash_128b covers the values of a row by position and not the names   *)
(* or the types of its columns, so a row's hash is the sequence of its     *)
(* values at the time of the hash pass.                                    *)
(***************************************************************************)
EXTENDS Naturals, Sequences, FiniteSets

CONSTANTS
    Keys,         \* rows of the table
    Names,        \* column names
    SourceTypes,  \* what pg_type_to_duckdb makes of the source's types
    LegacyJSON,   \* the logical type older lake tables have for VARCHAR
    VARCHAR,
    Values,
    Null,         \* SQL NULL, a missing column, a missing hash
    HasPK,        \* are rows matched by key, or by hash?
    Shuffles,     \* may a full refresh bring a column to a new position?
    MaxChanges,   \* bound on changes of the source
    MaxFaults     \* bound on crashes and errors

Types == SourceTypes \cup {LegacyJSON}
Cells == Values \cup {Null}

\* A row of the lake: its values by column, and the hash it was copied with.
Hashes == UNION {[1 .. n -> Cells] : n \in 1 .. Cardinality(Names)}
Rows == [val : [Names -> Cells], hash : Hashes]

ASSUME SchemaAssumption ==
    /\ {HasPK, Shuffles} \subseteq BOOLEAN
    /\ IsFiniteSet(Names)
    /\ VARCHAR \in SourceTypes /\ LegacyJSON \notin SourceTypes
    /\ Null \notin SourceTypes \cup {LegacyJSON} \cup Values
    /\ Null \notin Hashes \cup Rows
    /\ MaxChanges \in Nat /\ MaxFaults \in Nat

VARIABLES
    attrs,     \* the source's columns, in order
    src,       \* the source's rows, by position
    hash,      \* their hashes; all Null when the hash columns are missing
    created,   \* is there a lake table?
    cols,      \* the lake's columns beside _row_hash: a type, or Null
    lake,      \* the lake's rows, by name, or Null
    pc,
    drops,     \* columns_to_drop
    adds,      \* columns_to_add
    backfill,  \* columns_to_backfill
    names,     \* column_names for the sync of the rows
    changes, faults,
    altered,   \* history: was the source altered since the last finished run?
    moved,     \* history: was it changed since this run read it?
    lost,      \* history: did a run end between an ADD and the sync of the rows?
    racy,      \* history: was a row copied whose hash was stale?
    seats      \* history: every position each column has ever had

source == <<attrs, src, hash>>
target == <<created, cols, lake>>
plan == <<drops, adds, backfill, names>>
bounds == <<changes, faults>>
history == <<altered, moved, lost, racy, seats>>
vars == <<source, target, pc, plan, bounds, history>>

Column == [name : Names, type : SourceTypes]
Descriptors ==
    {d \in UNION {[1 .. n -> Column] : n \in 1 .. Cardinality(Names)} :
        \A i, j \in DOMAIN d : d[i].name = d[j].name => i = j}
Contents(d) == [Keys -> [DOMAIN d -> Cells]]
Unhashed == [k \in Keys |-> Null]
NoColumns == [n \in Names |-> Null]
NamesIn(d) == {d[i].name : i \in DOMAIN d}
Seats(d) == {<<d[i].name, i>> : i \in DOMAIN d}
TypeIn(d, n) == d[CHOOSE i \in DOMAIN d : d[i].name = n].type

\* A row of the source as the lake would hold it, in the columns N only.
ByName(k, N) ==
    [n \in Names |->
        IF n \in N /\ n \in NamesIn(attrs)
        THEN src[k][CHOOSE i \in DOMAIN attrs : attrs[i].name = n]
        ELSE Null]

\* The run of the table starts from a lake that an earlier one left in sync,
\* maybe with a column of the type json used to be mapped to.
InSync == [k \in Keys |-> [val |-> ByName(k, Names), hash |-> src[k]]]
Init ==
    /\ attrs \in Descriptors
    /\ src \in Contents(attrs)
    /\ \/ /\ hash = Unhashed /\ created = FALSE /\ cols = NoColumns
          /\ lake = [k \in Keys |-> Null]
       \/ /\ hash = src /\ created = TRUE
          /\ cols \in {c \in [Names -> Types \cup {Null}] : \A n \in Names :
                          IF n \notin NamesIn(attrs) THEN c[n] = Null
                          ELSE \/ c[n] = TypeIn(attrs, n)
                               \/ c[n] = LegacyJSON /\ TypeIn(attrs, n) = VARCHAR}
          /\ lake = InSync
    /\ pc = "idle"
    /\ drops = {} /\ adds = {} /\ backfill = {} /\ names = {}
    /\ changes = 0 /\ faults = 0
    /\ altered = ~created /\ moved = FALSE
    /\ lost = FALSE /\ racy = FALSE
    /\ seats = Seats(attrs)

-----------------------------------------------------------------------------
(* The source.                                                             *)

Change ==
    /\ changes < MaxChanges
    /\ changes' = changes + 1
    /\ moved' = TRUE
    /\ UNCHANGED <<target, pc, plan, faults, lost, racy>>

\* A full refresh drops the table and creates it again, with whatever
\* columns and rows upstream has by now and without the hash columns.
Recreate(d, rows) ==
    /\ Change
    /\ Shuffles \/ \A p \in seats, q \in Seats(d) : p[1] = q[1] => p[2] = q[2]
    /\ attrs' = d /\ src' = rows
    /\ hash' = Unhashed
    /\ altered' = TRUE
    /\ seats' = seats \cup Seats(d)

\* dlt adds a column to the table; present rows have NULL there.
AddAttribute(c) ==
    /\ Change
    /\ c.name \notin NamesIn(attrs)
    /\ attrs' = Append(attrs, c)
    /\ src' = [k \in Keys |-> Append(src[k], Null)]
    /\ altered' = TRUE
    /\ seats' = seats \cup Seats(attrs')
    /\ UNCHANGED hash

WriteCell(k, i, v) ==
    /\ Change
    /\ src' = [src EXCEPT ![k][i] = v]
    /\ UNCHANGED <<attrs, hash, altered, seats>>

SourceStep ==
    \/ \E d \in Descriptors : \E rows \in Contents(d) : Recreate(d, rows)
    \/ \E c \in Column : AddAttribute(c)
    \/ \E k \in Keys, i \in DOMAIN attrs, v \in Cells : WriteCell(k, i, v)

\* The hash pass of the job, which runs before its sync (module TableSync).
HashPass ==
    /\ pc = "idle"
    /\ hash' = src
    /\ UNCHANGED <<attrs, src, target, pc, plan, bounds, history>>

-----------------------------------------------------------------------------
(* sync_table_schema.                                                      *)

AsItIs(t) == t \* slip: the types are compared as they are spelt
Canonical(t) == IF t = LegacyJSON THEN VARCHAR ELSE t

\* Slip: a column with a new type is kept.
DropRemoved == {n \in Names : cols[n] # Null /\ n \notin NamesIn(attrs)}

\* Slip: _row_hash, which is no column of the source's, is dropped.
DropHashToo == DropRemoved \cup {"_row_hash"}

\* Lake columns that the source no longer has, or has with another type.
ToDrop ==
    {n \in Names : /\ cols[n] # Null
                   /\ \/ n \notin NamesIn(attrs)
                      \/ Canonical(TypeIn(attrs, n)) # Canonical(cols[n])}
ToAdd(D) == {i \in DOMAIN attrs : cols[attrs[i].name] = Null \/ attrs[i].name \in D}
BackfillNew(A) == {c.name : c \in A} \ ToDrop \* slip: retyped columns are not filled
ToBackfill(A) == {c.name : c \in A}

\* The lake has no such table: CREATE TABLE with all columns at once.
CreateTable ==
    /\ pc = "idle" /\ hash # Unhashed
    /\ ~created /\ created' = TRUE
    /\ cols' = [n \in Names |-> IF n \in NamesIn(attrs) THEN TypeIn(attrs, n) ELSE Null]
    /\ drops' = {} /\ adds' = {} /\ backfill' = {} /\ names' = {}
    /\ moved' = FALSE
    /\ pc' = "columns"
    /\ UNCHANGED <<source, lake, bounds, altered, lost, racy, seats>>

\* The lake has it: compare the columns.  A table without hashes is skipped.
\* A lake table is created with _row_hash and never loses it, so that the
\* case that adds it again does not come up.
PlanChanges ==
    /\ pc = "idle" /\ hash # Unhashed
    /\ created
    /\ drops' = ToDrop
    /\ adds' = {attrs[i] : i \in ToAdd(ToDrop)}
    /\ backfill' = ToBackfill(adds')
    /\ names' = {}
    /\ moved' = FALSE
    /\ pc' = IF drops' \cup backfill' = {} THEN "columns" ELSE "alter"
    /\ UNCHANGED <<source, target, bounds, altered, lost, racy, seats>>

\* Rows of the lake with the columns N emptied.
Without(N) ==
    [k \in Keys |->
        IF lake[k] = Null THEN Null
        ELSE [lake[k] EXCEPT !.val = [n \in Names |-> IF n \in N THEN Null ELSE @[n]]]]

DropColumn(n) ==
    /\ pc = "alter" /\ n \in drops
    /\ cols' = [cols EXCEPT ![n] = Null]
    /\ lake' = Without({n})
    /\ drops' = drops \ {n}
    /\ pc' = IF drops' = {} /\ adds = {} THEN "columns" ELSE pc
    /\ UNCHANGED <<source, created, adds, backfill, names, bounds, history>>

AddColumn(c) ==
    /\ pc = "alter" /\ drops = {} /\ c \in adds
    /\ cols' = [cols EXCEPT ![c.name] = c.type]
    /\ adds' = adds \ {c}
    /\ pc' = IF adds' = {} THEN "backfill" ELSE pc
    /\ UNCHANGED <<source, created, lake, drops, backfill, names, bounds, history>>

\* The source rows that match a lake row in backfill_columns.
Matches(k) == IF HasPK THEN {k} ELSE {m \in Keys : hash[m] = lake[k].hash}

\* backfill_columns: one UPDATE of the lake's rows that have a match.  It
\* fails when the source has lost one of the columns.
Backfill ==
    /\ pc = "backfill"
    /\ backfill \subseteq NamesIn(attrs)
    /\ \E match \in [Keys -> Keys] :
           /\ \A k \in Keys : lake[k] # Null /\ Matches(k) # {} => match[k] \in Matches(k)
           /\ lake' = [k \in Keys |->
                          IF lake[k] = Null \/ Matches(k) = {} THEN lake[k]
                          ELSE [lake[k] EXCEPT !.val = [n \in Names |->
                                   IF n \in backfill THEN ByName(match[k], backfill)[n] ELSE @[n]]]]
    /\ racy' = (racy \/ hash # src)
    /\ pc' = "columns"
    /\ UNCHANGED <<source, created, cols, plan, bounds, altered, moved, lost, seats>>

-----------------------------------------------------------------------------
(* sync_table after the schema, and its failures.                          *)

ReadColumns ==
    /\ pc = "columns"
    /\ names' = NamesIn(attrs)
    /\ pc' = "rows"
    /\ UNCHANGED <<source, target, drops, adds, backfill, bounds, history>>

Differing == {k \in Keys : lake[k] = Null \/ lake[k].hash # hash[k]}

\* sync_table_incremental writes the rows whose hashes differ, in the columns
\* read; every row when 80 percent of them differ.
SyncRows ==
    /\ pc = "rows" /\ hash # Unhashed
    /\ names \subseteq NamesIn(attrs)
    /\ \A n \in names : cols[n] # Null
    /\ LET S == IF Cardinality(Differing) * 100 >= 80 * Cardinality(Keys) THEN Keys ELSE Differing
       IN  lake' = [k \in Keys |-> IF k \in S THEN [val |-> ByName(k, names), hash |-> hash[k]]
                                   ELSE lake[k]]
    /\ pc' = "done"
    /\ altered' = (altered /\ moved)
    /\ racy' = (racy \/ hash # src)
    /\ UNCHANGED <<source, created, cols, plan, bounds, moved, lost, seats>>

NextRun ==
    /\ pc = "done"
    /\ pc' = "idle"
    /\ UNCHANGED <<source, target, plan, bounds, history>>

Stop ==
    /\ pc' = "idle"
    /\ lost' = (lost \/ \E n \in backfill \ drops : cols[n] # Null)
    /\ UNCHANGED <<source, target, plan, changes, altered, moved, racy, seats>>

\* The process dies, the connection drops, a statement fails.
Crash ==
    /\ pc \notin {"idle", "done"} /\ faults < MaxFaults
    /\ faults' = faults + 1
    /\ Stop

\* A statement names a column that is no longer, or not yet, there.
Mismatch ==
    /\ \/ pc = "backfill" /\ ~(backfill \subseteq NamesIn(attrs))
       \/ pc = "rows" /\ \/ hash = Unhashed
                         \/ ~(names \subseteq NamesIn(attrs))
                         \/ \E n \in names : cols[n] = Null
    /\ faults' = faults
    /\ Stop

SyncStep ==
    \/ HashPass \/ CreateTable \/ PlanChanges \/ Backfill \/ ReadColumns \/ SyncRows
    \/ NextRun \/ Mismatch
    \/ \E n \in Names : DropColumn(n)
    \/ \E c \in Column : AddColumn(c)

Next == SourceStep \/ SyncStep \/ Crash
Spec == Init /\ [][Next]_vars

\* The job is scheduled again and again; nothing makes the source change.
FairSpec == Spec /\ WF_vars(SyncStep)

-----------------------------------------------------------------------------
(* Properties.                                                             *)

TypeOK ==
    /\ attrs \in Descriptors
    /\ src \in Contents(attrs)
    /\ hash = Unhashed \/ \A k \in Keys : Len(hash[k]) <= Len(attrs)
    /\ created \in BOOLEAN
    /\ cols \in [Names -> Types \cup {Null}]
    /\ lake \in [Keys -> Rows \cup {Null}]
    /\ \A k \in Keys : lake[k] # Null =>
           \A n \in Names : cols[n] = Null => lake[k].val[n] = Null
    /\ pc \in {"idle", "alter", "backfill", "columns", "rows", "done"}
    /\ drops \subseteq Names /\ adds \subseteq Column
    /\ backfill \subseteq Names /\ names \subseteq Names

Matching ==
    \A n \in Names :
        IF n \in NamesIn(attrs) THEN Canonical(cols[n]) = Canonical(TypeIn(attrs, n))
        ELSE cols[n] = Null

\* A finished run leaves the lake with the columns the source had when the
\* run read them (sync_table_schema), whatever earlier runs left half done.
ColumnsMatch == pc = "done" /\ ~moved => Matching

\* No column has ever been at two positions of the source.
Seated == \A p, q \in seats : p[1] = q[1] => p[2] = q[2]

Filled == \A k \in Keys : lake[k] # Null /\ lake[k].val = ByName(k, Names)

\* If no column ever moved, no run ended between an ADD and the sync of the
\* rows, and none copied a row that had changed since the hash pass, a finished
\* run leaves every column with the source's values: backfill_columns makes up
\* for what the hashes, which do not cover names and types, cannot show.
ColumnsFilled == pc = "done" /\ ~moved /\ hash = src /\ Seated /\ ~lost /\ ~racy => Filled

\* A run that finds the source's columns as the last finished run left them
\* alters nothing: legacy JSON columns are not rebuilt every time.
NoChurn == [][pc = "idle" /\ pc' = "alter" => altered]_vars

\* When the source rests the lake gets its columns for good, through crashes
\* anywhere among the ALTERs.
ColumnsSettle == <>[](Matching \/ hash = Unhashed)

\* "Handles inserts, deletions, modifications, and schema changes."
ColumnsAlwaysFilled == pc = "done" /\ ~moved /\ hash = src /\ Seated /\ ~racy => Filled
=============================================================================
