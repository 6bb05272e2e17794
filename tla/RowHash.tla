------------------------------ MODULE RowHash -------------------------------
(* The pg_rowhash extension: the bytes of a row that xxHash digests, and   *)
(* the row descriptor a call site keeps from row to row.  The digest is    *)
(* taken for what it digests: two streams of bytes with one digest are     *)
(* left out.  A datum is a set: {} is NULL, {v} the value v, an integer of *)
(* a type passed by value or the sequence of the bytes of any other.       *)
EXTENDS Integers, Sequences

CONSTANTS
    Tables,     \* tables one call site hashes rows of
    Names,      \* column names
    HashNames,  \* those that begin with "_row_hash", in any case
    Types,      \* "byval", "varlena", "cstring" or "fixed"
    Data,       \* the values of each type
    MaxColumns, \* columns a table has, dropped ones included
    MaxEdits    \* writes and changes of a table

VARIABLES
    columns,    \* the attributes of each table, dropped ones in their place
    row,        \* the one row of each table
    cache,      \* fn_extra: {} or {the row type and its descriptor}
    hashed,     \* {} or {the digest last stored, and what the row then showed}
    edits

vars == <<columns, row, cache, hashed, edits>>

Byte == 0 .. 255
Datum(type) == {{}} \cup {{v} : v \in Data[type]}

\* Memory of a little-endian machine: n bytes of v, sign-extended.
Bytes(v, n) ==
    [i \in 1 .. n |-> IF i = 1 THEN v % 256 ELSE IF v < 0 THEN 255 ELSE 0]

NullMarker == [i \in 1 .. 8 |-> 255]

-----------------------------------------------------------------------------
\* The bytes of one datum; those of a value without a fixed length stand
\* behind their number.
Encode(type, d) ==
    IF d = {} THEN NullMarker
    ELSE LET v == CHOOSE x \in d : TRUE
         IN  CASE type = "byval" -> Bytes(v, 8)
               [] type \in {"varlena", "cstring"} -> Bytes(Len(v), 4) \o v
               [] type = "fixed" -> v

HashColumns(cols) ==
    {i \in DOMAIN cols : ~cols[i].dropped /\ cols[i].name \notin HashNames}

\* What a column adds to the digest; attnum counts from zero.
Piece(cols, data, i) ==
    IF i \in HashColumns(cols)
    THEN Bytes(i - 1, 4) \o Encode(cols[i].type, data[i])
    ELSE <<>>

\* The bytes digested after the first n columns, and after all of them.
Digested(cols, data) ==
    LET bytes[n \in 0 .. Len(cols)] ==
            IF n = 0 THEN <<>> ELSE bytes[n - 1] \o Piece(cols, data, n)
    IN  bytes
Stream(cols, data) == Digested(cols, data)[Len(cols)]

\* heap_deform_tuple gives NULL for attributes the stored row lacks, and
\* the columns of the descriptor only.
Deformed(desc, data) ==
    [i \in DOMAIN desc |-> IF i \in DOMAIN data THEN data[i] ELSE {}]

\* What a hash is about: the data of the columns it covers, by position.
Shown(t) == [i \in HashColumns(columns[t]) |->
    IF columns[t][i].type = "byval" /\ row[t][i] = {} THEN {-1} ELSE row[t][i]]

TypeOK ==
    /\ \A t \in Tables :
        /\ columns[t] \in Seq([name : Names, type : Types, dropped : BOOLEAN])
        /\ DOMAIN row[t] = DOMAIN columns[t]
        /\ \A i \in DOMAIN row[t] : row[t][i] \in Datum(columns[t][i].type)
        /\ Len(columns[t]) <= MaxColumns
        /\ \A h \in hashed[t] : h.stream \in Seq(Byte)
    /\ \A c \in cache : c.type \in Tables
    /\ edits \in 0 .. MaxEdits

Column(name, type) == [name |-> name, type |-> type, dropped |-> FALSE]

\* A table begins with a column that hashes cover, and a row of NULL.
Init ==
    /\ \E plain \in Names \ HashNames :
        columns = [t \in Tables |-> <<Column(plain, "byval")>>]
    /\ row = [t \in Tables |-> <<{}>>]
    /\ cache = {}
    /\ hashed = [t \in Tables |-> {}]
    /\ edits = 0

-----------------------------------------------------------------------------
(* A table is altered between queries only: the descriptor is pinned and   *)
(* the table locked while one runs.                                        *)
Alter(t, cols, data) ==
    /\ cache = {} /\ edits < MaxEdits
    /\ columns' = [columns EXCEPT ![t] = cols]
    /\ row' = [row EXCEPT ![t] = data]
    /\ edits' = edits + 1
    /\ UNCHANGED <<cache, hashed>>

AddColumn(t, n, k) ==
    /\ Len(columns[t]) < MaxColumns
    /\ Alter(t, Append(columns[t], Column(n, k)), Append(row[t], {}))

DropColumn(t, i) ==
    /\ ~columns[t][i].dropped
    /\ Alter(t, [columns[t] EXCEPT ![i].dropped = TRUE], row[t])

RenameColumn(t, i, n) ==
    /\ ~columns[t][i].dropped /\ columns[t][i].name # n
    /\ Alter(t, [columns[t] EXCEPT ![i].name = n], row[t])

Update(t, i) ==
    /\ ~columns[t][i].dropped
    /\ \E d \in Datum(columns[t][i].type) :
        Alter(t, columns[t], [row[t] EXCEPT ![i] = d])

Descriptor(t) == [type |-> t, desc |-> columns[t]]

\* get_rowhash_cache: the descriptor is looked up at the first row and when
\* the row type is another.
Cached(t) ==
    IF \E c \in cache : c.type = t THEN cache ELSE {Descriptor(t)}

(* pg_rowhash of the row, and the store of its result. *)
Hash(t) ==
    /\ cache' = Cached(t)
    /\ \E c \in cache' :
        hashed' = [hashed EXCEPT ![t] =
            {[stream |-> Stream(c.desc, Deformed(c.desc, row[t])),
              shown |-> Shown(t)]}]
    /\ UNCHANGED <<columns, row, edits>>

(* The query ends: its memory context is reset and the pin released. *)
EndQuery ==
    /\ cache # {}
    /\ cache' = {}
    /\ UNCHANGED <<columns, row, hashed, edits>>

Next ==
    \/ \E t \in Tables, n \in Names, k \in Types : AddColumn(t, n, k)
    \/ \E t \in Tables : \E i \in DOMAIN columns[t] :
        DropColumn(t, i) \/ Update(t, i)
            \/ (\E n \in Names : RenameColumn(t, i, n))
    \/ \E t \in Tables : Hash(t)
    \/ EndQuery

Spec == Init /\ [][Next]_vars

-----------------------------------------------------------------------------
\* A datum of a fixed length stands without it, so that one which begins
\* with the eight bytes of NULL is not told from NULL.
LooksNull(d) == \E v \in d : Len(v) >= 8 /\ \A i \in 1 .. 8 : v[i] = 255

Mistakable(type, d, e) ==
    type = "fixed" /\ ((d = {} /\ LooksNull(e)) \/ (e = {} /\ LooksNull(d)))

(* The stored hash of a row matches a fresh one when the columns hashes    *)
(* cover show what they showed, each in its place, whatever was added,     *)
(* dropped or renamed since and whichever tables a query hashed.  It       *)
(* matches one of other data only where a NULL has taken the place of a    *)
(* value of a fixed length that begins as NULL is written, or the other    *)
(* way round.  NULL and -1 of a type passed by value count as one: their   *)
(* bytes are the same.                                                     *)
HashTells ==
    \A t \in Tables : \A h \in hashed[t] :
        LET now == Shown(t)
            same == h.stream = Stream(columns[t], row[t])
        IN  /\ h.shown = now => same
            /\ same => \/ h.shown = now
                       \/ \E i \in DOMAIN h.shown \cap DOMAIN now :
                             Mistakable(columns[t][i].type, h.shown[i], now[i])
=============================================================================
