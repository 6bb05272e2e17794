-------------------------- MODULE SchemaSyncProofs --------------------------
(***************************************************************************)
(* Proofs about SchemaSync, for any table, any columns and types, and any  *)
(* number of changes and faults.                                           *)
(***************************************************************************)
EXTENDS SchemaSync, FiniteSetTheorems, SequenceTheorems, TLAPS

-----------------------------------------------------------------------------
(* The inductive invariant.                                                *)

Pending == {c.name : c \in adds}

\* Hashes come from a pass over at most the columns the source has by now.
HashOK ==
    hash = Unhashed \/ \E n \in 1 .. Len(attrs) : hash \in [Keys -> [1 .. n -> Cells]]

LakeOK ==
    /\ lake \in [Keys -> Rows \cup {Null}]
    /\ \A k \in Keys : lake[k] # Null =>
           \A n \in Names : cols[n] = Null => lake[k].val[n] = Null
    /\ ~created => \A k \in Keys : lake[k] = Null

\* What the plan of a run says in each of its phases.
PhaseOK ==
    /\ pc \in {"idle", "alter", "backfill", "columns", "rows", "done"}
    /\ pc # "idle" => created
    /\ pc \notin {"idle", "alter"} => drops = {} /\ adds = {}
    /\ pc = "backfill" => \A n \in backfill : cols[n] # Null
    /\ pc = "alter" => /\ Pending \subseteq backfill
                       /\ drops # {} => backfill \subseteq Pending
                       /\ \A n \in backfill : n \in Pending \/ cols[n] # Null
                       /\ \A c, d \in adds : c.name = d.name => c = d

Typed ==
    /\ attrs \in Descriptors
    /\ src \in Contents(attrs)
    /\ HashOK
    /\ created \in BOOLEAN
    /\ cols \in [Names -> Types \cup {Null}]
    /\ LakeOK
    /\ drops \subseteq Names /\ adds \subseteq Column
    /\ backfill \subseteq Names /\ names \subseteq Names
    /\ {altered, moved, lost, racy} \subseteq BOOLEAN
    /\ PhaseOK

\* The source's columns are those the hash pass saw.
Fits == hash # Unhashed /\ hash \in [Keys -> [DOMAIN attrs -> Cells]]

MatchesAt(n) ==
    IF n \in NamesIn(attrs) THEN Canonical(cols[n]) = Canonical(TypeIn(attrs, n))
    ELSE cols[n] = Null

\* What is left of the plan gives the lake the source's columns.
PlanOK ==
    /\ \A c \in adds : c.name \in NamesIn(attrs) /\ c.type = TypeIn(attrs, c.name)
    /\ \A n \in Names : IF n \in drops THEN n \in NamesIn(attrs) => n \in Pending
                        ELSE n \in Pending \/ MatchesAt(n)
    /\ pc = "rows" => names = NamesIn(attrs)

Planned == pc # "idle" /\ (~moved \/ Fits) => PlanOK

\* An unaltered source has the columns the last finished run left.
Unaltered == ~altered => created /\ Matching /\ pc \notin {"alter", "backfill"}

\* The value of a column is the part of the row's hash that was the column's.
Explained(k, n, h) ==
    \E i \in DOMAIN h : <<n, i>> \in seats /\ lake[k].val[n] = h[i]

\* Is the column there with all it had, not one that waits for its backfill?
Settled(n) == cols[n] # Null /\ (pc \in {"idle", "done"} \/ n \notin backfill \/ n \in drops)

Kept ==
    \A k \in Keys, n \in Names :
        lake[k] # Null /\ Settled(n) => Explained(k, n, lake[k].hash)

\* After the backfill, in the rows that the sync will leave alone.
Backfilled ==
    pc \in {"columns", "rows"} /\ hash # Unhashed =>
        \A k \in Keys, n \in backfill :
            lake[k] # Null /\ lake[k].hash = hash[k] => Explained(k, n, hash[k])

Synced == pc = "done" /\ hash # Unhashed => \A k \in Keys : lake[k] # Null /\ lake[k].hash = hash[k]

Accounted == Seats(attrs) \subseteq seats /\ (~lost /\ ~racy => Kept /\ Backfilled) /\ Synced

IInv == Typed /\ Planned /\ Unaltered /\ Accounted

-----------------------------------------------------------------------------
(* Columns and rows.                                                       *)

USE SchemaAssumption

\* What a list of columns is made of.
LEMMA DescriptorFacts ==
    ASSUME NEW d \in Descriptors
    PROVE  /\ Len(d) \in 1 .. Cardinality(Names)
           /\ DOMAIN d = 1 .. Len(d)
           /\ d \in [1 .. Len(d) -> Column]
           /\ d \in Seq(Column)
           /\ \A i, j \in DOMAIN d : d[i].name = d[j].name => i = j
<1>1. PICK n \in 1 .. Cardinality(Names) : d \in [1 .. n -> Column]
    BY DEF Descriptors
<1>2. Cardinality(Names) \in Nat
    BY FS_CardinalityType
<1>3. n \in Nat
    BY <1>1, <1>2
<1>4. d \in Seq(Column)
    BY <1>1, <1>3, SeqDef
<1>5. Len(d) = n
    BY <1>1, <1>3, <1>4, LenProperties
<1> QED BY <1>1, <1>4, <1>5 DEF Descriptors

\* A list of columns from its parts.
LEMMA DescriptorIntro ==
    ASSUME NEW n \in 1 .. Cardinality(Names), NEW d \in [1 .. n -> Column],
           \A i, j \in 1 .. n : d[i].name = d[j].name => i = j
    PROVE  d \in Descriptors
BY DEF Descriptors

\* A column has one position.
LEMMA Chosen ==
    ASSUME NEW d \in Descriptors, NEW i \in DOMAIN d
    PROVE  i = CHOOSE j \in DOMAIN d : d[j].name = d[i].name
<1>1. \A j \in DOMAIN d : d[j].name = d[i].name => j = i
    BY DescriptorFacts
<1> QED BY <1>1

\* And one type.
LEMMA AtPosition ==
    ASSUME NEW d \in Descriptors, NEW i \in DOMAIN d
    PROVE  /\ d[i] \in Column
           /\ d[i].name \in Names
           /\ d[i].name \in NamesIn(d)
           /\ TypeIn(d, d[i].name) = d[i].type
           /\ <<d[i].name, i>> \in Seats(d)
<1>1. d[i] \in Column
    BY DescriptorFacts
<1>2. d[i].name \in NamesIn(d)
    BY DEF NamesIn
<1>3. TypeIn(d, d[i].name) = d[i].type
    BY Chosen DEF TypeIn
<1>4. <<d[i].name, i>> \in Seats(d)
    BY DEF Seats
<1> QED BY <1>1, <1>2, <1>3, <1>4 DEF Column

LEMMA Position ==
    ASSUME NEW d \in Descriptors, NEW n \in NamesIn(d)
    PROVE  /\ TypeIn(d, n) \in SourceTypes
           /\ \E i \in DOMAIN d : /\ d[i].name = n
                                  /\ TypeIn(d, n) = d[i].type
                                  /\ <<n, i>> \in Seats(d)
<1>1. PICK i \in DOMAIN d : d[i].name = n
    BY DEF NamesIn
<1>2. d[i] \in Column /\ TypeIn(d, n) = d[i].type /\ <<n, i>> \in Seats(d)
    BY <1>1, AtPosition
<1> QED BY <1>1, <1>2 DEF Column

LEMMA NamesInNames ==
    ASSUME NEW d \in Descriptors
    PROVE  NamesIn(d) \subseteq Names
BY AtPosition DEF NamesIn

\* A table has at most as many columns as there are names, so another fits in.
LEMMA OneMoreColumn ==
    ASSUME NEW d \in Descriptors, NEW c \in Column, c.name \notin NamesIn(d)
    PROVE  /\ Append(d, c) \in Descriptors
           /\ Len(Append(d, c)) = Len(d) + 1
           /\ DOMAIN Append(d, c) = 1 .. (Len(d) + 1)
           /\ \A i \in 1 .. Len(d) : Append(d, c)[i] = d[i]
           /\ Append(d, c)[Len(d) + 1] = c
<1> DEFINE e == Append(d, c)
           n == Len(d) + 1
           f == [i \in 1 .. n |-> e[i].name]
<1>1. /\ Len(d) \in Nat /\ DOMAIN d = 1 .. Len(d) /\ d \in Seq(Column)
      /\ \A i, j \in DOMAIN d : d[i].name = d[j].name => i = j
      /\ Cardinality(Names) \in Nat
    BY DescriptorFacts, FS_CardinalityType
<1>2. /\ e \in Seq(Column) /\ Len(e) = n
      /\ \A i \in 1 .. Len(d) : e[i] = d[i]
      /\ e[n] = c
    BY <1>1, AppendProperties
<1>3. e \in [1 .. n -> Column]
    BY <1>1, <1>2, LenProperties
<1>4. \A i \in DOMAIN d : d[i].name # c.name
    BY DEF NamesIn
<1>5. \A i, j \in 1 .. n : e[i].name = e[j].name => i = j
    BY <1>1, <1>2, <1>4
<1>6. f \in [1 .. n -> Names]
    BY <1>3 DEF Column
<1>7. f \in Injection(1 .. n, Names)
    BY <1>5, <1>6 DEF Injection, IsInjective
<1>8. Cardinality(1 .. n) <= Cardinality(Names)
    BY <1>7, FS_Injection
<1>9. Cardinality(1 .. n) = n
    BY <1>1, FS_Interval
<1>10. n \in 1 .. Cardinality(Names)
    BY <1>1, <1>8, <1>9
<1>11. e \in Descriptors
    BY <1>3, <1>5, <1>10, DescriptorIntro
<1>12. DOMAIN e = 1 .. n
    BY <1>3
<1> QED BY <1>2, <1>11, <1>12

\* What a row of the source is as a row of the lake.
LEMMA ByNameValue ==
    ASSUME attrs \in Descriptors, src \in Contents(attrs), NEW k \in Keys, NEW N
    PROVE  /\ ByName(k, N) \in [Names -> Cells]
           /\ \A n \in Names :
                  IF n \in N /\ n \in NamesIn(attrs)
                  THEN \E i \in DOMAIN attrs : /\ attrs[i].name = n
                                               /\ <<n, i>> \in Seats(attrs)
                                               /\ ByName(k, N)[n] = src[k][i]
                  ELSE ByName(k, N)[n] = Null
<1>1. ASSUME NEW n \in Names, n \in N, n \in NamesIn(attrs)
      PROVE  \E i \in DOMAIN attrs : /\ attrs[i].name = n
                                     /\ <<n, i>> \in Seats(attrs)
                                     /\ ByName(k, N)[n] = src[k][i]
                                     /\ src[k][i] \in Cells
    <2>1. PICK i \in DOMAIN attrs : attrs[i].name = n /\ <<n, i>> \in Seats(attrs)
        BY <1>1, Position
    <2>2. ByName(k, N)[n] = src[k][i]
        <3>1. \A j \in DOMAIN attrs : attrs[j].name = n => j = i
            BY <2>1, DescriptorFacts
        <3>2. i = CHOOSE j \in DOMAIN attrs : attrs[j].name = n
            BY <2>1, <3>1
        <3> QED BY <1>1, <3>2 DEF ByName
    <2>3. src[k][i] \in Cells
        BY DEF Contents
    <2> QED BY <2>1, <2>2, <2>3
<1>2. ASSUME NEW n \in Names, ~(n \in N /\ n \in NamesIn(attrs))
      PROVE  ByName(k, N)[n] = Null
    BY <1>2 DEF ByName
<1>3. \A n \in Names : ByName(k, N)[n] \in Cells
    BY <1>1, <1>2 DEF Cells
<1>4. ByName(k, N) = [n \in Names |-> ByName(k, N)[n]]
    BY DEF ByName
<1>5. ByName(k, N) \in [Names -> Cells]
    BY <1>3, <1>4
<1> QED BY <1>1, <1>2, <1>5

\* A pass over the rows leaves hashes over all columns.
LEMMA SourceHashes ==
    ASSUME attrs \in Descriptors, src \in Contents(attrs)
    PROVE  /\ \A k \in Keys : src[k] \in Hashes /\ DOMAIN src[k] = DOMAIN attrs
           /\ \E n \in 1 .. Len(attrs) : src \in [Keys -> [1 .. n -> Cells]]
<1>1. /\ Len(attrs) \in 1 .. Cardinality(Names) /\ DOMAIN attrs = 1 .. Len(attrs)
      /\ Cardinality(Names) \in Nat
    BY DescriptorFacts, FS_CardinalityType
<1>2. src \in [Keys -> [1 .. Len(attrs) -> Cells]]
    BY <1>1 DEF Contents
<1>3. \A k \in Keys : src[k] \in Hashes /\ DOMAIN src[k] = DOMAIN attrs
    BY <1>1, <1>2 DEF Hashes
<1>4. Len(attrs) \in 1 .. Len(attrs)
    BY <1>1
<1> QED BY <1>2, <1>3, <1>4

LEMMA HashesAreHashes ==
    ASSUME attrs \in Descriptors, HashOK, hash # Unhashed, NEW k \in Keys
    PROVE  hash[k] \in Hashes
<1>1. Len(attrs) \in 1 .. Cardinality(Names) /\ Cardinality(Names) \in Nat
    BY DescriptorFacts, FS_CardinalityType
<1>2. PICK n \in 1 .. Len(attrs) : hash \in [Keys -> [1 .. n -> Cells]]
    BY DEF HashOK
<1>3. n \in 1 .. Cardinality(Names)
    BY <1>1, <1>2
<1>4. hash[k] \in [1 .. n -> Cells]
    BY <1>2
<1> QED BY <1>3, <1>4 DEF Hashes

-----------------------------------------------------------------------------
(* Types.                                                                  *)

LEMMA TypedInit == Init => Typed
<1> SUFFICES ASSUME Init PROVE Typed
    OBVIOUS
<1>1. attrs \in Descriptors /\ src \in Contents(attrs)
    BY DEF Init
<1>2. \A n \in NamesIn(attrs) : TypeIn(attrs, n) \in SourceTypes
    BY <1>1, Position
<1>3. ASSUME created, hash = src, lake = InSync,
             cols \in {c \in [Names -> Types \cup {Null}] : \A n \in Names :
                          IF n \notin NamesIn(attrs) THEN c[n] = Null
                          ELSE \/ c[n] = TypeIn(attrs, n)
                               \/ c[n] = LegacyJSON /\ TypeIn(attrs, n) = VARCHAR}
      PROVE  HashOK /\ LakeOK /\ cols \in [Names -> Types \cup {Null}]
    <2>1. HashOK
        BY <1>1, <1>3, SourceHashes DEF HashOK
    <2>2. cols \in [Names -> Types \cup {Null}] /\ \A n \in Names : cols[n] = Null => n \notin NamesIn(attrs)
        BY <1>2, <1>3
    <2>3. ASSUME NEW k \in Keys
          PROVE  lake[k] \in Rows /\ \A n \in Names : cols[n] = Null => lake[k].val[n] = Null
        <3>1. lake[k] = [val |-> ByName(k, Names), hash |-> src[k]]
            BY <1>3 DEF InSync
        <3>2. /\ ByName(k, Names) \in [Names -> Cells]
              /\ \A n \in Names : n \notin NamesIn(attrs) => ByName(k, Names)[n] = Null
            BY <1>1, ByNameValue
        <3>3. src[k] \in Hashes
            BY <1>1, SourceHashes
        <3> QED BY <2>2, <3>1, <3>2, <3>3 DEF Rows
    <2>4. lake = [k \in Keys |-> lake[k]]
        BY <1>3 DEF InSync
    <2>5. LakeOK
        BY <1>3, <2>3, <2>4 DEF LakeOK
    <2> QED BY <2>1, <2>2, <2>5
<1>4. ASSUME hash = Unhashed, ~created, cols = NoColumns, lake = [k \in Keys |-> Null]
      PROVE  HashOK /\ LakeOK /\ cols \in [Names -> Types \cup {Null}]
    BY <1>4 DEF HashOK, LakeOK, NoColumns
<1>5. HashOK /\ LakeOK /\ cols \in [Names -> Types \cup {Null}] /\ created \in BOOLEAN
    BY <1>3, <1>4 DEF Init
<1> QED BY <1>1, <1>5 DEF Init, Typed, PhaseOK

\* What the lake's rows are after some of their columns were emptied.
LEMMA WithoutRows ==
    ASSUME LakeOK, NEW N, NEW k \in Keys
    PROVE  /\ Without(N) = [j \in Keys |-> Without(N)[j]]
           /\ lake[k] = Null => Without(N)[k] = Null
           /\ lake[k] # Null => /\ Without(N)[k] \in Rows
                                /\ Without(N)[k].hash = lake[k].hash
                                /\ \A n \in Names : Without(N)[k].val[n] =
                                        IF n \in N THEN Null ELSE lake[k].val[n]
<1>1. Without(N) = [j \in Keys |-> Without(N)[j]]
    BY DEF Without
<1>2. lake[k] = Null => Without(N)[k] = Null
    BY DEF Without
<1>3. ASSUME lake[k] # Null
      PROVE  /\ Without(N)[k] \in Rows
             /\ Without(N)[k].hash = lake[k].hash
             /\ \A n \in Names : Without(N)[k].val[n] =
                     IF n \in N THEN Null ELSE lake[k].val[n]
    <2> DEFINE val == [n \in Names |-> IF n \in N THEN Null ELSE lake[k].val[n]]
    <2>1. lake[k] \in Rows
        BY <1>3 DEF LakeOK
    <2>2. Without(N)[k] = [lake[k] EXCEPT !.val = val]
        BY <1>3 DEF Without
    <2>3. Without(N)[k] = [val |-> val, hash |-> lake[k].hash]
        BY <2>1, <2>2 DEF Rows
    <2>4. val \in [Names -> Cells]
        BY <2>1 DEF Rows, Cells
    <2>5. lake[k].hash \in Hashes
        BY <2>1 DEF Rows
    <2> QED BY <2>3, <2>4, <2>5 DEF Rows
<1> QED BY <1>1, <1>2, <1>3

\* What backfill_columns does to a row: nothing without a match, else the
\* columns to fill get the values of one source row that matches.
LEMMA BackfilledRows ==
    ASSUME Typed, Backfill, NEW k \in Keys
    PROVE  /\ lake' = [j \in Keys |-> lake'[j]]
           /\ lake[k] = Null \/ Matches(k) = {} => lake'[k] = lake[k]
           /\ lake[k] # Null /\ Matches(k) # {} =>
                  \E m \in Matches(k) :
                      /\ lake'[k] \in Rows
                      /\ lake'[k].hash = lake[k].hash
                      /\ \A n \in Names : lake'[k].val[n] =
                             IF n \in backfill THEN ByName(m, backfill)[n] ELSE lake[k].val[n]
<1>1. PICK match \in [Keys -> Keys] :
           /\ \A j \in Keys : lake[j] # Null /\ Matches(j) # {} => match[j] \in Matches(j)
           /\ lake' = [j \in Keys |->
                          IF lake[j] = Null \/ Matches(j) = {} THEN lake[j]
                          ELSE [lake[j] EXCEPT !.val = [n \in Names |->
                                   IF n \in backfill THEN ByName(match[j], backfill)[n] ELSE @[n]]]]
    BY DEF Backfill
<1>2. lake' = [j \in Keys |-> lake'[j]]
    BY <1>1
<1>3. lake[k] = Null \/ Matches(k) = {} => lake'[k] = lake[k]
    BY <1>1
<1>4. ASSUME lake[k] # Null, Matches(k) # {}
      PROVE  \E m \in Matches(k) :
                 /\ lake'[k] \in Rows
                 /\ lake'[k].hash = lake[k].hash
                 /\ \A n \in Names : lake'[k].val[n] =
                        IF n \in backfill THEN ByName(m, backfill)[n] ELSE lake[k].val[n]
    <2> DEFINE m == match[k]
               val == [n \in Names |->
                          IF n \in backfill THEN ByName(m, backfill)[n] ELSE lake[k].val[n]]
    <2>1. lake[k] \in Rows
        BY <1>4 DEF Typed, LakeOK
    <2>2. lake'[k] = [lake[k] EXCEPT !.val = val]
        BY <1>1, <1>4
    <2>3. lake'[k] = [val |-> val, hash |-> lake[k].hash]
        BY <2>1, <2>2 DEF Rows
    <2>4. m \in Matches(k) /\ m \in Keys
        BY <1>1, <1>4
    <2>5. ByName(m, backfill) \in [Names -> Cells]
        BY <2>4, ByNameValue DEF Typed
    <2>6. val \in [Names -> Cells] /\ lake[k].hash \in Hashes
        BY <2>1, <2>5 DEF Rows
    <2> QED BY <2>3, <2>4, <2>6 DEF Rows
<1> QED BY <1>2, <1>3, <1>4

\* A row after sync_table_incremental is the source's, or was left alone
\* because its hash agreed.
LEMMA SyncedRows ==
    ASSUME Typed, SyncRows, NEW k \in Keys
    PROVE  /\ lake' = [j \in Keys |-> lake'[j]]
           /\ \/ /\ lake'[k] = [val |-> ByName(k, names), hash |-> hash[k]]
                 /\ lake'[k] \in Rows
              \/ lake'[k] = lake[k] /\ lake[k] # Null /\ lake[k].hash = hash[k]
<1>1. PICK S \in {Keys, Differing} :
          lake' = [j \in Keys |-> IF j \in S THEN [val |-> ByName(j, names), hash |-> hash[j]]
                                  ELSE lake[j]]
    BY DEF SyncRows
<1>2. lake' = [j \in Keys |-> lake'[j]]
    BY <1>1
<1>3. k \notin S => lake[k] # Null /\ lake[k].hash = hash[k]
    BY <1>1 DEF Differing
<1>4. ByName(k, names) \in [Names -> Cells]
    BY ByNameValue DEF Typed
<1>5. hash[k] \in Hashes
    BY HashesAreHashes DEF Typed, SyncRows
<1>6. [val |-> ByName(k, names), hash |-> hash[k]] \in Rows
    BY <1>4, <1>5 DEF Rows
<1> QED BY <1>1, <1>2, <1>3, <1>6

\* The source's part and the lake's part of the types.
SourceOK == attrs \in Descriptors /\ src \in Contents(attrs) /\ HashOK
TargetOK == created \in BOOLEAN /\ cols \in [Names -> Types \cup {Null}] /\ LakeOK
PlanTyped ==
    /\ drops \subseteq Names /\ adds \subseteq Column
    /\ backfill \subseteq Names /\ names \subseteq Names
FlagsOK == {altered, moved, lost, racy} \subseteq BOOLEAN

LEMMA TypedParts == Typed <=> SourceOK /\ TargetOK /\ PlanTyped /\ FlagsOK /\ PhaseOK
BY DEF Typed, SourceOK, TargetOK, PlanTyped, FlagsOK

LEMMA TypedStep ==
    ASSUME Typed, [Next]_vars
    PROVE  Typed'
<1> USE TypedParts
<1> SUFFICES SourceOK' /\ TargetOK' /\ PlanTyped' /\ FlagsOK' /\ PhaseOK'
    BY DEF Typed, SourceOK, TargetOK, PlanTyped, FlagsOK
<1>1. ASSUME NEW d \in Descriptors, NEW rows \in Contents(d), Recreate(d, rows)
      PROVE  SourceOK' /\ TargetOK' /\ PlanTyped' /\ FlagsOK' /\ PhaseOK'
    <2>1. SourceOK'
        BY <1>1 DEF Recreate, SourceOK, HashOK, Contents, Unhashed
    <2>2. TargetOK' /\ PlanTyped' /\ FlagsOK' /\ PhaseOK'
        BY <1>1 DEF Recreate, Change, target, plan, TargetOK, LakeOK, PlanTyped, FlagsOK, PhaseOK, Pending
    <2> QED BY <2>1, <2>2
<1>2. ASSUME NEW c \in Column, AddAttribute(c)
      PROVE  SourceOK' /\ TargetOK' /\ PlanTyped' /\ FlagsOK' /\ PhaseOK'
    <2> DEFINE n == Len(attrs)
    <2>1. /\ attrs' \in Descriptors
          /\ DOMAIN attrs' = 1 .. (n + 1) /\ Len(attrs') = n + 1
          /\ DOMAIN attrs = 1 .. n /\ n \in Nat
        BY <1>2, OneMoreColumn, DescriptorFacts, FS_CardinalityType DEF AddAttribute, SourceOK
    <2>2. src' \in Contents(attrs')
        <3>1. ASSUME NEW k \in Keys
              PROVE  Append(src[k], Null) \in [1 .. (n + 1) -> Cells]
            <4>1. src[k] \in [1 .. n -> Cells]
                BY <2>1 DEF SourceOK, Contents
            <4>2. src[k] \in Seq(Cells) /\ Len(src[k]) = n
                BY <2>1, <4>1, SeqDef, LenProperties
            <4>3. Append(src[k], Null) \in Seq(Cells) /\ Len(Append(src[k], Null)) = n + 1
                BY <4>2, AppendProperties DEF Cells
            <4> QED BY <4>3, LenProperties
        <3>2. src' = [k \in Keys |-> Append(src[k], Null)]
            BY <1>2 DEF AddAttribute
        <3> QED BY <2>1, <3>1, <3>2 DEF Contents
    <2>3. HashOK'
        <3>1. hash' = hash /\ Unhashed' = Unhashed
            BY <1>2 DEF AddAttribute, Unhashed
        <3>2. \A m \in 1 .. n : m \in 1 .. Len(attrs')
            BY <2>1
        <3> QED BY <3>1, <3>2 DEF SourceOK, HashOK
    <2>4. TargetOK' /\ PlanTyped' /\ FlagsOK' /\ PhaseOK'
        BY <1>2 DEF AddAttribute, Change, target, plan, TargetOK, LakeOK, PlanTyped, FlagsOK, PhaseOK, Pending
    <2> QED BY <2>1, <2>2, <2>3, <2>4 DEF SourceOK
<1>3. ASSUME NEW k \in Keys, NEW i \in DOMAIN attrs, NEW v \in Cells, WriteCell(k, i, v)
      PROVE  SourceOK' /\ TargetOK' /\ PlanTyped' /\ FlagsOK' /\ PhaseOK'
    <2>1. src \in [Keys -> [DOMAIN attrs -> Cells]] /\ attrs' = attrs /\ hash' = hash
        BY <1>3 DEF WriteCell, SourceOK, Contents
    <2>2. src' \in [Keys -> [DOMAIN attrs -> Cells]]
        BY <1>3, <2>1 DEF WriteCell
    <2>3. SourceOK'
        BY <2>1, <2>2 DEF SourceOK, HashOK, Contents, Unhashed
    <2>4. TargetOK' /\ PlanTyped' /\ FlagsOK' /\ PhaseOK'
        BY <1>3 DEF WriteCell, Change, target, plan, TargetOK, LakeOK, PlanTyped, FlagsOK, PhaseOK, Pending
    <2> QED BY <2>3, <2>4
<1>4. CASE HashPass
    <2>1. SourceOK'
        BY <1>4, SourceHashes DEF HashPass, SourceOK, HashOK, Contents, Unhashed
    <2>2. TargetOK' /\ PlanTyped' /\ FlagsOK' /\ PhaseOK'
        BY <1>4 DEF HashPass, target, plan, history, TargetOK, LakeOK, PlanTyped, FlagsOK, PhaseOK, Pending
    <2> QED BY <2>1, <2>2
<1>5. SourceOK /\ UNCHANGED source => SourceOK'
    BY DEF SourceOK, source, HashOK, Contents, Unhashed
<1>6. CASE CreateTable
    <2>1. SourceOK'
        BY <1>5, <1>6 DEF CreateTable
    <2>2. \A n \in NamesIn(attrs) : TypeIn(attrs, n) \in SourceTypes
        BY Position DEF SourceOK
    <2>3. TargetOK'
        BY <1>6, <2>2 DEF CreateTable, TargetOK, LakeOK, Types
    <2>4. PlanTyped' /\ FlagsOK' /\ PhaseOK'
        BY <1>6 DEF CreateTable, PlanTyped, FlagsOK, PhaseOK, Pending
    <2> QED BY <2>1, <2>3, <2>4
<1>7. CASE PlanChanges
    <2>1. SourceOK'
        BY <1>5, <1>7 DEF PlanChanges
    <2>2. TargetOK' /\ FlagsOK'
        BY <1>7 DEF PlanChanges, target, TargetOK, LakeOK, FlagsOK
    <2>3. adds' \subseteq Column
        <3>1. \A i \in DOMAIN attrs : attrs[i] \in Column
            BY AtPosition DEF SourceOK
        <3> QED BY <1>7, <3>1 DEF PlanChanges, ToAdd
    <2>4. backfill' = Pending'
        BY <1>7 DEF PlanChanges, ToBackfill, Pending
    <2>5. Pending' \subseteq Names
        BY <2>3 DEF Pending, Column
    <2>6. PlanTyped'
        BY <1>7, <2>3, <2>4, <2>5 DEF PlanChanges, PlanTyped, ToDrop
    <2>7. \A c, d \in adds' : c.name = d.name => c = d
        BY <1>7, DescriptorFacts DEF PlanChanges, ToAdd, SourceOK
    <2>8. pc' \in {"columns", "alter"} /\ created'
        BY <1>7 DEF PlanChanges, target
    <2>9. pc' = "columns" => drops' = {} /\ adds' = {}
        <3>1. pc' = "columns" => drops' = {} /\ backfill' = {}
            BY <1>7 DEF PlanChanges
        <3>2. Pending' = {} => adds' = {}
            BY DEF Pending
        <3> QED BY <2>4, <3>1, <3>2
    <2>10. PhaseOK'
        BY <2>4, <2>7, <2>8, <2>9 DEF PhaseOK
    <2> QED BY <2>1, <2>2, <2>6, <2>10
<1>8. ASSUME NEW n \in Names, DropColumn(n)
      PROVE  SourceOK' /\ TargetOK' /\ PlanTyped' /\ FlagsOK' /\ PhaseOK'
    <2>1. SourceOK'
        BY <1>5, <1>8 DEF DropColumn
    <2>2. lake' = Without({n}) /\ cols' = [cols EXCEPT ![n] = Null] /\ created' = created
        BY <1>8 DEF DropColumn
    <2>3. LakeOK
        BY DEF TargetOK
    <2>4. \A k \in Keys : lake'[k] \in Rows \cup {Null}
        BY <2>2, <2>3, WithoutRows
    <2>5. \A k \in Keys : lake'[k] # Null => \A m \in Names : cols'[m] = Null => lake'[k].val[m] = Null
        <3> SUFFICES ASSUME NEW k \in Keys, lake'[k] # Null, NEW m \in Names, cols'[m] = Null
                     PROVE  lake'[k].val[m] = Null
            OBVIOUS
        <3>1. lake[k] # Null /\ lake'[k].val[m] = IF m \in {n} THEN Null ELSE lake[k].val[m]
            BY <2>2, <2>3, WithoutRows
        <3>2. m # n => cols[m] = Null
            BY <2>2 DEF TargetOK
        <3> QED BY <2>3, <3>1, <3>2 DEF LakeOK
    <2>6. ~created' => \A k \in Keys : lake'[k] = Null
        BY <2>2, <2>3, WithoutRows DEF LakeOK
    <2>7. lake' \in [Keys -> Rows \cup {Null}]
        BY <2>2, <2>3, <2>4, WithoutRows DEF Without
    <2>8. TargetOK'
        BY <2>2, <2>5, <2>6, <2>7 DEF TargetOK, LakeOK, Types
    <2>9. PlanTyped' /\ FlagsOK'
        BY <1>8 DEF DropColumn, PlanTyped, history, FlagsOK
    <2>10. PhaseOK'
        <3>1. /\ pc = "alter" /\ created' /\ adds' = adds /\ backfill' = backfill
              /\ drops' = drops \ {n} /\ n \in drops
              /\ pc' = IF drops' = {} /\ adds = {} THEN "columns" ELSE "alter"
              /\ \A m \in Names : m # n => cols'[m] = cols[m]
            BY <1>8, <2>2 DEF DropColumn, PhaseOK, TargetOK
        <3>2. backfill = Pending /\ Pending' = Pending /\ \A c, d \in adds : c.name = d.name => c = d
            BY <3>1 DEF PhaseOK, Pending
        <3> QED BY <3>1, <3>2 DEF PhaseOK
    <2> QED BY <2>1, <2>8, <2>9, <2>10
<1>9. ASSUME NEW c \in Column, AddColumn(c)
      PROVE  SourceOK' /\ TargetOK' /\ PlanTyped' /\ FlagsOK' /\ PhaseOK'
    <2>1. SourceOK'
        BY <1>5, <1>9 DEF AddColumn
    <2>2. /\ cols' = [cols EXCEPT ![c.name] = c.type] /\ lake' = lake /\ created' = created
          /\ c.name \in Names /\ c.type \in SourceTypes
        BY <1>9 DEF AddColumn, Column
    <2>3. \A m \in Names : cols'[m] = Null => cols[m] = Null
        BY <2>2 DEF TargetOK
    <2>4. TargetOK'
        BY <2>2, <2>3 DEF TargetOK, LakeOK, Types
    <2>5. PlanTyped' /\ FlagsOK'
        BY <1>9 DEF AddColumn, PlanTyped, history, FlagsOK
    <2>6. PhaseOK'
        <3>1. /\ pc = "alter" /\ created' /\ backfill' = backfill /\ drops = {} /\ drops' = {}
              /\ adds' = adds \ {c} /\ c \in adds
              /\ pc' = IF adds' = {} THEN "backfill" ELSE "alter"
            BY <1>9, <2>2 DEF AddColumn, PhaseOK
        <3>2. /\ Pending \subseteq backfill
              /\ \A n \in backfill : n \in Pending \/ cols[n] # Null
              /\ \A a, b \in adds : a.name = b.name => a = b
            BY <3>1 DEF PhaseOK
        <3>3. Pending' \subseteq Pending /\ Pending \subseteq Pending' \cup {c.name}
            BY <3>1 DEF Pending
        <3>4. cols'[c.name] # Null /\ \A n \in Names : cols[n] # Null => cols'[n] # Null
            BY <2>2, <2>3 DEF TargetOK
        <3>5. \A n \in backfill : n \in Pending' \/ cols'[n] # Null
            BY <3>2, <3>3, <3>4 DEF PlanTyped
        <3>6. adds' = {} => Pending' = {}
            BY DEF Pending
        <3> QED BY <3>1, <3>2, <3>3, <3>5, <3>6 DEF PhaseOK
    <2> QED BY <2>1, <2>4, <2>5, <2>6
<1>10. CASE Backfill
    <2>1. SourceOK'
        BY <1>5, <1>10 DEF Backfill
    <2>2. created' = created /\ cols' = cols /\ \A n \in backfill : cols[n] # Null
        BY <1>10 DEF Backfill, PhaseOK
    <2>3. ASSUME NEW k \in Keys
          PROVE  /\ lake'[k] \in Rows \cup {Null}
                 /\ lake'[k] # Null => \A n \in Names : cols[n] = Null => lake'[k].val[n] = Null
                 /\ lake[k] = Null => lake'[k] = Null
        BY <1>10, <2>2, BackfilledRows DEF TargetOK, LakeOK
    <2>4. lake' = [k \in Keys |-> lake'[k]] \/ Keys = {}
        BY <1>10, BackfilledRows
    <2>5. lake' \in [Keys -> Rows \cup {Null}]
        BY <1>10, <2>3, <2>4 DEF Backfill
    <2>6. TargetOK'
        BY <2>2, <2>3, <2>5 DEF TargetOK, LakeOK
    <2>7. PlanTyped' /\ PhaseOK'
        BY <1>10 DEF Backfill, plan, PlanTyped, PhaseOK, Pending
    <2>8. FlagsOK'
        BY <1>10 DEF Backfill, FlagsOK
    <2> QED BY <2>1, <2>6, <2>7, <2>8
<1>11. CASE ReadColumns
    <2>1. SourceOK'
        BY <1>5, <1>11 DEF ReadColumns
    <2>2. TargetOK' /\ FlagsOK' /\ PhaseOK'
        BY <1>11 DEF ReadColumns, target, history, TargetOK, LakeOK, FlagsOK, PhaseOK, Pending
    <2>3. PlanTyped'
        BY <1>11, NamesInNames DEF ReadColumns, PlanTyped, SourceOK
    <2> QED BY <2>1, <2>2, <2>3
<1>12. CASE SyncRows
    <2>1. SourceOK'
        BY <1>5, <1>12 DEF SyncRows
    <2>2. created' = created /\ cols' = cols /\ created /\ \A n \in names : cols[n] # Null
        BY <1>12 DEF SyncRows, PhaseOK
    <2>3. ASSUME NEW k \in Keys
          PROVE  /\ lake'[k] \in Rows \cup {Null}
                 /\ \A n \in Names : cols[n] = Null => lake'[k].val[n] = Null
        <3>1. \A n \in Names : n \notin names => ByName(k, names)[n] = Null
            BY ByNameValue DEF SourceOK
        <3>2. CASE lake'[k] = [val |-> ByName(k, names), hash |-> hash[k]] /\ lake'[k] \in Rows
            BY <2>2, <3>1, <3>2
        <3>3. CASE lake'[k] = lake[k] /\ lake[k] # Null
            BY <3>3 DEF TargetOK, LakeOK
        <3> QED BY <1>12, <3>2, <3>3, SyncedRows
    <2>4. lake' \in [Keys -> Rows \cup {Null}]
        BY <1>12, <2>3 DEF SyncRows
    <2>5. TargetOK'
        BY <2>2, <2>3, <2>4 DEF TargetOK, LakeOK
    <2>6. PlanTyped' /\ PhaseOK'
        BY <1>12 DEF SyncRows, plan, PlanTyped, PhaseOK, Pending
    <2>7. FlagsOK'
        BY <1>12 DEF SyncRows, FlagsOK
    <2> QED BY <2>1, <2>5, <2>6, <2>7
<1>13. CASE NextRun
    BY <1>5, <1>13 DEF NextRun, target, plan, history, TargetOK, LakeOK, PlanTyped, FlagsOK, PhaseOK, Pending
<1>14. CASE Stop
    BY <1>5, <1>14 DEF Stop, target, plan, TargetOK, LakeOK, PlanTyped, FlagsOK, PhaseOK, Pending
<1>15. CASE UNCHANGED vars
    BY <1>5, <1>15 DEF vars, target, plan, history, TargetOK, LakeOK, PlanTyped, FlagsOK, PhaseOK, Pending
<1> QED BY <1>1, <1>2, <1>3, <1>4, <1>6, <1>7, <1>8, <1>9, <1>10, <1>11, <1>12, <1>13, <1>14, <1>15
        DEF Next, SourceStep, SyncStep, Crash, Mismatch

-----------------------------------------------------------------------------
(* The columns of the lake.                                                *)

LEMMA PlanStays ==
    ASSUME PlanOK, UNCHANGED <<attrs, cols, drops, adds>>,
           pc' = "rows" => names' = NamesIn(attrs)
    PROVE  PlanOK'
<1>1. \A n : MatchesAt(n)' = MatchesAt(n)
    BY DEF MatchesAt, NamesIn
<1>2. Pending' = Pending /\ NamesIn(attrs') = NamesIn(attrs)
    BY DEF Pending
<1>3. \A n : TypeIn(attrs', n) = TypeIn(attrs, n)
    OBVIOUS
<1> QED BY <1>1, <1>2, <1>3 DEF PlanOK

\* With nothing left to alter the plan has been carried out.
LEMMA PlanDone ==
    ASSUME PlanOK, drops = {}, adds = {}
    PROVE  Matching
BY DEF PlanOK, Pending, Matching, MatchesAt

LEMMA CanonicalFacts ==
    /\ \A t \in SourceTypes : Canonical(t) = t
    /\ \A t \in SourceTypes \cup {LegacyJSON} : Canonical(t) # Null
    /\ Canonical(Null) = Null
BY DEF Canonical

LEMMA PlannedInit == Init => Planned
BY DEF Init, Planned

\* A column added to the source is not in the hashes of an earlier pass.
LEMMA FitsNoMore ==
    ASSUME Typed, NEW c \in Column, AddAttribute(c)
    PROVE  ~Fits'
<1>1. SUFFICES ASSUME hash' # Unhashed', hash' \in [Keys -> [DOMAIN attrs' -> Cells]]
               PROVE  FALSE
    BY DEF Fits
<1>2. hash' = hash /\ Unhashed' = Unhashed
    BY DEF AddAttribute, Unhashed
<1>3. PICK n \in 1 .. Len(attrs) : hash \in [Keys -> [1 .. n -> Cells]]
    BY <1>1, <1>2 DEF Typed, HashOK
<1>4. PICK k \in Keys : TRUE
    BY <1>1, <1>2, <1>3 DEF Unhashed
<1>5. DOMAIN attrs' = 1 .. (Len(attrs) + 1) /\ Len(attrs) \in Nat
    BY OneMoreColumn, DescriptorFacts, FS_CardinalityType DEF AddAttribute, Typed
<1>6. DOMAIN hash[k] = 1 .. n /\ DOMAIN hash[k] = 1 .. (Len(attrs) + 1)
    BY <1>1, <1>2, <1>3, <1>4, <1>5
<1>7. Len(attrs) + 1 \in 1 .. n
    BY <1>5, <1>6
<1> QED BY <1>3, <1>5, <1>7

\* The plan made by sync_table_schema leads to the source's columns.
LEMMA NewPlan ==
    ASSUME Typed, PlanChanges
    PROVE  PlanOK'
<1> DEFINE D == ToDrop
           A == {attrs[i] : i \in ToAdd(D)}
<1>1. /\ drops' = D /\ adds' = A /\ attrs' = attrs /\ cols' = cols
      /\ pc' # "rows"
    BY DEF PlanChanges, source, target
<1>2. \A c \in A : c.name \in NamesIn(attrs) /\ c.type = TypeIn(attrs, c.name)
    <2>1. ASSUME NEW i \in ToAdd(D)
          PROVE  attrs[i].name \in NamesIn(attrs) /\ attrs[i].type = TypeIn(attrs, attrs[i].name)
        BY <2>1, AtPosition DEF ToAdd, Typed
    <2> QED BY <2>1
<1>3. ASSUME NEW n \in NamesIn(attrs), cols[n] = Null \/ n \in D
      PROVE  n \in Pending'
    <2>1. PICK i \in DOMAIN attrs : attrs[i].name = n
        BY DEF NamesIn
    <2>2. i \in ToAdd(D)
        BY <1>3, <2>1 DEF ToAdd
    <2>3. attrs[i] \in adds'
        BY <1>1, <2>2
    <2> QED BY <2>1, <2>3 DEF Pending
<1>4. ASSUME NEW n \in Names, n \notin D
      PROVE  n \in Pending' \/ MatchesAt(n)
    BY <1>3, <1>4 DEF ToDrop, MatchesAt
<1>5. \A n : MatchesAt(n)' = MatchesAt(n)
    BY <1>1 DEF MatchesAt
<1> HIDE DEF D, A
<1> QED BY <1>1, <1>2, <1>3, <1>4, <1>5 DEF PlanOK

LEMMA PlannedStep ==
    ASSUME Typed, Planned, [Next]_vars
    PROVE  Planned'
<1> USE DEF Planned
<1>1. ASSUME NEW d \in Descriptors, NEW rows \in Contents(d), Recreate(d, rows)
      PROVE  Planned'
    BY <1>1 DEF Recreate, Change, Fits, Unhashed
<1>2. ASSUME NEW c \in Column, AddAttribute(c)
      PROVE  Planned'
    BY <1>2, FitsNoMore DEF AddAttribute, Change
<1>3. ASSUME NEW k \in Keys, NEW i \in DOMAIN attrs, NEW v \in Cells, WriteCell(k, i, v)
      PROVE  Planned'
    <2>1. /\ moved' /\ pc' = pc /\ UNCHANGED <<attrs, cols, drops, adds, names, hash>>
        BY <1>3 DEF WriteCell, Change, target, plan
    <2>2. Fits' => Fits
        BY <2>1 DEF Fits, Unhashed
    <2>3. PlanOK => PlanOK'
        BY <2>1, PlanStays DEF PlanOK
    <2> QED BY <2>1, <2>2, <2>3
<1>4. CASE HashPass
    BY <1>4 DEF HashPass
<1>5. CASE CreateTable
    <2>1. /\ cols' = [n \in Names |-> IF n \in NamesIn(attrs) THEN TypeIn(attrs, n) ELSE Null]
          /\ drops' = {} /\ adds' = {} /\ attrs' = attrs /\ pc' = "columns"
        BY <1>5 DEF CreateTable, source
    <2>2. \A n \in Names : MatchesAt(n)'
        BY <2>1 DEF MatchesAt
    <2> QED BY <2>1, <2>2 DEF PlanOK
<1>6. CASE PlanChanges
    BY <1>6, NewPlan
<1>7. ASSUME NEW n \in Names, DropColumn(n)
      PROVE  Planned'
    <2>1. /\ cols' = [cols EXCEPT ![n] = Null] /\ drops' = drops \ {n} /\ adds' = adds
          /\ n \in drops /\ pc = "alter" /\ pc' # "rows"
          /\ UNCHANGED <<attrs, hash, moved>>
        BY <1>7 DEF DropColumn, source, history
    <2>2. Fits' = Fits /\ Pending' = Pending
        BY <2>1 DEF Fits, Unhashed, Pending
    <2>3. ASSUME PlanOK PROVE PlanOK'
        <3>1. ASSUME NEW m \in Names, m # n
              PROVE  MatchesAt(m)' = MatchesAt(m)
            BY <2>1, <3>1 DEF MatchesAt, Typed
        <3>2. n \in NamesIn(attrs) \/ MatchesAt(n)'
            BY <2>1 DEF MatchesAt, Typed
        <3>3. \A c \in adds' : c.name \in NamesIn(attrs') /\ c.type = TypeIn(attrs', c.name)
            BY <2>1, <2>3 DEF PlanOK
        <3>4. ASSUME NEW m \in Names
              PROVE  IF m \in drops' THEN m \in NamesIn(attrs') => m \in Pending'
                     ELSE m \in Pending' \/ MatchesAt(m)'
            BY <2>1, <2>2, <2>3, <3>1, <3>2 DEF PlanOK
        <3> QED BY <2>1, <3>3, <3>4 DEF PlanOK
    <2> QED BY <2>1, <2>2, <2>3
<1>8. ASSUME NEW c \in Column, AddColumn(c)
      PROVE  Planned'
    <2>1. /\ cols' = [cols EXCEPT ![c.name] = c.type] /\ drops = {} /\ drops' = drops
          /\ adds' = adds \ {c} /\ c \in adds /\ pc = "alter" /\ pc' # "rows"
          /\ c.name \in Names
          /\ UNCHANGED <<attrs, hash, moved>>
        BY <1>8 DEF AddColumn, source, history, Column, PhaseOK, Typed
    <2>2. Fits' = Fits
        BY <2>1 DEF Fits, Unhashed
    <2>3. ASSUME PlanOK PROVE PlanOK'
        <3>1. ASSUME NEW m \in Names, m # c.name
              PROVE  MatchesAt(m)' = MatchesAt(m) /\ (m \in Pending' <=> m \in Pending)
            BY <2>1, <3>1 DEF MatchesAt, Typed, Pending
        <3>2. c.name \in NamesIn(attrs) /\ c.type = TypeIn(attrs, c.name)
            BY <2>1, <2>3 DEF PlanOK
        <3>3. MatchesAt(c.name)'
            BY <2>1, <3>2 DEF MatchesAt, Typed
        <3>4. \A a \in adds' : a.name \in NamesIn(attrs') /\ a.type = TypeIn(attrs', a.name)
            BY <2>1, <2>3 DEF PlanOK
        <3>5. ASSUME NEW m \in Names
              PROVE  m \in Pending' \/ MatchesAt(m)'
            BY <2>1, <2>3, <3>1, <3>3 DEF PlanOK
        <3> QED BY <2>1, <3>4, <3>5 DEF PlanOK
    <2> QED BY <2>1, <2>2, <2>3
<1>9. ASSUME Backfill \/ ReadColumns \/ SyncRows \/ UNCHANGED vars
      PROVE  Planned'
    <2>1. /\ UNCHANGED <<attrs, cols, drops, adds, hash, moved>>
          /\ pc' # "idle" => pc # "idle"
          /\ pc' = "rows" => \/ names' = NamesIn(attrs)
                             \/ pc = "rows" /\ names' = names
        <3>1. CASE Backfill
            BY <3>1 DEF Backfill, source, plan
        <3>2. CASE ReadColumns
            BY <3>2 DEF ReadColumns, source, target, history
        <3>3. CASE SyncRows
            BY <3>3 DEF SyncRows, source, plan
        <3>4. CASE UNCHANGED vars
            BY <3>4 DEF vars, source, target, plan, history
        <3> QED BY <1>9, <3>1, <3>2, <3>3, <3>4
    <2>2. Fits' = Fits
        BY <2>1 DEF Fits, Unhashed
    <2>3. PlanOK => PlanOK'
        BY <2>1, PlanStays DEF PlanOK
    <2> QED BY <2>1, <2>2, <2>3
<1>10. CASE NextRun \/ Stop
    BY <1>10 DEF NextRun, Stop
<1> QED BY <1>1, <1>2, <1>3, <1>4, <1>5, <1>6, <1>7, <1>8, <1>9, <1>10
        DEF Next, SourceStep, SyncStep, Crash, Mismatch

LEMMA UnalteredInit == Init => Unaltered
<1> SUFFICES ASSUME Init, ~altered PROVE created /\ Matching
    BY DEF Init, Unaltered
<1>1. created /\ attrs \in Descriptors
    BY DEF Init
<1>2. cols \in {c \in [Names -> Types \cup {Null}] : \A n \in Names :
                    IF n \notin NamesIn(attrs) THEN c[n] = Null
                    ELSE \/ c[n] = TypeIn(attrs, n)
                         \/ c[n] = LegacyJSON /\ TypeIn(attrs, n) = VARCHAR}
    BY <1>1 DEF Init
<1>3. Canonical(LegacyJSON) = Canonical(VARCHAR)
    BY DEF Canonical
<1> QED BY <1>1, <1>2, <1>3 DEF Matching

\* Nothing is planned where the columns match.
LEMMA NothingToAlter ==
    ASSUME Typed, Matching, PlanChanges
    PROVE  pc' = "columns"
<1>1. \A n \in NamesIn(attrs) : n \in Names /\ TypeIn(attrs, n) \in SourceTypes
    BY Position, NamesInNames DEF Typed
<1>2. \A n \in NamesIn(attrs) : cols[n] # Null
    BY <1>1, CanonicalFacts DEF Matching
<1>3. ToDrop = {}
    BY DEF ToDrop, Matching
<1>4. ToAdd({}) = {}
    BY <1>2, AtPosition DEF ToAdd, Typed
<1> QED BY <1>3, <1>4 DEF PlanChanges, ToBackfill

LEMMA UnalteredStep ==
    ASSUME Typed, Planned, Unaltered, [Next]_vars
    PROVE  Unaltered'
<1> SUFFICES ASSUME ~altered' PROVE created' /\ Matching' /\ pc' \notin {"alter", "backfill"}
    BY DEF Unaltered
<1>1. UNCHANGED <<attrs, cols>> => Matching' = Matching
    BY DEF Matching, NamesIn
<1>2. ASSUME \/ \E k \in Keys, i \in DOMAIN attrs, v \in Cells : WriteCell(k, i, v)
             \/ HashPass \/ ReadColumns \/ NextRun \/ Stop \/ UNCHANGED vars
      PROVE  created' /\ Matching' /\ pc' \notin {"alter", "backfill"}
    <2>1. UNCHANGED <<attrs, cols, created, altered>> /\ (pc' = pc \/ pc' \in {"rows", "idle"})
        BY <1>2 DEF WriteCell, Change, HashPass, ReadColumns, NextRun, Stop, vars,
                    source, target, plan, history
    <2> QED BY <1>1, <2>1 DEF Unaltered
<1>3. CASE CreateTable
    BY <1>3 DEF CreateTable, Unaltered
<1>4. CASE PlanChanges
    <2>1. ~altered /\ UNCHANGED <<attrs, cols, created>>
        BY <1>4 DEF PlanChanges, source, target
    <2> QED BY <1>1, <1>4, <2>1, NothingToAlter DEF Unaltered
<1>5. ASSUME \/ \E n \in Names : DropColumn(n)
             \/ \E c \in Column : AddColumn(c)
             \/ Backfill
      PROVE  FALSE
    BY <1>5 DEF DropColumn, AddColumn, Backfill, history, Unaltered
<1>6. CASE SyncRows
    <2>1. /\ UNCHANGED <<attrs, cols, created>> /\ pc = "rows" /\ pc' = "done"
          /\ ~altered \/ ~moved
        BY <1>6 DEF SyncRows, source, Typed
    <2>2. created /\ drops = {} /\ adds = {}
        BY <2>1 DEF Typed, PhaseOK
    <2>3. Matching
        BY <2>1, <2>2, PlanDone DEF Planned, Unaltered
    <2> QED BY <1>1, <2>1, <2>2, <2>3
<1>7. ASSUME SourceStep, ~\E k \in Keys, i \in DOMAIN attrs, v \in Cells : WriteCell(k, i, v)
      PROVE  FALSE
    BY <1>7 DEF SourceStep, Recreate, AddAttribute
<1> QED BY <1>2, <1>3, <1>4, <1>5, <1>6, <1>7 DEF Next, SyncStep, Crash, Mismatch

-----------------------------------------------------------------------------
(* The values of the columns.                                              *)

LEMMA AccountedInit == Init => Accounted
<1> SUFFICES ASSUME Init PROVE Accounted
    OBVIOUS
<1>1. /\ attrs \in Descriptors /\ src \in Contents(attrs)
      /\ pc = "idle" /\ seats = Seats(attrs)
    BY DEF Init
<1>2. ASSUME NEW k \in Keys, NEW n \in Names, lake[k] # Null, cols[n] # Null
      PROVE  Explained(k, n, lake[k].hash)
    <2>1. /\ lake = InSync
          /\ n \in NamesIn(attrs)
        BY <1>2 DEF Init, NoColumns
    <2>2. lake[k] = [val |-> ByName(k, Names), hash |-> src[k]]
        BY <2>1 DEF InSync
    <2>3. PICK i \in DOMAIN attrs : <<n, i>> \in Seats(attrs) /\ ByName(k, Names)[n] = src[k][i]
        BY <1>1, <2>1, ByNameValue
    <2>4. DOMAIN src[k] = DOMAIN attrs
        BY <1>1, SourceHashes
    <2> QED BY <1>1, <2>2, <2>3, <2>4 DEF Explained
<1> QED BY <1>1, <1>2 DEF Accounted, Kept, Settled, Backfilled, Synced

\* A value that is explained stays so: no position is ever forgotten.
LEMMA ExplainedStays ==
    ASSUME NEW k, NEW n, NEW h, Explained(k, n, h),
           seats \subseteq seats', lake'[k].val[n] = lake[k].val[n]
    PROVE  \E i \in DOMAIN h : <<n, i>> \in seats' /\ lake'[k].val[n] = h[i]
BY DEF Explained

\* A value copied from a row is explained by the row, and so by its hash as
\* long as that is current.
LEMMA CopiedIsExplained ==
    ASSUME Typed, Seats(attrs) \subseteq seats,
           NEW m \in Keys, NEW N, NEW n \in Names, n \in N, n \in NamesIn(attrs)
    PROVE  \E i \in DOMAIN src[m] : <<n, i>> \in seats /\ ByName(m, N)[n] = src[m][i]
<1>1. attrs \in Descriptors /\ src \in Contents(attrs)
    BY DEF Typed
<1>2. PICK i \in DOMAIN attrs : <<n, i>> \in Seats(attrs) /\ ByName(m, N)[n] = src[m][i]
    BY <1>1, ByNameValue
<1>3. DOMAIN src[m] = DOMAIN attrs
    BY <1>1, SourceHashes
<1> QED BY <1>2, <1>3

\* Steps that leave the rows of the lake alone and disturb no column that
\* was settled before.
LEMMA KeptStays ==
    ASSUME Kept, seats \subseteq seats', lake' = lake,
           \A n \in Names : Settled(n)' => Settled(n)
    PROVE  Kept'
<1> SUFFICES ASSUME NEW k \in Keys, NEW n \in Names, lake[k] # Null, Settled(n)'
             PROVE  Explained(k, n, lake[k].hash)'
    BY DEF Kept
<1>1. Explained(k, n, lake[k].hash)
    BY DEF Kept
<1> QED BY <1>1, ExplainedStays DEF Explained

LEMMA BackfilledStays ==
    ASSUME Backfilled, seats \subseteq seats', lake' = lake, hash' = hash, backfill' = backfill,
           pc' \in {"columns", "rows"} => pc \in {"columns", "rows"}
    PROVE  Backfilled'
<1> SUFFICES ASSUME pc' \in {"columns", "rows"}, hash # Unhashed, NEW k \in Keys, NEW n \in backfill,
                    lake[k] # Null, lake[k].hash = hash[k]
             PROVE  Explained(k, n, hash[k])'
    BY DEF Backfilled, Unhashed
<1>1. Explained(k, n, hash[k])
    BY DEF Backfilled
<1> QED BY <1>1, ExplainedStays DEF Explained

\* The source only ever forgets its hashes.
LEMMA AccountedSource ==
    ASSUME Typed, Accounted, SourceStep
    PROVE  Accounted'
<1>1. /\ UNCHANGED <<created, cols, lake, pc, drops, backfill, lost, racy>>
      /\ hash' = hash \/ hash' = Unhashed
      /\ Unhashed' = Unhashed
    BY DEF SourceStep, Recreate, AddAttribute, WriteCell, Change, target, plan, Unhashed
<1>2. seats \subseteq seats' /\ Seats(attrs') \subseteq seats'
    BY DEF SourceStep, Recreate, AddAttribute, WriteCell, Accounted
<1>3. \A n \in Names : Settled(n)' => Settled(n)
    BY <1>1 DEF Settled
<1>4. Kept => Kept'
    BY <1>1, <1>2, <1>3, KeptStays
<1>5. Backfilled => Backfilled'
    <2>1. CASE hash' = hash
        BY <1>1, <1>2, <2>1, BackfilledStays
    <2>2. CASE hash' = Unhashed
        BY <1>1, <2>2 DEF Backfilled
    <2> QED BY <1>1, <2>1, <2>2
<1>6. Synced => Synced'
    BY <1>1 DEF Synced
<1> QED BY <1>1, <1>2, <1>4, <1>5, <1>6 DEF Accounted

\* backfill_columns gives the columns it fills the values they had in the
\* hashed rows, wherever the lake's row is as the source's.
LEMMA AccountedBackfill ==
    ASSUME Typed, Accounted, Backfill
    PROVE  Accounted'
<1>1. /\ UNCHANGED <<attrs, src, hash, seats, cols, drops, backfill, lost>>
      /\ pc = "backfill" /\ pc' = "columns" /\ backfill \subseteq NamesIn(attrs)
      /\ racy' = (racy \/ hash # src)
      /\ drops = {}
    BY DEF Backfill, source, plan, Typed, PhaseOK
<1>2. ASSUME ~lost', ~racy'
      PROVE  Kept' /\ Backfilled'
    <2>1. ~lost /\ ~racy /\ hash = src /\ Seats(attrs) \subseteq seats /\ Kept
        BY <1>1, <1>2 DEF Accounted, Typed
    <2>2. Kept'
        <3> SUFFICES ASSUME NEW k \in Keys, NEW n \in Names, lake'[k] # Null, Settled(n)'
                     PROVE  Explained(k, n, lake[k].hash)'
            BY DEF Kept
        <3>1. n \notin backfill /\ Settled(n)
            BY <1>1 DEF Settled
        <3>2. lake[k] # Null
            BY BackfilledRows
        <3>3. lake'[k].val[n] = lake[k].val[n] /\ lake'[k].hash = lake[k].hash
            BY <3>1, <3>2, BackfilledRows
        <3>4. Explained(k, n, lake[k].hash)
            BY <2>1, <3>1, <3>2 DEF Kept
        <3> QED BY <1>1, <3>3, <3>4, ExplainedStays DEF Explained
    <2>3. Backfilled'
        <3> SUFFICES ASSUME hash # Unhashed, NEW k \in Keys, NEW n \in backfill,
                            lake'[k] # Null, lake'[k].hash = hash[k]
                     PROVE  Explained(k, n, hash[k])'
            BY <1>1 DEF Backfilled, Unhashed
        <3>1. lake[k] # Null /\ lake'[k].hash = lake[k].hash
            BY BackfilledRows
        <3>2. k \in Matches(k) /\ \A m \in Matches(k) : m \in Keys /\ hash[m] = hash[k]
            BY <3>1 DEF Matches
        <3>3. n \in Names /\ n \in NamesIn(attrs)
            BY <1>1 DEF Typed
        <3>4. PICK m \in Keys : hash[m] = hash[k] /\ lake'[k].val[n] = ByName(m, backfill)[n]
            BY <3>1, <3>2, <3>3, BackfilledRows
        <3>5. PICK i \in DOMAIN hash[m] : <<n, i>> \in seats /\ ByName(m, backfill)[n] = hash[m][i]
            BY <2>1, <3>3, CopiedIsExplained
        <3> QED BY <1>1, <3>4, <3>5 DEF Explained
    <2> QED BY <2>2, <2>3
<1> QED BY <1>1, <1>2 DEF Accounted, Synced

\* After sync_table_incremental every row has the source's hash and values.
LEMMA AccountedSyncRows ==
    ASSUME Typed, Planned, Accounted, SyncRows
    PROVE  Accounted'
<1>1. /\ UNCHANGED <<attrs, src, hash, seats, cols, lost>>
      /\ pc = "rows" /\ pc' = "done" /\ hash # Unhashed
      /\ racy' = (racy \/ hash # src)
      /\ drops = {} /\ adds = {}
    BY DEF SyncRows, source, Typed, PhaseOK
<1>2. Synced'
    <2> SUFFICES ASSUME NEW k \in Keys PROVE lake'[k] # Null /\ lake'[k].hash = hash[k]
        BY <1>1 DEF Synced
    <2>1. CASE lake'[k] = [val |-> ByName(k, names), hash |-> hash[k]] /\ lake'[k] \in Rows
        BY <2>1
    <2>2. CASE lake'[k] = lake[k] /\ lake[k] # Null /\ lake[k].hash = hash[k]
        BY <2>2
    <2> QED BY <2>1, <2>2, SyncedRows
<1>3. ASSUME ~lost', ~racy'
      PROVE  Kept'
    <2>1. ~lost /\ ~racy /\ hash = src /\ Seats(attrs) \subseteq seats /\ Kept /\ Backfilled
        BY <1>1, <1>3 DEF Accounted, Typed
    <2>2. Fits
        BY <1>1, <2>1 DEF Fits, Typed, Contents
    <2>3. Matching /\ names = NamesIn(attrs)
        BY <1>1, <2>2, PlanDone DEF Planned, PlanOK
    <2> SUFFICES ASSUME NEW k \in Keys, NEW n \in Names, cols[n] # Null
                 PROVE  Explained(k, n, lake[k].hash)'
        BY <1>1 DEF Kept, Settled
    <2>4. CASE lake'[k] = [val |-> ByName(k, names), hash |-> hash[k]]
        <3>1. n \in NamesIn(attrs)
            BY <2>3 DEF Matching
        <3>2. PICK i \in DOMAIN hash[k] : <<n, i>> \in seats /\ ByName(k, names)[n] = hash[k][i]
            BY <2>1, <2>3, <3>1, CopiedIsExplained
        <3> QED BY <1>1, <2>4, <3>2 DEF Explained
    <2>5. CASE lake'[k] = lake[k] /\ lake[k] # Null /\ lake[k].hash = hash[k]
        <3>1. Explained(k, n, lake[k].hash)
            BY <1>1, <2>1, <2>5 DEF Kept, Backfilled, Settled
        <3> QED BY <1>1, <2>5, <3>1 DEF Explained
    <2> QED BY <2>4, <2>5, SyncedRows
<1> QED BY <1>1, <1>2, <1>3 DEF Accounted, Backfilled

LEMMA AccountedStep ==
    ASSUME Typed, Planned, Accounted, [Next]_vars
    PROVE  Accounted'
<1> USE DEF Accounted
<1>1. CASE HashPass
    <2>1. UNCHANGED <<attrs, seats, lake, cols, drops, backfill, lost, racy>> /\ pc = "idle" /\ pc' = pc
        BY <1>1 DEF HashPass, target, plan, history
    <2>2. Kept => Kept'
        BY <2>1, KeptStays DEF Settled
    <2> QED BY <2>1, <2>2 DEF Backfilled, Synced
<1>2. CASE CreateTable
    <2>1. UNCHANGED <<attrs, seats>> /\ pc' = "columns" /\ \A k \in Keys : lake'[k] = Null
        BY <1>2 DEF CreateTable, source, Typed, LakeOK
    <2> QED BY <2>1 DEF Kept, Backfilled, Synced
<1>3. CASE PlanChanges
    <2>1. /\ UNCHANGED <<attrs, seats, lake, cols, lost, racy>> /\ pc = "idle"
          /\ pc' \in {"columns", "alter"} /\ (pc' = "columns" => backfill' = {})
        BY <1>3 DEF PlanChanges, source, target
    <2>2. Kept => Kept'
        BY <2>1, KeptStays DEF Settled
    <2> QED BY <2>1, <2>2 DEF Backfilled, Synced
<1>4. ASSUME NEW n \in Names, DropColumn(n)
      PROVE  Accounted'
    <2>1. /\ UNCHANGED <<attrs, seats, lost, racy, adds, backfill>>
          /\ pc = "alter" /\ pc' \in {"columns", "alter"} /\ (pc' = "columns" => adds = {})
          /\ cols' = [cols EXCEPT ![n] = Null] /\ n \in drops /\ drops' = drops \ {n}
          /\ lake' = Without({n})
        BY <1>4 DEF DropColumn, source, history
    <2>2. LakeOK
        BY DEF Typed
    <2>3. ASSUME Kept, NEW k \in Keys, NEW m \in Names, lake'[k] # Null, Settled(m)'
          PROVE  Explained(k, m, lake[k].hash)'
        <3>1. m # n /\ Settled(m)
            <4>1. cols \in [Names -> Types \cup {Null}] /\ cols'[m] # Null
                BY <2>3 DEF Settled, Typed
            <4>2. m # n /\ cols[m] # Null
                BY <2>1, <4>1
            <4>3. m \notin backfill \/ m \in drops
                BY <2>1, <2>3 DEF Settled
            <4> QED BY <4>2, <4>3 DEF Settled
        <3>2. /\ lake[k] # Null /\ lake'[k].hash = lake[k].hash
              /\ lake'[k].val[m] = lake[k].val[m]
            BY <2>1, <2>2, <2>3, <3>1, WithoutRows
        <3>3. Explained(k, m, lake[k].hash)
            BY <2>3, <3>1, <3>2 DEF Kept
        <3> QED BY <2>1, <3>2, <3>3, ExplainedStays DEF Explained
    <2>4. Kept => Kept'
        BY <2>3 DEF Kept
    <2>5. pc' = "columns" => backfill' = {}
        <3>1. backfill \subseteq Pending
            BY <2>1 DEF Typed, PhaseOK
        <3>2. adds = {} => Pending = {}
            BY DEF Pending
        <3> QED BY <2>1, <3>1, <3>2
    <2>6. Backfilled' /\ Synced'
        BY <2>1, <2>5 DEF Backfilled, Synced
    <2> QED BY <2>1, <2>4, <2>6
<1>5. ASSUME NEW c \in Column, AddColumn(c)
      PROVE  Accounted'
    <2>1. /\ UNCHANGED <<attrs, seats, lost, racy, lake, backfill, drops>>
          /\ pc = "alter" /\ pc' \in {"backfill", "alter"} /\ drops = {} /\ c \in adds
          /\ cols' = [cols EXCEPT ![c.name] = c.type]
        BY <1>5 DEF AddColumn, source, history
    <2>2. c.name \in backfill
        BY <2>1 DEF Typed, PhaseOK, Pending
    <2>3. \A n \in Names : Settled(n)' => Settled(n)
        BY <2>1, <2>2 DEF Settled, Typed
    <2>4. Kept => Kept'
        BY <2>1, <2>3, KeptStays
    <2> QED BY <2>1, <2>4 DEF Backfilled, Synced
<1>6. CASE ReadColumns \/ NextRun \/ UNCHANGED vars
    <2>1. /\ UNCHANGED <<attrs, hash, seats, lake, cols, drops, backfill, lost, racy>>
          /\ \/ pc' = pc
             \/ pc = "columns" /\ pc' = "rows"
             \/ pc = "done" /\ pc' = "idle"
        <3>1. CASE ReadColumns
            BY <3>1 DEF ReadColumns, source, target, history
        <3>2. CASE NextRun
            BY <3>2 DEF NextRun, source, target, plan, history
        <3>3. CASE UNCHANGED vars
            BY <3>3 DEF vars, source, target, plan, history
        <3> QED BY <1>6, <3>1, <3>2, <3>3
    <2>2. Kept => Kept'
        BY <2>1, KeptStays DEF Settled
    <2>3. Backfilled => Backfilled'
        BY <2>1, BackfilledStays
    <2>4. Synced => Synced'
        BY <2>1 DEF Synced, Unhashed
    <2> QED BY <2>1, <2>2, <2>3, <2>4
<1>7. CASE Stop
    <2>1. /\ UNCHANGED <<attrs, seats, lake, cols, drops, backfill, racy>> /\ pc' = "idle"
          /\ ~lost' => ~lost
          /\ ~lost' => \A n \in backfill \ drops : cols[n] = Null
        BY <1>7 DEF Stop, source, target, plan
    <2>2. ~lost' => \A n \in Names : Settled(n)' => Settled(n)
        BY <2>1 DEF Settled
    <2>3. Kept /\ ~lost' => Kept'
        BY <2>1, <2>2, KeptStays
    <2> QED BY <2>1, <2>3 DEF Backfilled, Synced
<1> QED BY <1>1, <1>2, <1>3, <1>4, <1>5, <1>6, <1>7, AccountedSource, AccountedBackfill, AccountedSyncRows
        DEF Next, SyncStep, Crash, Mismatch

-----------------------------------------------------------------------------
(* What follows for every behaviour.                                       *)

LEMMA Inductive == Spec => []IInv
<1>1. Init => IInv
    BY TypedInit, PlannedInit, UnalteredInit, AccountedInit DEF IInv
<1>2. IInv /\ [Next]_vars => IInv'
    BY TypedStep, PlannedStep, UnalteredStep, AccountedStep DEF IInv
<1> QED BY <1>1, <1>2, PTL DEF Spec

\* Through changes of the source, ALTERs that commit one by one and crashes
\* between them, the lake's columns and rows keep their types, and a column
\* that is gone leaves no value behind.
THEOREM SchemaTypeCorrect == Spec => []TypeOK
<1>1. IInv => TypeOK
    <2> SUFFICES ASSUME Typed PROVE TypeOK
        BY DEF IInv
    <2>1. hash = Unhashed \/ \A k \in Keys : Len(hash[k]) <= Len(attrs)
        <3> SUFFICES ASSUME hash # Unhashed, NEW k \in Keys
                     PROVE  Len(hash[k]) <= Len(attrs)
            OBVIOUS
        <3>1. Len(attrs) \in Nat
            BY DescriptorFacts, FS_CardinalityType DEF Typed
        <3>2. PICK n \in 1 .. Len(attrs) : hash[k] \in [1 .. n -> Cells]
            BY DEF Typed, HashOK
        <3>3. hash[k] \in Seq(Cells) /\ Len(hash[k]) = n
            BY <3>1, <3>2, SeqDef, LenProperties
        <3> QED BY <3>1, <3>2, <3>3
    <2> QED BY <2>1 DEF Typed, LakeOK, PhaseOK, TypeOK
<1> QED BY <1>1, Inductive, PTL

\* Whatever columns earlier runs left half dropped or half added, a run of
\* sync_table_schema that finishes over an unchanged source leaves the lake
\* with the source's columns, in name and type.
THEOREM ColumnsAlwaysMatch == Spec => []ColumnsMatch
<1>1. IInv => ColumnsMatch
    BY PlanDone DEF IInv, Typed, PhaseOK, Planned, ColumnsMatch
<1> QED BY <1>1, Inductive, PTL

\* For any columns, rows, changes and crashes: when no column ever moved, no
\* run ended between an ADD COLUMN and the sync of its rows and no stale row
\* was copied, every column of every row has the source's value.
THEOREM BackfillCompletes == Spec => []ColumnsFilled
<1>1. ASSUME IInv, pc = "done", ~moved, hash = src, Seated, ~lost, ~racy
      PROVE  Filled
    <2>1. /\ attrs \in Descriptors /\ src \in Contents(attrs) /\ LakeOK
          /\ cols \in [Names -> Types \cup {Null}]
          /\ drops = {} /\ adds = {}
        BY <1>1 DEF IInv, Typed, PhaseOK
    <2>2. Matching
        BY <1>1, <2>1, PlanDone DEF IInv, Planned
    <2>3. Kept /\ Synced /\ Seats(attrs) \subseteq seats
        BY <1>1 DEF IInv, Accounted
    <2> SUFFICES ASSUME NEW k \in Keys PROVE lake[k] # Null /\ lake[k].val = ByName(k, Names)
        BY DEF Filled
    <2>4. src[k] # Null
        BY <2>1, SourceHashes
    <2>5. hash # Unhashed
        BY <1>1, <2>4 DEF Unhashed
    <2>6. lake[k] # Null /\ lake[k].hash = src[k]
        BY <1>1, <2>3, <2>5 DEF Synced
    <2>7. lake[k].val \in [Names -> Cells]
        BY <2>1, <2>6 DEF LakeOK, Rows
    <2>8. ASSUME NEW n \in Names, n \in NamesIn(attrs)
          PROVE  lake[k].val[n] = ByName(k, Names)[n]
        <3>1. PICK i \in DOMAIN attrs : <<n, i>> \in Seats(attrs) /\ ByName(k, Names)[n] = src[k][i]
            BY <2>1, <2>8, ByNameValue
        <3>2. cols[n] # Null
            <4>1. TypeIn(attrs, n) \in SourceTypes
                BY <2>1, <2>8, Position
            <4> QED BY <2>2, <2>8, <4>1, CanonicalFacts DEF Matching
        <3>3. PICK j \in DOMAIN src[k] : <<n, j>> \in seats /\ lake[k].val[n] = src[k][j]
            BY <1>1, <2>3, <2>6, <3>2 DEF Kept, Settled, Explained
        <3>4. i = j
            BY <1>1, <2>3, <3>1, <3>3 DEF Seated
        <3> QED BY <3>1, <3>3, <3>4
    <2>9. ASSUME NEW n \in Names, n \notin NamesIn(attrs)
          PROVE  lake[k].val[n] = ByName(k, Names)[n]
        <3>1. ByName(k, Names)[n] = Null
            BY <2>9 DEF ByName
        <3>2. cols[n] = Null
            BY <2>2, <2>9 DEF Matching
        <3> QED BY <2>1, <2>6, <3>1, <3>2 DEF LakeOK
    <2>10. ByName(k, Names) \in [Names -> Cells]
        BY <2>1, ByNameValue
    <2> QED BY <2>6, <2>7, <2>8, <2>9, <2>10
<1>2. IInv => ColumnsFilled
    BY <1>1 DEF ColumnsFilled
<1> QED BY <1>2, Inductive, PTL

\* A run alters the lake only when the source was altered since the last
\* finished run: columns of legacy types are never rebuilt for their own sake.
THEOREM AltersOnlyWhenAltered == Spec => NoChurn
<1>1. IInv /\ [Next]_vars => [pc = "idle" /\ pc' = "alter" => altered]_vars
    <2> SUFFICES ASSUME IInv, Next, pc = "idle", pc' = "alter" PROVE altered
        OBVIOUS
    <2>1. CASE PlanChanges
        BY <2>1, NothingToAlter DEF IInv, Unaltered
    <2>2. CASE ~PlanChanges
        BY <2>2 DEF Next, SourceStep, Recreate, AddAttribute, WriteCell, Change, plan, SyncStep,
                    HashPass, CreateTable, Backfill, ReadColumns, SyncRows, NextRun, Mismatch,
                    Stop, DropColumn, AddColumn, Crash
    <2> QED BY <2>1, <2>2
<1> QED BY <1>1, Inductive, PTL DEF Spec, NoChurn
=============================================================================
