-------------------------- MODULE TableSyncProofs --------------------------
(* Proofs about TableSync, for every table, set of runs and bound. *)
EXTENDS TableSync, TLAPS

USE DEF source, local, bounds, history

(***************************************************************************)
(* Type correctness.                                                       *)
(***************************************************************************)

LEMMA TypeMirror == TypeOK /\ Mirror => TypeOK'
<1> USE NullAssumption, BoundAssumption DEF TypeOK, SourceRows, Hashes, Times, Touch, MirrorWrite
<1>1. ASSUME TypeOK, NEW k \in Keys, NEW v \in Values, MirrorInsert(k, v) PROVE TypeOK'
  BY <1>1 DEF MirrorInsert
<1>2. ASSUME TypeOK, NEW s \in src, NEW v \in Values, MirrorUpsert(s, v) PROVE TypeOK'
  BY <1>2 DEF MirrorUpsert
<1>3. ASSUME TypeOK, NEW s \in src, MirrorDelete(s) PROVE TypeOK'
  BY <1>3 DEF MirrorDelete
<1>4. ASSUME TypeOK, MirrorReplace PROVE TypeOK'
  <2>1. /\ src' \subseteq SourceRows
        /\ \A x, y \in src' : x.key = y.key => x = y
        /\ \A s \in src' : s.hash = Null <=> s.at = Null
    BY <1>4 DEF MirrorReplace
  <2>2. touched' \in [Runs -> SUBSET Keys]
    BY <1>4 DEF MirrorReplace
  <2>3. hasCol' = FALSE /\ MirrorWrite
    BY <1>4 DEF MirrorReplace
  <2> HIDE DEF SourceRows, Hashes, Times, Touch
  <2>4. hasCol' \in BOOLEAN
    BY <2>3
  <2>5. /\ UNCHANGED <<clock, lake, pc, txn, meta, todo, live, changed, faults>>
        /\ UNCHANGED <<disturbed, miscounted, racy>>
        /\ writes' \in 0 .. MaxWrites
    BY <1>4, <2>3
  <2> HIDE DEF MirrorWrite
  <2>6. QED BY <1>4, <2>1, <2>2, <2>4, <2>5
<1>5. QED BY <1>1, <1>2, <1>3, <1>4 DEF Mirror

LEMMA TypeHash == \A r \in Runs : TypeOK /\ (HashStep(r) \/ EndHashEarly(r)) => TypeOK'
<1> SUFFICES ASSUME TypeOK, NEW r \in Runs PROVE HashStep(r) \/ EndHashEarly(r) => TypeOK'
  OBVIOUS
<1> USE NullAssumption, BoundAssumption
    DEF TypeOK, SourceRows, Hashes, Times, Touch, Goto, At, Phases
<1>1. StartHash(r) => TypeOK'
  BY DEF StartHash, Forget
<1>2. BeginBatch(r) => TypeOK'
  BY DEF BeginBatch
<1>3. HashBatch(r) => TypeOK'
  <2> SUFFICES ASSUME HashBatch(r) PROVE TypeOK'
    OBVIOUS
  <2>1. PICK B \in SUBSET src :
           /\ src' = (src \ B) \cup {Stamp(s, txn[r]) : s \in B}
           /\ Touch({s.key : s \in B})
    BY DEF HashBatch
  <2>2. txn[r] # Null
    BY DEF HashBatch
  <2>3. \A s \in B : /\ Stamp(s, txn[r]) \in SourceRows
                     /\ Stamp(s, txn[r]).key = s.key
                     /\ Stamp(s, txn[r]).hash # Null /\ Stamp(s, txn[r]).at # Null
    BY <2>2 DEF Stamp
  <2>4. /\ src' \subseteq SourceRows
        /\ \A x, y \in src' : x.key = y.key => x = y
        /\ \A s \in src' : s.hash = Null <=> s.at = Null
    BY <2>1, <2>3
  <2>5. touched' \in [Runs -> SUBSET Keys]
    BY <2>1
  <2>6. QED BY <2>4, <2>5 DEF HashBatch
<1>4. EndHash(r) => TypeOK'
  BY DEF EndHash
<1>5. EndHashEarly(r) => TypeOK'
  BY DEF EndHashEarly
<1>6. QED BY <1>1, <1>2, <1>3, <1>4, <1>5 DEF HashStep

LEMMA TypeSync == \A r \in Runs : TypeOK /\ (SyncStep(r) \/ StartSync(r) \/ DiffMiscount(r) \/ Abort(r)) => TypeOK'
<1> SUFFICES ASSUME TypeOK, NEW r \in Runs
             PROVE SyncStep(r) \/ StartSync(r) \/ DiffMiscount(r) \/ Abort(r) => TypeOK'
  OBVIOUS
<1> USE NullAssumption, BoundAssumption
    DEF TypeOK, Goto, At, Phases, Operations, WriteLake
<1>1. SkipTable(r) \/ StartSync(r) => TypeOK'
  BY DEF SkipTable, StartSync
<1>2. Download(r) => TypeOK'
  BY DEF Download, Hashed, SourceRows, MetaRows, Hashes
<1>3. Diff(r) => TypeOK'
  BY DEF Diff, Counted
<1>4. DiffMiscount(r) => TypeOK'
  BY DEF DiffMiscount
<1>5. Clear(r) => TypeOK'
  BY DEF Clear
<1>6. ASSUME NEW S \in SUBSET src, \E f \in Files : FileIsFree(f)
      PROVE Copies(S, NewFile) \subseteq LakeRows
  BY <1>6 DEF Copies, NewFile, SourceRows, LakeRows
<1>7. Load(r) => TypeOK'
  BY <1>6 DEF Load, Hashed
<1>8. Dedup(r) => TypeOK'
  BY DEF Dedup, OnePerId
<1>9. Fetch(r) => TypeOK'
  <2> SUFFICES ASSUME Fetch(r) PROVE TypeOK'
    OBVIOUS
  <2>1. live' \in [Runs -> BOOLEAN]
    BY DEF Fetch
  <2>2. {s \in src : SinceWatermark(s, Missing(r))} \subseteq SourceRows
    OBVIOUS
  <2>3. changed' \in [Runs -> SUBSET SourceRows]
    <3> HIDE DEF Times, SourceRows
    <3> QED BY <2>2 DEF Fetch
  <2>4. QED BY <2>1, <2>3 DEF Fetch
<1>10. Delete(r) => TypeOK'
  BY DEF Delete, ToDelete
<1>11. Update(r) => TypeOK'
  <2>1. Relation(r) \subseteq SourceRows
    BY DEF Relation
  <2>2. \A p \in Updates(r) : Overwritten(p[2], p[1]) \in LakeRows
    BY <2>1 DEF Updates, Overwritten, LakeRows, SourceRows
  <2>3. Update(r) => lake' \subseteq LakeRows
    BY <2>2 DEF Update
  <2>6. Update(r) => disturbed' \in [Runs -> BOOLEAN]
    <3>1. Update(r) => \E rows : WriteLake(r, rows)
      <4> HIDE DEF WriteLake
      <4> QED BY Zenon DEF Update
    <3>2. QED BY <3>1
  <2>4. Update(r) => racy' \in BOOLEAN
    BY DEF Update
  <2>5. QED BY <2>3, <2>4, <2>6 DEF Update
<1>12. Insert(r) => TypeOK'
  <2>1. Relation(r) \subseteq SourceRows
    BY DEF Relation
  <2>2. ASSUME NEW S \in OnePerId(NewRows(r)), \E f \in Files : FileIsFree(f)
        PROVE Copies(S, NewFile) \subseteq LakeRows
    BY <2>1, <2>2 DEF OnePerId, NewRows, Copies, NewFile, SourceRows, LakeRows
  <2>3. Insert(r) => lake' \subseteq LakeRows
    BY <2>2 DEF Insert
  <2>6. Insert(r) => disturbed' \in [Runs -> BOOLEAN]
    <3>1. Insert(r) => \E rows : WriteLake(r, rows)
      <4> HIDE DEF WriteLake
      <4> QED BY Zenon DEF Insert
    <3>2. QED BY <3>1
  <2>4. Insert(r) => racy' \in BOOLEAN
    BY DEF Insert
  <2>5. QED BY <2>3, <2>4, <2>6 DEF Insert
<1>13. Abort(r) => TypeOK'
  <2>1. Forget(r) => /\ meta' \in [Runs -> SUBSET MetaRows]
                     /\ todo' \in [Runs -> SUBSET Operations]
                     /\ live' \in [Runs -> BOOLEAN]
                     /\ changed' \in [Runs -> SUBSET SourceRows]
                     /\ touched' \in [Runs -> SUBSET Keys]
                     /\ disturbed' \in [Runs -> BOOLEAN]
                     /\ miscounted' \in [Runs -> BOOLEAN]
    BY DEF Forget
  <2>2. Abort(r) => /\ pc' \in [Runs -> Phases] /\ faults' \in 0 .. MaxFaults
                    /\ txn' \in [Runs -> Times]
    BY DEF Abort, Times
  <2>3. QED BY <2>1, <2>2 DEF Abort
<1>14. QED BY <1>1, <1>2, <1>3, <1>4, <1>5, <1>7, <1>8, <1>9, <1>10, <1>11, <1>12, <1>13
           DEF SyncStep

LEMMA TypeInit == Init => TypeOK
<1>1. Init => /\ src \subseteq SourceRows
              /\ \A x, y \in src : x.key = y.key => x = y
              /\ \A s \in src : s.hash = Null <=> s.at = Null
  BY DEF Init, SourceRows, Hashes, Times
<1>2. Init => clock \in 0 .. MaxClock /\ writes \in 0 .. MaxWrites /\ faults \in 0 .. MaxFaults
  BY BoundAssumption DEF Init
<1>3. Init => pc \in [Runs -> Phases] /\ txn \in [Runs -> Times]
  BY DEF Init, Phases, Times
<1>4. QED BY <1>1, <1>2, <1>3 DEF Init, TypeOK

LEMMA TypeStep == TypeOK /\ [Next]_vars => TypeOK'
<1>1. TypeOK /\ UNCHANGED vars => TypeOK'
  BY DEF TypeOK, vars
<1>2. QED BY <1>1, TypeMirror, TypeHash, TypeSync DEF Next, Fault

\* Every variable of the model keeps its type, rows keep unique keys and a hash
\* is always written with its time (worker_process_table's UPDATE).
THEOREM TypeCorrect == Spec => []TypeOK
<1>1. QED BY TypeInit, TypeStep, PTL DEF Spec

(***************************************************************************)
(* The inductive invariant behind SyncExact: what each run may rely on, by *)
(* phase, until another run writes the lake under it.                      *)
(***************************************************************************)
Trusted(r) == ~disturbed[r] /\ ~miscounted[r]

\* The metadata is the source, but for the rows written since.
MetaFits(r) ==
    pc[r] \in Synced =>
        /\ \A s \in src : s.hash # Null /\ s.key \notin touched[r] =>
               \E m \in meta[r] : m.key = s.key /\ m.hash = s.hash /\ m.at = s.at
        /\ \A m \in meta[r] : m.key \notin touched[r] =>
               \E s \in src : s.key = m.key /\ s.hash = m.hash /\ s.at = m.at

\* The rows fetched are rows of the source, but for those written since.
FetchedFits(r) ==
    pc[r] \in {"delete", "update", "insert"} =>
        /\ \A s \in changed[r] : s.key \notin touched[r] => s \in src
        /\ \A x, y \in changed[r] : x.key = y.key => x = y

LoadsEmpty(r) == pc[r] = "load" /\ Trusted(r) => lake = {}

\* An operation that will not run, or has run, has nothing left to do.
NothingExtra(r) ==
    /\ Trusted(r)
    /\ \/ pc[r] \in {"update", "insert"}
       \/ pc[r] \in {"dedup", "fetch", "delete"} /\ "del" \notin todo[r]
    => \A d \in lake : \E m \in meta[r] : SameId(m, d)

NothingDiffers(r) ==
    Trusted(r) /\ pc[r] \in {"dedup", "fetch", "delete", "update"} /\ "upd" \notin todo[r]
    => \A m \in meta[r], d \in lake : SameId(m, d) => m.hash = d.hash

NothingMissing(r) ==
    Trusted(r) /\ pc[r] \in {"dedup", "fetch", "delete", "update", "insert"} /\ "ins" \notin todo[r]
    => \A m \in meta[r] : \E d \in lake : SameId(m, d)

OneRow(r) ==
    Trusted(r) /\ pc[r] \in {"fetch", "delete", "update", "insert"}
    => \A x, y \in lake : Id(x) = Id(y) => x = y

\* The watermark has missed no row of the diff that nobody wrote since.
Covered(r) ==
    /\ Trusted(r)
    /\ pc[r] \in {"delete", "update", "insert"}
    /\ "ins" \in todo[r] \/ "upd" \in todo[r]
    => \A m \in meta[r] : m.key \notin touched[r] =>
           \/ \E d \in lake : SameRow(m, d)
           \/ \E s \in Relation(r) : s.key = m.key /\ s.hash = m.hash

UpToDate(r) ==
    Trusted(r) /\ pc[r] = "insert"
    => \A m \in meta[r], d \in lake :
           m.key \notin touched[r] /\ SameId(m, d) => m.hash = d.hash

Finished(r) ==
    Trusted(r) /\ pc[r] = "done"
    => /\ Mirrored(r)
       /\ HasPK => \A x, y \in lake : x.key = y.key => x = y

RunInv(r) == /\ MetaFits(r) /\ FetchedFits(r) /\ LoadsEmpty(r)
             /\ NothingExtra(r) /\ NothingDiffers(r) /\ NothingMissing(r)
             /\ OneRow(r) /\ Covered(r) /\ UpToDate(r) /\ Finished(r)

\* Without a racy copy the lake's hashes are those of its values.
Honest == ~racy => \A d \in lake : d.hash = d.val

IInv == TypeOK /\ Honest /\ \A r \in Runs : RunInv(r)

\* The source rows that change are touched, for every run that has downloaded.
SourceStep(q) ==
    pc[q] \in Synced =>
        /\ touched[q] \subseteq touched'[q]
        /\ \A s \in src : s.key \notin touched'[q] => s \in src'
        /\ \A s \in src' : s.key \notin touched'[q] => s \in src

\* A step of others: the run's own state stays, and if the lake changes under
\* it the run is no longer trusted.
OthersStep(q) ==
    /\ pc'[q] = pc[q] /\ meta'[q] = meta[q] /\ todo'[q] = todo[q]
    /\ live'[q] = live[q] /\ changed'[q] = changed[q]
    /\ miscounted'[q] = miscounted[q]
    /\ SourceStep(q)
    /\ disturbed[q] => disturbed'[q]
    /\ pc[q] \in Compared /\ lake' # lake => disturbed'[q]

LEMMA Frame ==
  ASSUME TypeOK, NEW q \in Runs, RunInv(q), OthersStep(q)
  PROVE  RunInv(q)'
<1> USE DEF Synced, Compared
<1>1. Trusted(q)' /\ pc[q] \in Compared => Trusted(q) /\ lake' = lake
  BY DEF Trusted, OthersStep
<1>2. pc[q] \in Synced => touched[q] \subseteq touched'[q]
  BY DEF OthersStep, SourceStep
<1>3. MetaFits(q)'
  BY DEF MetaFits, RunInv, OthersStep, SourceStep
<1>4. FetchedFits(q)'
  BY DEF FetchedFits, RunInv, OthersStep, SourceStep
<1>5. LoadsEmpty(q)' /\ NothingExtra(q)' /\ NothingDiffers(q)' /\ NothingMissing(q)' /\ OneRow(q)'
  BY <1>1 DEF LoadsEmpty, NothingExtra, NothingDiffers, NothingMissing, OneRow, RunInv, OthersStep,
              SameId, Id
<1>6. Covered(q)'
  <2> SUFFICES ASSUME Trusted(q)', pc[q] \in {"delete", "update", "insert"},
                      "ins" \in todo[q] \/ "upd" \in todo[q],
                      NEW m \in meta[q], m.key \notin touched'[q], \A d \in lake : ~SameRow(m, d)
               PROVE  \E s \in Relation(q)' : s.key = m.key /\ s.hash = m.hash
    BY <1>1 DEF Covered, OthersStep, SameRow, SameId, Id
  <2>1. PICK s \in Relation(q) : s.key = m.key /\ s.hash = m.hash
    BY <1>1, <1>2 DEF Covered, RunInv
  <2>2. s \in Relation(q)'
    BY <2>1 DEF Relation, OthersStep, SourceStep
  <2>3. QED BY <2>1, <2>2
<1>7. UpToDate(q)'
  BY <1>1, <1>2 DEF UpToDate, RunInv, OthersStep, SameId, Id
<1>8. Finished(q)'
  <2> SUFFICES ASSUME Trusted(q)', pc[q] = "done" PROVE Finished(q)'
    BY DEF Finished, OthersStep
  <2>1. lake' = lake /\ Mirrored(q) /\ (HasPK => \A x, y \in lake : x.key = y.key => x = y)
    BY <1>1 DEF Finished, RunInv
  <2>2. ASSUME NEW s \in src', s.hash # Null, s.key \notin touched'[q]
        PROVE  \E d \in lake : SameRow(s, d)
    BY <2>1, <2>2 DEF Mirrored, Hashed, OthersStep, SourceStep
  <2>3. ASSUME NEW d \in lake
        PROVE  Excused(q, d)' \/ \E s \in Hashed' : s.key \notin touched'[q] /\ SameRow(s, d)
    <3>1. CASE Excused(q, d)
      BY <3>1, <1>2 DEF Excused, OthersStep, SameId, Id
    <3>2. CASE \E s \in Hashed : s.key \notin touched[q] /\ SameRow(s, d)
      <4>1. PICK s \in Hashed : s.key \notin touched[q] /\ SameRow(s, d)
        BY <3>2
      <4>2. CASE s.key \notin touched'[q]
        BY <4>1, <4>2 DEF Hashed, OthersStep, SourceStep
      <4>3. CASE s.key \in touched'[q]
        <5>1. PICK m \in meta[q] : m.key = s.key /\ m.hash = s.hash
          BY <4>1 DEF RunInv, MetaFits, Hashed
        <5>2. SameId(m, d)
          BY <4>1, <5>1 DEF SameRow, SameId, Id
        <5>3. QED BY <4>3, <5>1, <5>2 DEF Excused, OthersStep, SameId, Id
      <4>4. QED BY <4>2, <4>3
    <3>3. QED BY <2>1, <3>1, <3>2 DEF Mirrored
  <2>4. QED BY <2>1, <2>2, <2>3 DEF Finished, Mirrored, Hashed, SameRow, SameId, Id
<1>9. QED BY <1>3, <1>4, <1>5, <1>6, <1>7, <1>8 DEF RunInv

LEMMA MirrorTouches == TypeOK /\ Mirror => \A q \in Runs : OthersStep(q)
<1> SUFFICES ASSUME TypeOK, Mirror, NEW q \in Runs PROVE OthersStep(q)
  OBVIOUS
<1>1. MirrorWrite
  BY DEF Mirror, MirrorInsert, MirrorUpsert, MirrorDelete, MirrorReplace
<1>2. SourceStep(q)
  <2> USE DEF SourceStep, Touch
  <2>1. ASSUME NEW k \in Keys, NEW v \in Values, MirrorInsert(k, v) PROVE SourceStep(q)
    BY <2>1 DEF MirrorInsert
  <2>2. ASSUME NEW s \in src, NEW v \in Values, MirrorUpsert(s, v) PROVE SourceStep(q)
    BY <2>2 DEF MirrorUpsert, TypeOK, SourceRows
  <2>3. ASSUME NEW s \in src, MirrorDelete(s) PROVE SourceStep(q)
    BY <2>3 DEF MirrorDelete
  <2>4. ASSUME MirrorReplace PROVE SourceStep(q)
    BY <2>4 DEF MirrorReplace, TypeOK, SourceRows
  <2>5. QED BY <2>1, <2>2, <2>3, <2>4 DEF Mirror
<1>3. QED BY <1>1, <1>2 DEF OthersStep, MirrorWrite

\* The whole hash pass only touches source rows.
LEMMA HashTouches ==
  \A r \in Runs, q \in Runs :
      TypeOK /\ q # r /\ (HashStep(r) \/ EndHashEarly(r)) => OthersStep(q)
<1> SUFFICES ASSUME NEW r \in Runs, NEW q \in Runs, TypeOK, q # r
             PROVE  HashStep(r) \/ EndHashEarly(r) => OthersStep(q)
  OBVIOUS
<1> USE DEF OthersStep, SourceStep, Goto, At, TypeOK
<1>1. StartHash(r) => OthersStep(q)
  BY DEF StartHash, Forget
<1>2. BeginBatch(r) => OthersStep(q)
  BY DEF BeginBatch
<1>3. HashBatch(r) => OthersStep(q)
  <2> SUFFICES ASSUME HashBatch(r) PROVE OthersStep(q)
    OBVIOUS
  <2>1. PICK B \in SUBSET src :
           /\ src' = (src \ B) \cup {Stamp(s, txn[r]) : s \in B}
           /\ Touch({s.key : s \in B})
    BY DEF HashBatch
  <2>2. \A s \in B : Stamp(s, txn[r]).key = s.key
    BY DEF Stamp
  <2>3. SourceStep(q)
    BY <2>1, <2>2 DEF Touch
  <2>4. QED BY <2>3 DEF HashBatch
<1>4. EndHash(r) => OthersStep(q)
  BY DEF EndHash
<1>5. EndHashEarly(r) => OthersStep(q)
  BY DEF EndHashEarly
<1>6. QED BY <1>1, <1>2, <1>3, <1>4, <1>5 DEF HashStep

LEMMA SyncDisturbs ==
  \A r \in Runs, q \in Runs :
      TypeOK /\ q # r /\ (SyncStep(r) \/ StartSync(r) \/ DiffMiscount(r) \/ Abort(r)) => OthersStep(q)
<1> SUFFICES ASSUME NEW r \in Runs, NEW q \in Runs, TypeOK, q # r
             PROVE  SyncStep(r) \/ StartSync(r) \/ DiffMiscount(r) \/ Abort(r) => OthersStep(q)
  OBVIOUS
<1> USE DEF OthersStep, SourceStep, Goto, At, TypeOK
<1>1. SkipTable(r) \/ StartSync(r) => OthersStep(q)
  BY DEF SkipTable, StartSync
<1>2. Download(r) => OthersStep(q)
  BY DEF Download
<1>3. Diff(r) => OthersStep(q)
  BY DEF Diff
<1>4. DiffMiscount(r) => OthersStep(q)
  BY DEF DiffMiscount
<1>5. ASSUME NEW rows, WriteLake(r, rows)
      PROVE  /\ disturbed[q] => disturbed'[q]
             /\ pc[q] \in Compared /\ lake' # lake => disturbed'[q]
  BY <1>5 DEF WriteLake
<1>6. Clear(r) => OthersStep(q)
  BY <1>5 DEF Clear
<1>7. Load(r) => OthersStep(q)
  BY <1>5 DEF Load
<1>8. Dedup(r) => OthersStep(q)
  BY <1>5 DEF Dedup
<1>9. Fetch(r) => OthersStep(q)
  BY DEF Fetch
<1>10. Delete(r) => OthersStep(q)
  BY <1>5 DEF Delete
<1>11. Update(r) => OthersStep(q)
  BY <1>5 DEF Update
<1>12. Insert(r) => OthersStep(q)
  BY <1>5 DEF Insert
<1>13. Abort(r) => OthersStep(q)
  BY DEF Abort, Forget
<1>14. QED BY <1>1, <1>2, <1>3, <1>4, <1>6, <1>7, <1>8, <1>9, <1>10, <1>11, <1>12, <1>13
           DEF SyncStep

\* A run that has not downloaded yet relies on nothing.
LEMMA BeforeDownload ==
  \A r \in Runs : pc'[r] \in {"idle", "failed", "hash", "sync"} => RunInv(r)'
  BY DEF RunInv, MetaFits, FetchedFits, LoadsEmpty, NothingExtra, NothingDiffers, NothingMissing,
         OneRow, Covered, UpToDate, Finished, Synced

LEMMA OwnHash ==
  \A r \in Runs :
      TypeOK /\ (HashStep(r) \/ EndHashEarly(r) \/ SkipTable(r) \/ StartSync(r) \/ Abort(r)) => RunInv(r)'
<1> SUFFICES ASSUME NEW r \in Runs, TypeOK,
                    HashStep(r) \/ EndHashEarly(r) \/ SkipTable(r) \/ StartSync(r) \/ Abort(r)
             PROVE  pc'[r] \in {"idle", "failed", "hash", "sync"}
  BY BeforeDownload
<1>1. QED BY DEF HashStep, StartHash, BeginBatch, HashBatch, EndHash, EndHashEarly, SkipTable,
                 StartSync, Abort, Goto, At, TypeOK

LEMMA OwnDownload == \A r \in Runs : TypeOK /\ Download(r) => RunInv(r)'
<1> SUFFICES ASSUME NEW r \in Runs, TypeOK, Download(r) PROVE RunInv(r)'
  OBVIOUS
<1>1. pc'[r] = "diff"
  BY DEF Download, Goto, TypeOK
<1>2. MetaFits(r)'
  <2>1. src' = src /\ meta'[r] = {[key |-> s.key, hash |-> s.hash, at |-> s.at] : s \in Hashed}
    BY DEF Download, TypeOK
  <2>2. \A s \in Hashed : \E m \in meta'[r] : m.key = s.key /\ m.hash = s.hash /\ m.at = s.at
    <3> SUFFICES ASSUME NEW s \in Hashed
                 PROVE  \E m \in meta'[r] : m.key = s.key /\ m.hash = s.hash /\ m.at = s.at
      OBVIOUS
    <3>1. [key |-> s.key, hash |-> s.hash, at |-> s.at] \in meta'[r]
      BY <2>1
    <3>2. QED BY <3>1
  <2>3. \A m \in meta'[r] : \E s \in Hashed : s.key = m.key /\ s.hash = m.hash /\ s.at = m.at
    BY <2>1
  <2>4. QED BY <2>1, <2>2, <2>3 DEF MetaFits, Hashed
<1>3. QED BY <1>1, <1>2 DEF RunInv, FetchedFits, LoadsEmpty, NothingExtra, NothingDiffers,
         NothingMissing, OneRow, Covered, UpToDate, Finished

LEMMA OwnDiff == \A r \in Runs : TypeOK /\ RunInv(r) /\ Diff(r) => RunInv(r)'
<1> SUFFICES ASSUME NEW r \in Runs, TypeOK, RunInv(r), Diff(r) PROVE RunInv(r)'
  OBVIOUS
<1>1. /\ UNCHANGED <<src, lake, meta, touched, disturbed, miscounted>>
      /\ pc[r] = "diff"
      /\ pc'[r] \in {"load", "clear", "dedup"}
      /\ pc'[r] = "load" => lake = {}
      /\ todo'[r] = Counted(meta[r])
  BY DEF Diff, Goto, At, TypeOK
<1>2. MetaFits(r)'
  BY <1>1 DEF RunInv, MetaFits, Synced
<1>3. LoadsEmpty(r)'
  BY <1>1 DEF LoadsEmpty
<1>4. NothingExtra(r)'
  BY <1>1 DEF NothingExtra, Counted, Operations, ToDelete, SameId, Id
<1>5. NothingDiffers(r)'
  <2> SUFFICES ASSUME "upd" \notin todo'[r], NEW m \in meta[r], NEW d \in lake, SameId(m, d)
               PROVE  m.hash = d.hash
    BY <1>1 DEF NothingDiffers, SameId, Id
  <2>1. ToUpdate(meta[r]) = {}
    BY <1>1 DEF Counted, Operations
  <2>2. <<m, d>> \in meta[r] \X lake
    OBVIOUS
  <2>3. QED BY <2>1, <2>2 DEF ToUpdate
<1>6. NothingMissing(r)'
  BY <1>1 DEF NothingMissing, Counted, Operations, ToInsert, SameId, Id
<1>7. QED BY <1>1, <1>2, <1>3, <1>4, <1>5, <1>6
          DEF RunInv, FetchedFits, OneRow, Covered, UpToDate, Finished

LEMMA OwnMiscount == \A r \in Runs : TypeOK /\ RunInv(r) /\ DiffMiscount(r) => RunInv(r)'
<1> SUFFICES ASSUME NEW r \in Runs, TypeOK, RunInv(r), DiffMiscount(r) PROVE RunInv(r)'
  OBVIOUS
<1>1. /\ UNCHANGED <<src, lake, meta, touched>>
      /\ pc[r] = "diff" /\ pc'[r] = "load" /\ miscounted'[r]
  BY DEF DiffMiscount, Goto, At, TypeOK
<1>2. MetaFits(r)'
  BY <1>1 DEF RunInv, MetaFits, Synced
<1>3. QED BY <1>1, <1>2 DEF RunInv, FetchedFits, LoadsEmpty, NothingExtra, NothingDiffers,
         NothingMissing, OneRow, Covered, UpToDate, Finished, Trusted

LEMMA OwnClear == \A r \in Runs : TypeOK /\ RunInv(r) /\ Clear(r) => RunInv(r)'
<1> SUFFICES ASSUME NEW r \in Runs, TypeOK, RunInv(r), Clear(r) PROVE RunInv(r)'
  OBVIOUS
<1>1. /\ UNCHANGED <<src, meta, touched>>
      /\ pc[r] = "clear" /\ pc'[r] = "load" /\ lake' = {}
  BY DEF Clear, WriteLake, Goto, At, TypeOK
<1>2. MetaFits(r)'
  BY <1>1 DEF RunInv, MetaFits, Synced
<1>3. QED BY <1>1, <1>2 DEF RunInv, FetchedFits, LoadsEmpty, NothingExtra, NothingDiffers,
         NothingMissing, OneRow, Covered, UpToDate, Finished

LEMMA OwnLoad == \A r \in Runs : TypeOK /\ RunInv(r) /\ Load(r) => RunInv(r)'
<1> SUFFICES ASSUME NEW r \in Runs, TypeOK, RunInv(r), Load(r) PROVE RunInv(r)'
  OBVIOUS
<1>1. /\ UNCHANGED <<src, meta, touched, miscounted>>
      /\ pc[r] = "load" /\ pc'[r] = "done"
      /\ lake' = lake \cup Copies(Hashed, NewFile)
      /\ disturbed'[r] = disturbed[r]
  BY DEF Load, WriteLake, Goto, At, TypeOK
<1>2. MetaFits(r)'
  BY <1>1 DEF RunInv, MetaFits, Synced
<1>3. ASSUME Trusted(r)' PROVE Mirrored(r)' /\ \A x, y \in lake' : x.key = y.key => x = y
  <2>1. lake' = Copies(Hashed, NewFile)
    BY <1>1, <1>3 DEF RunInv, LoadsEmpty, Trusted
  <2>2. \A s \in Hashed : \E d \in lake' : d.key = s.key /\ d.hash = s.hash
    <3> SUFFICES ASSUME NEW s \in Hashed PROVE \E d \in lake' : d.key = s.key /\ d.hash = s.hash
      OBVIOUS
    <3>1. [key |-> s.key, file |-> NewFile, val |-> s.val, hash |-> s.hash] \in lake'
      BY <2>1 DEF Copies
    <3>2. QED BY <3>1
  <2>3. \A d \in lake' : \E s \in Hashed : d.key = s.key /\ d.hash = s.hash
    BY <2>1 DEF Copies
  <2>4. \A s \in Hashed : Id(s) # Null
    BY NullAssumption DEF Id, Hashed, TypeOK, SourceRows
  <2>5. Hashed' = Hashed
    BY <1>1 DEF Hashed
  <2>6. \A s \in Hashed : \E d \in lake' : SameRow(s, d)
    BY <2>2, <2>4 DEF SameRow, SameId, Id
  <2>7. \A d \in lake' : \E s \in Hashed : s.key = d.key /\ SameRow(s, d)
    BY <2>3, <2>4 DEF SameRow, SameId, Id
  <2>8. Mirrored(r)'
    BY <1>1, <2>5, <2>6, <2>7 DEF Mirrored, Excused
  <2>9. QED BY <2>1, <2>8 DEF Copies, Hashed, TypeOK
<1>4. QED BY <1>1, <1>2, <1>3 DEF RunInv, FetchedFits, LoadsEmpty, NothingExtra, NothingDiffers,
         NothingMissing, OneRow, Covered, UpToDate, Finished

LEMMA OwnDedup == \A r \in Runs : TypeOK /\ RunInv(r) /\ Dedup(r) => RunInv(r)'
<1> SUFFICES ASSUME NEW r \in Runs, TypeOK, RunInv(r), Dedup(r) PROVE RunInv(r)'
  OBVIOUS
<1>1. /\ UNCHANGED <<src, meta, todo, touched, miscounted>>
      /\ pc[r] = "dedup" /\ pc'[r] = "fetch"
      /\ lake' \in OnePerId(lake)
      /\ disturbed'[r] = disturbed[r]
  BY DEF Dedup, WriteLake, Goto, At, TypeOK
<1>2. /\ lake' \subseteq lake
      /\ \A x \in lake : \E y \in lake' : Id(x) = Id(y)
      /\ \A x, y \in lake' : Id(x) = Id(y) => x = y
  BY <1>1 DEF OnePerId
<1>3. MetaFits(r)'
  BY <1>1 DEF RunInv, MetaFits, Synced
<1>4. NothingExtra(r)' /\ NothingDiffers(r)'
  BY <1>1, <1>2 DEF RunInv, NothingExtra, NothingDiffers, Trusted, SameId, Id
<1>5. NothingMissing(r)'
  BY <1>1, <1>2 DEF RunInv, NothingMissing, Trusted, SameId, Id
<1>6. OneRow(r)'
  BY <1>1, <1>2 DEF OneRow, Id
<1>7. QED BY <1>1, <1>3, <1>4, <1>5, <1>6
          DEF RunInv, FetchedFits, LoadsEmpty, Covered, UpToDate, Finished

LEMMA OwnFetch == \A r \in Runs : TypeOK /\ RunInv(r) /\ Fetch(r) => RunInv(r)'
<1> SUFFICES ASSUME NEW r \in Runs, TypeOK, RunInv(r), Fetch(r) PROVE RunInv(r)'
  OBVIOUS
<1>1. /\ UNCHANGED <<src, lake, meta, todo, touched, disturbed, miscounted>>
      /\ pc[r] = "fetch" /\ pc'[r] = "delete"
  BY DEF Fetch, Goto, At, TypeOK
<1>2. \/ todo[r] \cap {"ins", "upd"} = {} /\ changed'[r] = {}
      \/ live'[r] /\ changed'[r] = {}
      \/ /\ ~live'[r]
         /\ \A m \in Missing(r) : m.at # Null
         /\ changed'[r] = {s \in src : SinceWatermark(s, Missing(r))}
  BY DEF Fetch, TypeOK
<1>3. MetaFits(r) /\ MetaFits(r)'
  BY <1>1 DEF RunInv, MetaFits, Synced
<1>4. FetchedFits(r)'
  BY <1>1, <1>2 DEF FetchedFits, TypeOK
<1>5. NothingExtra(r)' /\ NothingDiffers(r)' /\ NothingMissing(r)' /\ OneRow(r)'
  BY <1>1 DEF RunInv, NothingExtra, NothingDiffers, NothingMissing, OneRow, Trusted, SameId, Id
<1>6. Covered(r)'
  <2> SUFFICES ASSUME "ins" \in todo[r] \/ "upd" \in todo[r],
                      NEW m \in meta[r], m.key \notin touched[r], \A d \in lake : ~SameRow(m, d)
               PROVE  \E s \in Relation(r)' : s.key = m.key /\ s.hash = m.hash
    BY <1>1 DEF Covered, SameRow, SameId, Id
  <2>1. PICK s \in src : s.key = m.key /\ s.hash = m.hash /\ s.at = m.at
    BY <1>1, <1>3 DEF MetaFits, Synced
  <2>2. CASE live'[r]
    BY <1>1, <2>1, <2>2 DEF Relation
  <2>3. CASE /\ ~live'[r]
             /\ \A n \in Missing(r) : n.at # Null
             /\ changed'[r] = {t \in src : SinceWatermark(t, Missing(r))}
    <3>1. m \in Missing(r)
      BY DEF Missing
    <3>2. m.at \in Nat
      BY <2>3, <3>1, BoundAssumption DEF TypeOK, MetaRows, Times
    <3>3. SinceWatermark(s, Missing(r))
      BY <2>1, <2>3, <3>1, <3>2 DEF SinceWatermark
    <3>4. QED BY <2>1, <2>3, <3>3 DEF Relation
  <2>4. QED BY <1>2, <2>2, <2>3
<1>7. QED BY <1>1, <1>3, <1>4, <1>5, <1>6 DEF RunInv, LoadsEmpty, UpToDate, Finished

LEMMA OwnDelete == \A r \in Runs : TypeOK /\ RunInv(r) /\ Delete(r) => RunInv(r)'
<1> SUFFICES ASSUME NEW r \in Runs, TypeOK, RunInv(r), Delete(r) PROVE RunInv(r)'
  OBVIOUS
<1>1. /\ UNCHANGED <<src, meta, todo, live, changed, touched, miscounted>>
      /\ pc[r] = "delete" /\ pc'[r] = "update"
      /\ lake' = IF "del" \in todo[r] THEN lake \ ToDelete(meta[r]) ELSE lake
      /\ disturbed'[r] = disturbed[r]
  BY DEF Delete, WriteLake, Goto, At, TypeOK
<1>2. /\ lake' \subseteq lake
      /\ \A m \in meta[r], d \in lake : SameId(m, d) => d \in lake'
      /\ "del" \in todo[r] => \A d \in lake' : \E m \in meta[r] : SameId(m, d)
  BY <1>1 DEF ToDelete
<1>3. MetaFits(r)' /\ FetchedFits(r)'
  BY <1>1 DEF RunInv, MetaFits, FetchedFits, Synced
<1>4. NothingExtra(r)'
  BY <1>1, <1>2 DEF RunInv, NothingExtra, Trusted, SameId, Id
<1>5. NothingDiffers(r)' /\ NothingMissing(r)' /\ OneRow(r)'
  BY <1>1, <1>2 DEF RunInv, NothingDiffers, NothingMissing, OneRow, Trusted, SameId, Id
<1>6. Covered(r)'
  <2>1. Relation(r)' = Relation(r)
    BY <1>1 DEF Relation
  <2>2. QED BY <1>1, <1>2, <2>1 DEF RunInv, Covered, Trusted, SameRow, SameId, Id
<1>7. QED BY <1>1, <1>3, <1>4, <1>5, <1>6 DEF RunInv, LoadsEmpty, UpToDate, Finished

\* What the relation holds for a key that nobody wrote since the download is
\* the source's row, with the hash the metadata has.
LEMMA RelationFits ==
  ASSUME TypeOK, NEW r \in Runs, RunInv(r), pc[r] \in {"update", "insert"}
  PROVE  /\ \A s \in Relation(r) : s.key \notin touched[r] => s \in src
         /\ \A x, y \in Relation(r) : x.key = y.key => x = y
         /\ \A s \in Relation(r) : s \in SourceRows
         /\ \A s \in src, m \in meta[r] : s.key = m.key /\ m.key \notin touched[r] => s.hash = m.hash
  BY DEF RunInv, MetaFits, FetchedFits, Relation, TypeOK, Synced

LEMMA OwnUpdate == \A r \in Runs : TypeOK /\ RunInv(r) /\ Update(r) => RunInv(r)'
<1> SUFFICES ASSUME NEW r \in Runs, TypeOK, RunInv(r), Update(r) PROVE RunInv(r)'
  OBVIOUS
<1>1. /\ UNCHANGED <<src, meta, todo, live, changed, touched, miscounted>>
      /\ pc[r] = "update" /\ pc'[r] = "insert"
      /\ disturbed'[r] = disturbed[r]
  BY DEF Update, WriteLake, Goto, At, TypeOK
<1>2. MetaFits(r)' /\ FetchedFits(r)'
  BY <1>1 DEF RunInv, MetaFits, FetchedFits, Synced
<1>3. Relation(r)' = Relation(r)
  BY <1>1 DEF Relation
<1>4. CASE ~(HasPK /\ "upd" \in todo[r])
  <2>1. lake' = lake
    BY <1>4 DEF Update, WriteLake
  <2>2. NothingExtra(r)' /\ NothingMissing(r)' /\ OneRow(r)'
    BY <1>1, <2>1 DEF RunInv, NothingExtra, NothingMissing, OneRow, Trusted, SameId, Id
  <2>3. Covered(r)'
    BY <1>1, <1>3, <2>1 DEF RunInv, Covered, Trusted, SameRow, SameId, Id
  <2>4. UpToDate(r)'
    BY <1>1, <1>4, <2>1 DEF RunInv, NothingDiffers, UpToDate, Trusted, SameId, Id
  <2>5. QED BY <1>1, <1>2, <2>2, <2>3, <2>4 DEF RunInv, LoadsEmpty, NothingDiffers, Finished
<1>5. CASE HasPK /\ "upd" \in todo[r]
  <2> DEFINE Hit(d) == \E s \in Relation(r) : Overwrites(r, s, d)
  <2> USE DEF Id
  <2>1. lake' = {d \in lake : \A p \in Updates(r) : p[2] # d}
                \cup {Overwritten(p[2], p[1]) : p \in Updates(r)}
    BY <1>5 DEF Update, WriteLake
  <2>2. ASSUME NEW d \in lake, ~Hit(d) PROVE d \in lake'
    BY <2>1, <2>2 DEF Updates
  <2>3. ASSUME NEW d \in lake, NEW s \in Relation(r), Overwrites(r, s, d)
        PROVE  Overwritten(d, s) \in lake'
    <3>1. <<s, d>> \in Updates(r)
      BY <2>3 DEF Updates
    <3>2. QED BY <2>1, <3>1
  <2>4. ASSUME NEW x \in lake'
        PROVE  \/ x \in lake /\ ~Hit(x)
               \/ \E d \in lake, s \in Relation(r) : Overwrites(r, s, d) /\ x = Overwritten(d, s)
    <3>1. CASE x \in lake /\ \A p \in Updates(r) : p[2] # x
      <4>1. ASSUME NEW s \in Relation(r), Overwrites(r, s, x) PROVE FALSE
        <5>1. <<s, x>> \in Updates(r)
          BY <3>1, <4>1 DEF Updates
        <5>2. QED BY <3>1, <5>1
      <4>2. QED BY <3>1, <4>1
    <3>2. CASE \E p \in Updates(r) : x = Overwritten(p[2], p[1])
      BY <3>2 DEF Updates
    <3>3. QED BY <2>1, <3>1, <3>2
  <2> HIDE DEF Hit
  <2>5. \A d \in lake : \E x \in lake' : x.key = d.key
    BY <2>2, <2>3 DEF Hit, Overwritten
  <2>6. \A x \in lake' : \E d \in lake : d.key = x.key
    BY <2>4 DEF Overwritten
  <2>7. NothingExtra(r)' /\ NothingMissing(r)'
    BY <1>1, <1>5, <2>5, <2>6 DEF RunInv, NothingExtra, NothingMissing, Trusted, SameId
  <2>8. OneRow(r)'
    <3> SUFFICES ASSUME Trusted(r), NEW x \in lake', NEW y \in lake', x.key = y.key PROVE x = y
      BY <1>1, <1>5 DEF OneRow, Trusted
    <3>1. \A d, e \in lake : d.key = e.key => d = e
      BY <1>1, <1>5 DEF RunInv, OneRow
    <3>2. \A s, t \in Relation(r) : s.key = t.key => s = t
      BY <1>1, RelationFits
    <3>3. \A s, d : Overwrites(r, s, d) => s.key = d.key
      BY <1>5 DEF Overwrites, SameId
    <3>4. CASE x \in lake /\ ~Hit(x)
      BY <2>4, <3>1, <3>4 DEF Hit, Overwritten
    <3>5. CASE y \in lake /\ ~Hit(y)
      BY <2>4, <3>1, <3>5 DEF Hit, Overwritten
    <3>6. CASE /\ \E d \in lake, s \in Relation(r) : Overwrites(r, s, d) /\ x = Overwritten(d, s)
               /\ \E d \in lake, s \in Relation(r) : Overwrites(r, s, d) /\ y = Overwritten(d, s)
      BY <3>1, <3>2, <3>3, <3>6 DEF Overwritten
    <3>7. QED BY <2>4, <3>4, <3>5, <3>6
  <2>9. Covered(r)'
    <3> SUFFICES ASSUME Trusted(r), "ins" \in todo[r] \/ "upd" \in todo[r],
                        NEW m \in meta[r], m.key \notin touched[r]
                 PROVE  \/ \E d \in lake' : SameRow(m, d)
                        \/ \E s \in Relation(r) : s.key = m.key /\ s.hash = m.hash
      BY <1>1, <1>3 DEF Covered, Trusted, SameRow, SameId
    <3>1. ASSUME NEW d \in lake, SameRow(m, d) PROVE ~Hit(d)
      <4>1. ASSUME NEW s \in Relation(r), Overwrites(r, s, d) PROVE FALSE
        BY <1>1, <1>5, <3>1, <4>1, RelationFits DEF Overwrites, SameRow, SameId
      <4>2. QED BY <4>1 DEF Hit
    <3>2. QED BY <1>1, <2>2, <3>1 DEF RunInv, Covered
  <2>10. UpToDate(r)'
    <3> SUFFICES ASSUME Trusted(r), NEW m \in meta[r], NEW x \in lake',
                        m.key \notin touched[r], m.key = x.key
                 PROVE  m.hash = x.hash
      BY <1>1, <1>5 DEF UpToDate, Trusted, SameId
    <3>1. CASE x \in lake /\ ~Hit(x)
      <4> SUFFICES ASSUME m.hash # x.hash PROVE FALSE
        OBVIOUS
      <4>1. \A d \in lake : ~SameRow(m, d)
        BY <1>1, <1>5, <3>1 DEF RunInv, OneRow, SameRow, SameId
      <4>2. PICK s \in Relation(r) : s.key = m.key /\ s.hash = m.hash
        BY <1>1, <1>5, <4>1 DEF RunInv, Covered
      <4>3. m.key # Null
        BY NullAssumption DEF TypeOK, MetaRows
      <4>4. Overwrites(r, s, x)
        BY <1>5, <4>2, <4>3 DEF Overwrites, SameId
      <4>5. QED BY <3>1, <4>4 DEF Hit
    <3>2. ASSUME NEW d \in lake, NEW s \in Relation(r), Overwrites(r, s, d), x = Overwritten(d, s)
          PROVE  m.hash = x.hash
      BY <1>1, <1>5, <3>2, RelationFits DEF Overwrites, Overwritten, SameId
    <3>3. QED BY <2>4, <3>1, <3>2
  <2>11. QED BY <1>1, <1>2, <2>7, <2>8, <2>9, <2>10 DEF RunInv, LoadsEmpty, NothingDiffers, Finished
<1>6. QED BY <1>4, <1>5

LEMMA OwnInsert == \A r \in Runs : TypeOK /\ RunInv(r) /\ Insert(r) => RunInv(r)'
<1> SUFFICES ASSUME NEW r \in Runs, TypeOK, RunInv(r), Insert(r) PROVE RunInv(r)'
  OBVIOUS
<1>1. /\ UNCHANGED <<src, meta, todo, live, changed, touched, miscounted>>
      /\ pc[r] = "insert" /\ pc'[r] = "done"
      /\ disturbed'[r] = disturbed[r]
  BY DEF Insert, WriteLake, Goto, At, TypeOK
<1>2. MetaFits(r) /\ MetaFits(r)'
  BY <1>1 DEF RunInv, MetaFits, Synced
<1>3. PICK S \in SUBSET Relation(r) :
         /\ lake' = lake \cup Copies(S, NewFile)
         /\ "ins" \in todo[r] => S \in OnePerId(NewRows(r))
         /\ "ins" \notin todo[r] => S = {}
  <2>1. CASE "ins" \in todo[r]
    <3>1. PICK S \in OnePerId(NewRows(r)) : lake' = lake \cup Copies(S, NewFile)
      BY <2>1 DEF Insert, WriteLake
    <3>2. S \in SUBSET Relation(r)
      BY <3>1 DEF OnePerId, NewRows
    <3>3. QED BY <2>1, <3>1, <3>2
  <2>2. CASE "ins" \notin todo[r]
    <3>1. lake' = lake \cup Copies({}, NewFile)
      BY <2>2 DEF Insert, WriteLake, Copies
    <3>2. QED BY <2>2, <3>1
  <2>3. QED BY <2>1, <2>2
<1>4. \A y \in S : /\ y \in NewRows(r)
                   /\ y.hash # Null
                   /\ \E m \in meta[r] : SameId(m, y)
                   /\ \A d \in lake : ~SameId(d, y)
  BY <1>3 DEF OnePerId, NewRows
<1>5. \A y \in S : \E d \in lake' : d.key = y.key /\ d.hash = y.hash
  <2> SUFFICES ASSUME NEW y \in S PROVE \E d \in lake' : d.key = y.key /\ d.hash = y.hash
    OBVIOUS
  <2>1. [key |-> y.key, file |-> NewFile, val |-> y.val, hash |-> y.hash] \in lake'
    BY <1>3 DEF Copies
  <2>2. QED BY <2>1
<1>6. \A d \in lake' : d \in lake \/ \E y \in S : d.key = y.key /\ d.hash = y.hash
  BY <1>3 DEF Copies
<1>7. lake \subseteq lake'
  BY <1>3
<1>8. ASSUME Trusted(r), NEW s \in Hashed, s.key \notin touched[r]
      PROVE  \E d \in lake' : SameRow(s, d)
  <2>1. PICK m \in meta[r] : m.key = s.key /\ m.hash = s.hash
    BY <1>1, <1>2, <1>8 DEF MetaFits, Hashed, Synced
  <2>2. CASE \E d \in lake : SameId(m, d)
    BY <1>1, <1>7, <1>8, <2>1, <2>2 DEF RunInv, UpToDate, SameRow, SameId, Id
  <2>3. CASE \A d \in lake : ~SameId(m, d)
    <3>1. "ins" \in todo[r]
      BY <1>1, <1>8, <2>3 DEF RunInv, NothingMissing
    <3>2. PICK t \in Relation(r) : t.key = m.key /\ t.hash = m.hash
      BY <1>1, <1>8, <2>1, <2>3, <3>1 DEF RunInv, Covered, SameRow
    <3>3. Id(t) = Id(s) /\ Id(s) # Null /\ SameId(m, t) /\ t.hash # Null
      BY <2>1, <3>2, NullAssumption DEF Id, SameId, Hashed, TypeOK, SourceRows
    <3>4. t \in NewRows(r)
      BY <2>1, <2>3, <3>2, <3>3 DEF NewRows, SameId
    <3>5. PICK y \in S : Id(t) = Id(y)
      BY <1>3, <3>1, <3>4 DEF OnePerId
    <3>6. y.hash = s.hash
      BY <1>1, <1>8, <2>1, <3>2, <3>3, <3>5, RelationFits DEF Id
    <3>7. QED BY <1>5, <3>3, <3>5, <3>6 DEF SameRow, SameId, Id
  <2>4. QED BY <2>2, <2>3
<1>9. ASSUME Trusted(r), NEW d \in lake'
      PROVE  Excused(r, d) \/ \E s \in Hashed : s.key \notin touched[r] /\ SameRow(s, d)
  <2>1. PICK m \in meta[r] : /\ SameId(m, d)
                             /\ m.key \notin touched[r] => m.hash = d.hash
    <3>1. CASE d \in lake
      BY <1>1, <1>9, <3>1 DEF RunInv, NothingExtra, UpToDate
    <3>2. ASSUME NEW y \in S, d.key = y.key, d.hash = y.hash
          PROVE  \E m \in meta[r] : SameId(m, d) /\ (m.key \notin touched[r] => m.hash = d.hash)
      BY <1>1, <1>3, <1>4, <3>2, RelationFits DEF SameId, Id
    <3>3. QED BY <1>6, <3>1, <3>2
  <2>2. CASE m.key \in touched[r]
    BY <2>1, <2>2 DEF Excused
  <2>3. CASE m.key \notin touched[r]
    <3>1. PICK s \in src : s.key = m.key /\ s.hash = m.hash
      BY <1>1, <1>2, <2>3 DEF MetaFits, Synced
    <3>2. m.hash # Null
      BY NullAssumption DEF TypeOK, MetaRows
    <3>3. s \in Hashed /\ SameRow(s, d)
      BY <2>1, <2>3, <3>1, <3>2 DEF Hashed, SameRow, SameId, Id
    <3>4. QED BY <2>3, <3>1, <3>3
  <2>4. QED BY <2>2, <2>3
<1>10. Trusted(r) /\ HasPK => \A x, y \in lake' : x.key = y.key => x = y
  <2> SUFFICES ASSUME Trusted(r), HasPK, NEW x \in lake', NEW y \in lake', x.key = y.key PROVE x = y
    OBVIOUS
  <2>1. CASE x \in lake /\ y \in lake
    BY <1>1, <2>1 DEF RunInv, OneRow, Id
  <2>2. CASE x \notin lake /\ y \notin lake
    <3>1. PICK s \in S : x = [key |-> s.key, file |-> NewFile, val |-> s.val, hash |-> s.hash]
      BY <1>3, <2>2 DEF Copies
    <3>2. PICK t \in S : y = [key |-> t.key, file |-> NewFile, val |-> t.val, hash |-> t.hash]
      BY <1>3, <2>2 DEF Copies
    <3>3. s = t
      BY <1>1, <1>3, <3>1, <3>2, RelationFits
    <3>4. QED BY <3>1, <3>2, <3>3
  <2>3. ASSUME NEW d \in lake, NEW s \in S, d.key = s.key PROVE FALSE
    <3>1. s.key # Null
      BY <1>1, <1>3, RelationFits, NullAssumption DEF SourceRows
    <3>2. QED BY <1>4, <2>3, <3>1 DEF SameId, Id
  <2>4. QED BY <1>6, <2>1, <2>2, <2>3
<1>11. Finished(r)'
  <2>1. Trusted(r)' => Trusted(r)
    BY <1>1 DEF Trusted
  <2>2. Hashed' = Hashed
    BY <1>1 DEF Hashed
  <2>3. Trusted(r) => Mirrored(r)'
    BY <1>1, <1>8, <1>9, <2>2 DEF Mirrored, Excused, SameRow, SameId, Id
  <2>4. QED BY <1>10, <2>1, <2>3 DEF Finished
<1>12. QED BY <1>1, <1>2, <1>11 DEF RunInv, FetchedFits, LoadsEmpty, NothingExtra, NothingDiffers,
          NothingMissing, OneRow, Covered, UpToDate

(***************************************************************************)
(* The theorems.                                                           *)
(***************************************************************************)
LEMMA HonestStep == TypeOK /\ Honest /\ [Next]_vars => Honest'
<1> SUFFICES ASSUME TypeOK, Honest, [Next]_vars, ~racy' PROVE \A d \in lake' : d.hash = d.val
  BY DEF Honest
<1>1. CASE lake' = lake /\ racy' = racy
  BY <1>1 DEF Honest
<1>2. ASSUME NEW r \in Runs, Clear(r) \/ Dedup(r) \/ Delete(r) PROVE \A d \in lake' : d.hash = d.val
  BY <1>2 DEF Honest, Clear, Dedup, Delete, WriteLake, OnePerId
<1>3. ASSUME NEW r \in Runs, Load(r) PROVE \A d \in lake' : d.hash = d.val
  <2>1. ~racy /\ \A s \in Hashed : ~Stale(s)
    BY <1>3, Zenon DEF Load
  <2>2. lake' = lake \cup Copies(Hashed, NewFile)
    BY <1>3 DEF Load, WriteLake
  <2>3. QED BY <2>1, <2>2 DEF Honest, Copies, Stale
<1>4. ASSUME NEW r \in Runs, Update(r) PROVE \A d \in lake' : d.hash = d.val
  <2>1. CASE HasPK /\ "upd" \in todo[r]
    <3>1. ~racy /\ \A p \in Updates(r) : ~Stale(p[1])
      BY <1>4, <2>1, Zenon DEF Update
    <3>2. lake' = {d \in lake : \A p \in Updates(r) : p[2] # d}
                  \cup {Overwritten(p[2], p[1]) : p \in Updates(r)}
      BY <1>4, <2>1 DEF Update, WriteLake
    <3>3. QED BY <3>1, <3>2 DEF Honest, Overwritten, Stale
  <2>2. CASE ~(HasPK /\ "upd" \in todo[r])
    BY <1>1, <1>4, <2>2 DEF Update, WriteLake
  <2>3. QED BY <2>1, <2>2
<1>5. ASSUME NEW r \in Runs, Insert(r) PROVE \A d \in lake' : d.hash = d.val
  <2>1. CASE "ins" \in todo[r]
    <3>1. PICK S \in OnePerId(NewRows(r)) :
             /\ WriteLake(r, lake \cup Copies(S, NewFile))
             /\ racy' = (racy \/ \E s \in S : Stale(s))
      BY <1>5, <2>1 DEF Insert
    <3>2. ~racy /\ \A s \in S : ~Stale(s)
      BY <3>1, Zenon
    <3>3. QED BY <3>1, <3>2 DEF Honest, WriteLake, Copies, Stale
  <2>2. CASE "ins" \notin todo[r]
    BY <1>1, <1>5, <2>2 DEF Insert, WriteLake
  <2>3. QED BY <2>1, <2>2
<1>6. ASSUME NEW r \in Runs,
             \/ HashStep(r) \/ EndHashEarly(r) \/ SkipTable(r) \/ StartSync(r)
             \/ Download(r) \/ Diff(r) \/ DiffMiscount(r) \/ Fetch(r) \/ Abort(r)
      PROVE  lake' = lake /\ racy' = racy
  BY <1>6 DEF HashStep, StartHash, BeginBatch, HashBatch, EndHash, EndHashEarly, SkipTable, StartSync,
              Download, Diff, DiffMiscount, Fetch, Abort
<1>7. Mirror => lake' = lake /\ racy' = racy
  BY DEF Mirror, MirrorInsert, MirrorUpsert, MirrorDelete, MirrorReplace, MirrorWrite
<1>8. UNCHANGED vars => lake' = lake /\ racy' = racy
  BY DEF vars
<1>9. QED BY <1>1, <1>2, <1>3, <1>4, <1>5, <1>6, <1>7, <1>8 DEF Next, SyncStep, Fault

LEMMA RunInvStep == IInv /\ [Next]_vars => \A q \in Runs : RunInv(q)'
<1> SUFFICES ASSUME IInv, [Next]_vars, NEW q \in Runs PROVE RunInv(q)'
  OBVIOUS
<1>0. TypeOK /\ RunInv(q)
  BY DEF IInv
<1>1. CASE Mirror
  BY <1>0, <1>1, MirrorTouches, Frame
<1>2. ASSUME NEW r \in Runs, HashStep(r) \/ SyncStep(r) \/ StartSync(r) \/ Fault(r) PROVE RunInv(q)'
  <2>1. CASE q # r
    BY <1>0, <1>2, <2>1, HashTouches, SyncDisturbs, Frame DEF Fault
  <2>2. CASE q = r
    BY <1>0, <1>2, <2>2, OwnHash, OwnDownload, OwnDiff, OwnMiscount, OwnClear, OwnLoad, OwnDedup,
       OwnFetch, OwnDelete, OwnUpdate, OwnInsert DEF SyncStep, Fault
  <2>3. QED BY <2>1, <2>2
<1>3. CASE UNCHANGED vars
  <2>1. OthersStep(q)
    BY <1>3 DEF OthersStep, SourceStep, vars
  <2>2. QED BY <1>0, <2>1, Frame
<1>4. QED BY <1>1, <1>2, <1>3 DEF Next

THEOREM Invariance == Spec => []IInv
<1>1. Init => IInv
  <2>1. ASSUME Init, NEW r \in Runs PROVE RunInv(r)
    <3>1. pc[r] = "idle"
      BY <2>1 DEF Init
    <3>2. QED BY <3>1 DEF RunInv, MetaFits, FetchedFits, LoadsEmpty, NothingExtra, NothingDiffers,
                 NothingMissing, OneRow, Covered, UpToDate, Finished, Synced
  <2>2. Init => Honest
    BY DEF Init, Honest
  <2>3. QED BY <2>1, <2>2, TypeInit DEF IInv
<1>2. IInv /\ [Next]_vars => IInv'
  BY TypeStep, HonestStep, RunInvStep DEF IInv
<1>3. QED BY <1>1, <1>2, PTL DEF Spec

\* A run that finishes leaves every row that was hashed and that nobody wrote
\* since its download mirrored, and no other row: for every table, every set of
\* overlapping runs, every threshold and any number of faults.
THEOREM SyncIsExact == Spec => []SyncExact
<1>1. IInv => SyncExact
  BY DEF IInv, RunInv, Finished, Trusted, SyncExact
<1>2. QED BY <1>1, Invariance, PTL

\* A finished sync leaves one lake row per primary key, whatever duplicates
\* earlier overlapping or failed loads had left.
THEOREM PrimaryKeyIsKept == Spec => []PrimaryKeyKept
<1>1. IInv => PrimaryKeyKept
  BY DEF IInv, RunInv, Finished, Trusted, PrimaryKeyKept
<1>2. QED BY <1>1, Invariance, PTL

\* With no racy copy, an undisturbed sync of a hashed table ends with the
\* source's contents, not only its hashes.
THEOREM ValuesAreExact == Spec => []ValuesExact
<1>1. IInv => ValuesExact
  <2> SUFFICES ASSUME IInv, NEW r \in Runs, Undisturbed(r), ~miscounted[r], ~racy PROVE SameValues
    BY DEF ValuesExact
  <2>1. /\ \A s \in src : s.hash = s.val /\ s.hash # Null
        /\ \A d \in lake : d.hash = d.val
    BY NullAssumption DEF IInv, Honest, Undisturbed, Stale, TypeOK, SourceRows
  <2>2. Mirrored(r) /\ touched[r] = {}
    BY DEF IInv, RunInv, Finished, Trusted, Undisturbed
  <2>3. /\ \A s \in src : \E d \in lake : SameRow(s, d)
        /\ \A d \in lake : \E s \in src : SameRow(s, d)
    BY <2>1, <2>2 DEF Mirrored, Excused, Hashed
  <2>4. QED BY <2>1, <2>3 DEF SameValues, SameRow
<1>2. QED BY <1>1, Invariance, PTL

\* Outside a full resync a reader of the lake never loses an id that the run
\* downloaded: not to the removal of duplicates, the DELETE, the UPDATE or the
\* INSERT, whatever other runs and the mirrors have done to the lake before.
THEOREM IncrementalKeepsIds == Spec => IncrementalKeepsRows
<1> DEFINE Steps == {"dedup", "fetch", "delete", "update", "insert"}
           KeepsIds == \A r \in Runs : pc[r] \in Steps /\ pc'[r] # pc[r] =>
               \A m \in meta[r] : (\E d \in lake : SameId(m, d)) => \E d \in lake' : SameId(m, d)
<1>1. TypeOK /\ [Next]_vars => KeepsIds
  <2> SUFFICES ASSUME TypeOK, [Next]_vars, NEW r \in Runs, pc[r] \in Steps, pc'[r] # pc[r],
                      NEW m \in meta[r], NEW d \in lake, SameId(m, d)
               PROVE  \E e \in lake' : SameId(m, e)
    OBVIOUS
  <2>1. CASE lake' = lake
    BY <2>1
  <2>2. ASSUME NEW q \in Runs, SyncStep(q), q # r PROVE FALSE
    BY <2>2 DEF SyncStep, SkipTable, Download, Diff, Clear, Load, Dedup, Fetch, Delete, Update,
                Insert, Goto, TypeOK
  <2>3. CASE Dedup(r)
    BY <2>3 DEF Dedup, WriteLake, OnePerId, SameId
  <2>4. CASE Delete(r)
    BY <2>4 DEF Delete, WriteLake, ToDelete
  <2>5. CASE Update(r)
    <3>1. CASE HasPK /\ "upd" \in todo[r]
      <4>1. lake' = {x \in lake : \A p \in Updates(r) : p[2] # x}
                    \cup {Overwritten(p[2], p[1]) : p \in Updates(r)}
        BY <2>5, <3>1 DEF Update, WriteLake
      <4>2. CASE \A p \in Updates(r) : p[2] # d
        BY <4>1, <4>2
      <4>3. ASSUME NEW p \in Updates(r), p[2] = d PROVE \E e \in lake' : SameId(m, e)
        <5>1. Overwritten(d, p[1]) \in lake'
          BY <4>1, <4>3
        <5>2. SameId(m, Overwritten(d, p[1]))
          BY <3>1 DEF SameId, Id, Overwritten
        <5>3. QED BY <5>1, <5>2
      <4>4. QED BY <4>2, <4>3
    <3>2. CASE ~(HasPK /\ "upd" \in todo[r])
      BY <2>1, <2>5, <3>2 DEF Update, WriteLake
    <3>3. QED BY <3>1, <3>2
  <2>6. CASE Insert(r)
    <3>1. lake \subseteq lake'
      BY <2>6 DEF Insert, WriteLake
    <3>2. QED BY <3>1
  <2>7. CASE Clear(r) \/ Load(r)
    BY <2>7 DEF Clear, Load, At
  <2>8. ASSUME NEW q \in Runs,
               HashStep(q) \/ StartSync(q) \/ Fault(q) \/ SkipTable(q) \/ Download(q) \/ Diff(q) \/ Fetch(q)
        PROVE  lake' = lake
    BY <2>8 DEF HashStep, StartHash, BeginBatch, HashBatch, EndHash, StartSync, Fault, EndHashEarly,
                DiffMiscount, Abort, SkipTable, Download, Diff, Fetch
  <2>9. Mirror \/ UNCHANGED vars => lake' = lake
    BY DEF Mirror, MirrorInsert, MirrorUpsert, MirrorDelete, MirrorReplace, MirrorWrite, vars
  <2>10. QED BY <2>1, <2>2, <2>3, <2>4, <2>5, <2>6, <2>7, <2>8, <2>9 DEF Next, SyncStep
<1>2. QED BY <1>1, TypeCorrect, PTL DEF Spec, IncrementalKeepsRows
=============================================================================
