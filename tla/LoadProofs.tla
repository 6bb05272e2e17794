------------------------------ MODULE LoadProofs ------------------------------
(* OnlyGoneDeleted and LoadsSound of MCAssets, for every value of the      *)
(* constants.  QuickBooks, Fillout, the Slack users at Airtable and        *)
(* Dashbored's pull requests delete or replace by what they have read of a *)
(* source, so that the invariants say what is accounted for; mirrors and   *)
(* passes over hashes put what they have read, as do the loads and backups *)
(* of the module before.                                                   *)
EXTENDS DigestProofs

(***************************************************************************)
(* Lists that are read page by page: what QuickBooks sends.                *)
(***************************************************************************)

\* The first n of the list of S, and a page of it.
Below(S, n) == {i \in S : Rank(S, i) < n}
OnPage(S, s, p) == {i \in S : Rank(S, i) - s \in 0 .. p - 1}

LEMMA NothingBelow ==
  ASSUME NEW S \in SUBSET Int, IsFiniteSet(S)
  PROVE  Below(S, 0) = {}
<1>1. \A i \in S : Rank(S, i) \in 0 .. Cardinality(S) - 1 /\ Cardinality(S) \in Nat
  BY RankType, FS_CardinalityType
<1>2. ASSUME NEW i \in S, Rank(S, i) < 0 PROVE FALSE
  BY <1>1, <1>2
<1>3. QED BY <1>2 DEF Below

LEMMA NextPage ==
  ASSUME NEW S \in SUBSET Int, IsFiniteSet(S), NEW s \in Nat, NEW p \in Nat
  PROVE  Below(S, s + p) = Below(S, s) \cup OnPage(S, s, p)
<1>1. Cardinality(S) \in Nat
  BY FS_CardinalityType
<1>2. \A i \in S : Rank(S, i) \in Nat
  BY <1>1, RankType
<1>3. ASSUME NEW i \in S
      PROVE  Rank(S, i) < s + p <=> Rank(S, i) < s \/ Rank(S, i) - s \in 0 .. p - 1
  <2>1. Rank(S, i) \in Nat
    BY <1>2
  <2>2. QED BY <2>1
<1>4. QED BY <1>3 DEF Below, OnPage

\* A page that is not full is the last one.
LEMMA LastPage ==
  ASSUME NEW S \in SUBSET Int, IsFiniteSet(S), NEW s \in Nat, NEW p \in Nat,
         Cardinality(OnPage(S, s, p)) < p
  PROVE  S = Below(S, s) \cup OnPage(S, s, p)
<1> DEFINE P == OnPage(S, s, p)
           K == s .. s + p - 1
           f == [i \in P |-> Rank(S, i)]
<1>1. P \in SUBSET S /\ Cardinality(S) \in Nat
  BY FS_CardinalityType DEF OnPage
<1>2. \A i \in S : Rank(S, i) \in 0 .. Cardinality(S) - 1
  BY RankType
<1>3. IsFiniteSet(P) /\ Cardinality(P) \in Nat
  BY <1>1, FS_Subset, FS_CardinalityType
<1>4. ASSUME NEW i \in S, Rank(S, i) >= s + p PROVE FALSE
  <2>1. f \in [P -> K]
    <3>1. ASSUME NEW j \in P PROVE Rank(S, j) \in K
      BY <1>1, <1>2 DEF OnPage
    <3>2. QED BY <3>1
  <2>2. ASSUME NEW k \in K PROVE \E j \in P : f[j] = k
    <3>1. k \in 0 .. Cardinality(S) - 1
      BY <1>1, <1>2, <1>4
    <3>2. PICK j \in S : Rank(S, j) = k
      BY <3>1, RankTaken
    <3>3. j \in P
      BY <3>2 DEF OnPage
    <3>4. QED BY <3>2, <3>3
  <2>3. f \in Surjection(P, K)
    BY <2>1, <2>2 DEF Surjection
  <2>4. Cardinality(K) <= Cardinality(P)
    BY <1>3, <2>3, FS_Surjection
  <2>5. Cardinality(K) = p
    <3>1. s \in Int /\ s + p - 1 \in Int
      OBVIOUS
    <3>2. Cardinality(K) = IF s > s + p - 1 THEN 0 ELSE (s + p - 1) - s + 1
      BY <3>1, FS_Interval
    <3>3. QED BY <3>2
  <2>6. QED BY <1>3, <2>4, <2>5
<1>5. S = Below(S, s + p)
  <2>1. ASSUME NEW i \in S PROVE Rank(S, i) < s + p
    <3>1. Rank(S, i) \in Int /\ ~(Rank(S, i) >= s + p)
      BY <1>1, <1>2, <1>4
    <3>2. QED BY <3>1
  <2>2. QED BY <2>1 DEF Below
<1>6. QED BY <1>5, NextPage

SweepTyped ==
    /\ objects \in [BookEntities -> SUBSET BookIds] /\ booksRows \in [BookEntities -> SUBSET BookIds]
    /\ stamped \in [BookEntities -> SUBSET BookIds] /\ booksStart \in [BookEntities -> Nat]

\* What comes before the next page is stamped, all of it once there is none.
Paged ==
    \A e \in BookEntities :
        /\ booksPc[e] = "idle" => booksStart[e] = 0
        /\ e \notin booksShifted =>
               /\ Below(objects[e], booksStart[e]) \subseteq stamped[e]
               /\ booksPc[e] = "done" => objects[e] \subseteq stamped[e]

SweepInv == BooksInv /\ SweepTyped /\ Paged

LEMMA BookCount == \A S : Books!Cardinality(S) = Cardinality(S)
BY Zenon DEF Cardinality, Books!Cardinality

LEMMA SweepStart == Books!Init => SweepInv
<1> SUFFICES ASSUME Books!Init PROVE SweepInv
  OBVIOUS
<1>1. /\ objects = [e \in BookEntities |-> BookIds] /\ booksRows = objects
      /\ stamped = [e \in BookEntities |-> {}] /\ booksStart = [e \in BookEntities |-> 0]
      /\ booksPc = [t \in Threads |-> "idle"]
  BY DEF Books!Init, Threads, Books!Threads
<1>2. SweepTyped
  BY <1>1 DEF SweepTyped
<1>3. Below(BookIds, 0) = {}
  BY BooksAssumption, NothingBelow
<1>4. Paged
  BY <1>1, <1>3 DEF Paged, Threads
<1>5. QED BY <1>2, <1>4, BooksStart DEF SweepInv

\* The upsert of a page: the one step that moves on in a list.
LEMMA SweepCall ==
  ASSUME SweepInv, NEW e \in BookEntities, Books!Call(e)
  PROVE  /\ SweepTyped' /\ Paged' /\ \A d \in BookEntities : booksRows[d] \subseteq booksRows'[d]
<1> USE DEF Threads, Books!Threads
<1>a. BooksTyped /\ SweepTyped /\ Paged
  BY DEF SweepInv, BooksInv
<1>b. /\ objects[e] \in SUBSET Int /\ IsFiniteSet(objects[e])
      /\ booksStart[e] \in Nat /\ BookPage \in Nat /\ booksStart[e] + BookPage \in Nat
  <2>1. objects[e] \in SUBSET BookIds /\ booksStart[e] \in Nat
    BY <1>a DEF SweepTyped
  <2>2. IsFiniteSet(objects[e])
    BY <2>1, BooksAssumption, FS_Subset
  <2>3. objects[e] \in SUBSET Int
    BY <2>1, BooksAssumption
  <2>4. BookPage \in Nat
    BY BooksAssumption
  <2>5. booksStart[e] + BookPage \in Nat
    BY <2>1, <2>4
  <2>6. QED BY <2>1, <2>2, <2>3, <2>4, <2>5
<1> DEFINE page == OnPage(objects[e], booksStart[e], BookPage)
           token == IF booksPc[e] = "ask" THEN access ELSE booksHeld[e]
<1>1. Books!Page(e) = page /\ page \in SUBSET BookIds
  <2>1. \A i \in objects[e] : Books!Cardinality({j \in objects[e] : j < i}) = Rank(objects[e], i)
    BY BookCount DEF Rank
  <2>2. QED BY <1>a, <2>1 DEF Books!Page, OnPage, SweepTyped
<1>2. UNCHANGED <<objects, booksShifted>> /\ booksPc[e] \in {"ask", "again"}
  BY DEF Books!Call
<1> HIDE DEF page
<1>3. CASE token \in valid
  <2>1. /\ booksRows' = [booksRows EXCEPT ![e] = @ \cup page]
        /\ stamped' = [stamped EXCEPT ![e] = @ \cup page]
        /\ IF Cardinality(page) < BookPage
           THEN booksPc' = [booksPc EXCEPT ![e] = "done"] /\ booksStart' = [booksStart EXCEPT ![e] = 0]
           ELSE booksPc' = [booksPc EXCEPT ![e] = "ask"]
                /\ booksStart' = [booksStart EXCEPT ![e] = @ + BookPage]
    BY <1>1, <1>3, BookCount DEF Books!Call
  <2>2. SweepTyped' /\ \A d \in BookEntities : booksRows[d] \subseteq booksRows'[d]
    <3>1. booksRows' \in [BookEntities -> SUBSET BookIds] /\ stamped' \in [BookEntities -> SUBSET BookIds]
      BY <1>a, <1>1, <2>1 DEF SweepTyped
    <3>2. booksStart' \in [BookEntities -> Nat]
      BY <1>a, <1>b, <2>1 DEF SweepTyped
    <3>3. QED BY <1>a, <1>2, <2>1, <3>1, <3>2 DEF SweepTyped
  <2>3. ASSUME NEW d \in BookEntities, d # e
        PROVE  /\ booksPc'[d] = booksPc[d] /\ booksStart'[d] = booksStart[d]
               /\ objects'[d] = objects[d] /\ stamped'[d] = stamped[d]
    BY <1>a, <1>2, <2>1, <2>3 DEF SweepTyped, BooksTyped
  <2>4. CASE Cardinality(page) < BookPage
    <3>1. booksPc'[e] = "done" /\ booksStart'[e] = 0 /\ stamped'[e] = stamped[e] \cup page
      BY <1>a, <2>1, <2>4 DEF SweepTyped, BooksTyped
    <3>2. objects[e] = Below(objects[e], booksStart[e]) \cup page
      BY <1>b, <2>4, LastPage DEF page
    <3>3. Below(objects[e], 0) = {}
      BY <1>b, NothingBelow
    <3>4. QED BY <1>a, <1>2, <2>2, <2>3, <3>1, <3>2, <3>3 DEF Paged
  <2>5. CASE ~(Cardinality(page) < BookPage)
    <3>1. /\ booksPc'[e] = "ask" /\ booksStart'[e] = booksStart[e] + BookPage
          /\ stamped'[e] = stamped[e] \cup page
      BY <1>a, <2>1, <2>5 DEF SweepTyped, BooksTyped
    <3>2. Below(objects[e], booksStart[e] + BookPage) = Below(objects[e], booksStart[e]) \cup page
      BY <1>b, NextPage DEF page
    <3>3. QED BY <1>a, <1>2, <2>2, <2>3, <3>1, <3>2 DEF Paged
  <2>6. QED BY <2>4, <2>5
<1>4. CASE token \notin valid
  <2>1. /\ UNCHANGED <<booksRows, stamped, booksStart>>
        /\ booksPc' = [booksPc EXCEPT ![e] = IF @ = "ask" THEN "refused" ELSE "failed"]
    BY <1>4 DEF Books!Call
  <2>2. \A d \in BookEntities : booksPc'[d] \in {"idle", "done"} => booksPc'[d] = booksPc[d]
    BY <1>a, <2>1 DEF BooksTyped
  <2>3. QED BY <1>a, <1>2, <2>1, <2>2 DEF SweepTyped, Paged
<1>5. QED BY <1>3, <1>4

\* A step that finishes nothing and moves on in no list.
LEMMA SweepElse ==
  ASSUME SweepTyped, Paged, UNCHANGED <<objects, booksRows, stamped, booksStart, booksShifted>>,
         \A e \in BookEntities : booksPc'[e] \in {"idle", "done"} => booksPc'[e] = booksPc[e]
  PROVE  SweepTyped' /\ Paged'
BY DEF SweepTyped, Paged

LEMMA SweepStep ==
  ASSUME SweepInv, [Books!Next]_books
  PROVE  /\ SweepInv'
         /\ \A e \in BookEntities : \A i \in booksRows[e] \ booksRows'[e] :
               i \notin objects[e] \/ e \in booksShifted
<1> USE DEF Threads, Books!Threads
<1> DEFINE Gone == \A e \in BookEntities : \A i \in booksRows[e] \ booksRows'[e] :
                      i \notin objects[e] \/ e \in booksShifted
<1>a. BooksTyped /\ MainFirst /\ SweepTyped /\ Paged
  BY DEF SweepInv, BooksInv
<1>b. BooksInv'
  BY BooksStep DEF SweepInv
<1>c. \A S \in SUBSET BookIds : Below(S, 0) = {}
  <2>1. \A S \in SUBSET BookIds : S \in SUBSET Int /\ IsFiniteSet(S)
    BY BooksAssumption, FS_Subset
  <2>2. QED BY <2>1, NothingBelow
<1> SUFFICES SweepTyped' /\ Paged' /\ Gone
  BY <1>b DEF SweepInv
<1>1. ASSUME NEW e \in BookEntities, NEW i \in BookIds, Books!Remove(e, i)
      PROVE  SweepTyped' /\ Paged' /\ Gone
  <2>1. /\ UNCHANGED <<booksRows, stamped, booksStart, booksPc>>
        /\ objects' = [objects EXCEPT ![e] = @ \ {i}]
        /\ booksShifted' = IF booksPc[BookMain] # "idle" THEN booksShifted \cup {e} ELSE booksShifted
    BY <1>1 DEF Books!Remove, Books!paging, Books!Running
  <2>2. SweepTyped' /\ Gone
    BY <1>a, <2>1 DEF SweepTyped
  <2>3. \A d \in BookEntities \ {e} : objects'[d] = objects[d]
    BY <1>a, <2>1 DEF SweepTyped
  <2>4. ASSUME e \notin booksShifted' PROVE booksPc[e] = "idle" /\ booksStart[e] = 0
    BY <1>a, <2>1, <2>4 DEF MainFirst, Paged
  <2>5. Below(objects'[e], 0) = {}
    BY <1>c, <2>2 DEF SweepTyped
  <2>6. QED BY <1>a, <2>1, <2>2, <2>3, <2>4, <2>5 DEF Paged
<1>2. CASE Books!Begin
  <2>1. /\ UNCHANGED <<objects, booksRows, booksStart>> /\ stamped' = [e \in BookEntities |-> {}]
        /\ booksPc[BookMain] = "idle" /\ booksPc' = [booksPc EXCEPT ![BookMain] = "refresh"]
    BY <1>2 DEF Books!Begin, Books!paging, Books!Running
  <2>2. \A e \in BookEntities : booksPc'[e] = "idle" /\ booksPc[e] = "idle"
    BY <1>a, <2>1, BooksAssumption DEF MainFirst, BooksTyped
  <2>3. SweepTyped' /\ Gone
    BY <1>a, <2>1 DEF SweepTyped
  <2>4. QED BY <1>a, <1>c, <2>1, <2>2, <2>3 DEF Paged, SweepTyped
<1>3. CASE Books!Finish \/ Books!Crash
  <2>1. /\ UNCHANGED <<objects, booksShifted>> /\ booksStart' = [e \in BookEntities |-> 0]
        /\ booksPc' = [t \in Threads |-> "idle"]
    BY <1>3 DEF Books!Finish, Books!Crash, Books!data
  <2>2. Gone /\ booksRows' \in [BookEntities -> SUBSET BookIds] /\ stamped' \in [BookEntities -> SUBSET BookIds]
    <3>1. CASE Books!Finish
      <4>1. /\ booksRows' = [e \in BookEntities |-> IF booksPc[e] = "done" THEN booksRows[e] \cap stamped[e]
                                                     ELSE booksRows[e]]
            /\ stamped' = [e \in BookEntities |-> {}]
        BY <3>1 DEF Books!Finish
      <4>2. QED BY <1>a, <4>1 DEF SweepTyped, Paged
    <3>2. CASE Books!Crash
      BY <1>a, <3>2 DEF Books!Crash, Books!data, SweepTyped
    <3>3. QED BY <1>3, <3>1, <3>2
  <2>3. SweepTyped'
    BY <1>a, <2>1, <2>2 DEF SweepTyped
  <2>4. QED BY <1>c, <2>1, <2>2, <2>3 DEF Paged, SweepTyped
<1>4. ASSUME NEW e \in BookEntities, Books!Call(e) PROVE SweepTyped' /\ Paged' /\ Gone
  BY <1>4, SweepCall
<1>5. ASSUME UNCHANGED <<objects, booksRows, stamped, booksStart, booksShifted>>,
             \A e \in BookEntities : booksPc'[e] \in {"idle", "done"} => booksPc'[e] = booksPc[e]
      PROVE  SweepTyped' /\ Paged' /\ Gone
  BY <1>a, <1>5, SweepElse
<1>6. CASE (\E a \in valid : Books!Expire(a)) \/ Books!Reauthorize \/ UNCHANGED books
  <2>1. UNCHANGED <<objects, booksRows, stamped, booksStart, booksShifted, booksPc>>
    BY <1>6 DEF Books!Expire, Books!Reauthorize, Books!data, Books!paging, books
  <2>2. QED BY <1>5, <2>1
<1>7. ASSUME NEW t \in Threads, Books!Refresh(t) \/ Books!Persist(t) \/ Books!PersistFails(t)
      PROVE  SweepTyped' /\ Paged' /\ Gone
  <2>1. UNCHANGED <<objects, booksRows, stamped, booksStart, booksShifted>>
    BY <1>7 DEF Books!Refresh, Books!Persist, Books!PersistFails, Books!data, Books!paging
  <2>2. \A e \in BookEntities : booksPc'[e] \in {"idle", "done"} => booksPc'[e] = booksPc[e]
    <3>1. CASE Books!Refresh(t)
      BY <1>a, <3>1, BooksAssumption DEF Books!Refresh, BooksTyped
    <3>2. CASE Books!Persist(t)
      BY <1>a, <3>2, BooksAssumption DEF Books!Persist, BooksTyped
    <3>3. CASE Books!PersistFails(t)
      BY <1>a, <3>3, BooksAssumption DEF Books!PersistFails, BooksTyped
    <3>4. QED BY <1>7, <3>1, <3>2, <3>3
  <2>3. QED BY <1>5, <2>1, <2>2
<1>8. ASSUME NEW e \in BookEntities, Books!HandleUnauthorized(e) \/ Books!FailEntity(e)
      PROVE  SweepTyped' /\ Paged' /\ Gone
  <2>1. UNCHANGED <<objects, booksRows, stamped, booksStart, booksShifted>>
    BY <1>8 DEF Books!HandleUnauthorized, Books!FailEntity, Books!data, Books!paging
  <2>2. \A d \in BookEntities : booksPc'[d] \in {"idle", "done"} => booksPc'[d] = booksPc[d]
    BY <1>a, <1>8 DEF Books!HandleUnauthorized, Books!FailEntity, BooksTyped
  <2>3. QED BY <1>5, <2>1, <2>2
<1>9. QED
  BY <1>1, <1>2, <1>3, <1>4, <1>6, <1>7, <1>8 DEF Books!Next

(***************************************************************************)
(* Slack users at Airtable: the plan of a run leaves everyone a record.    *)
(***************************************************************************)

Columns == {"user", "type", "admin", "name"}

PeopleTyped == DOMAIN records \subseteq PeopleIds /\ \A i \in DOMAIN records : DOMAIN records[i] = Columns

AsRead == peoplePhase = "read" => existing = records

\* Who was read and has a record has one that is not to be deleted.
Survivor ==
    peoplePhase = "delete" =>
        \A u \in DOMAIN desired :
            (\E i \in DOMAIN records : records[i].user = u) =>
                \E i \in DOMAIN records \ delete : records[i].user = u

PeopleInv == PeopleTyped /\ AsRead /\ Survivor

LEMMA PeopleBegin == People!Init => PeopleInv
BY PeopleAssumption DEF People!Init, PeopleInv, PeopleTyped, AsRead, Survivor, Columns

LEMMA PeopleStep ==
  ASSUME PeopleInv, [People!Next]_people
  PROVE  PeopleInv' /\ \A u \in DOMAIN source :
                          (\E i \in DOMAIN records : records[i].user = u) =>
                              \/ \E i \in DOMAIN records' : records'[i].user = u
                              \/ u \notin DOMAIN desired
<1> DEFINE Dropped == \E u \in DOMAIN source :
                         /\ \E i \in DOMAIN records : records[i].user = u
                         /\ \A i \in DOMAIN records' : records'[i].user # u
                         /\ u \in DOMAIN desired
<1> SUFFICES PeopleInv' /\ ~Dropped
  OBVIOUS
<1>a. PeopleTyped /\ AsRead /\ Survivor
  BY DEF PeopleInv
<1>1. ASSUME UNCHANGED records, peoplePhase' \notin {"read", "delete"} PROVE PeopleInv' /\ ~Dropped
  BY <1>a, <1>1 DEF PeopleInv, PeopleTyped, AsRead, Survivor
<1>2. CASE People!ReadRecords
  <2>1. UNCHANGED records /\ existing' = records /\ peoplePhase' = "read"
    BY <1>2 DEF People!ReadRecords
  <2>2. QED BY <1>a, <2>1 DEF PeopleInv, PeopleTyped, AsRead, Survivor
<1>3. CASE People!ReadSource
  <2>1. /\ UNCHANGED records /\ peoplePhase' = "delete" /\ desired' = source /\ existing = records
        /\ delete' = {i \in DOMAIN existing :
                         existing[i].user \notin DOMAIN source \/ ~ People!IsFirst(i)}
    BY <1>a, <1>3 DEF People!ReadSource, AsRead
  <2>2. ASSUME NEW u \in DOMAIN source, NEW i \in DOMAIN records, records[i].user = u
        PROVE  \E m \in DOMAIN records \ delete' : records[m].user = u
    <3> DEFINE S == {j \in DOMAIN records : records[j].user = u}
    <3>1. S \in SUBSET PeopleIds /\ S # {}
      BY <1>a, <2>2 DEF PeopleTyped
    <3>2. S \in SUBSET Int /\ IsFiniteSet(S)
      BY <3>1, PeopleAssumption, FS_Subset
    <3>3. PICK m \in S : \A j \in S : m <= j
      BY <3>1, <3>2, FirstExists
    <3>4. People!IsFirst(m) /\ m \in DOMAIN records /\ records[m].user = u
      BY <2>1, <3>3 DEF People!IsFirst
    <3>5. m \notin delete'
      BY <2>1, <3>4
    <3>6. QED BY <3>4, <3>5
  <2>3. QED BY <1>a, <2>1, <2>2 DEF PeopleInv, PeopleTyped, AsRead, Survivor
<1>4. ASSUME NEW batch \in SUBSET PeopleIds, NEW ok \in BOOLEAN, People!Delete(batch, ok)
      PROVE  PeopleInv' /\ ~Dropped
  <2>1. /\ peoplePhase = "delete" /\ peoplePhase' = "delete" /\ delete' = delete \ batch
        /\ batch \subseteq delete /\ UNCHANGED <<source, desired>>
        /\ \/ records' = records
           \/ records' = [i \in DOMAIN records \ batch |-> records[i]]
    BY <1>4 DEF People!Delete, People!IsBatch, People!Outcome
  <2>2. /\ DOMAIN records' \subseteq DOMAIN records
        /\ DOMAIN records \ delete \subseteq DOMAIN records' \ delete'
        /\ \A i \in DOMAIN records' : records'[i] = records[i]
    BY <2>1
  <2>3. ASSUME NEW u \in DOMAIN desired, NEW i \in DOMAIN records, records[i].user = u
        PROVE  \E m \in DOMAIN records' \ delete' : records'[m].user = u
    <3>1. PICK m \in DOMAIN records \ delete : records[m].user = u
      BY <1>a, <2>1, <2>3 DEF Survivor
    <3>2. QED BY <2>2, <3>1
  <2>4. ~Dropped
    BY <2>3
  <2>5. PeopleTyped' /\ AsRead'
    BY <1>a, <2>1, <2>2 DEF PeopleTyped, AsRead
  <2>6. Survivor'
    BY <2>1, <2>2, <2>3 DEF Survivor
  <2>7. QED BY <2>4, <2>5, <2>6 DEF PeopleInv
<1>5. ASSUME NEW batch \in SUBSET PeopleIds, NEW ok \in BOOLEAN, People!Update(batch, ok)
      PROVE  PeopleInv' /\ ~Dropped
  <2>1. /\ peoplePhase = "update" /\ peoplePhase' = "update"
        /\ \/ records' = records
           \/ records' = [i \in DOMAIN records |->
                             IF i \in batch THEN People!Patch(records[i], desired[records[i].user])
                             ELSE records[i]]
    BY <1>5 DEF People!Update, People!Outcome
  <2>2. ASSUME NEW r, NEW facts, DOMAIN r = Columns
        PROVE  DOMAIN People!Patch(r, facts) = Columns /\ People!Patch(r, facts).user = r.user
    BY <2>2 DEF People!Patch, Columns
  <2>3. /\ DOMAIN records' = DOMAIN records
        /\ \A i \in DOMAIN records : DOMAIN records'[i] = Columns /\ records'[i].user = records[i].user
    BY <1>a, <2>1, <2>2 DEF PeopleTyped
  <2>4. QED BY <1>a, <2>1, <2>3 DEF PeopleInv, PeopleTyped, AsRead, Survivor
<1>6. ASSUME NEW batch \in SUBSET PeopleUsers, NEW ok \in BOOLEAN, People!Create(batch, ok)
      PROVE  PeopleInv' /\ ~Dropped
  <2> DEFINE user(S) == [k \in 1 .. People!Cardinality(S) |-> People!SetToSeq(batch)[k]]
             At(S, i) == CHOOSE k \in DOMAIN People!SetToSeq(S) : People!SetToSeq(S)[k] = i
             Born(S, i) == People!Fresh(user(S)[At(S, i)], desired[user(S)[At(S, i)]])
  <2>1. PICK made \in People!kSubset(People!Cardinality(batch), PeopleIds \ DOMAIN records) :
           People!Outcome(ok, [i \in DOMAIN records \cup made |->
                                  IF i \in made THEN Born(made, i) ELSE records[i]])
    BY <1>6 DEF People!Create
  <2>2. made \subseteq PeopleIds \ DOMAIN records
    BY DEF People!kSubset
  <2>3. \A S, i : DOMAIN Born(S, i) = Columns
    BY DEF People!Fresh, Columns
  <2> HIDE DEF Born
  <2>4. /\ DOMAIN records \subseteq DOMAIN records' /\ DOMAIN records' \subseteq PeopleIds
        /\ \A i \in DOMAIN records' : DOMAIN records'[i] = Columns
        /\ \A i \in DOMAIN records : records'[i] = records[i]
    <3>1. CASE ok
      BY <1>a, <2>1, <2>2, <2>3, <3>1 DEF People!Outcome, PeopleTyped
    <3>2. CASE ~ok
      BY <1>a, <2>1, <3>2 DEF People!Outcome, PeopleTyped
    <3>3. QED BY <3>1, <3>2
  <2>5. peoplePhase' = "create"
    BY <1>6 DEF People!Create
  <2>6. QED BY <1>a, <2>4, <2>5 DEF PeopleInv, PeopleTyped, AsRead, Survivor
<1>7. CASE People!ToUpdate \/ People!ToCreate \/ People!Finish \/ People!Die
  <2>1. UNCHANGED records /\ peoplePhase' \notin {"read", "delete"}
    BY <1>7 DEF People!ToUpdate, People!ToCreate, People!Finish, People!Die, People!Forget
  <2>2. QED BY <1>1, <2>1
<1>8. ASSUME UNCHANGED <<records, peoplePhase, existing, desired, delete>> PROVE PeopleInv' /\ ~Dropped
  BY <1>a, <1>8 DEF PeopleInv, PeopleTyped, AsRead, Survivor
<1>9. CASE \E u \in PeopleUsers : People!Leave(u) \/ \E facts \in People!Facts : People!Learn(u, facts)
  BY <1>8, <1>9 DEF People!Leave, People!Learn
<1>10. CASE UNCHANGED people
  BY <1>8, <1>10 DEF people
<1>11. QED
  BY <1>2, <1>3, <1>4, <1>5, <1>6, <1>7, <1>9, <1>10 DEF People!Next

(***************************************************************************)
(* Fillout: what a form that is done had is stamped or in a buffer.        *)
(***************************************************************************)

FormsTyped ==
    /\ formsForms \in [FilloutForms -> SUBSET FilloutIds] /\ gone \subseteq FilloutForms
    /\ formsListed \subseteq FilloutForms
    /\ formRows \in [FilloutForms -> {"none", "bare", "full"}]
    /\ subRows \in [FilloutForms -> SUBSET FilloutIds]
    /\ subStamps \in [FilloutForms -> SUBSET FilloutIds]
    /\ formBuf \subseteq [form : FilloutForms, metadata : {"bare", "full"}]
    /\ subBuf \subseteq [form : FilloutForms, id : FilloutIds]
    /\ formsAt \in [FilloutForms -> {"queued", "stream", "done", "failed"}]
    /\ offset \in [FilloutForms -> Nat]
    /\ \A f \in gone : formsForms[f] = {}

PoolOK ==
    /\ formsPc = "pool" => \A f \in FilloutForms : formsAt[f] \in {"queued", "stream"} => f \in formsListed
    /\ formsPc = "sweep" =>
           /\ formBuf = {} /\ subBuf = {}
           /\ \A f \in FilloutForms : formsAt[f] \in {"done", "failed"}

\* The submissions of form f among the rows of B, and all the run has taken.
OfForm(B, f) == {b.id : b \in {c \in B : c.form = f}}
Taken(f) == subStamps[f] \cup OfForm(subBuf, f)
FormsTaken == formStamps \cup {b.form : b \in formBuf}

\* Unless a form failed, no form is passed over, and no page that was read.
Whole ==
    formsPc # "idle" /\ ~formsShifted /\ Forms!CanDeleteStale =>
        /\ FilloutForms \ gone \subseteq formsListed
        /\ \A f \in formsListed :
              /\ formsAt[f] # "queued" => f \in FormsTaken
              /\ Below(formsForms[f], offset[f]) \subseteq Taken(f)
              /\ formsAt[f] = "done" => formsForms[f] \subseteq Taken(f)

FormsInv == FormsTyped /\ PoolOK /\ Whole

\* What a step may never do.
FormsKept ==
    \A f \in FilloutForms :
        /\ ~formsShifted => subRows[f] \ subRows'[f] \subseteq FilloutIds \ formsForms[f]
        /\ ~formsShifted /\ formRows[f] # "none" /\ formRows'[f] = "none" => f \in gone
        /\ formRows[f] = "full" => formRows'[f] # "bare"

LEMMA FormCount == \A S : Forms!Cardinality(S) = Cardinality(S)
BY Zenon DEF Cardinality, Forms!Cardinality

LEMMA FormsBegin == Forms!Init => FormsInv
<1> SUFFICES ASSUME Forms!Init PROVE FormsInv
  OBVIOUS
<1> USE DEF Forms!Init, Forms!NoRows
<1>1. FormsTyped
  BY DEF FormsTyped
<1>2. QED BY <1>1 DEF FormsInv, PoolOK, Whole

LEMMA UpsertOfForms ==
  ASSUME FormsTyped, NEW B \in SUBSET [form : FilloutForms, metadata : {"bare", "full"}],
         Forms!UpsertForms(B)
  PROVE  /\ formRows' \in [FilloutForms -> {"none", "bare", "full"}]
         /\ formStamps' = formStamps \cup {b.form : b \in B}
         /\ \A f \in FilloutForms : /\ formRows[f] # "none" => formRows'[f] # "none"
                                    /\ formRows[f] = "full" => formRows'[f] # "bare"
<1> DEFINE data(f) == (CHOOSE b \in B : b.form = f).metadata
<1>1. ASSUME NEW f \in FilloutForms, \E b \in B : b.form = f
      PROVE  data(f) \in {"bare", "full"}
  <2>1. PICK b \in B : b = CHOOSE c \in B : c.form = f
    BY <1>1
  <2>2. QED BY <2>1
<1>2. \A f \in FilloutForms : \A m \in {"bare", "full"} :
          /\ Forms!Keeping(f, m) \in {"bare", "full"}
          /\ formRows[f] = "full" => Forms!Keeping(f, m) = "full"
  BY DEF Forms!Keeping
<1> HIDE DEF data
<1>3. /\ formRows' = [f \in FilloutForms |->
                         IF \E b \in B : b.form = f THEN Forms!Keeping(f, data(f)) ELSE formRows[f]]
      /\ formStamps' = formStamps \cup {b.form : b \in B}
  BY DEF Forms!UpsertForms, data
<1>4. ASSUME NEW f \in FilloutForms
      PROVE  /\ formRows'[f] \in {"none", "bare", "full"}
             /\ formRows[f] # "none" => formRows'[f] # "none"
             /\ formRows[f] = "full" => formRows'[f] # "bare"
  <2>1. CASE \E b \in B : b.form = f
    BY <1>1, <1>2, <1>3, <2>1
  <2>2. CASE ~ \E b \in B : b.form = f
    BY <1>3, <2>2 DEF FormsTyped
  <2>3. QED BY <2>1, <2>2
<1>5. QED BY <1>3, <1>4

LEMMA UpsertOfSubmissions ==
  ASSUME FormsTyped, NEW B \in SUBSET [form : FilloutForms, id : FilloutIds],
         Forms!UpsertSubmissions(B), subBuf' = {}
  PROVE  /\ subRows' \in [FilloutForms -> SUBSET FilloutIds]
         /\ subStamps' \in [FilloutForms -> SUBSET FilloutIds]
         /\ \A f \in FilloutForms : /\ subRows[f] \subseteq subRows'[f]
                                    /\ Taken(f)' = subStamps[f] \cup OfForm(B, f)
<1>1. /\ subRows' = [f \in FilloutForms |-> subRows[f] \cup OfForm(B, f)]
      /\ subStamps' = [f \in FilloutForms |-> subStamps[f] \cup OfForm(B, f)]
  BY DEF Forms!UpsertSubmissions, OfForm
<1>2. \A f : OfForm(B, f) \subseteq FilloutIds
  BY DEF OfForm
<1>3. \A f : OfForm(subBuf', f) = {}
  BY DEF OfForm
<1> HIDE DEF OfForm
<1>4. subRows' \in [FilloutForms -> SUBSET FilloutIds] /\ subStamps' \in [FilloutForms -> SUBSET FilloutIds]
  BY <1>1, <1>2 DEF FormsTyped
<1>5. QED BY <1>1, <1>3, <1>4 DEF Taken

LEMMA PageInBuffer ==
  ASSUME NEW B \in SUBSET [form : FilloutForms, id : FilloutIds], NEW f \in FilloutForms,
         NEW P \in SUBSET FilloutIds
  PROVE  LET C == B \cup {[form |-> f, id |-> i] : i \in P}
         IN  /\ C \in SUBSET [form : FilloutForms, id : FilloutIds]
             /\ P \subseteq OfForm(C, f)
             /\ \A g : OfForm(B, g) \subseteq OfForm(C, g)
<1> DEFINE C == B \cup {[form |-> f, id |-> i] : i \in P}
<1>1. C \in SUBSET [form : FilloutForms, id : FilloutIds]
  OBVIOUS
<1>2. ASSUME NEW i \in P PROVE i \in OfForm(C, f)
  <2>1. [form |-> f, id |-> i] \in {c \in C : c.form = f}
    OBVIOUS
  <2>2. [form |-> f, id |-> i].id = i
    OBVIOUS
  <2>3. QED BY <2>1, <2>2 DEF OfForm
<1>3. \A g : OfForm(B, g) \subseteq OfForm(C, g)
  BY DEF OfForm
<1>4. QED BY <1>1, <1>2, <1>3

LEMMA PushOfForm ==
  ASSUME FormsInv, NEW f \in FilloutForms, Forms!PushForm(f)
  PROVE  FormsInv' /\ FormsKept
<1>a. FormsTyped /\ PoolOK /\ Whole
  BY DEF FormsInv
<1>1. PICK m \in {"full", "bare"} :
         LET B == formBuf \cup {[form |-> f, metadata |-> m]}
         IN  IF Forms!Full(B, FilloutFormsFlush)
             THEN Forms!UpsertForms(B) /\ formBuf' = {}
             ELSE formBuf' = B /\ UNCHANGED <<formRows, formStamps>>
  BY DEF Forms!PushForm
<1> DEFINE B == formBuf \cup {[form |-> f, metadata |-> m]}
<1>2. /\ formsPc = "pool" /\ formsAt[f] = "queued" /\ formsAt' = [formsAt EXCEPT ![f] = "stream"]
      /\ UNCHANGED <<formsForms, gone, formsShifted, subRows, subStamps, subBuf, formsListed, formsPc, offset>>
  BY DEF Forms!PushForm, Forms!api
<1>3. B \in SUBSET [form : FilloutForms, metadata : {"bare", "full"}]
  BY <1>a DEF FormsTyped
<1>4. FormsTaken \cup {f} = formStamps \cup {b.form : b \in B}
  <2>1. \A b : b \in B <=> b \in formBuf \/ b = [form |-> f, metadata |-> m]
    OBVIOUS
  <2>2. [form |-> f, metadata |-> m].form = f
    OBVIOUS
  <2> HIDE DEF B
  <2>3. {b.form : b \in B} = {b.form : b \in formBuf} \cup {f}
    BY <2>1, <2>2
  <2>4. QED BY <2>3 DEF FormsTaken
<1> HIDE DEF B
<1>5. /\ formRows' \in [FilloutForms -> {"none", "bare", "full"}]
      /\ formBuf' \in SUBSET [form : FilloutForms, metadata : {"bare", "full"}]
      /\ FormsTaken' = FormsTaken \cup {f}
      /\ FormsKept
  <2>1. CASE Forms!Full(B, FilloutFormsFlush)
    <3>1. Forms!UpsertForms(B) /\ formBuf' = {}
      BY <1>1, <2>1 DEF B
    <3>2. QED BY <1>a, <1>2, <1>3, <1>4, <3>1, UpsertOfForms DEF FormsTaken, FormsKept
  <2>2. CASE ~Forms!Full(B, FilloutFormsFlush)
    <3>1. formBuf' = B /\ UNCHANGED <<formRows, formStamps>>
      BY <1>1, <2>2 DEF B
    <3>2. QED BY <1>a, <1>2, <1>3, <1>4, <3>1 DEF FormsTaken, FormsKept, FormsTyped
  <2>3. QED BY <2>1, <2>2
<1>6. FormsTyped'
  BY <1>a, <1>2, <1>5 DEF FormsTyped
<1>7. PoolOK'
  BY <1>a, <1>2 DEF PoolOK, FormsTyped
<1>8. Whole'
  <2>1. \A g \in FilloutForms : /\ formsAt'[g] = IF g = f THEN "stream" ELSE formsAt[g]
                                /\ Taken(g)' = Taken(g)
    BY <1>a, <1>2 DEF FormsTyped, Taken
  <2>2. Forms!CanDeleteStale' => Forms!CanDeleteStale
    BY <1>a, <1>2, <2>1 DEF Forms!CanDeleteStale, FormsTyped
  <2>3. QED BY <1>a, <1>2, <1>5, <2>1, <2>2 DEF Whole, FormsTyped
<1>9. QED BY <1>5, <1>6, <1>7, <1>8 DEF FormsInv

LEMMA PushOfPage ==
  ASSUME FormsInv, NEW f \in FilloutForms, Forms!PushPage(f)
  PROVE  FormsInv' /\ FormsKept
<1>a. FormsTyped /\ PoolOK /\ Whole
  BY DEF FormsInv
<1>b. /\ formsForms[f] \in SUBSET Int /\ IsFiniteSet(formsForms[f]) /\ formsForms[f] \in SUBSET FilloutIds
      /\ offset[f] \in Nat /\ FilloutPage \in Nat
  <2>1. formsForms[f] \in SUBSET FilloutIds /\ offset[f] \in Nat
    BY <1>a DEF FormsTyped
  <2>2. IsFiniteSet(formsForms[f])
    BY <2>1, FilloutAssumption, FS_Subset
  <2>3. QED BY <2>1, <2>2, FilloutAssumption
<1> DEFINE page == OnPage(formsForms[f], offset[f], FilloutPage)
           B == subBuf \cup {[form |-> f, id |-> i] : i \in page}
<1>1. Forms!Page(f) = page /\ page \in SUBSET FilloutIds
  <2>1. \A i \in formsForms[f] : Forms!Cardinality({j \in formsForms[f] : j < i}) = Rank(formsForms[f], i)
    BY FormCount DEF Rank
  <2>2. QED BY <1>b, <2>1 DEF Forms!Page, OnPage
<1>2. /\ formsPc = "pool" /\ formsAt[f] = "stream"
      /\ UNCHANGED <<formsForms, gone, formsShifted, formRows, formStamps, formBuf, formsListed, formsPc>>
  BY DEF Forms!PushPage, Forms!api
<1>3. /\ IF Forms!Full(B, FilloutFlush)
         THEN Forms!UpsertSubmissions(B) /\ subBuf' = {}
         ELSE subBuf' = B /\ UNCHANGED <<subRows, subStamps>>
      /\ IF Cardinality(page) < FilloutPage
         THEN formsAt' = [formsAt EXCEPT ![f] = "done"] /\ offset' = offset
         ELSE formsAt' = formsAt /\ offset' = [offset EXCEPT ![f] = @ + FilloutPage]
  BY <1>1, FormCount DEF Forms!PushPage
<1> HIDE DEF page
<1>4. /\ B \in SUBSET [form : FilloutForms, id : FilloutIds] /\ page \subseteq OfForm(B, f)
      /\ \A g : OfForm(subBuf, g) \subseteq OfForm(B, g)
  <2>1. subBuf \in SUBSET [form : FilloutForms, id : FilloutIds]
    BY <1>a DEF FormsTyped
  <2>2. page \in SUBSET FilloutIds
    BY <1>1
  <2>3. QED BY <2>1, <2>2, PageInBuffer
<1> HIDE DEF B
<1>5. /\ subRows' \in [FilloutForms -> SUBSET FilloutIds] /\ subStamps' \in [FilloutForms -> SUBSET FilloutIds]
      /\ subBuf' \in SUBSET [form : FilloutForms, id : FilloutIds]
      /\ \A g \in FilloutForms : subRows[g] \subseteq subRows'[g] /\ Taken(g)' = subStamps[g] \cup OfForm(B, g)
  <2>1. CASE Forms!Full(B, FilloutFlush)
    BY <1>a, <1>3, <1>4, <2>1, UpsertOfSubmissions
  <2>2. CASE ~Forms!Full(B, FilloutFlush)
    BY <1>a, <1>3, <1>4, <2>2 DEF FormsTyped, Taken
  <2>3. QED BY <2>1, <2>2
<1>6. page \subseteq Taken(f)' /\ \A g \in FilloutForms : Taken(g) \subseteq Taken(g)'
  BY <1>4, <1>5 DEF Taken
<1>7. FormsKept
  BY <1>a, <1>2, <1>5 DEF FormsKept, FormsTyped
<1>8. /\ formsAt' \in [FilloutForms -> {"queued", "stream", "done", "failed"}]
      /\ offset' \in [FilloutForms -> Nat]
      /\ \A g \in FilloutForms : g # f => formsAt'[g] = formsAt[g] /\ offset'[g] = offset[g]
      /\ formsAt'[f] \in {"stream", "done"}
  <2>1. offset[f] + FilloutPage \in Nat
    BY <1>b
  <2>2. CASE Cardinality(page) < FilloutPage
    BY <1>a, <1>3, <2>2 DEF FormsTyped
  <2>3. CASE ~(Cardinality(page) < FilloutPage)
    BY <1>a, <1>2, <1>3, <2>1, <2>3 DEF FormsTyped
  <2>4. QED BY <2>2, <2>3
<1>9. FormsTyped' /\ PoolOK'
  BY <1>a, <1>2, <1>5, <1>8 DEF FormsTyped, PoolOK
<1>10. /\ Below(formsForms[f], offset[f]) \subseteq Taken(f) => Below(formsForms[f], offset'[f]) \subseteq Taken(f)'
       /\ Below(formsForms[f], offset[f]) \subseteq Taken(f) /\ formsAt'[f] = "done" => formsForms[f] \subseteq Taken(f)'
  <2>1. CASE Cardinality(page) < FilloutPage
    <3>1. offset'[f] = offset[f]
      BY <1>3, <2>1
    <3>2. formsForms[f] = Below(formsForms[f], offset[f]) \cup page
      BY <1>b, <2>1, LastPage DEF page
    <3>3. QED BY <1>6, <3>1, <3>2
  <2>2. CASE ~(Cardinality(page) < FilloutPage)
    <3>1. offset'[f] = offset[f] + FilloutPage /\ formsAt'[f] = "stream"
      BY <1>a, <1>2, <1>3, <2>2 DEF FormsTyped
    <3>2. Below(formsForms[f], offset[f] + FilloutPage) = Below(formsForms[f], offset[f]) \cup page
      BY <1>b, NextPage DEF page
    <3>3. QED BY <1>6, <3>1, <3>2
  <2>3. QED BY <2>1, <2>2
<1>11. Whole'
  <2>1. Forms!CanDeleteStale' => Forms!CanDeleteStale
    BY <1>a, <1>2, <1>8 DEF Forms!CanDeleteStale, FormsTyped
  <2>2. FormsTaken' = FormsTaken
    BY <1>2 DEF FormsTaken
  <2>3. QED BY <1>a, <1>2, <1>6, <1>8, <1>10, <2>1, <2>2 DEF Whole, FormsTyped
<1>12. QED BY <1>7, <1>9, <1>11 DEF FormsInv

LEMMA FormsStep ==
  ASSUME FormsInv, [Forms!Next]_forms
  PROVE  FormsInv' /\ FormsKept
<1>a. FormsTyped /\ PoolOK /\ Whole
  BY DEF FormsInv
<1>1. ASSUME UNCHANGED <<formRows, subRows>> PROVE FormsKept
  BY <1>a, <1>1 DEF FormsKept, FormsTyped
<1>2. ASSUME NEW f \in FilloutForms,
             Forms!DeleteForm(f) \/ \E i \in FilloutIds : Forms!DeleteSubmission(f, i)
      PROVE  FormsInv' /\ FormsKept
  <2>1. /\ UNCHANGED <<formRows, subRows, formStamps, subStamps, formBuf, subBuf, formsListed, formsPc, formsAt, offset>>
        /\ formsShifted' = (formsShifted \/ formsPc # "idle")
        /\ gone' \subseteq FilloutForms
        /\ \/ gone' = gone /\ \E i \in FilloutIds : formsForms' = [formsForms EXCEPT ![f] = @ \ {i}]
           \/ gone' = gone \cup {f} /\ formsForms' = [formsForms EXCEPT ![f] = {}]
    BY <1>a, <1>2 DEF Forms!DeleteForm, Forms!DeleteSubmission, Forms!tables, Forms!buffers, FormsTyped
  <2>2. formsForms' \in [FilloutForms -> SUBSET FilloutIds] /\ \A g \in gone' : formsForms'[g] = {}
    BY <1>a, <2>1 DEF FormsTyped
  <2>3. FormsTyped' /\ PoolOK' /\ Whole'
    BY <1>a, <2>1, <2>2 DEF FormsTyped, PoolOK, Whole
  <2>4. QED BY <1>1, <2>1, <2>3 DEF FormsInv
<1>3. ASSUME NEW f \in FilloutForms, Forms!FailForm(f) PROVE FormsInv' /\ FormsKept
  <2>1. /\ formsPc = "pool" /\ formsAt[f] \in {"queued", "stream"}
        /\ formsAt' = [formsAt EXCEPT ![f] = "failed"] /\ formBuf' \subseteq formBuf /\ subBuf' \subseteq subBuf
        /\ UNCHANGED <<formsForms, gone, formsShifted, formRows, subRows, formStamps, subStamps, formsListed, formsPc, offset>>
    BY <1>3 DEF Forms!FailForm, Forms!api, Forms!tables, Forms!buffers
  <2>2. FormsTyped' /\ PoolOK'
    BY <1>a, <2>1 DEF FormsTyped, PoolOK
  <2>3. f \in formsListed' /\ formsAt'[f] = "failed"
    BY <1>a, <2>1 DEF FormsTyped, PoolOK
  <2>4. Whole'
    BY <2>3 DEF Whole, Forms!CanDeleteStale
  <2>5. QED BY <1>1, <2>1, <2>2, <2>4 DEF FormsInv
<1>b. ASSUME NEW f \in FilloutForms, Forms!PageWithoutList(f) PROVE FormsInv' /\ FormsKept
  <2>1. /\ formsPc = "pool" /\ formsAt[f] = "stream" /\ formsShifted' = TRUE
        /\ formsAt' = [formsAt EXCEPT ![f] = "done"]
        /\ UNCHANGED <<formsForms, gone, formRows, subRows, formStamps, subStamps, formBuf, subBuf, formsListed,
                       formsPc, offset>>
    BY <1>b DEF Forms!PageWithoutList, Forms!tables, Forms!buffers
  <2>2. FormsTyped' /\ PoolOK'
    BY <1>a, <2>1 DEF FormsTyped, PoolOK
  <2>3. Whole'
    BY <2>1 DEF Whole
  <2>4. QED BY <1>1, <2>1, <2>2, <2>3 DEF FormsInv
<1>4. CASE Forms!ListForms
  <2>1. /\ formsPc' = "pool" /\ formsListed' = FilloutForms \ gone
        /\ formsAt' = [f \in FilloutForms |-> IF f \in gone THEN "done" ELSE "queued"]
        /\ offset' = [f \in FilloutForms |-> 0] /\ subStamps' = [f \in FilloutForms |-> {}]
        /\ UNCHANGED <<formsForms, gone, formRows, subRows, formBuf, subBuf>>
    BY <1>4 DEF Forms!ListForms, Forms!NoRows, Forms!buffers
  <2>2. FormsTyped' /\ PoolOK'
    BY <1>a, <2>1 DEF FormsTyped, PoolOK
  <2>3. \A f \in FilloutForms : Below(formsForms[f], 0) = {}
    <3>1. \A f \in FilloutForms : formsForms[f] \in SUBSET FilloutIds
      BY <1>a DEF FormsTyped
    <3>2. \A f \in FilloutForms : formsForms[f] \in SUBSET Int /\ IsFiniteSet(formsForms[f])
      BY <3>1, FilloutAssumption, FS_Subset
    <3>3. QED BY <3>2, NothingBelow
  <2>4. Whole'
    BY <2>1, <2>3 DEF Whole
  <2>5. QED BY <1>1, <2>1, <2>2, <2>4 DEF FormsInv
<1>5. CASE Forms!FlushAll
  <2>1. /\ formsPc = "pool" /\ formsPc' = "sweep" /\ \A f \in FilloutForms : formsAt[f] \in {"done", "failed"}
        /\ Forms!UpsertForms(formBuf) /\ Forms!UpsertSubmissions(subBuf) /\ formBuf' = {} /\ subBuf' = {}
        /\ UNCHANGED <<formsForms, gone, formsShifted, formsListed, formsAt, offset>>
    BY <1>5 DEF Forms!FlushAll, Forms!api
  <2>2. /\ formBuf \in SUBSET [form : FilloutForms, metadata : {"bare", "full"}]
        /\ subBuf \in SUBSET [form : FilloutForms, id : FilloutIds]
    BY <1>a DEF FormsTyped
  <2>3. /\ formRows' \in [FilloutForms -> {"none", "bare", "full"}]
        /\ subRows' \in [FilloutForms -> SUBSET FilloutIds] /\ subStamps' \in [FilloutForms -> SUBSET FilloutIds]
        /\ FormsKept
    BY <1>a, <2>1, <2>2, UpsertOfForms, UpsertOfSubmissions DEF FormsKept
  <2>4. FormsTaken' = FormsTaken /\ \A f \in FilloutForms : Taken(f)' = Taken(f)
    <3>1. formStamps' = formStamps \cup {b.form : b \in formBuf}
      BY <1>a, <2>1, <2>2, UpsertOfForms
    <3>2. \A f \in FilloutForms : Taken(f)' = subStamps[f] \cup OfForm(subBuf, f)
      BY <1>a, <2>1, <2>2, UpsertOfSubmissions
    <3>3. QED BY <2>1, <3>1, <3>2 DEF FormsTaken, Taken
  <2>5. FormsTyped' /\ PoolOK'
    BY <1>a, <2>1, <2>3 DEF FormsTyped, PoolOK
  <2>6. Whole'
    BY <1>a, <2>1, <2>4 DEF Whole, FormsTyped, Forms!CanDeleteStale
  <2>7. QED BY <2>3, <2>5, <2>6 DEF FormsInv
<1>6. CASE Forms!Sweep
  <2>1. /\ formsPc = "sweep" /\ formsPc' = "idle"
        /\ UNCHANGED <<formsForms, gone, formsShifted, formStamps, subStamps, formBuf, subBuf, formsListed, formsAt, offset>>
    BY <1>6 DEF Forms!Sweep, Forms!api, Forms!buffers
  <2>2. CASE Forms!CanDeleteStale
    <3>1. /\ subRows' = [f \in FilloutForms |-> subRows[f] \cap subStamps[f]]
          /\ formRows' = [f \in FilloutForms |-> IF f \in formStamps THEN formRows[f] ELSE "none"]
      BY <1>6, <2>2 DEF Forms!Sweep
    <3>2. FormsTyped' /\ PoolOK' /\ Whole'
      BY <1>a, <2>1, <3>1 DEF FormsTyped, PoolOK, Whole
    <3>3. ASSUME NEW f \in FilloutForms, ~formsShifted
          PROVE  (f \in gone \/ f \in formStamps) /\ formsForms[f] \subseteq subStamps[f]
      <4>1. CASE f \notin formsListed
        BY <1>a, <2>1, <2>2, <3>3, <4>1 DEF Whole, FormsTyped
      <4>2. CASE f \in formsListed
        <5>1. formsAt[f] = "done"
          BY <1>a, <2>1, <2>2, <4>2 DEF PoolOK, Forms!CanDeleteStale
        <5>2. f \in FormsTaken /\ formsForms[f] \subseteq Taken(f)
          BY <1>a, <2>1, <2>2, <3>3, <4>2, <5>1 DEF Whole
        <5>3. formBuf = {} /\ subBuf = {}
          BY <1>a, <2>1 DEF PoolOK
        <5>4. QED BY <5>2, <5>3 DEF FormsTaken, Taken, OfForm
      <4>3. QED BY <4>1, <4>2
    <3>4. FormsKept
      BY <1>a, <3>1, <3>3 DEF FormsKept, FormsTyped
    <3>5. QED BY <3>2, <3>4 DEF FormsInv
  <2>3. CASE ~Forms!CanDeleteStale
    <3>1. UNCHANGED <<subRows, formRows>>
      BY <1>6, <2>3 DEF Forms!Sweep
    <3>2. FormsTyped' /\ PoolOK' /\ Whole'
      BY <1>a, <2>1, <3>1 DEF FormsTyped, PoolOK, Whole
    <3>3. QED BY <1>1, <3>1, <3>2 DEF FormsInv
  <2>4. QED BY <2>2, <2>3
<1>7. CASE Forms!FailRun
  <2>1. /\ formsPc' = "idle" /\ formBuf' = {} /\ subBuf' = {}
        /\ UNCHANGED <<formsForms, gone, formRows, subRows, formStamps, subStamps, formsListed, formsAt, offset>>
    BY <1>7 DEF Forms!FailRun, Forms!api, Forms!tables
  <2>2. QED BY <1>a, <1>1, <2>1 DEF FormsInv, FormsTyped, PoolOK, Whole
<1>8. CASE UNCHANGED forms
  <2>1. UNCHANGED <<formsForms, gone, formRows, subRows, formStamps, subStamps, formBuf, subBuf, formsListed,
                    formsPc, formsAt, offset, formsShifted>>
    BY <1>8 DEF forms
  <2>2. FormsTyped' /\ PoolOK'
    BY <1>a, <2>1 DEF FormsTyped, PoolOK
  <2>3. Whole'
    BY <1>a, <2>1 DEF Whole, Taken, FormsTaken, Forms!CanDeleteStale
  <2>4. QED BY <1>1, <2>1, <2>2, <2>3 DEF FormsInv
<1>9. QED
  BY <1>2, <1>3, <1>b, <1>4, <1>5, <1>6, <1>7, <1>8, PushOfForm, PushOfPage DEF Forms!Next

(***************************************************************************)
(* Together: the one part that is at work keeps its invariant.             *)
(***************************************************************************)

DeleteInv ==
    /\ part = "books" => SweepInv
    /\ part = "forms" => FormsInv
    /\ part = "people" => PeopleInv
    /\ part = "pull" => PullInv

\* What a step may do, as OnlyGoneDeleted has it.
Swept == \A e \in BookEntities : \A i \in booksRows[e] \ booksRows'[e] : i \notin objects[e] \/ e \in booksShifted

FormsSwept ==
    ~formsShifted =>
        \A f \in FilloutForms :
            /\ subRows[f] \ subRows'[f] \subseteq FilloutIds \ formsForms[f]
            /\ formRows[f] # "none" /\ formRows'[f] = "none" => f \in gone
FormsNamed == \A f \in FilloutForms : formRows[f] = "full" => formRows'[f] # "bare"

PeopleLeft ==
    \A u \in DOMAIN source :
        (\E i \in DOMAIN records : records[i].user = u) =>
            \/ \E i \in DOMAIN records' : records'[i].user = u
            \/ u \notin DOMAIN desired

MainGrows == \A f \in PullFiles : pullMain[f] \subseteq pullMain'[f]
BranchOfItsOwn ==
    \A h \in Pull!Heads : refs[h] # Null /\ refs'[h] = Null => pullPhase[refs[h].by] = "rollback"

LEMMA DeleteStart == Init => DeleteInv
BY SweepStart, FormsBegin, PeopleBegin, PullBegin DEF Init, DeleteInv

LEMMA DeleteNext ==
  ASSUME DeleteInv, [Next]_vars
  PROVE  /\ DeleteInv'
         /\ [Swept]_(Books!vars)
         /\ [FormsSwept]_(Forms!vars) /\ [FormsNamed]_(Forms!vars)
         /\ [PeopleLeft]_(People!vars)
         /\ [MainGrows]_pullMain /\ [BranchOfItsOwn]_refs
<1>1. /\ part' = part
      /\ IF part = "books" THEN [Books!Next]_books ELSE UNCHANGED books
      /\ IF part = "forms" THEN [Forms!Next]_forms ELSE UNCHANGED forms
      /\ IF part = "people" THEN [People!Next]_people ELSE UNCHANGED people
      /\ IF part = "pull" THEN [Pull!Next]_pull ELSE UNCHANGED pull
  BY DEF Next, vars
<1>2. DeleteInv'
  BY <1>1, SweepStep, FormsStep, PeopleStep, PullStep DEF DeleteInv
<1>3. [Swept]_(Books!vars)
  <2>1. CASE part = "books"
    BY <1>1, <2>1, SweepStep DEF DeleteInv, Swept
  <2>2. CASE part # "books"
    BY <1>1, <2>2 DEF books, Books!vars
  <2>3. QED BY <2>1, <2>2
<1>4. [FormsSwept]_(Forms!vars) /\ [FormsNamed]_(Forms!vars)
  <2>1. CASE part = "forms"
    BY <1>1, <2>1, FormsStep DEF DeleteInv, FormsKept, FormsSwept, FormsNamed
  <2>2. CASE part # "forms"
    BY <1>1, <2>2 DEF forms, Forms!vars
  <2>3. QED BY <2>1, <2>2
<1>5. [PeopleLeft]_(People!vars)
  <2>1. CASE part = "people"
    BY <1>1, <2>1, PeopleStep DEF DeleteInv, PeopleLeft
  <2>2. CASE part # "people"
    BY <1>1, <2>2 DEF people, People!vars
  <2>3. QED BY <2>1, <2>2
<1>6. [MainGrows]_pullMain /\ [BranchOfItsOwn]_refs
  <2>1. CASE part = "pull"
    BY <1>1, <2>1, PullStep DEF DeleteInv, PullKept, MainGrows, BranchOfItsOwn
  <2>2. CASE part # "pull"
    BY <1>1, <2>2 DEF pull
  <2>3. QED BY <2>1, <2>2
<1>7. QED BY <1>2, <1>3, <1>4, <1>5, <1>6

(* What is deleted or replaced was to go: a page that is read, a form that *)
(* is done or a plan that is half carried out accounts for all the source  *)
(* still has, and no merge or rollback touches what others did meanwhile.  *)
THEOREM DeletesOnlyGone == Spec => OnlyGoneDeleted
<1>1. DeleteInv /\ [Next]_vars =>
         /\ DeleteInv'
         /\ [Swept]_(Books!vars)
         /\ [FormsSwept]_(Forms!vars) /\ [FormsNamed]_(Forms!vars)
         /\ [PeopleLeft]_(People!vars)
         /\ [MainGrows]_pullMain /\ [BranchOfItsOwn]_refs
  BY DeleteNext
<1>2. Spec => /\ [][Swept]_(Books!vars)
              /\ [][FormsSwept]_(Forms!vars) /\ [][FormsNamed]_(Forms!vars)
              /\ [][PeopleLeft]_(People!vars)
              /\ [][MainGrows]_pullMain /\ [][BranchOfItsOwn]_refs
  BY <1>1, DeleteStart, PTL DEF Spec
<1>3. /\ [][Swept]_(Books!vars) => Books!OnlyGoneDeleted
      /\ [][FormsSwept]_(Forms!vars) => Forms!OnlyGoneDeleted
      /\ [][FormsNamed]_(Forms!vars) => Forms!CatalogueKept
      /\ [][PeopleLeft]_(People!vars) => People!NobodyDropped
      /\ [][MainGrows]_pullMain => Pull!NothingReverted
      /\ [][BranchOfItsOwn]_refs => Pull!OthersBranchKept
  BY PTL DEF Swept, FormsSwept, FormsNamed, PeopleLeft, MainGrows, BranchOfItsOwn,
             Books!OnlyGoneDeleted, Forms!OnlyGoneDeleted, Forms!CatalogueKept, People!NobodyDropped,
             Pull!NothingReverted, Pull!OthersBranchKept
<1>4. QED BY <1>2, <1>3, PTL DEF OnlyGoneDeleted

(***************************************************************************)
(* Row hashes: nobody but the worker that holds a table records it, and    *)
(* what is stale or being written was touched since the pass altered it.   *)
(***************************************************************************)
HoldsTable(w) == passPc[w] \notin {"done", "next", "fetch"}
InQueue(t) == \E i \in 1 .. Len(passQueue) : passQueue[i] = t

PassTyped ==
  /\ passMain \in {"idle", "join"} /\ passQueue \in Seq(PassTables)
  /\ handler \in Seq({"lock", "cancel", "drain"})
  /\ stop \in BOOLEAN /\ hit \subseteq PassWorkers
  /\ passPc \in [PassWorkers -> {"done", "next", "fetch", "connect", "register", "check",
                                     "alter", "count", "update"}]
  /\ on \in [PassWorkers -> PassTables \cup {""}]
  /\ passStatus \in [PassTables -> {"pending", "running", "completed", "skipped", "error"}]
  /\ passStale \in [PassTables -> SUBSET PassRows]
  /\ writing \in [PassTables -> SUBSET PassRows]
  /\ touched \in [PassTables -> SUBSET PassRows]

PassBounds == passEdits \in 0 .. MaxPassEdits /\ passFaults \in 0 .. MaxPassFaults

\* A table is held by one worker, which shows it as running before it connects.
Holding ==
  /\ \A w \in PassWorkers : HoldsTable(w) <=> on[w] # ""
  /\ \A w \in PassWorkers : passPc[w] = "connect" => passStatus[on[w]] = "pending"
  /\ \A w \in PassWorkers :
        HoldsTable(w) /\ passPc[w] # "connect" => passStatus[on[w]] = "running"
  /\ \A w, x \in PassWorkers : HoldsTable(w) /\ on[x] = on[w] => x = w
  /\ \A t \in PassTables : passStatus[t] = "running" => \E w \in PassWorkers : on[w] = t
  /\ \A w \in hit : HoldsTable(w)

\* A table is in the queue once, pending and held by nobody.
Queued ==
  /\ \A i, j \in 1 .. Len(passQueue) : passQueue[i] = passQueue[j] => i = j
  /\ \A i \in 1 .. Len(passQueue) : passStatus[passQueue[i]] = "pending"
  /\ \A i \in 1 .. Len(passQueue), w \in PassWorkers : on[w] # passQueue[i]

\* Unless the pass is to stop, a table that nobody took is in the queue.
TakenUp ==
  /\ handler # <<>> => passMain = "join" /\ stop = TRUE
  /\ passMain = "idle" => \A w \in PassWorkers : passPc[w] = "done"
  /\ stop = FALSE /\ passMain # "idle" =>
        /\ \A t \in PassTables : passStatus[t] = "pending" =>
              InQueue(t) \/ \E w \in PassWorkers : on[w] = t
        /\ \A w \in PassWorkers : passPc[w] = "done" => passQueue = <<>>
  /\ stop = FALSE /\ passMain = "idle" =>
        /\ passQueue = <<>>
        /\ \/ \A t \in PassTables : passStatus[t] = "pending"
           \/ \A t \in PassTables : passStatus[t] # "pending"

Covered ==
  /\ \A t \in PassTables :
        passStatus[t] \in {"completed", "skipped"} => passStale[t] \cup writing[t] \subseteq touched[t]
  /\ \A w \in PassWorkers :
        passPc[w] \in {"count", "check", "update"} => writing[on[w]] \subseteq touched[on[w]]

PassInv == PassTyped /\ PassBounds /\ Holding /\ Queued /\ TakenUp /\ Covered

LEMMA PassLimits == MaxPassEdits \in Nat /\ MaxPassFaults \in Nat
BY PassAssumption

LEMMA PassNames == "" \notin PassTables /\ PassWorkers # {}
BY PassAssumption

LEMMA PassTypeOK == PassInv => Pass!TypeOK
BY DEF PassInv, PassTyped, PassBounds, Pass!TypeOK, Pass!Querying, Pass!Final, Pass!None

LEMMA PassSound == PassInv => Pass!HashedUnlessTouched
BY DEF PassInv, Covered, Pass!HashedUnlessTouched

LEMMA PassRecorded == PassInv => Pass!AllRecorded
<1> SUFFICES ASSUME PassInv, passMain = "idle" PROVE
         /\ \A t \in PassTables : passStatus[t] # "running"
         /\ stop \/ passQueue = <<>>
         /\ ~stop => \/ \A t \in PassTables : passStatus[t] = "pending"
                     \/ \A t \in PassTables : passStatus[t] # "pending"
  BY DEF Pass!AllRecorded
<1>1. \A w \in PassWorkers : passPc[w] = "done" /\ on[w] = ""
  BY DEF PassInv, Holding, HoldsTable, TakenUp
<1>2. \A t \in PassTables : passStatus[t] # "running"
  <2>1. SUFFICES ASSUME NEW t \in PassTables, passStatus[t] = "running" PROVE FALSE
    OBVIOUS
  <2>2. PICK w \in PassWorkers : on[w] = t
    BY <2>1 DEF PassInv, Holding
  <2>3. QED BY <2>2, <1>1, PassNames
<1>3. stop \in BOOLEAN
  BY DEF PassInv, PassTyped
<1>4. QED BY <1>2, <1>3 DEF PassInv, TakenUp

\* The tables in some order, each once.
LEMMA PassOrder ==
  LET s == Pass!SetToSeq(PassTables)
  IN  /\ s \in Seq(PassTables)
      /\ \A i, j \in 1 .. Len(s) : s[i] = s[j] => i = j
      /\ \A t \in PassTables : \E i \in 1 .. Len(s) : s[i] = t
<1> DEFINE n == Cardinality(PassTables)
           s == Pass!SetToSeq(PassTables)
<1>0. \A S : Pass!Cardinality(S) = Cardinality(S)
  BY Zenon DEF Cardinality, Pass!Cardinality
<1>1. n \in Nat /\ IsFiniteSet(1 .. n) /\ Cardinality(1 .. n) = n /\ IsFiniteSet(PassTables)
  <2>1. IsFiniteSet(PassTables)
    BY PassAssumption
  <2>2. n \in Nat
    BY <2>1, FS_CardinalityType
  <2>3. QED BY <2>1, <2>2, FS_Interval
<1>2. \E f : f \in [1 .. n -> PassTables] /\ IsInjective(f)
  <2>1. PICK f : f \in Bijection(1 .. n, PassTables)
    BY <1>1, FS_CardinalityType DEF ExistsBijection
  <2>2. QED BY <2>1 DEF Bijection, Injection, IsInjective
<1>3. s \in [1 .. n -> PassTables] /\ IsInjective(s)
  BY <1>2, <1>0 DEF Pass!SetToSeq, Pass!IsInjective, IsInjective
<1>4. s \in Injection(1 .. n, PassTables)
  BY <1>3 DEF Injection
<1>5. s \in Surjection(1 .. n, PassTables)
  BY <1>1, <1>4, FS_Injection
<1>6. s \in Seq(PassTables) /\ Len(s) = n
  BY <1>1, <1>3, SeqDef
<1> HIDE DEF s, n
<1>7. \A i, j \in 1 .. Len(s) : s[i] = s[j] => i = j
  BY <1>3, <1>6 DEF IsInjective
<1>8. \A t \in PassTables : \E i \in 1 .. Len(s) : s[i] = t
  BY <1>5, <1>6 DEF Surjection
<1>9. QED BY <1>6, <1>7, <1>8 DEF s

LEMMA PassInitially == Pass!Init => PassInv
<1> SUFFICES ASSUME Pass!Init PROVE PassInv
  OBVIOUS
<1>1. PassTyped
  <2>1. passQueue \in Seq(PassTables) /\ handler \in Seq({"lock", "cancel", "drain"})
    BY DEF Pass!Init
  <2>2. /\ passMain = "idle" /\ stop = FALSE /\ hit = {}
        /\ passPc = [w \in PassWorkers |-> "done"] /\ on = [w \in PassWorkers |-> ""]
        /\ passStatus = [t \in PassTables |-> "pending"]
        /\ passStale = [t \in PassTables |-> PassRows]
        /\ writing = [t \in PassTables |-> {}] /\ touched = [t \in PassTables |-> {}]
    BY DEF Pass!Init, Pass!None
  <2>3. QED BY <2>1, <2>2 DEF PassTyped
<1>2. PassBounds
  BY PassLimits DEF Pass!Init, PassBounds
<1>3. Holding
  BY DEF Pass!Init, Holding, HoldsTable, Pass!None
<1>4. Queued /\ TakenUp
  BY DEF Pass!Init, Queued, TakenUp, InQueue
<1>5. Covered
  BY DEF Pass!Init, Covered
<1>6. QED BY <1>1, <1>2, <1>3, <1>4, <1>5 DEF PassInv

\* The first table leaves the queue.
LEMMA QueueMoves ==
  ASSUME PassTyped, passQueue # <<>>
  PROVE  /\ Head(passQueue) \in PassTables /\ Head(passQueue) = passQueue[1] /\ 1 \in 1 .. Len(passQueue)
         /\ Tail(passQueue) \in Seq(PassTables)
         /\ \A i \in 1 .. Len(Tail(passQueue)) : i + 1 \in 1 .. Len(passQueue) /\ Tail(passQueue)[i] = passQueue[i + 1]
         /\ \A i \in 1 .. Len(passQueue) :
               i = 1 \/ (i - 1 \in 1 .. Len(Tail(passQueue)) /\ Tail(passQueue)[i - 1] = passQueue[i])
<1>1. passQueue \in Seq(PassTables)
  BY DEF PassTyped
<1>2. /\ Len(passQueue) \in Nat /\ Len(passQueue) # 0 /\ Len(Tail(passQueue)) = Len(passQueue) - 1
      /\ Head(passQueue) = passQueue[1] /\ Tail(passQueue) \in Seq(PassTables)
      /\ \A i \in 1 .. Len(Tail(passQueue)) : Tail(passQueue)[i] = passQueue[i + 1]
  BY <1>1, HeadTailProperties, LenProperties, EmptySeq
<1>3. passQueue[1] \in PassTables
  BY <1>1, <1>2, ElementOfSeq
<1>4. QED BY <1>2, <1>3

LEMMA PassStart == PassInv /\ Pass!Start => PassInv'
<1> SUFFICES ASSUME PassInv, Pass!Start PROVE PassInv'
  OBVIOUS
<1> DEFINE s == Pass!SetToSeq(PassTables)
<1>1. /\ passQueue' = s /\ stop' = FALSE /\ passMain = "idle" /\ passMain' = "join"
      /\ passPc' = [w \in PassWorkers |-> "next"]
      /\ passStatus' = [t \in PassTables |-> "pending"]
      /\ UNCHANGED <<handler, on, hit, passStale, writing, touched, passEdits, passFaults>>
  BY DEF Pass!Start, Pass!data
<1>2. /\ s \in Seq(PassTables)
      /\ \A i, j \in 1 .. Len(s) : s[i] = s[j] => i = j
      /\ \A t \in PassTables : \E i \in 1 .. Len(s) : s[i] = t
      /\ \A i \in 1 .. Len(s) : s[i] \in PassTables
  BY PassOrder, ElementOfSeq
<1> HIDE DEF s
<1>3. PassTyped'
  BY <1>1, <1>2 DEF PassInv, PassTyped
<1>4. \A w \in PassWorkers : on[w] = "" /\ w \notin hit
  BY <1>1 DEF PassInv, Holding, HoldsTable, TakenUp
<1>5. Holding'
  <2>1. \A w \in PassWorkers : ~HoldsTable(w)' /\ on'[w] = ""
    BY <1>1, <1>4 DEF HoldsTable
  <2>2. hit \subseteq PassWorkers
    BY DEF PassInv, PassTyped
  <2>3. \A w \in PassWorkers : w \notin hit'
    BY <1>1, <1>4
  <2>4. \A t \in PassTables : passStatus'[t] # "running"
    BY <1>1
  <2>5. QED BY <1>1, <2>1, <2>2, <2>3, <2>4 DEF Holding
<1>6. Queued'
  <2>1. \A i \in 1 .. Len(s) : s[i] # ""
    BY <1>2, PassNames
  <2>2. QED BY <1>1, <1>2, <1>4, <2>1 DEF Queued
<1>7. TakenUp'
  <2>1. handler = <<>>
    BY <1>1 DEF PassInv, TakenUp
  <2>2. QED BY <1>1, <1>2, <2>1 DEF TakenUp, InQueue
<1>8. Covered'
  BY <1>1 DEF Covered
<1>9. PassBounds'
  BY <1>1 DEF PassInv, PassBounds
<1>10. QED BY <1>3, <1>5, <1>6, <1>7, <1>8, <1>9 DEF PassInv

\* The frames of the handler.
LEMMA HandlerMoves ==
  ASSUME PassTyped
  PROVE  LET Frames == {"lock", "cancel", "drain"} IN
         /\ Append(handler, "lock") \in Seq(Frames) /\ Append(handler, "lock") # <<>>
         /\ handler # <<>> =>
               /\ Pass!Front(handler) \in Seq(Frames)
               /\ \A f \in Frames : /\ [handler EXCEPT ![Len(handler)] = f] \in Seq(Frames)
                                    /\ [handler EXCEPT ![Len(handler)] = f] # <<>>
<1> DEFINE Frames == {"lock", "cancel", "drain"}
<1>1. handler \in Seq(Frames)
  BY DEF PassTyped
<1> HIDE DEF Frames
<1>2. ASSUME handler # <<>>, NEW f \in Frames
      PROVE  /\ [handler EXCEPT ![Len(handler)] = f] \in Seq(Frames)
             /\ [handler EXCEPT ![Len(handler)] = f] # <<>>
  BY <1>1, <1>2, ExceptSeq, EmptySeq, LenProperties
<1>3. ASSUME handler # <<>> PROVE Pass!Front(handler) \in Seq(Frames)
  BY <1>1, <1>3 DEF Pass!Front
<1>4. Append(handler, "lock") \in Seq(Frames) /\ Append(handler, "lock") # <<>>
  BY <1>1 DEF Frames
<1>5. QED BY <1>2, <1>3, <1>4 DEF Frames

LEMMA PassMain ==
  PassInv /\ (Pass!End \/ Pass!Terminate \/ Pass!AcquireLock \/ Pass!Cancel) => PassInv'
<1> SUFFICES ASSUME PassInv, Pass!End \/ Pass!Terminate \/ Pass!AcquireLock \/ Pass!Cancel
             PROVE  PassInv'
  OBVIOUS
<1> USE DEF Pass!HandlerAt, Pass!Frame
<1>1. UNCHANGED <<passQueue, passPc, on, passStatus, passStale, writing, touched, passEdits>>
  BY DEF Pass!End, Pass!Terminate, Pass!AcquireLock, Pass!Cancel, Pass!data
<1>a. PassTyped
  BY DEF PassInv
<1>2. /\ passMain' \in {"idle", "join"} /\ passMain # "idle"
      /\ stop' = stop \/ stop' = TRUE
      /\ hit' = hit \/ \E s \in SUBSET {w \in PassWorkers : passPc[w] \in {"alter", "count", "update"}} :
                           hit' = hit \cup s
      /\ passMain' = "idle" => stop' = stop /\ \A w \in PassWorkers : passPc[w] = "done"
      /\ handler' # <<>> => passMain' = "join" /\ stop' = TRUE
  <2>1. CASE Pass!End
    BY <2>1 DEF Pass!End
  <2>2. CASE Pass!Terminate
    BY <2>2 DEF Pass!Terminate
  <2>3. CASE Pass!AcquireLock \/ Pass!Cancel
    <3>1. handler # <<>> /\ UNCHANGED <<passMain, stop>>
      BY <2>3 DEF Pass!AcquireLock, Pass!Cancel
    <3>2. passMain = "join" /\ stop = TRUE
      BY <3>1 DEF PassInv, TakenUp
    <3>3. hit' = hit \/ \E s \in SUBSET {w \in PassWorkers : passPc[w] \in {"alter", "count", "update"}} :
                           hit' = hit \cup s
      BY <2>3 DEF Pass!AcquireLock, Pass!Cancel, Pass!Querying
    <3>4. QED BY <3>1, <3>2, <3>3
  <2>4. QED BY <2>1, <2>2, <2>3
<1>b. handler' \in Seq({"lock", "cancel", "drain"})
  <2>1. CASE Pass!End
    BY <1>a, <2>1 DEF Pass!End, PassTyped
  <2>2. CASE Pass!Terminate
    BY <1>a, <2>2, HandlerMoves DEF Pass!Terminate
  <2>3. CASE Pass!AcquireLock \/ Pass!Cancel
    BY <1>a, <2>3, HandlerMoves DEF Pass!AcquireLock, Pass!Cancel
  <2>4. QED BY <2>1, <2>2, <2>3
<1>3. PassTyped'
  BY <1>1, <1>2, <1>a, <1>b DEF PassTyped
<1>4. Holding'
  <2>1. \A w \in hit' : HoldsTable(w)
    <3>1. \A w \in hit : HoldsTable(w)
      BY DEF PassInv, Holding
    <3>2. ASSUME NEW s \in SUBSET {w \in PassWorkers : passPc[w] \in {"alter", "count", "update"}}
          PROVE  \A w \in s : HoldsTable(w)
      BY DEF HoldsTable
    <3>3. QED BY <1>2, <3>1, <3>2
  <2>2. \A w : HoldsTable(w)' <=> HoldsTable(w)
    BY <1>1 DEF HoldsTable
  <2>3. QED BY <1>1, <2>1, <2>2 DEF PassInv, Holding
<1>5. Queued'
  BY <1>1 DEF PassInv, Queued
<1>6. TakenUp'
  <2>1. handler' # <<>> => passMain' = "join" /\ stop' = TRUE
    BY <1>2
  <2>2. passMain' = "idle" => \A w \in PassWorkers : passPc'[w] = "done"
    BY <1>1, <1>2
  <2>3. ASSUME stop' = FALSE, passMain' # "idle"
        PROVE  /\ \A t \in PassTables : passStatus'[t] = "pending" =>
                     InQueue(t)' \/ \E w \in PassWorkers : on'[w] = t
               /\ \A w \in PassWorkers : passPc'[w] = "done" => passQueue' = <<>>
    BY <1>1, <1>2, <2>3 DEF PassInv, TakenUp, InQueue
  <2>4. ASSUME stop' = FALSE, passMain' = "idle"
        PROVE  /\ passQueue' = <<>>
               /\ \A t \in PassTables : passStatus'[t] # "pending"
    <3>1. passQueue = <<>>
      <4>1. PICK w \in PassWorkers : TRUE
        BY PassNames
      <4>2. passPc[w] = "done" /\ stop = FALSE /\ passMain # "idle"
        BY <1>2, <2>4
      <4>3. QED BY <4>2 DEF PassInv, TakenUp
    <3>2. \A t \in PassTables : ~InQueue(t) /\ ~ \E w \in PassWorkers : on[w] = t
      <4>1. \A w \in PassWorkers : on[w] = ""
        BY <1>2, <2>4 DEF PassInv, Holding, HoldsTable
      <4>2. \A t : ~InQueue(t)
        BY <3>1 DEF InQueue
      <4>3. QED BY <4>1, <4>2, PassNames
    <3>3. QED BY <1>1, <1>2, <2>4, <3>1, <3>2 DEF PassInv, TakenUp
  <2>5. QED BY <2>1, <2>2, <2>3, <2>4 DEF TakenUp
<1>7. Covered'
  BY <1>1 DEF PassInv, Covered
<1>8. PassBounds'
  BY <1>1, PassLimits DEF PassInv, PassBounds, Pass!End, Pass!Terminate, Pass!AcquireLock, Pass!Cancel
<1>9. QED BY <1>3, <1>4, <1>5, <1>6, <1>7, <1>8 DEF PassInv

LEMMA PassDrain == PassInv /\ Pass!Drain => PassInv'
<1> SUFFICES ASSUME PassInv, Pass!Drain PROVE PassInv'
  OBVIOUS
<1>a. handler # <<>>
  BY DEF Pass!Drain, Pass!HandlerAt
<1>1. /\ passMain = "join" /\ stop = TRUE
      /\ UNCHANGED <<passMain, stop, passPc, on, hit, passStatus, passStale, writing, touched, passEdits, passFaults>>
      /\ passQueue' = passQueue \/ (passQueue # <<>> /\ passQueue' = Tail(passQueue))
      /\ handler' = handler \/ handler' = Pass!Front(handler)
  BY <1>a DEF Pass!Drain, Pass!data, PassInv, TakenUp
<1>2. PassTyped'
  <2>1. passQueue' \in Seq(PassTables)
    BY <1>1, QueueMoves DEF PassInv, PassTyped
  <2>2. handler' \in Seq({"lock", "cancel", "drain"})
    BY <1>1, <1>a, HandlerMoves DEF PassInv, PassTyped
  <2>3. QED BY <1>1, <2>1, <2>2 DEF PassInv, PassTyped
<1>3. Holding'
  BY <1>1 DEF PassInv, Holding, HoldsTable
<1>4. Queued'
  <2>1. CASE passQueue' = passQueue
    BY <1>1, <2>1 DEF PassInv, Queued
  <2>2. CASE passQueue # <<>> /\ passQueue' = Tail(passQueue)
    <3>1. PassTyped /\ Queued /\ Len(Tail(passQueue)) \in Nat
      BY <2>2, QueueMoves, LenProperties DEF PassInv
    <3>2. ASSUME NEW i \in 1 .. Len(Tail(passQueue)), NEW j \in 1 .. Len(Tail(passQueue)), Tail(passQueue)[i] = Tail(passQueue)[j]
          PROVE  i = j
      <4>1. i + 1 = j + 1
        BY <2>2, <3>1, <3>2, QueueMoves DEF Queued
      <4>2. QED BY <4>1, <3>1
    <3>3. QED BY <1>1, <2>2, <3>1, <3>2, QueueMoves DEF Queued
  <2>3. QED BY <1>1, <2>1, <2>2
<1>5. TakenUp'
  <2>1. passMain # "idle"
    BY <1>1
  <2>2. QED BY <1>1, <2>1 DEF TakenUp
<1>6. Covered' /\ PassBounds'
  BY <1>1 DEF PassInv, Covered, PassBounds
<1>7. QED BY <1>2, <1>3, <1>4, <1>5, <1>6 DEF PassInv

\* What is held stays held while only the workers' places move on.
LEMMA PassHolds ==
  ASSUME PassInv, UNCHANGED <<on, hit, passStatus>>,
         \A x \in PassWorkers : /\ HoldsTable(x)' <=> HoldsTable(x)
                                /\ passPc'[x] = "connect" <=> passPc[x] = "connect"
  PROVE  Holding'
<1>1. \A w \in PassWorkers : HoldsTable(w)' <=> on'[w] # ""
  <2>1. \A w \in PassWorkers : HoldsTable(w) <=> on[w] # ""
    BY DEF PassInv, Holding
  <2>2. QED BY <2>1
<1>2. \A w \in PassWorkers : passPc'[w] = "connect" => passStatus'[on'[w]] = "pending"
  <2>1. \A w \in PassWorkers : passPc[w] = "connect" => passStatus[on[w]] = "pending"
    BY DEF PassInv, Holding
  <2>2. QED BY <2>1
<1>3. \A w \in PassWorkers : HoldsTable(w)' /\ passPc'[w] # "connect" => passStatus'[on'[w]] = "running"
  <2>1. \A w \in PassWorkers : HoldsTable(w) /\ passPc[w] # "connect" => passStatus[on[w]] = "running"
    BY DEF PassInv, Holding
  <2>2. QED BY <2>1
<1>4. \A w, x \in PassWorkers : HoldsTable(w)' /\ on'[x] = on'[w] => x = w
  <2>1. \A w, x \in PassWorkers : HoldsTable(w) /\ on[x] = on[w] => x = w
    BY DEF PassInv, Holding
  <2>2. QED BY <2>1
<1>5. \A t \in PassTables : passStatus'[t] = "running" => \E w \in PassWorkers : on'[w] = t
  BY DEF PassInv, Holding
<1>6. \A w \in hit' : HoldsTable(w)'
  <2>1. hit \subseteq PassWorkers /\ \A w \in hit : HoldsTable(w)
    BY DEF PassInv, PassTyped, Holding
  <2>2. QED BY <2>1
<1>7. QED BY <1>1, <1>2, <1>3, <1>4, <1>5, <1>6 DEF Holding

\* A worker without a table asks whether to stop, and takes the next.
LEMMA PassAsk ==
  ASSUME PassInv, NEW w \in PassWorkers, Pass!Ask(w),
         UNCHANGED <<passMain, handler, stop, writing, passEdits, passFaults>>
  PROVE  PassInv'
<1>1. /\ passPc[w] = "next" /\ passPc' = [passPc EXCEPT ![w] = IF stop THEN "done" ELSE "fetch"]
      /\ UNCHANGED <<passMain, handler, passQueue, stop, on, hit, passStatus, passStale, writing, touched, passEdits, passFaults>>
  BY DEF Pass!Ask, Pass!Goto
<1>2. PassTyped'
  BY <1>1 DEF PassInv, PassTyped
<1>3. \A x \in PassWorkers :
         /\ HoldsTable(x)' <=> HoldsTable(x)
         /\ passPc'[x] = "connect" <=> passPc[x] = "connect"
         /\ passPc'[x] \in {"count", "check", "update"} => passPc[x] \in {"count", "check", "update"}
  BY <1>1 DEF PassInv, PassTyped, HoldsTable
<1>4. Holding'
  BY <1>1, <1>3, PassHolds
<1>5. Queued' /\ PassBounds'
  BY <1>1 DEF PassInv, Queued, PassBounds
<1>6. TakenUp'
  <2>1. passMain # "idle"
    BY <1>1 DEF PassInv, TakenUp
  <2>2. stop = FALSE => \A x \in PassWorkers : passPc'[x] = "done" => passPc[x] = "done"
    BY <1>1 DEF PassInv, PassTyped
  <2>3. QED BY <1>1, <2>1, <2>2 DEF PassInv, TakenUp, InQueue
<1>7. Covered'
  BY <1>1, <1>3 DEF PassInv, Covered
<1>8. QED BY <1>2, <1>4, <1>5, <1>6, <1>7 DEF PassInv

LEMMA PassTake ==
  ASSUME PassInv, NEW w \in PassWorkers, Pass!Take(w),
         UNCHANGED <<passMain, handler, stop, writing, passEdits, passFaults>>
  PROVE  PassInv'
<1>0. /\ UNCHANGED <<passMain, handler, stop>>
      /\ handler # <<>> => passMain = "join" /\ stop = TRUE
  BY DEF PassInv, TakenUp
<1>1. passPc[w] = "fetch" /\ passMain # "idle" /\ on[w] = "" /\ w \notin hit
  BY DEF Pass!Take, Pass!Goto, PassInv, TakenUp, Holding, HoldsTable
<1>2. UNCHANGED <<passMain, handler, stop, hit, passStatus, passStale, writing, touched, passEdits, passFaults>>
  BY DEF Pass!Take
<1>3. CASE passQueue = <<>>
  <2>1. passPc' = [passPc EXCEPT ![w] = "done"] /\ UNCHANGED <<passQueue, on>>
    BY <1>3 DEF Pass!Take, Pass!Goto
  <2>2. PassTyped'
    BY <1>2, <2>1 DEF PassInv, PassTyped
  <2>3. \A x \in PassWorkers :
           /\ HoldsTable(x)' <=> HoldsTable(x)
           /\ passPc'[x] = "connect" <=> passPc[x] = "connect"
           /\ passPc'[x] \in {"count", "check", "update"} => passPc[x] \in {"count", "check", "update"}
    BY <1>1, <2>1 DEF PassInv, PassTyped, HoldsTable
  <2>4. Holding'
    BY <1>2, <2>1, <2>3, PassHolds
  <2>5. Queued' /\ PassBounds'
    BY <1>2, <2>1 DEF PassInv, Queued, PassBounds
  <2>6. TakenUp'
    <3>1. \A t : InQueue(t)' <=> InQueue(t)
      BY <2>1 DEF InQueue
    <3>2. /\ passMain' # "idle" /\ stop' = stop
          /\ handler' # <<>> => passMain' = "join" /\ stop' = TRUE
      BY <1>0, <1>1
    <3>3. stop' = FALSE => \A t \in PassTables : passStatus'[t] = "pending" =>
             InQueue(t)' \/ \E x \in PassWorkers : on'[x] = t
      BY <1>1, <1>2, <2>1, <3>1, <3>2 DEF PassInv, TakenUp
    <3>4. QED BY <1>3, <2>1, <3>2, <3>3 DEF TakenUp
  <2>7. Covered'
    BY <1>2, <2>1, <2>3 DEF PassInv, Covered
  <2>8. QED BY <2>2, <2>4, <2>5, <2>6, <2>7 DEF PassInv
<1>4. CASE passQueue # <<>>
  <2> DEFINE t == passQueue[1]
  <2>0. PassTyped
    BY DEF PassInv
  <2>1. t \in PassTables /\ 1 \in 1 .. Len(passQueue) /\ t = Head(passQueue) /\ t # ""
    BY <1>4, <2>0, QueueMoves, PassNames
  <2>2. /\ passPc' = [passPc EXCEPT ![w] = "connect"] /\ on' = [on EXCEPT ![w] = t]
        /\ passQueue' = Tail(passQueue)
    BY <1>4, <2>1 DEF Pass!Take, Pass!Goto
  <2>3. passStatus[t] = "pending"
    BY <2>1 DEF PassInv, Queued
  <2> HIDE DEF t
  <2>4. PassTyped'
    <3>1. passQueue' \in Seq(PassTables)
      BY <1>4, <2>0, <2>2, QueueMoves
    <3>2. QED BY <1>2, <2>1, <2>2, <3>1 DEF PassInv, PassTyped
  <2>5. /\ HoldsTable(w)' /\ on'[w] = t /\ passPc'[w] = "connect" /\ passStatus' = passStatus
        /\ \A x \in PassWorkers \ {w} : (HoldsTable(x)' <=> HoldsTable(x)) /\ on'[x] = on[x] /\ passPc'[x] = passPc[x]
    BY <1>2, <2>0, <2>1, <2>2 DEF PassTyped, HoldsTable
  <2>6. \A x \in PassWorkers : on[x] # t
    BY <2>1 DEF PassInv, Queued, t
  <2>7. Holding'
    <3>1. \A x \in PassWorkers : HoldsTable(x)' <=> on'[x] # ""
      BY <2>1, <2>5 DEF PassInv, Holding
    <3>a. \A x \in PassWorkers : passPc'[x] = "connect" => passStatus'[on'[x]] = "pending"
      <4>1. \A x \in PassWorkers \ {w} : passPc[x] = "connect" => passStatus[on[x]] = "pending"
        BY DEF PassInv, Holding
      <4>2. QED BY <2>3, <2>5, <4>1
    <3>2. \A x \in PassWorkers : HoldsTable(x)' /\ passPc'[x] # "connect" =>
             passStatus'[on'[x]] = "running"
      <4>1. \A x \in PassWorkers \ {w} : HoldsTable(x) /\ passPc[x] # "connect" => passStatus[on[x]] = "running"
        BY DEF PassInv, Holding
      <4>2. QED BY <2>5, <4>1
    <3>3. ASSUME NEW x \in PassWorkers, NEW y \in PassWorkers, HoldsTable(x)', on'[y] = on'[x]
          PROVE  y = x
      <4>1. CASE x = w
        BY <2>5, <2>6, <3>3, <4>1
      <4>2. CASE y = w
        BY <2>5, <2>6, <3>3, <4>2
      <4>3. CASE x # w /\ y # w
        <5>1. HoldsTable(x) /\ on[y] = on[x]
          BY <2>5, <3>3, <4>3
        <5>2. QED BY <5>1 DEF PassInv, Holding
      <4>4. QED BY <4>1, <4>2, <4>3
    <3>4. \A u \in PassTables : passStatus'[u] = "running" => \E x \in PassWorkers : on'[x] = u
      <4> SUFFICES ASSUME NEW u \in PassTables, passStatus[u] = "running" PROVE \E x \in PassWorkers : on'[x] = u
        BY <2>5
      <4>1. PICK x \in PassWorkers : on[x] = u
        BY DEF PassInv, Holding
      <4>2. x # w
        BY <1>1, <4>1, PassNames
      <4>3. QED BY <2>5, <4>1, <4>2
    <3>5. \A x \in hit' : HoldsTable(x)'
      BY <1>1, <1>2, <2>0, <2>5 DEF PassInv, Holding, PassTyped
    <3>6. QED BY <3>1, <3>a, <3>2, <3>3, <3>4, <3>5 DEF Holding
  <2>8. Queued'
    <3>1. Len(Tail(passQueue)) \in Nat
      BY <2>0, <1>4, QueueMoves, LenProperties
    <3>2. ASSUME NEW i \in 1 .. Len(Tail(passQueue)), NEW j \in 1 .. Len(Tail(passQueue)), Tail(passQueue)[i] = Tail(passQueue)[j]
          PROVE  i = j
      <4>1. i + 1 = j + 1
        BY <1>4, <2>0, <3>2, QueueMoves DEF PassInv, Queued
      <4>2. QED BY <3>1, <4>1
    <3>3. ASSUME NEW i \in 1 .. Len(Tail(passQueue))
          PROVE  /\ passStatus'[Tail(passQueue)[i]] = "pending"
                 /\ \A x \in PassWorkers : on'[x] # Tail(passQueue)[i]
      <4>1. i + 1 \in 1 .. Len(passQueue) /\ Tail(passQueue)[i] = passQueue[i + 1] /\ i + 1 # 1
        BY <1>4, <2>0, <3>1, QueueMoves
      <4>2. passQueue[i + 1] # t
        BY <2>1, <4>1 DEF t, PassInv, Queued
      <4>3. /\ passStatus[passQueue[i + 1]] = "pending"
            /\ \A x \in PassWorkers : on[x] # passQueue[i + 1]
        BY <4>1 DEF PassInv, Queued
      <4>4. QED BY <2>5, <4>1, <4>2, <4>3
    <3>4. QED BY <2>2, <3>2, <3>3 DEF Queued
  <2>9. TakenUp'
    <3>1. ASSUME stop = FALSE, NEW u \in PassTables, passStatus'[u] = "pending", u # t
          PROVE  InQueue(u)' \/ \E x \in PassWorkers : on'[x] = u
      <4>1. InQueue(u) \/ \E x \in PassWorkers : on[x] = u
        BY <1>1, <2>5, <3>1 DEF PassInv, TakenUp
      <4>2. CASE InQueue(u)
        <5>1. PICK i \in 1 .. Len(passQueue) : passQueue[i] = u
          BY <4>2 DEF InQueue
        <5>2. i # 1
          BY <3>1, <5>1 DEF t
        <5>3. i - 1 \in 1 .. Len(Tail(passQueue)) /\ Tail(passQueue)[i - 1] = u
          BY <1>4, <2>0, <5>1, <5>2, QueueMoves
        <5>4. QED BY <2>2, <5>3 DEF InQueue
      <4>3. ASSUME NEW x \in PassWorkers, on[x] = u PROVE \E y \in PassWorkers : on'[y] = u
        <5>1. x # w
          BY <1>1, <4>3, PassNames
        <5>2. QED BY <2>5, <4>3, <5>1
      <4>4. QED BY <4>1, <4>2, <4>3
    <3>2. stop = FALSE => \A x \in PassWorkers : passPc'[x] # "done"
      BY <1>1, <1>4, <2>0, <2>2, <2>5 DEF PassInv, TakenUp, PassTyped
    <3>3. passMain' # "idle" /\ (handler' # <<>> => passMain' = "join" /\ stop' = TRUE)
      BY <1>0, <1>1
    <3>4. QED BY <1>2, <2>5, <3>1, <3>2, <3>3 DEF TakenUp
  <2>10. Covered'
    <3>1. \A x \in PassWorkers : passPc'[x] \in {"count", "check", "update"} => x # w
      BY <2>0, <2>2 DEF PassTyped
    <3>2. QED BY <1>2, <2>5, <3>1 DEF PassInv, Covered
  <2>11. PassBounds'
    BY <1>2 DEF PassInv, PassBounds
  <2>12. QED BY <2>4, <2>7, <2>8, <2>9, <2>10, <2>11 DEF PassInv
<1>5. QED BY <1>3, <1>4

\* A worker that goes on with the table it holds.
LEMMA PassGoOn ==
  ASSUME PassInv, NEW w \in PassWorkers, HoldsTable(w),
         passPc[w] # "connect", NEW p \in {"alter", "count", "check", "update"},
         passPc' = [passPc EXCEPT ![w] = p],
         UNCHANGED <<passMain, handler, passQueue, stop, on, hit, passStatus, writing, passEdits, passFaults>>,
         NEW b, NEW T, passStale' = [passStale EXCEPT ![on[w]] = @ \ b], T \in {{}, touched[on[w]]},
         touched' = [touched EXCEPT ![on[w]] = T],
         p \in {"count", "check", "update"} => writing[on[w]] \subseteq T
  PROVE  PassInv'
<1> DEFINE t == on[w]
<1>0. PassTyped
  BY DEF PassInv
<1>1. t \in PassTables /\ passStatus[t] = "running" /\ passMain # "idle"
  <2>1. on[w] # "" /\ passStatus[on[w]] = "running"
    BY DEF PassInv, Holding
  <2>2. passMain # "idle"
    BY DEF HoldsTable, PassInv, TakenUp
  <2>3. QED BY <1>0, <2>1, <2>2 DEF PassTyped
<1> HIDE DEF t
<1>2. /\ passStale' \in [PassTables -> SUBSET PassRows] /\ touched' \in [PassTables -> SUBSET PassRows]
      /\ \A u \in PassTables \ {t} : passStale'[u] = passStale[u] /\ touched'[u] = touched[u]
      /\ touched'[t] = T
  BY <1>0, <1>1 DEF PassTyped, t
<1>3. PassTyped'
  BY <1>0, <1>2 DEF PassTyped
<1>4. \A x \in PassWorkers :
         /\ HoldsTable(x)' <=> HoldsTable(x)
         /\ passPc'[x] = "done" <=> passPc[x] = "done"
         /\ passPc'[x] = "connect" <=> passPc[x] = "connect"
         /\ x # w => passPc'[x] = passPc[x]
         /\ passPc'[w] = p
  BY <1>0 DEF PassTyped, HoldsTable
<1>5. Holding'
  BY <1>4, PassHolds
<1>6. Queued' /\ PassBounds'
  BY DEF PassInv, Queued, PassBounds
<1>7. TakenUp'
  <2>1. \A u : InQueue(u)' <=> InQueue(u)
    BY DEF InQueue
  <2>2. QED BY <1>1, <1>4, <2>1 DEF PassInv, TakenUp
<1>8. Covered'
  <2>1. ASSUME NEW u \in PassTables, passStatus'[u] \in {"completed", "skipped"}
        PROVE  passStale'[u] \cup writing'[u] \subseteq touched'[u]
    <3>1. u # t /\ passStatus[u] \in {"completed", "skipped"}
      BY <1>1, <2>1
    <3>2. QED BY <1>2, <3>1 DEF PassInv, Covered
  <2>2. ASSUME NEW x \in PassWorkers, passPc'[x] \in {"count", "check", "update"}
        PROVE  writing'[on'[x]] \subseteq touched'[on'[x]]
    <3>1. CASE x = w
      BY <1>2, <1>4, <2>2, <3>1 DEF t
    <3>2. CASE x # w
      <4>1. passPc[x] \in {"count", "check", "update"} /\ HoldsTable(x)
        BY <1>4, <2>2, <3>2 DEF HoldsTable
      <4>2. on[x] # "" /\ on[x] # t
        BY <3>2, <4>1 DEF PassInv, Holding, t
      <4>3. on[x] \in PassTables
        BY <1>0, <4>2 DEF PassTyped
      <4>4. QED BY <1>2, <4>1, <4>2, <4>3 DEF PassInv, Covered
    <3>3. QED BY <3>1, <3>2
  <2>3. QED BY <2>1, <2>2 DEF Covered
<1>9. QED BY <1>3, <1>5, <1>6, <1>7, <1>8 DEF PassInv

\* A worker that records the table it holds.
LEMMA PassRecord ==
  ASSUME PassInv, NEW w \in PassWorkers, HoldsTable(w), NEW s \in {"completed", "skipped", "error"},
         Pass!Record(w, s),
         UNCHANGED <<passMain, handler, passQueue, stop, passStale, writing, touched, passEdits>>,
         passFaults' \in 0 .. MaxPassFaults,
         s # "error" => passStale[on[w]] \cup writing[on[w]] \subseteq touched[on[w]]
  PROVE  PassInv'
<1> DEFINE t == on[w]
<1>0. PassTyped
  BY DEF PassInv
<1>1. t \in PassTables /\ passStatus[t] \in {"pending", "running"} /\ passMain # "idle"
  <2>1. on[w] # "" /\ passStatus[on[w]] \in {"pending", "running"}
    BY DEF PassInv, Holding
  <2>2. passMain # "idle"
    BY DEF HoldsTable, PassInv, TakenUp
  <2>3. QED BY <1>0, <2>1, <2>2 DEF PassTyped
<1>2. /\ passStatus' = [passStatus EXCEPT ![t] = s] /\ passPc' = [passPc EXCEPT ![w] = "next"]
      /\ on' = [on EXCEPT ![w] = ""] /\ hit' = hit \ {w}
  BY DEF Pass!Record, Pass!None
<1> HIDE DEF t
<1>3. PassTyped'
  BY <1>0, <1>1, <1>2 DEF PassTyped
<1>4. /\ passPc'[w] = "next" /\ ~HoldsTable(w)' /\ on'[w] = "" /\ passStatus'[t] = s
      /\ \A x \in PassWorkers \ {w} : (HoldsTable(x)' <=> HoldsTable(x)) /\ on'[x] = on[x] /\ passPc'[x] = passPc[x]
      /\ \A u \in PassTables \ {t} : passStatus'[u] = passStatus[u]
  BY <1>0, <1>1, <1>2 DEF PassTyped, HoldsTable
<1>5. \A x \in PassWorkers \ {w} : on[x] # t
  BY DEF PassInv, Holding, t
<1>6. Holding'
  <2>1. \A x \in PassWorkers : HoldsTable(x)' <=> on'[x] # ""
    <3>1. ASSUME NEW x \in PassWorkers \ {w} PROVE HoldsTable(x)' <=> on'[x] # ""
      <4>1. HoldsTable(x) <=> on[x] # ""
        BY DEF PassInv, Holding
      <4>2. QED BY <1>4, <4>1
    <3>2. QED BY <1>4, <3>1
  <2>a. \A x \in PassWorkers \ {w} : HoldsTable(x) => passStatus'[on'[x]] = passStatus[on[x]]
    <3> SUFFICES ASSUME NEW x \in PassWorkers \ {w}, HoldsTable(x)
                 PROVE  passStatus'[on[x]] = passStatus[on[x]]
      BY <1>4
    <3>1. on[x] # "" /\ on[x] # t
      BY <1>5 DEF PassInv, Holding
    <3>2. on[x] \in PassTables
      BY <1>0, <3>1 DEF PassTyped
    <3>3. QED BY <1>4, <3>1, <3>2
  <2>b. \A x \in PassWorkers : passPc'[x] = "connect" => passStatus'[on'[x]] = "pending"
    <3>1. \A x \in PassWorkers : passPc'[x] = "connect" => x # w /\ passPc[x] = "connect" /\ HoldsTable(x)
      BY <1>4 DEF HoldsTable
    <3>2. \A x \in PassWorkers : passPc[x] = "connect" => passStatus[on[x]] = "pending"
      BY DEF PassInv, Holding
    <3>3. QED BY <2>a, <3>1, <3>2
  <2>2. \A x \in PassWorkers : HoldsTable(x)' /\ passPc'[x] # "connect" =>
           passStatus'[on'[x]] = "running"
    <3>1. \A x \in PassWorkers : HoldsTable(x) /\ passPc[x] # "connect" => passStatus[on[x]] = "running"
      BY DEF PassInv, Holding
    <3>2. QED BY <1>4, <2>a, <3>1
  <2>3. ASSUME NEW x \in PassWorkers, NEW y \in PassWorkers, HoldsTable(x)', on'[y] = on'[x]
        PROVE  y = x
    <3>1. x # w
      BY <1>4, <2>3
    <3>2. HoldsTable(x) /\ on'[x] = on[x] /\ on[x] # ""
      BY <1>4, <2>3, <3>1 DEF PassInv, Holding
    <3>3. y # w
      BY <1>4, <2>3, <3>2
    <3>4. on[y] = on[x]
      BY <1>4, <2>3, <3>2, <3>3
    <3>5. QED BY <3>2, <3>4 DEF PassInv, Holding
  <2>4. \A u \in PassTables : passStatus'[u] = "running" => \E x \in PassWorkers : on'[x] = u
    <3> SUFFICES ASSUME NEW u \in PassTables \ {t}, passStatus[u] = "running" PROVE \E x \in PassWorkers : on'[x] = u
      BY <1>4
    <3>1. PICK x \in PassWorkers : on[x] = u
      BY DEF PassInv, Holding
    <3>2. x # w
      BY <3>1 DEF t
    <3>3. QED BY <1>4, <3>1, <3>2
  <2>5. \A x \in hit' : HoldsTable(x)'
    BY <1>0, <1>2, <1>4 DEF PassInv, Holding, PassTyped
  <2>6. QED BY <2>1, <2>b, <2>2, <2>3, <2>4, <2>5 DEF Holding
<1>7. Queued'
  <2>1. ASSUME NEW i \in 1 .. Len(passQueue)
        PROVE  passStatus'[passQueue[i]] = "pending" /\ \A x \in PassWorkers : on'[x] # passQueue[i]
    <3>1. /\ passQueue[i] \in PassTables /\ passStatus[passQueue[i]] = "pending"
          /\ \A x \in PassWorkers : on[x] # passQueue[i]
      BY <1>0, ElementOfSeq DEF PassInv, Queued, PassTyped
    <3>2. passQueue[i] # t /\ passQueue[i] # ""
      BY <3>1, PassNames DEF t
    <3>3. QED BY <1>4, <3>1, <3>2
  <2>2. QED BY <2>1 DEF PassInv, Queued
<1>8. TakenUp'
  <2>1. \A u : InQueue(u)' <=> InQueue(u)
    BY DEF InQueue
  <2>2. \A u \in PassTables : passStatus'[u] = "pending" => u # t /\ passStatus[u] = "pending"
    BY <1>1, <1>4
  <2>a. \A u \in PassTables \ {t} : \A x \in PassWorkers : on[x] = u => on'[x] = u
    BY <1>4 DEF t
  <2>3. \A x \in PassWorkers : passPc'[x] = "done" => passPc[x] = "done"
    BY <1>4
  <2>b. ASSUME stop = FALSE, NEW u \in PassTables, passStatus'[u] = "pending"
        PROVE  InQueue(u)' \/ \E x \in PassWorkers : on'[x] = u
    BY <1>1, <2>1, <2>2, <2>a, <2>b DEF PassInv, TakenUp
  <2>4. QED BY <1>1, <2>3, <2>b DEF PassInv, TakenUp
<1>9. Covered'
  <2>1. \A u \in PassTables \ {t} : passStatus'[u] = passStatus[u]
    BY <1>4
  <2>2. passStatus'[t] \in {"completed", "skipped"} => passStale[t] \cup writing[t] \subseteq touched[t]
    BY <1>4 DEF t
  <2>3. \A x \in PassWorkers : passPc'[x] \in {"count", "check", "update"} => x # w
    BY <1>4
  <2>4. QED BY <1>4, <2>1, <2>2, <2>3 DEF PassInv, Covered
<1>10. PassBounds'
  BY DEF PassInv, PassBounds
<1>11. QED BY <1>3, <1>6, <1>7, <1>8, <1>9, <1>10 DEF PassInv

\* A worker that shows its table as running and connects.
LEMMA PassConnect ==
  ASSUME PassInv, NEW w \in PassWorkers, Pass!Connect(w),
         UNCHANGED <<passMain, handler, stop, writing, passEdits, passFaults>>
  PROVE  PassInv'
<1> DEFINE t == on[w]
<1>0. PassTyped
  BY DEF PassInv
<1>1. /\ passPc[w] = "connect" /\ passPc' = [passPc EXCEPT ![w] = "register"]
      /\ passStatus' = [passStatus EXCEPT ![t] = "running"] /\ HoldsTable(w)
      /\ UNCHANGED <<passMain, handler, passQueue, stop, on, hit, passStale, writing, touched, passEdits,
                     passFaults>>
  BY DEF Pass!Connect, Pass!Goto, HoldsTable
<1>2. t \in PassTables /\ passStatus[t] = "pending" /\ passMain # "idle"
  <2>1. on[w] # "" /\ passStatus[on[w]] = "pending"
    BY <1>1 DEF PassInv, Holding
  <2>2. passMain # "idle"
    BY <1>1 DEF PassInv, TakenUp
  <2>3. QED BY <1>0, <2>1, <2>2 DEF PassTyped
<1>3. \A x \in PassWorkers \ {w} : on[x] # t
  BY <1>1 DEF PassInv, Holding
<1>4. on[w] = t
  OBVIOUS
<1> HIDE DEF t
<1>5. PassTyped'
  BY <1>0, <1>1, <1>2 DEF PassTyped
<1>6. /\ passStatus'[t] = "running" /\ passPc'[w] = "register"
      /\ \A u \in PassTables \ {t} : passStatus'[u] = passStatus[u]
      /\ \A x \in PassWorkers : HoldsTable(x)' <=> HoldsTable(x)
      /\ \A x \in PassWorkers \ {w} : passPc'[x] = passPc[x]
  BY <1>0, <1>1, <1>2 DEF PassTyped, HoldsTable
<1>7. Holding'
  <2>1. ASSUME NEW x \in PassWorkers, HoldsTable(x), x # w
        PROVE  passStatus'[on[x]] = passStatus[on[x]]
    <3>1. on[x] # "" /\ on[x] # t
      BY <1>3, <2>1 DEF PassInv, Holding
    <3>2. on[x] \in PassTables
      BY <1>0, <3>1 DEF PassTyped
    <3>3. QED BY <1>6, <3>1, <3>2
  <2>a. \A x \in PassWorkers : passPc'[x] = "connect" => passStatus'[on'[x]] = "pending"
    <3>1. \A x \in PassWorkers : passPc'[x] = "connect" => x # w /\ passPc[x] = "connect" /\ HoldsTable(x)
      BY <1>6 DEF HoldsTable
    <3>2. QED BY <1>1, <2>1, <3>1 DEF PassInv, Holding
  <2>2. \A x \in PassWorkers : HoldsTable(x)' /\ passPc'[x] # "connect" =>
           passStatus'[on'[x]] = "running"
    <3>1. \A x \in PassWorkers : HoldsTable(x) /\ passPc[x] # "connect" => passStatus[on[x]] = "running"
      BY DEF PassInv, Holding
    <3>2. QED BY <1>1, <1>4, <1>6, <2>1, <3>1
  <2>3. \A u \in PassTables : passStatus'[u] = "running" => \E x \in PassWorkers : on'[x] = u
    <3>1. \A u \in PassTables : passStatus[u] = "running" => \E x \in PassWorkers : on[x] = u
      BY DEF PassInv, Holding
    <3>2. QED BY <1>1, <1>4, <1>6, <3>1
  <2>4. \A x \in PassWorkers : HoldsTable(x)' <=> on'[x] # ""
    BY <1>1, <1>6 DEF PassInv, Holding
  <2>5. \A x, y \in PassWorkers : HoldsTable(x)' /\ on'[y] = on'[x] => y = x
    BY <1>1, <1>6 DEF PassInv, Holding
  <2>6. \A x \in hit' : HoldsTable(x)'
    BY <1>0, <1>1, <1>6 DEF PassInv, Holding, PassTyped
  <2>7. QED BY <2>a, <2>2, <2>3, <2>4, <2>5, <2>6 DEF Holding
<1>8. Queued'
  <2>1. ASSUME NEW i \in 1 .. Len(passQueue) PROVE passStatus'[passQueue[i]] = "pending"
    <3>1. /\ passQueue[i] \in PassTables /\ passStatus[passQueue[i]] = "pending"
          /\ passQueue[i] # t
      BY <1>0, <1>4, ElementOfSeq DEF PassInv, Queued, PassTyped
    <3>2. QED BY <1>6, <3>1
  <2>2. QED BY <1>1, <2>1 DEF PassInv, Queued
<1>9. TakenUp'
  <2>1. \A u : InQueue(u)' <=> InQueue(u)
    BY <1>1 DEF InQueue
  <2>2. \A u \in PassTables : passStatus'[u] = "pending" => passStatus[u] = "pending"
    BY <1>2, <1>6
  <2>3. \A x \in PassWorkers : passPc'[x] = "done" => passPc[x] = "done"
    BY <1>6
  <2>4. QED BY <1>1, <1>2, <2>1, <2>2, <2>3 DEF PassInv, TakenUp
<1>10. Covered'
  <2>1. \A u \in PassTables : passStatus'[u] \in {"completed", "skipped"} => passStatus[u] = passStatus'[u]
    BY <1>6
  <2>2. \A x \in PassWorkers : passPc'[x] \in {"count", "check", "update"} => x # w
    BY <1>6
  <2>3. QED BY <1>1, <1>6, <2>1, <2>2 DEF PassInv, Covered
<1>11. PassBounds'
  BY <1>1 DEF PassInv, PassBounds
<1>12. QED BY <1>5, <1>7, <1>8, <1>9, <1>10, <1>11 DEF PassInv

LEMMA PassWorker ==
  ASSUME PassInv, NEW w \in PassWorkers, Pass!Work(w)
  PROVE  PassInv'
<1>0. UNCHANGED <<passMain, handler, stop, writing, passEdits, passFaults>> /\ PassTyped
  BY DEF Pass!Work, PassInv
<1>a. passFaults' \in 0 .. MaxPassFaults
  BY <1>0 DEF PassInv, PassBounds
<1>b. HoldsTable(w) => on[w] \in PassTables
  <2>1. HoldsTable(w) => on[w] # ""
    BY DEF PassInv, Holding
  <2>2. QED BY <1>0, <2>1 DEF PassTyped
<1>c. HoldsTable(w) => /\ passStale = [passStale EXCEPT ![on[w]] = @ \ {}]
                       /\ touched = [touched EXCEPT ![on[w]] = touched[on[w]]]
  BY <1>0, <1>b DEF PassTyped
<1>d. passPc[w] \in {"count", "check", "update"} => writing[on[w]] \subseteq touched[on[w]]
  BY DEF PassInv, Covered
<1>1. CASE Pass!Ask(w)
  BY <1>0, <1>1, PassAsk
<1>2. CASE Pass!Take(w)
  BY <1>0, <1>2, PassTake
<1>3. CASE Pass!Connect(w)
  BY <1>0, <1>3, PassConnect
<1>e. CASE Pass!Register(w)
  <2>1. /\ passPc[w] # "connect" /\ passPc' = [passPc EXCEPT ![w] = "alter"] /\ HoldsTable(w)
        /\ UNCHANGED <<passQueue, on, passStatus, passStale, touched, hit>>
    BY <1>e DEF Pass!Register, Pass!Goto, HoldsTable
  <2>2. QED BY <1>0, <1>c, <2>1, PassGoOn
<1>4. CASE Pass!Alter(w)
  <2>1. /\ passPc[w] # "connect" /\ passPc' = [passPc EXCEPT ![w] = "count"] /\ writing[on[w]] = {} /\ HoldsTable(w)
        /\ touched' = [touched EXCEPT ![on[w]] = {}] /\ UNCHANGED <<passQueue, on, passStatus, passStale, hit>>
    BY <1>4 DEF Pass!Alter, Pass!Goto, HoldsTable
  <2>2. QED BY <1>0, <1>c, <2>1, PassGoOn
<1>5. CASE Pass!Count(w)
  <2>1. passPc[w] = "count" /\ HoldsTable(w) /\ UNCHANGED <<passQueue, passStale, touched>>
    BY <1>5 DEF Pass!Count, HoldsTable
  <2>2. CASE passStale[on[w]] = {}
    <3>1. Pass!Record(w, "skipped")
      BY <1>5, <2>2 DEF Pass!Count
    <3>2. passStale[on[w]] \cup writing[on[w]] \subseteq touched[on[w]]
      BY <1>d, <2>1, <2>2
    <3>3. QED BY <1>0, <1>a, <2>1, <3>1, <3>2, PassRecord
  <2>3. CASE passStale[on[w]] # {}
    <3>1. passPc' = [passPc EXCEPT ![w] = "check"] /\ UNCHANGED <<on, passStatus, hit>>
      BY <1>5, <2>3 DEF Pass!Count, Pass!Goto
    <3>2. QED BY <1>0, <1>c, <1>d, <2>1, <3>1, PassGoOn
  <2>4. QED BY <2>2, <2>3
<1>6. CASE Pass!Check(w)
  <2>1. passPc[w] = "check" /\ HoldsTable(w) /\ UNCHANGED <<passQueue, passStale, touched>>
    BY <1>6 DEF Pass!Check, HoldsTable
  <2>2. CASE stop
    <3>1. Pass!Record(w, "error")
      BY <1>6, <2>2 DEF Pass!Check
    <3>2. QED BY <1>0, <1>a, <2>1, <3>1, PassRecord
  <2>3. CASE ~stop
    <3>1. passPc' = [passPc EXCEPT ![w] = "update"] /\ UNCHANGED <<on, passStatus, hit>>
      BY <1>6, <2>3 DEF Pass!Check, Pass!Goto
    <3>2. QED BY <1>0, <1>c, <1>d, <2>1, <3>1, PassGoOn
  <2>4. QED BY <2>2, <2>3
<1>7. CASE Pass!Batch(w)
  <2>1. passPc[w] = "update" /\ HoldsTable(w) /\ UNCHANGED <<passQueue, touched>>
    BY <1>7 DEF Pass!Batch, HoldsTable
  <2>2. CASE passStale[on[w]] \ writing[on[w]] = {}
    <3>1. Pass!Record(w, "completed") /\ UNCHANGED passStale
      BY <1>7, <2>2 DEF Pass!Batch
    <3>2. passStale[on[w]] \cup writing[on[w]] \subseteq touched[on[w]]
      BY <1>d, <2>1, <2>2
    <3>3. QED BY <1>0, <1>a, <2>1, <3>1, <3>2, PassRecord
  <2>3. CASE passStale[on[w]] \ writing[on[w]] # {}
    <3>1. /\ passPc' = [passPc EXCEPT ![w] = "check"] /\ UNCHANGED <<on, passStatus, hit>>
          /\ \E b : passStale' = [passStale EXCEPT ![on[w]] = @ \ b]
      BY <1>7, <2>3 DEF Pass!Batch, Pass!Goto
    <3>2. PICK b : passStale' = [passStale EXCEPT ![on[w]] = @ \ b]
      BY <3>1
    <3>3. QED BY <1>0, <1>c, <1>d, <2>1, <3>1, <3>2, PassGoOn
  <2>4. QED BY <2>2, <2>3
<1>8. CASE Pass!Cancelled(w)
  <2>1. HoldsTable(w) /\ Pass!Record(w, "error") /\ UNCHANGED <<passQueue, passStale, touched>>
    BY <1>8 DEF Pass!Cancelled, PassInv, Holding
  <2>2. QED BY <1>0, <1>a, <2>1, PassRecord
<1>9. QED BY <1>1, <1>2, <1>3, <1>e, <1>4, <1>5, <1>6, <1>7, <1>8 DEF Pass!Work

LEMMA PassFail ==
  ASSUME PassInv, NEW w \in PassWorkers, Pass!Fail(w)
  PROVE  PassInv'
<1>1. /\ HoldsTable(w) /\ Pass!Record(w, "error")
      /\ UNCHANGED <<passMain, handler, passQueue, stop, passStale, writing, touched, passEdits>>
  BY DEF Pass!Fail, Pass!Querying, Pass!data, HoldsTable
<1>2. passFaults' \in 0 .. MaxPassFaults
  BY PassLimits DEF Pass!Fail, PassInv, PassBounds
<1>3. QED BY <1>1, <1>2, PassRecord

\* What another session locks or writes is touched.
LEMMA PassSessions ==
  ASSUME PassInv, NEW t \in PassTables, Pass!Write(t) \/ Pass!EndWrite(t)
  PROVE  PassInv'
<1>0. PassTyped
  BY DEF PassInv
<1>1. UNCHANGED <<passMain, handler, passQueue, stop, passPc, on, hit, passStatus, passFaults>>
  BY DEF Pass!Write, Pass!EndWrite
<1>2. /\ passStale' \in [PassTables -> SUBSET PassRows] /\ writing' \in [PassTables -> SUBSET PassRows]
      /\ touched' \in [PassTables -> SUBSET PassRows]
      /\ \A u \in PassTables :
            /\ touched[u] \subseteq touched'[u]
            /\ passStale'[u] \cup writing'[u] \subseteq passStale[u] \cup writing[u] \cup touched'[u]
            /\ writing'[u] \subseteq writing[u] \cup touched'[u]
  <2>1. CASE Pass!Write(t)
    <3>1. PICK rs \in SUBSET PassRows : /\ writing' = [writing EXCEPT ![t] = rs]
                                          /\ touched' = [touched EXCEPT ![t] = @ \cup rs]
      BY <2>1 DEF Pass!Write
    <3>2. passStale' = passStale
      BY <2>1 DEF Pass!Write
    <3>3. QED BY <1>0, <3>1, <3>2 DEF PassTyped
  <2>2. CASE Pass!EndWrite(t)
    <3>1. /\ writing' = [writing EXCEPT ![t] = {}] /\ touched' = touched
          /\ passStale' = passStale \/ passStale' = [passStale EXCEPT ![t] = @ \cup writing[t]]
      BY <2>2 DEF Pass!EndWrite
    <3>2. QED BY <1>0, <3>1 DEF PassTyped
  <2>3. QED BY <2>1, <2>2
<1>3. PassTyped'
  BY <1>0, <1>1, <1>2 DEF PassTyped
<1>4. Holding' /\ Queued'
  <2>1. Holding'
    BY <1>1, PassHolds DEF HoldsTable
  <2>2. QED BY <1>1, <2>1 DEF PassInv, Queued
<1>5. TakenUp'
  <2>1. \A u : InQueue(u)' <=> InQueue(u)
    BY <1>1 DEF InQueue
  <2>2. QED BY <1>1, <2>1 DEF PassInv, TakenUp
<1>6. Covered'
  <2>1. \A u \in PassTables :
           passStatus'[u] \in {"completed", "skipped"} => passStale'[u] \cup writing'[u] \subseteq touched'[u]
    BY <1>1, <1>2 DEF PassInv, Covered
  <2>2. ASSUME NEW x \in PassWorkers, passPc'[x] \in {"count", "check", "update"}
        PROVE  writing'[on'[x]] \subseteq touched'[on'[x]]
    <3>1. on[x] # "" /\ writing[on[x]] \subseteq touched[on[x]]
      BY <1>1, <2>2 DEF PassInv, Covered, Holding, HoldsTable
    <3>2. on[x] \in PassTables
      BY <1>0, <3>1 DEF PassTyped
    <3>3. QED BY <1>1, <1>2, <3>1, <3>2
  <2>3. QED BY <2>1, <2>2 DEF Covered
<1>7. PassBounds'
  BY <1>1, PassLimits DEF PassInv, PassBounds, Pass!Write, Pass!EndWrite
<1>8. QED BY <1>3, <1>4, <1>5, <1>6, <1>7 DEF PassInv

LEMMA PassStep == PassInv /\ [Pass!Next]_(Pass!vars) => PassInv'
<1> SUFFICES ASSUME PassInv, [Pass!Next]_(Pass!vars) PROVE PassInv'
  OBVIOUS
<1>1. CASE Pass!Main \/ Pass!Terminate
  BY <1>1, PassStart, PassMain, PassDrain DEF Pass!Main
<1>2. CASE \E w \in PassWorkers : Pass!Work(w) \/ Pass!Fail(w)
  BY <1>2, PassWorker, PassFail
<1>3. CASE \E t \in PassTables : Pass!Write(t) \/ Pass!EndWrite(t)
  BY <1>3, PassSessions
<1>4. CASE UNCHANGED Pass!vars
  <2>1. UNCHANGED <<passMain, handler, passQueue, stop, passPc, on, hit, passStatus, passStale, writing, touched,
                    passEdits, passFaults>>
    BY <1>4 DEF Pass!vars
  <2>2. PassTyped' /\ PassBounds' /\ Queued' /\ Covered'
    BY <2>1 DEF PassInv, PassTyped, PassBounds, Queued, Covered
  <2>5. Holding'
    BY <2>1, PassHolds DEF HoldsTable
  <2>3. TakenUp'
    BY <2>1 DEF PassInv, TakenUp, InQueue
  <2>4. QED BY <2>2, <2>3, <2>5 DEF PassInv
<1>5. QED BY <1>1, <1>2, <1>3, <1>4 DEF Pass!Next

(***************************************************************************)
(* Airtable mirrors: the type that is picked for a column holds what its   *)
(* cells hold.                                                             *)
(***************************************************************************)

Fits(type, s) ==
    \/ type \in {"list", "text"}
    \/ type = "boolean" /\ s \in {"true", "false", "zero", "one"}
    \/ type = "integer" /\ s \in {"true", "false", "zero", "one", "two", "textOne"}
    \/ type = "float" /\ s \in {"true", "false", "zero", "one", "two", "half", "textOne"}

LEMMA FitsKeeps ==
  ASSUME NEW type, NEW s, Fits(type, s)
  PROVE  Mirror!Castable(type, s) /\ Mirror!Cast(type, s) = Mirror!Meaning(s)
<1>1. DOMAIN Mirror!Number = {"true", "false", "zero", "one", "two", "half", "textOne"}
  BY DEF Mirror!Number
<1>2. /\ Mirror!Number["true"] = "1" /\ Mirror!Number["false"] = "0"
      /\ Mirror!Number["zero"] = "0" /\ Mirror!Number["one"] = "1"
  BY DEF Mirror!Number
<1>3. Mirror!Castable(type, s)
  BY <1>1 DEF Fits, Mirror!Castable, Mirror!Numeric
<1>4. CASE type = "boolean"
  <2>1. Mirror!Cast(type, s) = (IF s \in {"false", "zero"} THEN "0" ELSE "1")
    BY <1>4 DEF Mirror!Cast
  <2>2. s \in {"true", "false", "zero", "one"}
    BY <1>4 DEF Fits
  <2>3. Mirror!Meaning(s) = Mirror!Number[s]
    BY <1>1, <2>2 DEF Mirror!Meaning, Mirror!Numeric
  <2>4. QED BY <1>2, <1>3, <2>1, <2>2, <2>3
<1>5. CASE type # "boolean"
  <2>1. ~(type = "integer" /\ s = "half")
    BY DEF Fits
  <2>2. Mirror!Cast(type, s) = Mirror!Meaning(s)
    BY <1>5, <2>1 DEF Mirror!Cast
  <2>3. QED BY <1>3, <2>2
<1>6. QED BY <1>4, <1>5

\* What Airtable lets a field hold.
Holds ==
    /\ declared \in MirrorKinds
    /\ \A r \in MirrorRecords : cells[r] \in MirrorCells \cup {<<>>}
    /\ DOMAIN cells = MirrorRecords
    /\ \A r \in MirrorRecords : \A i \in 1 .. Len(cells[r]) : Mirror!Allowed(cells[r][i])

Pinned ==
    declared # "" => /\ frame.kind \in {"none", "list", declared}
                     /\ column \in {"none", declared} /\ ~ aborted

\* The rows of a frame are the cells they are from.
SameRows ==
    /\ \A r \in MirrorRecords : frame.rows[r] = Mirror!Meanings(frame.from[r])
    /\ Mirror!ValuesSurvive

MirrorInv == Holds /\ Pinned /\ SameRows

LEMMA MirrorKeeps == MirrorInv => Mirror!PinnedNeverAborts /\ Mirror!ValuesSurvive
BY DEF MirrorInv, Pinned, SameRows, Mirror!PinnedNeverAborts

LEMMA CellDomain == Holds => \A r \in MirrorRecords : Len(cells[r]) \in Nat /\ DOMAIN cells[r] = 1 .. Len(cells[r])
<1>1. Len(<<>>) = 0 /\ DOMAIN <<>> = 1 .. 0
  OBVIOUS
<1>2. \A cell \in MirrorCells \cup {<<>>} : Len(cell) \in Nat /\ DOMAIN cell = 1 .. Len(cell)
  <2> SUFFICES ASSUME NEW cell \in MirrorCells \cup {<<>>}
               PROVE  Len(cell) \in Nat /\ DOMAIN cell = 1 .. Len(cell)
    OBVIOUS
  <2>1. CASE cell \in MirrorCells
    BY <2>1, MirrorAssumption, Zenon
  <2>2. CASE cell = <<>>
    BY <1>1, <2>2
  <2>3. QED BY <2>1, <2>2
<1>3. QED BY <1>2, Zenon DEF Holds

LEMMA NoMeaning == Mirror!Meanings(<<>>) = <<>>
BY DEF Mirror!Meanings

LEMMA KindFits ==
  ASSUME MirrorInv, NEW r \in MirrorRecords, NEW i \in DOMAIN cells[r], cells[r][i] # Null
  PROVE  Fits(Mirror!Kind, cells[r][i])
<1> DEFINE s == cells[r][i]
           firsts == {cells[q][1] : q \in {x \in MirrorRecords : cells[x] # <<>>}}
<1>1. DOMAIN cells[r] = 1 .. Len(cells[r]) /\ Len(cells[r]) \in Nat
  BY CellDomain DEF MirrorInv
<1>2. Mirror!Allowed(s) /\ declared \in {"", "boolean", "integer", "float"}
  BY <1>1, MirrorAssumption DEF MirrorInv, Holds
<1>3. CASE Mirror!Several
  BY <1>3 DEF Mirror!Kind, Fits
<1>4. CASE ~Mirror!Several /\ declared # ""
  BY <1>2, <1>4 DEF Mirror!Kind, Mirror!Allowed, Fits
<1>5. CASE ~Mirror!Several /\ declared = ""
  <2>1. Mirror!Kind = Mirror!Inferred
    BY <1>5 DEF Mirror!Kind
  <2>2. i = 1
    <3>1. ~(Len(cells[r]) > 1)
      BY <1>5, Zenon DEF Mirror!Several
    <3>2. i \in 1 .. Len(cells[r])
      BY <1>1
    <3>3. QED BY <1>1, <3>1, <3>2
  <2>3. cells[r] # <<>>
    BY <2>2, DOMAIN <<>> = {}
  <2>4. s \in firsts \ {Null}
    BY <2>2, <2>3
  <2> DEFINE others == firsts \ {Null}
  <2>5. DOMAIN Mirror!Number = {"true", "false", "zero", "one", "two", "half", "textOne"}
    BY DEF Mirror!Number
  <2> HIDE DEF firsts
  <2>6. \/ Mirror!Inferred = "text"
        \/ Mirror!Inferred = "boolean" /\ \A x \in others : Mirror!Boolish(x)
        \/ Mirror!Inferred = "integer" /\ \A x \in others : Mirror!Whole(x)
        \/ Mirror!Inferred = "float" /\ \A x \in others : Mirror!Numeric(x)
    BY DEF Mirror!Inferred, firsts
  <2>7. QED BY <2>1, <2>4, <2>5, <2>6 DEF Fits, Mirror!Boolish, Mirror!Whole, Mirror!Numeric
<1>6. QED BY <1>3, <1>4, <1>5

LEMMA MirrorBegins == Mirror!Init => MirrorInv
<1> SUFFICES ASSUME Mirror!Init PROVE MirrorInv
  OBVIOUS
<1>1. /\ declared \in MirrorKinds /\ cells = [r \in MirrorRecords |-> <<>>] /\ column = "none" /\ aborted = FALSE
      /\ frame.kind = "none" /\ frame.rows = cells /\ frame.from = cells
  BY DEF Mirror!Init, Mirror!Empty
<1>2. mirrorTable = frame
  BY DEF Mirror!Init
<1>3. Len(<<>>) = 0
  OBVIOUS
<1>4. Holds
  BY <1>1, <1>3 DEF Holds
<1>5. SameRows
  BY <1>1, <1>2, NoMeaning DEF SameRows, Mirror!ValuesSurvive
<1>6. QED BY <1>1, <1>4, <1>5 DEF MirrorInv, Pinned

LEMMA MirrorStep == MirrorInv /\ [Mirror!Next]_mirror => MirrorInv'
<1> SUFFICES ASSUME MirrorInv, [Mirror!Next]_mirror PROVE MirrorInv'
  OBVIOUS
<1>a. Holds /\ Pinned /\ SameRows
  BY DEF MirrorInv
<1>1. CASE UNCHANGED mirror
  BY <1>a, <1>1 DEF mirror, MirrorInv, Holds, Pinned, SameRows, Mirror!ValuesSurvive, Mirror!Allowed
<1>2. ASSUME NEW r \in MirrorRecords, NEW cell \in MirrorCells, Mirror!Edit(r, cell) PROVE MirrorInv'
  <2>1. /\ \A i \in 1 .. Len(cell) : Mirror!Allowed(cell[i])
        /\ cells' = [cells EXCEPT ![r] = cell]
        /\ UNCHANGED <<declared, frame, mirrorTable, column, aborted>>
    BY <1>2 DEF Mirror!Edit
  <2>2. DOMAIN cells' = MirrorRecords /\ \A q \in MirrorRecords : cells'[q] = IF q = r THEN cell ELSE cells[q]
    BY <1>a, <2>1 DEF Holds
  <2>3. Holds'
    BY <1>a, <2>1, <2>2 DEF Holds, Mirror!Allowed
  <2>4. QED BY <1>a, <2>1, <2>3 DEF MirrorInv, Pinned, SameRows, Mirror!ValuesSurvive
<1>3. CASE Mirror!Fetch
  <2>1. /\ frame'.kind = Mirror!Kind /\ frame'.from = cells
        /\ frame'.rows = [r \in MirrorRecords |-> Mirror!CastCell(Mirror!Kind, cells[r])]
        /\ UNCHANGED <<declared, cells, mirrorTable, column, aborted>>
    BY <1>3 DEF Mirror!Fetch
  <2>2. Holds'
    <3>1. UNCHANGED <<declared, cells>>
      BY <2>1
    <3>2. QED BY <1>a, <3>1 DEF Holds, Mirror!Allowed
  <2>3. Pinned'
    BY <1>a, <2>1 DEF Pinned, Mirror!Kind
  <2>4. ASSUME NEW r \in MirrorRecords PROVE Mirror!CastCell(Mirror!Kind, cells[r]) = Mirror!Meanings(cells[r])
    <3> DEFINE cell == cells[r]
               k == Mirror!Kind
    <3>1. \A j \in DOMAIN cell : cell[j] # Null => Fits(k, cell[j])
      BY KindFits
    <3> HIDE DEF cell, k
    <3>2. \A j \in DOMAIN cell : cell[j] # Null =>
             Mirror!Castable(k, cell[j]) /\ Mirror!Cast(k, cell[j]) = Mirror!Meaning(cell[j])
      BY <3>1, FitsKeeps
    <3>3. {j \in DOMAIN cell : cell[j] # Null /\ Mirror!Castable(k, cell[j])} = {j \in DOMAIN cell : cell[j] # Null}
      BY <3>2
    <3>4. Mirror!CastCell(k, cell) = Mirror!Meanings(cell)
      BY <3>2, <3>3 DEF Mirror!CastCell, Mirror!Meanings
    <3>5. QED BY <3>4 DEF cell, k
  <2>5. SameRows'
    BY <1>a, <2>1, <2>4 DEF SameRows, Mirror!ValuesSurvive
  <2>6. QED BY <2>2, <2>3, <2>5 DEF MirrorInv
<1>4. CASE Mirror!Load
  <2>1. /\ frame.kind # "none" /\ UNCHANGED <<declared, cells, frame>>
        /\ aborted' = (column # "none" /\ Mirror!LoadedKind \notin {"list", column})
        /\ ~aborted' => column' = (IF Mirror!LoadedKind = "list" THEN column ELSE Mirror!LoadedKind)
    BY <1>4 DEF Mirror!Load
  <2>2. \/ UNCHANGED mirrorTable
        \/ /\ mirrorTable'.kind = Mirror!LoadedKind /\ mirrorTable'.from = frame.from
           /\ mirrorTable'.rows = [r \in MirrorRecords |->
                  IF Mirror!Dates /\ ~ Mirror!IsDate(frame.rows[r]) THEN <<>> ELSE frame.rows[r]]
    BY <1>4 DEF Mirror!Load
  <2>3. Holds'
    <3>1. UNCHANGED <<declared, cells>>
      BY <2>1
    <3>2. QED BY <1>a, <3>1 DEF Holds, Mirror!Allowed
  <2>4. Pinned'
    <3>1. declared \in {"", "boolean", "integer", "float"}
      BY <1>a, MirrorAssumption DEF Holds
    <3>2. declared # "" => Mirror!LoadedKind = frame.kind
      BY <1>a, <3>1 DEF Pinned, Mirror!LoadedKind, Mirror!Dates
    <3>3. QED BY <1>a, <2>1, <3>1, <3>2 DEF Pinned
  <2>5. SameRows'
    <3>1. Mirror!LoadedKind # "date" => ~Mirror!Dates
      BY DEF Mirror!LoadedKind
    <3>2. QED BY <1>a, <2>1, <2>2, <3>1 DEF SameRows, Mirror!ValuesSurvive
  <2>6. QED BY <2>3, <2>4, <2>5 DEF MirrorInv
<1>5. QED BY <1>1, <1>2, <1>3, <1>4 DEF Mirror!Next, mirror

(***************************************************************************)
(* The loads together.                                                     *)
(***************************************************************************)

LoadInv ==
    /\ part = "dlt" => DltInv
    /\ part = "mirror" => MirrorInv
    /\ part = "backup" => BackupInv
    /\ part = "pass" => PassInv
    /\ part = "hash" => HashInv

(* What is loaded is what was there to load: dlt sweeps the directories of *)
(* the dead only and a table it has replaced is of one attempt, the type a *)
(* mirror picks holds its cells, the list a backup puts tells of the files *)
(* beside it, a pass leaves no row without a hash but those touched since, *)
(* and the digest of a row stays the same when what it covers does, and    *)
(* otherwise only if NULL took the place of a value that begins like it.   *)
THEOREM LoadsAreSound == Spec => []LoadsSound
<1>1. Init => LoadInv
  BY DltBegins, MirrorBegins, BackupBegins, PassInitially, HashBegins DEF Init, LoadInv
<1>2. LoadInv /\ [Next]_vars => LoadInv'
  <2> SUFFICES ASSUME LoadInv, [Next]_vars PROVE LoadInv'
    OBVIOUS
  <2>1. /\ part' = part
        /\ part = "dlt" => [Dlt!Next]_dlt
        /\ part = "mirror" => [Mirror!Next]_mirror
        /\ part = "backup" => [Backup!Next]_backup
        /\ part = "pass" => [Pass!Next]_(Pass!vars)
        /\ part = "hash" => [Hash!Next]_hash
    BY DEF Next, vars, pass, Pass!vars
  <2>2. HashInv /\ [Hash!Next]_hash => HashInv'
    <3>1. HashInv /\ UNCHANGED hash => HashInv'
      BY DEF hash, HashInv, TablesStand, DescriptorStands, HashesStand
    <3>2. QED BY <3>1, HashStep
  <2>3. QED BY <2>1, <2>2, DltStep, MirrorStep, BackupStep, PassStep DEF LoadInv
<1>3. LoadInv => LoadsSound
  BY DltKeeps, MirrorKeeps, BackupKeeps, PassSound, PassRecorded, HashKeeps DEF LoadInv, LoadsSound
<1>4. QED BY <1>1, <1>2, <1>3, PTL DEF Spec
=============================================================================
