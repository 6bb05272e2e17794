---------------------------- MODULE AssetsLiveProofs --------------------------
(* HistoryContiguous, CampaignsSafe and ResultMatchesInput of MCAssetsLive, *)
(* for every number of events, days, edits and runs cut short, every set of *)
(* campaigns, addresses, projects, tables, streams and builds, and every    *)
(* size of a page and of a batch.                                           *)
EXTENDS MCAssetsLive, FiniteSetTheorems, SequenceTheorems, TLAPS

(***************************************************************************)
(* The ends of a finite set of numbers, which exist because strict         *)
(* inclusion is well-founded: an end is where what lies beyond is minimal. *)
(***************************************************************************)

LEMMA GreatestExists ==
  ASSUME NEW S \in SUBSET Nat, IsFiniteSet(S), S # {}
  PROVE  \E m \in S : \A x \in S : x <= m
<1> DEFINE Above(m) == {x \in S : x > m}
           Tails == {Above(m) : m \in S}
<1>1. Tails \subseteq FiniteSubsetsOf(S)
  <2> SUFFICES ASSUME NEW m \in S PROVE Above(m) \in SUBSET S /\ IsFiniteSet(Above(m))
    BY DEF FiniteSubsetsOf
  <2>1. QED BY FS_Subset
<1>2. Tails # {}
  OBVIOUS
<1>3. PICK T \in Tails : \A U \in Tails : <<U, T>> \notin StrictSubsetOrdering(S)
  <2> HIDE DEF Tails
  <2>1. IsWellFoundedOn(StrictSubsetOrdering(S), FiniteSubsetsOf(S))
    BY FS_StrictSubsetOrderingWellFounded
  <2>2. QED BY <1>1, <1>2, <2>1, WFMin
<1>4. PICK m \in S : T = Above(m)
  OBVIOUS
<1>5. ASSUME NEW x \in S, ~(x <= m) PROVE FALSE
  <2>1. x \in Above(m) /\ x \notin Above(x) /\ Above(x) \subseteq Above(m)
    <3>1. x \in Nat /\ m \in Nat /\ x > m
      BY <1>5
    <3>2. ASSUME NEW y \in S, y > x PROVE y > m
      <4>1. y \in Nat
        OBVIOUS
      <4>2. QED BY <3>1, <3>2, <4>1
    <3>3. Above(x) \subseteq Above(m)
      BY <3>2
    <3>4. ~(x > x)
      BY <3>1
    <3>5. QED BY <3>1, <3>3, <3>4
  <2>2. <<Above(x), Above(m)>> \in StrictSubsetOrdering(S)
    <3> HIDE DEF Above
    <3>1. Above(x) \in SUBSET S /\ Above(m) \in SUBSET S
      BY DEF Above
    <3>2. QED BY <2>1, <3>1 DEF StrictSubsetOrdering
  <2>3. QED BY <1>3, <1>4, <2>2
<1>6. QED BY <1>5

LEMMA LeastExists ==
  ASSUME NEW S \in SUBSET Nat, IsFiniteSet(S), S # {}
  PROVE  \E m \in S : \A x \in S : m <= x
<1> DEFINE Below(m) == {x \in S : x < m}
           Heads == {Below(m) : m \in S}
<1>1. Heads \subseteq FiniteSubsetsOf(S)
  <2> SUFFICES ASSUME NEW m \in S PROVE Below(m) \in SUBSET S /\ IsFiniteSet(Below(m))
    BY DEF FiniteSubsetsOf
  <2>1. QED BY FS_Subset
<1>2. Heads # {}
  OBVIOUS
<1>3. PICK T \in Heads : \A U \in Heads : <<U, T>> \notin StrictSubsetOrdering(S)
  <2> HIDE DEF Heads
  <2>1. IsWellFoundedOn(StrictSubsetOrdering(S), FiniteSubsetsOf(S))
    BY FS_StrictSubsetOrderingWellFounded
  <2>2. QED BY <1>1, <1>2, <2>1, WFMin
<1>4. PICK m \in S : T = Below(m)
  OBVIOUS
<1>5. ASSUME NEW x \in S, ~(m <= x) PROVE FALSE
  <2>1. x \in Below(m) /\ x \notin Below(x) /\ Below(x) \subseteq Below(m)
    <3>1. x \in Nat /\ m \in Nat /\ x < m
      BY <1>5
    <3>2. ASSUME NEW y \in S, y < x PROVE y < m
      <4>1. y \in Nat
        OBVIOUS
      <4>2. QED BY <3>1, <3>2, <4>1
    <3>3. Below(x) \subseteq Below(m)
      BY <3>2
    <3>4. ~(x < x)
      BY <3>1
    <3>5. QED BY <3>1, <3>3, <3>4
  <2>2. <<Below(x), Below(m)>> \in StrictSubsetOrdering(S)
    <3> HIDE DEF Below
    <3>1. Below(x) \in SUBSET S /\ Below(m) \in SUBSET S
      BY DEF Below
    <3>2. QED BY <2>1, <3>1 DEF StrictSubsetOrdering
  <2>3. QED BY <1>3, <1>4, <2>2
<1>6. QED BY <1>5

\* Max and Min as the two modules take them.
LEMMA AuditMax ==
  ASSUME NEW n \in Nat, NEW S \in SUBSET (0 .. n), S # {}
  PROVE  Audit!Max(S) \in S /\ \A x \in S : x <= Audit!Max(S)
<1>1. S \in SUBSET Nat /\ IsFiniteSet(S)
  <2>1. IsFiniteSet(0 .. n)
    BY FS_Interval
  <2>2. IsFiniteSet(S)
    BY <2>1, FS_Subset
  <2>3. S \in SUBSET Nat
    OBVIOUS
  <2>4. QED BY <2>2, <2>3
<1>2. PICK m \in S : \A x \in S : x <= m
  BY <1>1, GreatestExists
<1>3. \A x \in S : m >= x
  BY <1>1, <1>2
<1>4. QED BY <1>1, <1>2, <1>3 DEF Audit!Max

LEMMA AuditMin ==
  ASSUME NEW n \in Nat, NEW S \in SUBSET (0 .. n), S # {}
  PROVE  Audit!Min(S) \in S /\ \A x \in S : Audit!Min(S) <= x
<1>1. S \in SUBSET Nat /\ IsFiniteSet(S)
  <2>1. IsFiniteSet(0 .. n)
    BY FS_Interval
  <2>2. IsFiniteSet(S)
    BY <2>1, FS_Subset
  <2>3. S \in SUBSET Nat
    OBVIOUS
  <2>4. QED BY <2>2, <2>3
<1>2. PICK m \in S : \A x \in S : m <= x
  BY <1>1, LeastExists
<1>3. QED BY <1>2 DEF Audit!Min

LEMMA SameCount == \A S : Audit!Cardinality(S) = Cardinality(S)
BY Zenon DEF Cardinality, Audit!Cardinality

LEMMA DailyMax ==
  ASSUME NEW n \in Nat, NEW S \in SUBSET (0 .. n), S # {}
  PROVE  Daily!Max(S) \in S /\ \A x \in S : x <= Daily!Max(S)
BY AuditMax DEF Audit!Max, Daily!Max

LEMMA DailyMin ==
  ASSUME NEW n \in Nat, NEW S \in SUBSET (0 .. n), S # {}
  PROVE  Daily!Min(S) \in S /\ \A x \in S : Daily!Min(S) <= x
BY AuditMin DEF Audit!Min, Daily!Min

(***************************************************************************)
(* Slack audit logs: what a run has read, what it has still to read, and   *)
(* what lies below its high-water mark.                                    *)
(***************************************************************************)

Events == 1 .. LastEvent

AuditTyped ==
    /\ now \in Nat /\ oldest \in Nat /\ cursor \in Nat
    /\ auditRows \subseteq Events /\ \A e \in auditRows : e <= now
    /\ backfilled \in BOOLEAN
    /\ auditPc \in {"idle", "paging"}

\* Below some row, itself included.
Reached(e) == \E r \in auditRows : e <= r

\* A run under way: all that it does not ask for again is there or was torn
\* out, and so is what it has read since the newest event.
Reading ==
    auditPc = "paging" =>
        /\ mode = backfilled /\ cursor <= now + 1
        /\ \A e \in Events : /\ e <= oldest => e \in auditRows \cup torn
                             /\ oldest < e /\ cursor <= e /\ Reached(e) => e \in auditRows

\* No run under way: nothing is missing below the newest row but what was torn out.
Complete ==
    auditPc = "idle" /\ backfilled => \A e \in Events : Reached(e) => e \in auditRows \cup torn

AuditInv == AuditTyped /\ Reading /\ Complete

(***************************************************************************)
(* Slack analytics: the days stored have no gap, and a backfill goes down  *)
(* from the newest of them.                                                *)
(***************************************************************************)

DailyTyped ==
    /\ today \in Nat /\ dailyCurrent \in Nat /\ files \subseteq 1 .. LastDay /\ gone \subseteq 1 .. LastDay
    /\ days \subseteq files /\ (today = 1 \/ today <= LastDay)
    /\ found \in BOOLEAN

NoGap == \A c, e \in days, d \in 1 .. LastDay : c <= d /\ d <= e => d \in days

Upward == dailyPc = "forward" => /\ dailyCurrent - 1 \in days
                                 /\ \A d \in days : d < dailyCurrent

Downward ==
    dailyPc = "backward" => IF found THEN /\ dailyCurrent + 1 \in days
                                          /\ \A d \in days : dailyCurrent < d
                            ELSE days = {}

\* The first day stored is where the history begins, unless a backfill was cut.
FirstIsFirst ==
    dailyPc # "backward" /\ ~cut => \A d \in days : d - 1 \in days \/ d - 1 \notin files

DailyInv == DailyTyped /\ NoGap /\ Upward /\ Downward /\ FirstIsFirst


LEMMA AuditStart == Audit!Init => AuditInv
<1> SUFFICES ASSUME Audit!Init PROVE AuditInv
  OBVIOUS
<1>1. AuditTyped
  BY DEF Audit!Init, AuditTyped
<1>2. Reading /\ Complete
  BY DEF Audit!Init, Reading, Complete
<1>3. QED BY <1>1, <1>2 DEF AuditInv

LEMMA AuditStep == AuditInv /\ [Audit!Next]_audit => AuditInv'
<1> SUFFICES ASSUME AuditInv, [Audit!Next]_audit PROVE AuditInv'
  OBVIOUS
<1> USE HistoryAssumption DEF Events
<1>a. AuditTyped /\ Reading /\ Complete
  BY DEF AuditInv
<1>b. LastEvent \in Nat /\ AuditPage \in Nat /\ AuditPage > 0
  OBVIOUS
<1>1. CASE Audit!Occur
  BY <1>a, <1>1 DEF Audit!Occur, AuditInv, AuditTyped, Reading, Complete, Reached
<1>2. CASE Audit!Start
  <2>1. /\ auditPc = "idle" /\ auditPc' = "paging" /\ mode' = backfilled /\ cursor' = now + 1
        /\ oldest' = IF backfilled THEN Audit!HighWater ELSE 0
        /\ UNCHANGED <<now, auditRows, backfilled, torn>>
    BY <1>2 DEF Audit!Start
  <2>2. /\ Audit!HighWater \in auditRows \cup {0}
        /\ \A e \in auditRows : e <= Audit!HighWater
    <3>1. auditRows \cup {0} \in SUBSET (0 .. LastEvent) /\ auditRows \cup {0} # {}
      BY <1>a DEF AuditTyped
    <3>2. QED BY <1>b, <3>1, AuditMax DEF Audit!HighWater
  <2>3. AuditTyped' /\ Complete'
    BY <1>a, <2>1, <2>2 DEF AuditTyped, Complete
  <2>4. ASSUME NEW e \in Events, e <= oldest' PROVE e \in auditRows \cup torn
    BY <1>a, <2>1, <2>2, <2>4 DEF Complete, Reached, AuditTyped
  <2>5. ASSUME NEW e \in Events, cursor' <= e, Reached(e) PROVE FALSE
    BY <1>a, <2>1, <2>5 DEF Reached, AuditTyped
  <2>6. Reading'
    BY <1>a, <2>1, <2>4, <2>5 DEF Reading, Reached, AuditTyped
  <2>7. QED BY <2>3, <2>6 DEF AuditInv
<1>3. CASE Audit!ReadPage
  <2> DEFINE Left == Audit!Remaining
             Page == Audit!Page
             Newer(x) == {f \in Left : f > x}
  <2>1. /\ auditPc = "paging" /\ auditRows' = auditRows \cup Page
        /\ UNCHANGED <<now, mode, oldest, torn>>
    BY <1>3 DEF Audit!ReadPage
  <2>2. /\ Left \in SUBSET (0 .. LastEvent) /\ Page \subseteq Left
        /\ \A e \in Events : e \in Left <=> oldest < e /\ e < cursor
        /\ \A e \in Left : e \in Events
    BY <1>b DEF Audit!Remaining, Audit!Page
  <2>3. /\ mode = backfilled /\ cursor <= now + 1
        /\ \A e \in Events : e <= oldest => e \in auditRows \cup torn
        /\ \A e \in Events : oldest < e /\ cursor <= e /\ Reached(e) => e \in auditRows
    BY <1>a, <2>1 DEF Reading
  <2>4. \A e \in Page : e <= now
    BY <1>a, <2>2, <2>3 DEF AuditTyped
  <2>0. \A x \in Left : x \in Page <=> Cardinality(Newer(x)) < AuditPage
    <3>1. \A x \in Left : x \in Page <=> Audit!Cardinality(Newer(x)) < AuditPage
      BY Zenon DEF Audit!Page
    <3>2. QED BY <3>1, SameCount
  <2>5. ASSUME NEW e \in Left, NEW d \in Page, d < e PROVE e \in Page
    \* What is newer than an event of the page is in the page.
    <3>1. Newer(e) \subseteq Newer(d)
      <4>1. ASSUME NEW f \in Left, f > e PROVE f > d
        BY <1>b, <2>2, <2>5, <4>1
      <4>2. QED BY <4>1
    <3>2. IsFiniteSet(Newer(d))
      <4>1. IsFiniteSet(0 .. LastEvent)
        BY <1>b, FS_Interval
      <4>2. IsFiniteSet(Left)
        BY <2>2, <4>1, FS_Subset
      <4>3. Newer(d) \subseteq Left
        OBVIOUS
      <4>4. QED BY <4>2, <4>3, FS_Subset
    <3>3. Cardinality(Newer(e)) <= Cardinality(Newer(d)) /\ Cardinality(Newer(e)) \in Nat
          /\ Cardinality(Newer(d)) \in Nat
      <4> HIDE DEF Newer
      <4>1. IsFiniteSet(Newer(e)) /\ Cardinality(Newer(e)) <= Cardinality(Newer(d))
        BY <3>1, <3>2, FS_Subset
      <4>2. QED BY <3>2, <4>1, FS_CardinalityType
    <3>4. Cardinality(Newer(d)) < AuditPage
      BY <2>2, <2>0
    <3>5. Cardinality(Newer(e)) < AuditPage
      <4> HIDE DEF Newer
      <4>1. QED BY <1>b, <3>3, <3>4
    <3>6. QED BY <2>0, <3>5
  <2>6. Left # {} => Page # {}
    <3> SUFFICES ASSUME Left # {} PROVE Page # {}
      OBVIOUS
    <3>1. PICK m \in Left : \A x \in Left : x <= m
      BY <1>b, <2>2, AuditMax
    <3>2. \A f \in Left : ~(f > m)
      BY <1>b, <2>2, <3>1
    <3>3. Newer(m) = {}
      BY <3>2
    <3>4. Cardinality(Newer(m)) < AuditPage
      BY <1>b, <3>3, FS_EmptySet
    <3>5. QED BY <2>0, <3>4
  <2> HIDE DEF Left, Page
  <2>7. ASSUME NEW e \in Events, oldest < e, Reached(e)' PROVE e < cursor \/ e \in auditRows
    <3>1. CASE cursor <= e
      <4>1. PICK r \in auditRows' : e <= r
        BY <2>7 DEF Reached
      <4>2. r \notin Page
        <5>1. ASSUME r \in Page PROVE FALSE
          <6>1. r \in Left /\ r \in Events /\ r < cursor
            BY <2>2, <5>1
          <6>2. cursor \in Nat
            BY <1>a DEF AuditTyped
          <6>3. QED BY <3>1, <4>1, <6>1, <6>2
        <5>2. QED BY <5>1
      <4>3. Reached(e)
        BY <2>1, <4>1, <4>2 DEF Reached
      <4>4. QED BY <2>3, <2>7, <3>1, <4>3
    <3>2. QED BY <1>a, <3>1 DEF AuditTyped
  <2>8. CASE Left = Page
    <3>1. auditPc' = "idle" /\ cursor' = 0 /\ backfilled' = TRUE
      BY <1>3, <2>8 DEF Audit!ReadPage, Left, Page
    <3>2. AuditTyped'
      BY <1>a, <2>1, <2>2, <2>4, <3>1 DEF AuditTyped
    <3>3. Reading'
      BY <3>1 DEF Reading
    <3>4. ASSUME NEW e \in Events, Reached(e)' PROVE e \in auditRows' \cup torn
      <4>1. CASE e <= oldest
        BY <2>1, <2>3, <4>1
      <4>2. CASE oldest < e
        BY <2>1, <2>2, <2>7, <2>8, <3>4, <4>2
      <4>3. QED BY <1>a, <4>1, <4>2 DEF AuditTyped
    <3>5. Complete'
      BY <2>1, <3>4 DEF Complete
    <3>6. QED BY <3>2, <3>3, <3>5 DEF AuditInv
  <2>9. CASE Left # Page
    <3>1. cursor' = Audit!Min(Page) /\ UNCHANGED <<auditPc, backfilled>>
      BY <1>3, <2>9 DEF Audit!ReadPage, Left, Page
    <3>2. Page \in SUBSET (0 .. LastEvent) /\ Page # {}
      BY <2>2, <2>6, <2>9
    <3>3. cursor' \in Page /\ \A e \in Page : cursor' <= e
      BY <1>b, <3>1, <3>2, AuditMin
    <3>4. AuditTyped'
      BY <1>a, <2>1, <2>2, <2>4, <3>1, <3>3 DEF AuditTyped
    <3>5. cursor' \in Nat /\ cursor' < cursor /\ cursor' <= now + 1
      BY <1>a, <2>2, <2>4, <3>3 DEF AuditTyped
    <3>6. ASSUME NEW e \in Events, oldest < e, cursor' <= e, Reached(e)' PROVE e \in auditRows'
      <4>1. CASE e \in auditRows
        BY <2>1, <4>1
      <4>2. CASE e \notin auditRows
        <5>1. e \in Left
          BY <2>2, <2>7, <3>6, <4>2
        <5>2. e = cursor' \/ cursor' < e
          BY <3>5, <3>6
        <5>3. QED BY <2>1, <2>5, <3>3, <5>1, <5>2
      <4>3. QED BY <4>1, <4>2
    <3>7. Reading'
      BY <2>1, <2>3, <3>1, <3>5, <3>6 DEF Reading
    <3>8. Complete'
      BY <2>1, <3>1 DEF Complete
    <3>9. QED BY <3>4, <3>7, <3>8 DEF AuditInv
  <2>10. QED BY <2>8, <2>9
<1>4. CASE Audit!Interrupt
  <2>1. /\ auditPc = "paging" /\ auditPc' = "idle" /\ cursor' = 0
        /\ torn' = IF mode /\ Audit!HighWater > oldest THEN torn \cup Audit!Remaining ELSE torn
        /\ UNCHANGED <<now, auditRows, backfilled, mode, oldest>>
    BY <1>4 DEF Audit!Interrupt
  <2>2. AuditTyped' /\ Reading'
    BY <1>a, <2>1 DEF AuditTyped, Reading
  <2>3. ASSUME backfilled, NEW e \in Events, Reached(e) PROVE e \in auditRows \cup torn'
    <3>1. \A d \in auditRows : d <= Audit!HighWater
      <4>1. auditRows \cup {0} \in SUBSET (0 .. LastEvent) /\ auditRows \cup {0} # {}
        BY <1>a DEF AuditTyped
      <4>2. QED BY <1>b, <4>1, AuditMax DEF Audit!HighWater
    <3>2. CASE e <= oldest
      BY <1>a, <2>1, <3>2 DEF Reading
    <3>3. CASE oldest < e /\ cursor <= e
      BY <1>a, <2>1, <2>3, <3>3 DEF Reading
    <3>4. CASE oldest < e /\ e < cursor
      <4>1. PICK r \in auditRows : e <= r
        BY <2>3 DEF Reached
      <4>2. Audit!HighWater \in Nat /\ r \in Nat
        <5>1. auditRows \cup {0} \in SUBSET (0 .. LastEvent) /\ auditRows \cup {0} # {}
          BY <1>a DEF AuditTyped
        <5>2. Audit!HighWater \in auditRows \cup {0}
          BY <1>b, <5>1, AuditMax DEF Audit!HighWater
        <5>3. QED BY <1>b, <5>1, <5>2
      <4>3. Audit!HighWater > oldest /\ mode
        BY <1>a, <2>1, <2>3, <3>1, <3>4, <4>1, <4>2 DEF AuditTyped, Reading
      <4>4. e \in Audit!Remaining
        BY <3>4 DEF Audit!Remaining
      <4>5. QED BY <2>1, <4>3, <4>4
    <3>5. QED BY <1>a, <3>2, <3>3, <3>4 DEF AuditTyped
  <2>4. Complete'
    BY <2>1, <2>3 DEF Complete, Reached
  <2>5. QED BY <2>2, <2>4 DEF AuditInv
<1>5. CASE UNCHANGED audit
  BY <1>a, <1>5 DEF audit, AuditInv, AuditTyped, Reading, Complete, Reached
<1>6. QED BY <1>1, <1>2, <1>3, <1>4, <1>5 DEF Audit!Next

LEMMA AuditNoHoles == AuditInv => Audit!NoHoles
<1> SUFFICES ASSUME AuditInv, backfilled, NEW e \in Events, e < Audit!HighWater
             PROVE  e \in auditRows \/ e \in torn \/ (auditPc = "paging" /\ e \in Audit!Remaining)
  BY DEF Audit!NoHoles, Events
<1>a. AuditTyped /\ Reading /\ Complete /\ LastEvent \in Nat /\ e \in Nat
  BY HistoryAssumption DEF AuditInv, Events
<1>1. Reached(e)
  <2>1. auditRows \cup {0} \in SUBSET (0 .. LastEvent) /\ auditRows \cup {0} # {}
    BY <1>a DEF AuditTyped, Events
  <2>2. Audit!HighWater \in auditRows \cup {0}
    BY <1>a, <2>1, AuditMax DEF Audit!HighWater
  <2>3. QED BY <1>a, <2>1, <2>2 DEF Reached
<1>2. CASE auditPc = "idle"
  BY <1>1, <1>2, <1>a DEF Complete
<1>3. CASE auditPc = "paging"
  BY <1>1, <1>3, <1>a DEF Reading, Audit!Remaining, AuditTyped, Events
<1>4. QED BY <1>2, <1>3, <1>a DEF AuditTyped


LEMMA DailyStart == Daily!Init => DailyInv
<1> SUFFICES ASSUME Daily!Init PROVE DailyInv
  OBVIOUS
<1>1. DailyTyped /\ NoGap /\ FirstIsFirst
  BY DEF Daily!Init, DailyTyped, NoGap, FirstIsFirst
<1>2. Upward /\ Downward
  BY DEF Daily!Init, Upward, Downward
<1>3. QED BY <1>1, <1>2 DEF DailyInv

LEMMA DailyStep == DailyInv /\ [Daily!Next]_daily => DailyInv'
<1> SUFFICES ASSUME DailyInv, [Daily!Next]_daily PROVE DailyInv'
  OBVIOUS
<1>a. DailyTyped /\ NoGap /\ Upward /\ Downward /\ FirstIsFirst
  BY DEF DailyInv
<1>b. /\ LastDay \in Nat /\ today \in Nat /\ dailyCurrent \in Nat
      /\ files \subseteq 1 .. LastDay /\ gone \subseteq 1 .. LastDay /\ days \subseteq files
      /\ today = 1 \/ today <= LastDay
  BY <1>a, HistoryAssumption DEF DailyTyped
<1>c. \A d \in days : d \in Nat /\ 1 <= d /\ d <= LastDay
  BY <1>b
<1>1. CASE Daily!NextDay
  <2>1. /\ today + 1 \in 1 .. LastDay /\ today' = today + 1
        /\ UNCHANGED <<files, gone, days, dailyPc, dailyCurrent, found, cut>>
    BY <1>1 DEF Daily!NextDay
  <2>2. DailyTyped'
    BY <1>a, <1>b, <2>1 DEF DailyTyped
  <2>3. NoGap' /\ Upward' /\ Downward' /\ FirstIsFirst'
    BY <1>a, <2>1 DEF NoGap, Upward, Downward, FirstIsFirst
  <2>4. QED BY <2>2, <2>3 DEF DailyInv
<1>2. CASE Daily!Publish
  \* The day published is later than all that were, so before none of those stored.
  <2> DEFINE d == Daily!Max(Daily!Published \cup {0}) + 1
  <2>1. /\ d < today /\ files' \in {files, files \cup {d}} /\ gone' \in {gone, gone \cup {d}}
        /\ UNCHANGED <<today, days, dailyPc, dailyCurrent, found, cut>>
    BY <1>2 DEF Daily!Publish
  <2>2. /\ Daily!Max(Daily!Published \cup {0}) \in 0 .. LastDay
        /\ \A e \in files : e <= Daily!Max(Daily!Published \cup {0})
    <3>1. Daily!Published \cup {0} \in SUBSET (0 .. LastDay) /\ Daily!Published \cup {0} # {}
      BY <1>b DEF Daily!Published
    <3>2. \A e \in files : e \in Daily!Published
      BY DEF Daily!Published
    <3>3. QED BY <1>b, <3>1, <3>2, DailyMax
  <2>3. d \in 1 .. LastDay /\ \A e \in files : e < d
    <3> DEFINE m == Daily!Max(Daily!Published \cup {0})
    <3>1. m \in Nat /\ d = m + 1 /\ \A e \in files : e \in Nat /\ e <= m
      BY <1>b, <2>2
    <3> HIDE DEF m, d
    <3>2. d \in 1 .. LastDay
      BY <1>b, <2>1, <3>1
    <3>3. \A e \in files : e < d
      BY <3>1
    <3>4. QED BY <3>2, <3>3
  <2> HIDE DEF d
  <2>4. DailyTyped'
    BY <1>a, <1>b, <2>1, <2>3 DEF DailyTyped
  <2>5. NoGap' /\ Upward' /\ Downward'
    BY <1>a, <2>1 DEF NoGap, Upward, Downward
  <2>6. FirstIsFirst'
    <3> SUFFICES ASSUME dailyPc # "backward", ~cut, NEW e \in days, e - 1 \notin days
                 PROVE  e - 1 \notin files'
      BY <2>1 DEF FirstIsFirst
    <3>1. e - 1 \notin files
      BY <1>a DEF FirstIsFirst
    <3>2. e < d /\ e \in Nat /\ d \in Nat
      BY <1>b, <1>c, <2>3
    <3>3. e - 1 # d
      BY <3>2
    <3>4. QED BY <2>1, <3>1, <3>3
  <2>7. QED BY <2>4, <2>5, <2>6 DEF DailyInv
<1>3. CASE Daily!Start
  <2>1. /\ found' = FALSE /\ UNCHANGED <<today, files, gone, days, cut>>
        /\ dailyPc = "idle"
        /\ IF days # {} THEN dailyPc' = "forward" /\ dailyCurrent' = Daily!Newest + 1
           ELSE dailyPc' = "backward" /\ dailyCurrent' = today
    BY <1>3 DEF Daily!Start
  <2>2. CASE days = {}
    <3>1. DailyTyped' /\ NoGap' /\ Upward' /\ Downward' /\ FirstIsFirst'
      BY <1>a, <1>b, <2>1, <2>2 DEF DailyTyped, NoGap, Upward, Downward, FirstIsFirst
    <3>2. QED BY <3>1 DEF DailyInv
  <2>3. CASE days # {}
    <3>1. Daily!Newest \in days \cup {0} /\ \A e \in days : e <= Daily!Newest
      <4>1. days \cup {0} \in SUBSET (0 .. LastDay) /\ days \cup {0} # {}
        BY <1>b
      <4>2. QED BY <1>b, <4>1, DailyMax DEF Daily!Newest
    <3>2. Daily!Newest \in days /\ Daily!Newest \in Nat
      BY <1>c, <2>3, <3>1
    <3>3. dailyPc' = "forward" /\ dailyCurrent' = Daily!Newest + 1
      BY <2>1, <2>3
    <3>4. dailyCurrent' \in Nat /\ dailyCurrent' - 1 = Daily!Newest /\ \A d \in days : d < dailyCurrent'
      BY <1>c, <3>1, <3>2, <3>3
    <3>5. DailyTyped'
      BY <1>b, <2>1, <3>4 DEF DailyTyped
    <3>6. NoGap' /\ Downward' /\ FirstIsFirst'
      BY <1>a, <2>1, <3>3 DEF NoGap, Downward, FirstIsFirst
    <3>7. Upward'
      BY <2>1, <3>2, <3>4 DEF Upward
    <3>8. QED BY <3>5, <3>6, <3>7 DEF DailyInv
  <2>4. QED BY <2>2, <2>3
<1>4. CASE Daily!Forward
  <2>1. /\ dailyPc = "forward" /\ UNCHANGED <<today, files, gone, found, cut>>
        /\ dailyCurrent - 1 \in days /\ \A d \in days : d < dailyCurrent
    BY <1>4, <1>a DEF Daily!Forward, Upward
  <2>2. CASE dailyCurrent <= today /\ dailyCurrent \in files
    <3>1. days' = days \cup {dailyCurrent} /\ dailyCurrent' = dailyCurrent + 1 /\ dailyPc' = dailyPc
      BY <1>4, <2>2 DEF Daily!Forward
    <3>2. DailyTyped' /\ Upward' /\ Downward'
      BY <1>a, <1>b, <1>c, <2>1, <2>2, <3>1 DEF DailyTyped, Upward, Downward
    <3>3. NoGap'
      <4> SUFFICES ASSUME NEW c \in days', NEW e \in days', NEW d \in 1 .. LastDay, c <= d, d <= e
                   PROVE  d \in days'
        BY DEF NoGap
      <4>1. c \in Nat /\ d \in Nat /\ e \in Nat /\ e <= dailyCurrent
        BY <1>b, <1>c, <2>1, <3>1
      <4>2. CASE d = dailyCurrent
        BY <3>1, <4>2
      <4>3. CASE d # dailyCurrent
        <5>1. c \in days /\ d <= dailyCurrent - 1
          BY <1>b, <3>1, <4>1, <4>3
        <5>2. QED BY <1>a, <2>1, <3>1, <5>1 DEF NoGap
      <4>4. QED BY <4>2, <4>3
    <3>4. FirstIsFirst'
      BY <1>a, <2>1, <3>1 DEF FirstIsFirst
    <3>5. QED BY <3>2, <3>3, <3>4 DEF DailyInv
  <2>3. CASE ~(dailyCurrent <= today /\ dailyCurrent \in files)
    <3>1. dailyPc' = "idle" /\ UNCHANGED <<days, dailyCurrent>>
      BY <1>4, <2>3 DEF Daily!Forward
    <3>2. DailyTyped' /\ NoGap' /\ Upward' /\ Downward' /\ FirstIsFirst'
      BY <1>a, <2>1, <3>1 DEF DailyTyped, NoGap, Upward, Downward, FirstIsFirst
    <3>3. QED BY <3>2 DEF DailyInv
  <2>4. QED BY <2>2, <2>3
<1>5. CASE Daily!Backward
  <2>1. /\ dailyPc = "backward" /\ dailyCurrent > 0 /\ UNCHANGED <<today, files, gone, cut>>
        /\ IF found THEN dailyCurrent + 1 \in days /\ \A d \in days : dailyCurrent < d ELSE days = {}
    BY <1>5, <1>a DEF Daily!Backward, Downward
  <2>2. CASE /\ dailyCurrent \in files /\ days' = days \cup {dailyCurrent} /\ found' = TRUE
             /\ dailyCurrent' = dailyCurrent - 1 /\ dailyPc' = dailyPc
    <3>1. DailyTyped' /\ Upward' /\ FirstIsFirst'
      BY <1>a, <1>b, <2>1, <2>2 DEF DailyTyped, Upward, FirstIsFirst
    <3>2. Downward'
      BY <1>b, <1>c, <2>1, <2>2 DEF Downward
    <3>3. NoGap'
      <4> SUFFICES ASSUME NEW c \in days', NEW e \in days', NEW d \in 1 .. LastDay, c <= d, d <= e
                   PROVE  d \in days'
        BY DEF NoGap
      <4>1. c \in Nat /\ d \in Nat /\ e \in Nat /\ dailyCurrent <= c
        BY <1>b, <1>c, <2>1, <2>2
      <4>2. CASE d = dailyCurrent
        BY <2>2, <4>2
      <4>3. CASE d # dailyCurrent
        <5>1. e \in days /\ dailyCurrent + 1 <= d
          BY <1>b, <2>2, <4>1, <4>3
        <5>2. QED BY <1>a, <2>1, <2>2, <5>1 DEF NoGap
      <4>4. QED BY <4>2, <4>3
    <3>4. QED BY <3>1, <3>2, <3>3 DEF DailyInv
  <2>3. CASE ~found /\ dailyCurrent' = dailyCurrent - 1 /\ UNCHANGED <<days, found, dailyPc>>
    <3>1. DailyTyped' /\ NoGap' /\ Upward' /\ Downward' /\ FirstIsFirst'
      BY <1>a, <1>b, <2>1, <2>3 DEF DailyTyped, NoGap, Upward, Downward, FirstIsFirst
    <3>2. QED BY <3>1 DEF DailyInv
  <2>4. CASE /\ dailyCurrent \notin files /\ found
             /\ dailyPc' = "idle" /\ UNCHANGED <<days, found, dailyCurrent>>
    <3>1. DailyTyped' /\ NoGap' /\ Upward' /\ Downward'
      BY <1>a, <2>1, <2>4 DEF DailyTyped, NoGap, Upward, Downward
    <3>2. ASSUME NEW d \in days, d - 1 \notin days PROVE d - 1 \notin files
      <4>1. d \in Nat /\ dailyCurrent < d
        BY <1>c, <2>1, <2>4
      <4>2. CASE d = dailyCurrent + 1
        BY <1>b, <2>4, <4>2
      <4>3. CASE d # dailyCurrent + 1
        <5>1. dailyCurrent + 1 <= d - 1 /\ d - 1 <= d /\ d - 1 \in 1 .. LastDay
          BY <1>b, <1>c, <4>1, <4>3
        <5>2. QED BY <1>a, <2>1, <2>4, <3>2, <5>1 DEF NoGap
      <4>4. QED BY <4>2, <4>3
    <3>3. FirstIsFirst'
      BY <2>1, <2>4, <3>2 DEF FirstIsFirst
    <3>4. QED BY <3>1, <3>3 DEF DailyInv
  <2>5. QED BY <1>5, <2>2, <2>3, <2>4 DEF Daily!Backward
<1>6. CASE Daily!Underflow
  <2>1. /\ dailyPc = "backward" /\ dailyCurrent = 0 /\ dailyPc' = "idle"
        /\ UNCHANGED <<today, files, gone, days, dailyCurrent, found, cut>>
    BY <1>6 DEF Daily!Underflow
  <2>2. DailyTyped' /\ NoGap' /\ Upward' /\ Downward'
    BY <1>a, <2>1 DEF DailyTyped, NoGap, Upward, Downward
  <2>3. ASSUME NEW d \in days, d - 1 \notin days PROVE d - 1 \notin files
    <3>1. 1 \in days
      BY <1>a, <2>1 DEF Downward
    <3>2. CASE d = 1
      BY <1>b, <3>2
    <3>3. CASE d # 1
      <4>1. 1 <= d - 1 /\ d - 1 <= d /\ d - 1 \in 1 .. LastDay
        BY <1>b, <1>c, <3>3
      <4>2. QED BY <1>a, <2>3, <3>1, <4>1 DEF NoGap
    <3>4. QED BY <3>2, <3>3
  <2>4. FirstIsFirst'
    BY <2>1, <2>3 DEF FirstIsFirst
  <2>5. QED BY <2>2, <2>4 DEF DailyInv
<1>7. CASE Daily!Interrupt
  <2>1. /\ dailyPc # "idle" /\ dailyPc' = "idle" /\ cut' = (cut \/ (dailyPc = "backward" /\ found))
        /\ UNCHANGED <<today, files, gone, days, dailyCurrent, found>>
    BY <1>7 DEF Daily!Interrupt
  <2>2. DailyTyped' /\ NoGap' /\ Upward' /\ Downward'
    BY <1>a, <2>1 DEF DailyTyped, NoGap, Upward, Downward
  <2>3. FirstIsFirst'
    <3>1. CASE dailyPc = "backward"
      BY <1>a, <2>1, <3>1 DEF FirstIsFirst, Downward
    <3>2. CASE dailyPc # "backward"
      BY <1>a, <2>1, <3>2 DEF FirstIsFirst
    <3>3. QED BY <3>1, <3>2
  <2>4. QED BY <2>2, <2>3 DEF DailyInv
<1>8. CASE UNCHANGED daily
  BY <1>a, <1>8 DEF daily, DailyInv, DailyTyped, NoGap, Upward, Downward, FirstIsFirst
<1>9. QED BY <1>1, <1>2, <1>3, <1>4, <1>5, <1>6, <1>7, <1>8 DEF Daily!Next

LEMMA DailyHistory == DailyInv => Daily!Contiguous /\ Daily!HistoryKept
<1> SUFFICES ASSUME DailyInv PROVE Daily!Contiguous /\ Daily!HistoryKept
  OBVIOUS
<1>a. /\ NoGap /\ FirstIsFirst /\ LastDay \in Nat /\ days \in SUBSET (0 .. LastDay)
      /\ \A d \in days : d \in 1 .. LastDay
  BY HistoryAssumption DEF DailyInv, DailyTyped
<1>1. ASSUME NEW d \in days, NEW e \in 1 .. LastDay, d < e, e < Daily!Newest PROVE e \in days
  <2>1. days \cup {0} \in SUBSET (0 .. LastDay) /\ days \cup {0} # {}
    BY <1>a
  <2>2. Daily!Newest \in days \cup {0}
    BY <1>a, <2>1, DailyMax DEF Daily!Newest
  <2>3. Daily!Newest \in days /\ Daily!Newest \in Nat
    BY <1>a, <1>1, <2>2
  <2>4. d <= e /\ e <= Daily!Newest
    BY <1>1, <1>a, <2>3
  <2>5. QED BY <1>a, <2>3, <2>4 DEF NoGap
<1>2. ASSUME dailyPc # "backward", ~cut, days # {} PROVE Daily!Min(days) - 1 \notin files
  <2>1. Daily!Min(days) \in days /\ \A d \in days : Daily!Min(days) <= d
    BY <1>a, <1>2, DailyMin
  <2>2. Daily!Min(days) - 1 \notin days
    <3>1. Daily!Min(days) \in Nat
      <4>1. days \subseteq Nat
        BY <1>a
      <4>2. QED BY <2>1, <4>1
    <3>2. ~(Daily!Min(days) <= Daily!Min(days) - 1)
      BY <3>1
    <3>3. QED BY <2>1, <3>2
  <2>3. QED BY <1>2, <1>a, <2>1, <2>2 DEF FirstIsFirst
<1>3. QED BY <1>1, <1>2 DEF Daily!Contiguous, Daily!HistoryKept

(***************************************************************************)
(* The two together, the audit log and the analytics.                      *)
(***************************************************************************)

HistoryInv == (asset = "audit" => AuditInv) /\ (asset = "daily" => DailyInv)

(* A cut run leaves no hole behind in an append-only history: once the     *)
(* audit log was backfilled nothing below its newest event is missing but  *)
(* what an incremental run cut short had still to read, and the days of    *)
(* the analytics follow each other from the first one published on, unless *)
(* a backfill was cut short.                                               *)
THEOREM HistoryHasNoHoles == Spec => []HistoryContiguous
<1>1. Init => HistoryInv
  BY AuditStart, DailyStart DEF Init, HistoryInv
<1>2. HistoryInv /\ [Next]_vars => HistoryInv'
  <2> SUFFICES ASSUME HistoryInv, [Next]_vars PROVE HistoryInv'
    OBVIOUS
  <2>1. asset' = asset /\ (asset = "audit" => [Audit!Next]_audit) /\ (asset = "daily" => [Daily!Next]_daily)
    BY DEF Next, vars
  <2>2. QED BY <2>1, AuditStep, DailyStep DEF HistoryInv
<1>3. HistoryInv => HistoryContiguous
  BY AuditNoHoles, DailyHistory DEF HistoryInv, HistoryContiguous
<1>4. QED BY <1>1, <1>2, <1>3, PTL DEF Spec

(***************************************************************************)
(* Loops recipient metrics: how far a campaign may be past the deadline.   *)
(***************************************************************************)

MetricsTyped ==
    /\ clock \in Nat /\ deadline \in Int /\ page \in Nat /\ startKnown \in BOOLEAN
    /\ metricsPc \in {"idle", "picking", "paging"}
    /\ elapsed \subseteq MetricsCampaigns /\ metricsTodo \in Seq(MetricsCampaigns)

InsideMargin == metricsPc # "idle" /\ startKnown => deadline <= MetricsMaxRuntime - MetricsMargin

\* A campaign begun before the deadline has run over it by its pages at most.
SincePicked == metricsPc = "paging" => metricsCurrent \in MetricsCampaigns /\ clock < deadline + page

MetricsInv == MetricsTyped /\ InsideMargin /\ SincePicked

(***************************************************************************)
(* Loops campaigns: whatever is recorded as sent is what was sent.         *)
(***************************************************************************)

Final(c, s, text) == s = "Sent" => api[c].status = "Sent" /\ text \in {0, api[c].text}

ApiTyped == api \in [TextCampaigns -> [status : {"Draft", "Scheduled", "Sent"}, text : TextDrafts \cup {1}]]

TableFinal == \A c \in TextCampaigns : Final(c, table[c].status, table[c].text)

\* The status is read before the text, so a text is at least as new.
StatusBefore ==
    \A r \in campaignCurrent : /\ r \in [id : TextCampaigns, status : {"Draft", "Scheduled", "Sent"}]
                               /\ r.status = "Sent" => api[r.id].status = "Sent"

\* What has been fetched, and what the AI has answered for.
Fetched ==
    campaignPc \in {"fetch", "text"} =>
        \A r \in campaignRecords : r.id \in TextCampaigns /\ Final(r.id, r.status, r.text)

Publishable(c) == c \in TextCampaigns /\ table[c].status = "Sent" /\ table[c].text # 0

Answered ==
    /\ campaignPc = "ai" => \A c \in campaignTodo : Publishable(c)
    /\ campaignPc \in {"ai", "store"} =>
           \A r \in campaignRecords : Publishable(r.id) /\ r.text = table[r.id].text
    /\ campaignPc \in {"idle", "due"} => campaignRecords = {}

TodoTyped == campaignPc \in {"fetch", "text"} => campaignTodo \subseteq TextCampaigns

CampaignInv ==
    /\ ApiTyped /\ TableFinal /\ StatusBefore /\ Fetched /\ Answered /\ TodoTyped
    /\ Campaign!NoDraftPublished


LEMMA SameTally == \A S : Metrics!Cardinality(S) = Cardinality(S)
BY Zenon DEF Cardinality, Metrics!Cardinality

LEMMA MetricsStart == Metrics!Init => MetricsInv
<1> SUFFICES ASSUME Metrics!Init PROVE MetricsInv
  OBVIOUS
<1>1. MetricsTyped
  <2>1. /\ clock = 0 /\ deadline = 0 /\ page = 0 /\ elapsed = {} /\ startKnown = TRUE
        /\ metricsTodo = << >> /\ metricsPc = "idle"
    BY DEF Metrics!Init
  <2>2. << >> \in Seq(MetricsCampaigns)
    OBVIOUS
  <2>3. QED BY <2>1, <2>2 DEF MetricsTyped
<1>2. InsideMargin /\ SincePicked
  BY DEF Metrics!Init, InsideMargin, SincePicked
<1>3. QED BY <1>1, <1>2 DEF MetricsInv

LEMMA MetricsStep == MetricsInv /\ [Metrics!Next]_metrics => MetricsInv'
<1> SUFFICES ASSUME MetricsInv, [Metrics!Next]_metrics PROVE MetricsInv'
  OBVIOUS
<1>a. MetricsTyped /\ InsideMargin /\ SincePicked
  BY DEF MetricsInv
<1>b. /\ MetricsBudget \in Nat /\ MetricsMaxRuntime \in Nat /\ MetricsMargin \in Nat
      /\ MetricsDelays \subseteq Nat /\ MetricsPages \in [MetricsCampaigns -> Nat \ {0}]
      /\ IsFiniteSet(MetricsCampaigns)
  BY MarginAssumption
<1>1. CASE Metrics!Start
  <2>1. PICK d \in MetricsDelays : clock' = d /\ deadline' = Metrics!Deadline(d, startKnown')
    BY <1>1 DEF Metrics!Start
  <2>2. /\ metricsPc' = "picking" /\ UNCHANGED <<elapsed, page>> /\ startKnown' \in BOOLEAN
        /\ metricsTodo' \in Metrics!Urgent(Metrics!Due)
    BY <1>1 DEF Metrics!Start, Metrics!store
  <2>3. deadline' \in Int /\ (startKnown' => deadline' <= MetricsMaxRuntime - MetricsMargin)
    BY <1>b, <2>1 DEF Metrics!Deadline, Metrics!Lesser
  <2>4. metricsTodo' \in Seq(MetricsCampaigns)
    <3>1. Metrics!Due \subseteq MetricsCampaigns
      BY <1>a DEF Metrics!Due, Metrics!Never, MetricsTyped
    <3>2. Cardinality(Metrics!Due) \in Nat
      BY <1>b, <3>1, FS_Subset, FS_CardinalityType
    <3>3. metricsTodo' \in [1 .. Cardinality(Metrics!Due) -> Metrics!Due]
      BY <2>2, SameTally DEF Metrics!Urgent
    <3>4. metricsTodo' \in [1 .. Cardinality(Metrics!Due) -> MetricsCampaigns]
      BY <3>1, <3>3
    <3>5. QED BY <3>2, <3>4
  <2>5. MetricsTyped'
    BY <1>a, <1>b, <2>1, <2>2, <2>3, <2>4 DEF MetricsTyped
  <2>6. InsideMargin' /\ SincePicked'
    BY <2>2, <2>3 DEF InsideMargin, SincePicked
  <2>7. QED BY <2>5, <2>6 DEF MetricsInv
<1>2. CASE Metrics!Pick
  <2>1. /\ metricsPc = "picking" /\ metricsTodo # <<>> /\ clock < deadline
        /\ metricsCurrent' = Head(metricsTodo) /\ metricsTodo' = Tail(metricsTodo)
        /\ page' = 0 /\ metricsPc' = "paging" /\ UNCHANGED <<elapsed, clock, deadline, startKnown>>
    BY <1>2 DEF Metrics!Pick, Metrics!store
  <2>2. metricsCurrent' \in MetricsCampaigns /\ metricsTodo' \in Seq(MetricsCampaigns)
    BY <1>a, <2>1 DEF MetricsTyped
  <2>3. MetricsTyped' /\ InsideMargin'
    BY <1>a, <2>1, <2>2 DEF MetricsTyped, InsideMargin
  <2>4. SincePicked'
    BY <1>a, <1>b, <2>1, <2>2 DEF SincePicked, MetricsTyped
  <2>5. QED BY <2>3, <2>4 DEF MetricsInv
<1>3. CASE Metrics!Stop \/ Metrics!FailRun
  <2>1. /\ metricsPc' = "idle" /\ clock' = 0 /\ deadline' = 0 /\ metricsTodo' = <<>> /\ page' = 0
        /\ elapsed' = elapsed /\ startKnown' = TRUE
    BY <1>3 DEF Metrics!Stop, Metrics!FailRun, Metrics!Ended, Metrics!store
  <2>2. QED BY <1>a, <2>1 DEF MetricsInv, MetricsTyped, InsideMargin, SincePicked
<1>4. CASE Metrics!ReadPage
  <2>1. /\ metricsPc = "paging" /\ clock' = clock + 1 /\ UNCHANGED <<deadline, startKnown, metricsTodo>>
        /\ metricsCurrent \in MetricsCampaigns /\ clock < deadline + page
    BY <1>4, <1>a DEF Metrics!ReadPage, SincePicked
  <2>2. CASE /\ page + 1 < MetricsPages[metricsCurrent] /\ page' = page + 1
             /\ UNCHANGED <<elapsed, metricsPc, metricsCurrent>>
    <3>1. MetricsTyped' /\ InsideMargin'
      BY <1>a, <2>1, <2>2 DEF MetricsTyped, InsideMargin
    <3>2. SincePicked'
      BY <1>a, <2>1, <2>2 DEF SincePicked, MetricsTyped
    <3>3. QED BY <3>1, <3>2 DEF MetricsInv
  <2>3. CASE metricsPc' = "picking" /\ page' = 0 /\ elapsed' = elapsed \ {metricsCurrent}
    BY <1>a, <2>1, <2>3 DEF MetricsInv, MetricsTyped, InsideMargin, SincePicked
  <2>4. QED BY <1>4, <2>2, <2>3 DEF Metrics!ReadPage, Metrics!Persist, Metrics!store
<1>5. CASE Metrics!SkipCampaign
  BY <1>a, <1>5 DEF Metrics!SkipCampaign, Metrics!store, MetricsInv, MetricsTyped, InsideMargin, SincePicked
<1>6. ASSUME NEW c \in MetricsCampaigns, Metrics!Elapse(c) PROVE MetricsInv'
  BY <1>a, <1>6 DEF Metrics!Elapse, MetricsInv, MetricsTyped, InsideMargin, SincePicked
<1>7. CASE UNCHANGED metrics
  BY <1>a, <1>7 DEF metrics, MetricsInv, MetricsTyped, InsideMargin, SincePicked
<1>8. QED
  BY <1>1, <1>2, <1>3, <1>4, <1>5, <1>6, <1>7 DEF Metrics!Next, Metrics!Run

LEMMA MetricsDone == MetricsInv => Metrics!DoneBeforeKilled
<1> SUFFICES ASSUME MetricsInv, metricsPc = "paging", startKnown, clock >= MetricsMaxRuntime
             PROVE  page > MetricsMargin
  BY DEF Metrics!DoneBeforeKilled
<1>1. /\ clock < deadline + page /\ deadline <= MetricsMaxRuntime - MetricsMargin
      /\ clock \in Nat /\ page \in Nat /\ deadline \in Int
  BY DEF MetricsInv, MetricsTyped, InsideMargin, SincePicked
<1>2. MetricsMaxRuntime \in Nat /\ MetricsMargin \in Nat
  BY MarginAssumption
<1>3. QED BY <1>1, <1>2

LEMMA CampaignStart == Campaign!Init => CampaignInv
<1> SUFFICES ASSUME Campaign!Init PROVE CampaignInv
  OBVIOUS
<1>1. ApiTyped /\ TableFinal
  BY DEF Campaign!Init, ApiTyped, TableFinal, Final
<1>2. StatusBefore /\ Fetched /\ Answered /\ TodoTyped /\ Campaign!NoDraftPublished
  BY DEF Campaign!Init, StatusBefore, Fetched, Answered, TodoTyped, Campaign!NoDraftPublished
<1>3. QED BY <1>1, <1>2 DEF CampaignInv

\* Nobody changes what was sent, so what is final stays so.
LEMMA SentStays ==
  ASSUME ApiTyped, NEW c \in TextCampaigns, Campaign!Write(c) \/ Campaign!SendOut(c)
  PROVE  /\ ApiTyped'
         /\ \A d \in TextCampaigns : api[d].status = "Sent" => api'[d] = api[d]
<1>1. api[c] \in [status : {"Draft", "Scheduled", "Sent"}, text : TextDrafts \cup {1}]
  BY DEF ApiTyped
<1>2. CASE Campaign!Write(c)
  <2>1. PICK t \in TextDrafts : api' = [api EXCEPT ![c] = [@ EXCEPT !.text = t]]
    BY <1>2 DEF Campaign!Write
  <2>2. QED BY <1>1, <1>2, <2>1 DEF ApiTyped, Campaign!Write, Campaign!Unsent
<1>3. CASE Campaign!SendOut(c)
  <2>1. api' = [api EXCEPT ![c] = [@ EXCEPT !.status = "Sent"]]
    BY <1>3 DEF Campaign!SendOut
  <2>2. QED BY <1>1, <1>3, <2>1 DEF ApiTyped, Campaign!SendOut, Campaign!Unsent
<1>4. QED BY <1>2, <1>3

LEMMA CampaignStep == CampaignInv /\ [Campaign!Next]_campaign => CampaignInv'
<1> SUFFICES ASSUME CampaignInv, [Campaign!Next]_campaign PROVE CampaignInv'
  OBVIOUS
<1>a. /\ ApiTyped /\ TableFinal /\ StatusBefore /\ Fetched /\ Answered /\ TodoTyped
      /\ Campaign!NoDraftPublished
  BY DEF CampaignInv
<1>1. ASSUME NEW c \in TextCampaigns, Campaign!Write(c) \/ Campaign!SendOut(c) PROVE CampaignInv'
  <2>1. UNCHANGED <<table, analysed, campaignPc, campaignTodo, campaignCurrent, campaignRecords>>
    BY <1>1 DEF Campaign!Write, Campaign!SendOut
  <2>2. ApiTyped' /\ \A d \in TextCampaigns : api[d].status = "Sent" => api'[d] = api[d]
    BY <1>a, <1>1, SentStays
  <2>3. TableFinal' /\ Fetched'
    BY <1>a, <2>1, <2>2 DEF TableFinal, Fetched, Final
  <2>4. StatusBefore'
    <3> SUFFICES ASSUME NEW r \in campaignCurrent
                 PROVE  /\ r \in [id : TextCampaigns, status : {"Draft", "Scheduled", "Sent"}]
                        /\ r.status = "Sent" => api'[r.id].status = "Sent"
      BY <2>1 DEF StatusBefore
    <3>1. r \in [id : TextCampaigns, status : {"Draft", "Scheduled", "Sent"}]
      BY <1>a DEF StatusBefore
    <3>2. r.id \in TextCampaigns
      BY <3>1
    <3>3. QED BY <1>a, <2>2, <3>1, <3>2 DEF StatusBefore
  <2>5. Answered' /\ TodoTyped'
    BY <1>a, <2>1 DEF Answered, TodoTyped, Publishable
  <2>6. Campaign!NoDraftPublished'
    BY <1>a, <2>1, <2>2 DEF Campaign!NoDraftPublished
  <2>7. QED BY <2>2, <2>3, <2>4, <2>5, <2>6 DEF CampaignInv
<1>2. CASE Campaign!Begin
  <2>1. /\ campaignTodo' \subseteq TextCampaigns /\ campaignPc' = "fetch"
        /\ campaignCurrent' = {} /\ campaignRecords' = {} /\ UNCHANGED <<api, analysed>>
    BY <1>2 DEF Campaign!Begin
  <2>2. \A c \in TextCampaigns : table'[c] = table[c] \/ table'[c].status = ""
    BY <1>2 DEF Campaign!Begin
  <2>3. ApiTyped' /\ TableFinal' /\ Campaign!NoDraftPublished'
    BY <1>a, <2>1, <2>2 DEF ApiTyped, TableFinal, Final, Campaign!NoDraftPublished
  <2>4. StatusBefore' /\ Fetched' /\ Answered' /\ TodoTyped'
    BY <2>1 DEF StatusBefore, Fetched, Answered, TodoTyped
  <2>5. QED BY <2>3, <2>4 DEF CampaignInv
<1>3. CASE Campaign!ReadStatus
  <2>1. /\ campaignPc = "fetch" /\ campaignPc' = "text"
        /\ UNCHANGED <<api, table, analysed, campaignRecords>>
    BY <1>3 DEF Campaign!ReadStatus
  <2>2. PICK c \in campaignTodo : /\ campaignTodo' = campaignTodo \ {c}
                                  /\ campaignCurrent' = {[id |-> c, status |-> api[c].status]}
    BY <1>3 DEF Campaign!ReadStatus, Campaign!StatusFirst
  <2>3. c \in TextCampaigns /\ campaignTodo' \subseteq TextCampaigns
    BY <1>a, <2>1, <2>2 DEF TodoTyped
  <2>4. StatusBefore'
    BY <1>a, <2>1, <2>2, <2>3 DEF StatusBefore, ApiTyped
  <2>5. ApiTyped' /\ TableFinal' /\ Fetched' /\ TodoTyped' /\ Campaign!NoDraftPublished'
    BY <1>a, <2>1, <2>3 DEF ApiTyped, TableFinal, Fetched, Final, TodoTyped, Campaign!NoDraftPublished
  <2>6. Answered'
    BY <2>1 DEF Answered
  <2>7. QED BY <2>4, <2>5, <2>6 DEF CampaignInv
<1>4. CASE Campaign!ReadText
  <2>1. /\ campaignPc = "text" /\ campaignPc' = "fetch" /\ campaignCurrent' = {}
        /\ UNCHANGED <<api, table, analysed, campaignTodo>>
    BY <1>4 DEF Campaign!ReadText
  <2>2. PICK r \in campaignCurrent :
           campaignRecords' \in {campaignRecords, campaignRecords \cup {Campaign!Rest(r)},
                                 campaignRecords \cup {[Campaign!Rest(r) EXCEPT !.text = 0]}}
    BY <1>4 DEF Campaign!ReadText
  <2>3. /\ r \in [id : TextCampaigns, status : {"Draft", "Scheduled", "Sent"}]
        /\ r.status = "Sent" => api[r.id].status = "Sent"
    BY <1>a DEF StatusBefore
  <2>4. Campaign!Rest(r) = [id |-> r.id, status |-> r.status, text |-> api[r.id].text]
    BY <2>3 DEF Campaign!Rest
  <2>5. \A q \in campaignRecords' : q.id \in TextCampaigns /\ Final(q.id, q.status, q.text)
    BY <1>a, <2>1, <2>2, <2>3, <2>4 DEF Fetched, Final
  <2>6. Fetched'
    BY <2>1, <2>5 DEF Fetched, Final
  <2>7. ApiTyped' /\ TableFinal' /\ TodoTyped' /\ Campaign!NoDraftPublished'
    BY <1>a, <2>1 DEF ApiTyped, TableFinal, Final, TodoTyped, Campaign!NoDraftPublished
  <2>8. Answered' /\ StatusBefore'
    BY <2>1 DEF Answered, StatusBefore
  <2>9. QED BY <2>6, <2>7, <2>8 DEF CampaignInv
<1>5. CASE Campaign!StoreContents
  <2>1. /\ campaignPc = "fetch" /\ campaignPc' = "due" /\ campaignRecords' = {}
        /\ UNCHANGED <<api, analysed, campaignTodo, campaignCurrent>>
    BY <1>5 DEF Campaign!StoreContents
  <2>2. ASSUME NEW c \in TextCampaigns PROVE Final(c, table'[c].status, table'[c].text)
    <3>1. CASE c \in Campaign!Recorded
      <4>1. table'[c] = [status |-> Campaign!Of(c).status, text |-> Campaign!Of(c).text]
        BY <1>5, <3>1 DEF Campaign!StoreContents
      <4>2. Campaign!Of(c) \in campaignRecords /\ Campaign!Of(c).id = c
        <5>1. PICK r \in campaignRecords : r.id = c
          BY <3>1 DEF Campaign!Recorded
        <5>2. QED BY <5>1 DEF Campaign!Of
      <4>3. QED BY <1>a, <2>1, <4>1, <4>2 DEF Fetched
    <3>2. CASE c \notin Campaign!Recorded
      <4>1. table'[c] = table[c]
        BY <1>5, <3>2 DEF Campaign!StoreContents
      <4>2. QED BY <1>a, <4>1 DEF TableFinal
    <3>3. QED BY <3>1, <3>2
  <2>3. ApiTyped' /\ TableFinal' /\ StatusBefore' /\ Campaign!NoDraftPublished'
    BY <1>a, <2>1, <2>2 DEF ApiTyped, TableFinal, Final, StatusBefore, Campaign!NoDraftPublished
  <2>4. Fetched' /\ Answered' /\ TodoTyped'
    BY <2>1 DEF Fetched, Answered, TodoTyped
  <2>5. QED BY <2>3, <2>4 DEF CampaignInv
<1>6. CASE Campaign!Due \/ Campaign!Analyse \/ Campaign!PrepareAnalysis
  <2>1. UNCHANGED <<api, table, analysed, campaignCurrent>> /\ campaignPc' \in {"ai", "store"}
    BY <1>6 DEF Campaign!Due, Campaign!Analyse, Campaign!PrepareAnalysis
  <2>5. Answered'
    <3>1. CASE Campaign!Due
      <4>1. /\ campaignPc' = "ai" /\ campaignRecords' = {}
            /\ \A c \in campaignTodo' : Publishable(c)
        BY <1>a, <3>1 DEF Campaign!Due, Answered, Publishable
      <4>2. QED BY <2>1, <4>1 DEF Answered, Publishable
    <3>2. CASE Campaign!Analyse
      <4>1. campaignPc = "ai" /\ campaignPc' = "ai" /\ campaignTodo' \subseteq campaignTodo
        BY <3>2 DEF Campaign!Analyse
      <4>2. \A r \in campaignRecords' :
               r \in campaignRecords \/ \E c \in campaignTodo : r = [id |-> c, text |-> table[c].text]
        BY <3>2 DEF Campaign!Analyse, Campaign!Answer
      <4>3. QED BY <1>a, <2>1, <4>1, <4>2 DEF Answered, Publishable
    <3>3. CASE Campaign!PrepareAnalysis
      BY <1>a, <2>1, <3>3 DEF Campaign!PrepareAnalysis, Answered, Publishable
    <3>4. QED BY <1>6, <3>1, <3>2, <3>3
  <2>6. ApiTyped' /\ TableFinal' /\ StatusBefore' /\ Campaign!NoDraftPublished'
    BY <1>a, <2>1 DEF ApiTyped, TableFinal, Final, StatusBefore, Campaign!NoDraftPublished
  <2>7. Fetched' /\ TodoTyped'
    BY <2>1 DEF Fetched, TodoTyped
  <2>8. QED BY <2>5, <2>6, <2>7 DEF CampaignInv
<1>7. CASE Campaign!StoreAnalysis
  <2>1. /\ campaignPc = "store" /\ campaignPc' = "idle" /\ campaignRecords' = {}
        /\ UNCHANGED <<api, table, campaignTodo, campaignCurrent>>
    BY <1>7 DEF Campaign!StoreAnalysis
  <2>2. ASSUME NEW c \in TextCampaigns, analysed'[c] # 0
        PROVE  api[c].status = "Sent" /\ analysed'[c] = api[c].text
    <3>1. CASE c \in Campaign!Recorded
      <4>1. analysed'[c] = Campaign!Of(c).text
        BY <1>7, <3>1 DEF Campaign!StoreAnalysis
      <4>2. Campaign!Of(c) \in campaignRecords /\ Campaign!Of(c).id = c
        <5>1. PICK r \in campaignRecords : r.id = c
          BY <3>1 DEF Campaign!Recorded
        <5>2. QED BY <5>1 DEF Campaign!Of
      <4>3. QED BY <1>a, <2>1, <2>2, <4>1, <4>2 DEF Answered, Publishable, TableFinal, Final
    <3>2. CASE c \notin Campaign!Recorded
      <4>1. analysed'[c] = analysed[c]
        BY <1>7, <3>2 DEF Campaign!StoreAnalysis
      <4>2. QED BY <1>a, <2>2, <4>1 DEF Campaign!NoDraftPublished
    <3>3. QED BY <3>1, <3>2
  <2>3. Campaign!NoDraftPublished'
    BY <2>1, <2>2 DEF Campaign!NoDraftPublished
  <2>4. ApiTyped' /\ TableFinal' /\ StatusBefore'
    BY <1>a, <2>1 DEF ApiTyped, TableFinal, Final, StatusBefore
  <2>5. Fetched' /\ Answered' /\ TodoTyped'
    BY <2>1 DEF Fetched, Answered, TodoTyped
  <2>6. QED BY <2>3, <2>4, <2>5 DEF CampaignInv
<1>8. CASE Campaign!FailRun
  <2>1. /\ campaignPc' = "idle" /\ campaignTodo' = {} /\ campaignCurrent' = {} /\ campaignRecords' = {}
        /\ UNCHANGED <<api, table, analysed>>
    BY <1>8 DEF Campaign!FailRun
  <2>2. ApiTyped' /\ TableFinal' /\ Campaign!NoDraftPublished'
    BY <1>a, <2>1 DEF ApiTyped, TableFinal, Final, Campaign!NoDraftPublished
  <2>3. StatusBefore' /\ Fetched' /\ Answered' /\ TodoTyped'
    BY <2>1 DEF StatusBefore, Fetched, Answered, TodoTyped
  <2>4. QED BY <2>2, <2>3 DEF CampaignInv
<1>9. ASSUME UNCHANGED <<api, table, analysed, campaignPc, campaignTodo, campaignCurrent, campaignRecords>>
      PROVE  CampaignInv'
  BY <1>a, <1>9 DEF CampaignInv, ApiTyped, TableFinal, Final, StatusBefore, Fetched, Answered, Publishable,
                    TodoTyped, Campaign!NoDraftPublished
<1>10. CASE (\E c \in TextCampaigns : Campaign!Elapse(c)) \/ UNCHANGED campaign
  BY <1>9, <1>10 DEF Campaign!Elapse, campaign
<1>11. QED
  BY <1>1, <1>2, <1>3, <1>4, <1>5, <1>6, <1>7, <1>8, <1>10 DEF Campaign!Next, Campaign!Run

(***************************************************************************)
(* The two together, the metrics and the campaigns.                        *)
(***************************************************************************)

CampaignsInv == (asset = "metrics" => MetricsInv) /\ (asset = "campaign" => CampaignInv)

(* What a run decided early still holds when it acts on it: a campaign     *)
(* under way at the limit of its run has itself taken longer than the      *)
(* margin, or the start of the run was not known, and the text offered for *)
(* publication is the one that was sent.                                   *)
THEOREM CampaignsAreSafe == Spec => []CampaignsSafe
<1>1. Init => CampaignsInv
  BY MetricsStart, CampaignStart DEF Init, CampaignsInv
<1>2. CampaignsInv /\ [Next]_vars => CampaignsInv'
  <2> SUFFICES ASSUME CampaignsInv, [Next]_vars PROVE CampaignsInv'
    OBVIOUS
  <2>1. /\ asset' = asset /\ (asset = "metrics" => [Metrics!Next]_metrics)
        /\ asset = "campaign" => [Campaign!Next]_campaign
    BY DEF Next, vars
  <2>2. QED BY <2>1, MetricsStep, CampaignStep DEF CampaignsInv
<1>3. CampaignsInv => CampaignsSafe
  BY MetricsDone DEF CampaignsInv, CampaignInv, CampaignsSafe
<1>4. QED BY <1>1, <1>2, <1>3, PTL DEF Spec

(***************************************************************************)
(* Loops audience: between the export and the request only people write to *)
(* Loops, and they write no result and no hash.                            *)
(***************************************************************************)
Managed == {"geo", "geoHash", "gender", "nameHash", "best", "bestHash", "age"}
Genders == {"", "male", "female", "gender-neutral", "error"}

\* A best-known gender follows from what was hashed, or the answer was lost.
Explained(unanswered, best, hash) ==
  hash \in unanswered \cup {Audience!NoHash} \/ best = Audience!Best(hash[1], hash[2])

ContactTyped(c) ==
  /\ DOMAIN c = Managed \cup {"address", "name", "self"}
  /\ c.address \in AudienceAddresses /\ c.name \in AudienceNames
  /\ c.geo \in AudienceAddresses \cup {""} /\ c.gender \in Genders /\ c.age \in 0 .. AudienceYears

\* What an asset may have found for the exported contact, whose best-known gender was best.
UpdateOf(unanswered, best, u) ==
  /\ DOMAIN u \subseteq Managed
  /\ "geo" \in DOMAIN u <=> "geoHash" \in DOMAIN u
  /\ "geo" \in DOMAIN u => u.geo = u.geoHash /\ u.geo \in AudienceAddresses
  /\ "gender" \in DOMAIN u => u.gender \in Genders
  /\ "best" \in DOMAIN u => "bestHash" \in DOMAIN u
  /\ "bestHash" \in DOMAIN u => Explained(unanswered, IF "best" \in DOMAIN u THEN u.best ELSE best, u.bestHash)
  /\ "age" \in DOMAIN u => u.age \in 0 .. AudienceYears

Results ==
  /\ \A f \in Managed : raw[f] = contact[f]
  /\ UpdateOf(answers, raw.best, geo) /\ DOMAIN geo \subseteq {"geo", "geoHash"}
  /\ UpdateOf(answers, raw.best, gender) /\ DOMAIN gender \subseteq {"gender", "nameHash", "best", "bestHash"}
  /\ UpdateOf(answers, raw.best, age) /\ DOMAIN age \subseteq {"age"}
  /\ UpdateOf(answers, raw.best, prepared)

AudienceTyped ==
  /\ ContactTyped(contact) /\ ContactTyped(raw) /\ year \in 0 .. AudienceYears
  /\ audienceTodo \subseteq {"geocode", "gender", "age", "prepare", "send"}
  /\ audienceEdits \in 0 .. MaxAudienceEdits /\ audienceFaults \in 0 .. MaxAudienceFaults

Sound == contact.geo = contact.geoHash /\ Explained(answers, contact.best, contact.bestHash)

AudienceInv == AudienceTyped /\ Sound /\ (audienceTodo # {} => Results)

LEMMA AudienceLimits == AudienceYears \in Nat /\ MaxAudienceEdits \in Nat /\ MaxAudienceFaults \in Nat
BY AudienceAssumption

LEMMA AudienceTypeOK == AudienceInv => Audience!TypeOK
BY DEF AudienceInv, AudienceTyped, ContactTyped, Genders, Audience!TypeOK

LEMMA AudienceSound == AudienceInv => Audience!ResultMatchesHash
BY DEF AudienceInv, Sound, Explained, Audience!ResultMatchesHash

LEMMA AudienceStart == Audience!Init => AudienceInv
<1> SUFFICES ASSUME Audience!Init PROVE AudienceInv
  OBVIOUS
<1>1. (CHOOSE a \in AudienceAddresses : TRUE) \in AudienceAddresses
      /\ (CHOOSE n \in AudienceNames : TRUE) \in AudienceNames
  BY AudienceAssumption
<1>2. ContactTyped(contact)
  <2>1. 0 \in 0 .. AudienceYears
    BY AudienceLimits
  <2>2. /\ DOMAIN contact = {"address", "geo", "geoHash", "name", "gender", "nameHash", "self", "best", "bestHash", "age"}
        /\ contact.address = (CHOOSE a \in AudienceAddresses : TRUE)
        /\ contact.name = (CHOOSE n \in AudienceNames : TRUE)
        /\ contact.geo = "" /\ contact.gender = "" /\ contact.age = 0
    BY DEF Audience!Init
  <2>3. QED BY <1>1, <2>1, <2>2 DEF ContactTyped, Managed, Genders
<1>3. AudienceTyped
  <2>1. ContactTyped(raw) /\ year = 0 /\ audienceTodo = {} /\ audienceEdits = 0 /\ audienceFaults = 0
    BY <1>2 DEF Audience!Init
  <2>2. QED BY <1>2, <2>1, AudienceLimits DEF AudienceTyped
<1>4. Sound /\ audienceTodo = {}
  BY DEF Audience!Init, Sound, Explained
<1>5. QED BY <1>3, <1>4 DEF AudienceInv

\* People write no result and no hash.
LEMMA AudienceEdit == AudienceInv /\ Audience!Edit => AudienceInv'
<1> SUFFICES ASSUME AudienceInv, Audience!Edit PROVE AudienceInv'
  OBVIOUS
<1>1. /\ audienceEdits < MaxAudienceEdits /\ audienceEdits' = audienceEdits + 1
      /\ UNCHANGED <<year, raw, audienceTodo, geo, gender, age, prepared, audienceFaults, answers>>
  BY DEF Audience!Edit
<1>2. ContactTyped(contact') /\ \A f \in Managed : contact'[f] = contact[f]
  <2>1. ContactTyped(contact)
    BY DEF AudienceInv, AudienceTyped
  <2>2. CASE \E a \in AudienceAddresses : contact' = [contact EXCEPT !.address = a]
    BY <2>1, <2>2 DEF ContactTyped, Managed
  <2>3. CASE \E n \in AudienceNames : contact' = [contact EXCEPT !.name = n]
    BY <2>1, <2>3 DEF ContactTyped, Managed
  <2>4. CASE \E s \in AudienceSelves : contact' = [contact EXCEPT !.self = s]
    BY <2>1, <2>4 DEF ContactTyped, Managed
  <2>5. QED BY <2>2, <2>3, <2>4 DEF Audience!Edit
<1>3. AudienceTyped'
  <2>1. audienceEdits' \in 0 .. MaxAudienceEdits
    BY <1>1, AudienceLimits DEF AudienceInv, AudienceTyped
  <2>2. ContactTyped(contact') /\ ContactTyped(raw')
    BY <1>1, <1>2 DEF AudienceInv, AudienceTyped
  <2>3. QED BY <1>1, <2>1, <2>2 DEF AudienceInv, AudienceTyped
<1>4. Sound'
  BY <1>1, <1>2 DEF AudienceInv, Sound, Explained, Managed
<1>5. Results => Results'
  BY <1>1, <1>2 DEF Results, UpdateOf, Explained
<1>6. QED BY <1>1, <1>3, <1>4, <1>5 DEF AudienceInv

LEMMA AudienceExport == AudienceInv /\ Audience!Export => AudienceInv'
<1> SUFFICES ASSUME AudienceInv, Audience!Export PROVE AudienceInv'
  OBVIOUS
<1>1. /\ raw' = contact /\ audienceTodo' = {"geocode", "gender", "age", "prepare", "send"}
      /\ geo' = Audience!None /\ gender' = Audience!None /\ age' = Audience!None /\ prepared' = Audience!None
      /\ UNCHANGED <<contact, year, audienceEdits, audienceFaults, answers>>
  BY DEF Audience!Export
<1>2. AudienceTyped'
  BY <1>1 DEF AudienceInv, AudienceTyped, ContactTyped
<1>3. Sound'
  BY <1>1 DEF AudienceInv, Sound, Explained
<1>4. Results'
  BY <1>1 DEF Results, UpdateOf, Audience!None
<1>5. QED BY <1>2, <1>3, <1>4 DEF AudienceInv

\* An asset of the run that adds its result and perhaps an answer that was lost.
LEMMA AudienceResult ==
  ASSUME AudienceInv, audienceTodo # {}, audienceTodo' \subseteq audienceTodo,
         audienceFaults' \in 0 .. MaxAudienceFaults, answers \subseteq answers',
         UNCHANGED <<contact, year, raw, audienceEdits>>,
         UpdateOf(answers', raw.best, geo') /\ DOMAIN geo' \subseteq {"geo", "geoHash"},
         UpdateOf(answers', raw.best, gender') /\ DOMAIN gender' \subseteq {"gender", "nameHash", "best", "bestHash"},
         UpdateOf(answers', raw.best, age') /\ DOMAIN age' \subseteq {"age"},
         UpdateOf(answers', raw.best, prepared')
  PROVE  AudienceInv'
<1>1. AudienceTyped'
  BY DEF AudienceInv, AudienceTyped, ContactTyped
<1>2. Sound'
  BY DEF AudienceInv, Sound, Explained
<1>3. Results'
  BY DEF AudienceInv, Results
<1>4. QED BY <1>1, <1>2, <1>3 DEF AudienceInv

\* A result stays one while answers are lost for others.
LEMMA UpdateStays ==
  ASSUME NEW l, NEW m, l \subseteq m, NEW best, NEW u, UpdateOf(l, best, u)
  PROVE  UpdateOf(m, best, u)
BY DEF UpdateOf, Explained

LEMMA AudienceGeocode == AudienceInv /\ Audience!Geocode => AudienceInv'
<1> SUFFICES ASSUME AudienceInv, Audience!Geocode PROVE AudienceInv'
  OBVIOUS
<1>1. /\ audienceTodo # {} /\ audienceTodo' \subseteq audienceTodo
      /\ UNCHANGED <<contact, year, raw, gender, age, prepared, audienceEdits, answers>>
      /\ audienceFaults' = audienceFaults \/ (audienceFaults < MaxAudienceFaults /\ audienceFaults' = audienceFaults + 1)
      /\ geo' = Audience!None \/ geo' = [geo |-> raw.address, geoHash |-> raw.address]
  BY DEF Audience!Geocode
<1>2. audienceFaults' \in 0 .. MaxAudienceFaults
  BY <1>1, AudienceLimits DEF AudienceInv, AudienceTyped
<1>3. raw.address \in AudienceAddresses
  BY DEF AudienceInv, AudienceTyped, ContactTyped
<1>4. UpdateOf(answers', raw.best, geo') /\ DOMAIN geo' \subseteq {"geo", "geoHash"}
  <2>1. CASE geo' = Audience!None
    BY <2>1 DEF UpdateOf, Audience!None
  <2>2. CASE geo' = [geo |-> raw.address, geoHash |-> raw.address]
    BY <1>3, <2>2 DEF UpdateOf, Managed
  <2>3. QED BY <1>1, <2>1, <2>2
<1>5. /\ UpdateOf(answers', raw.best, gender') /\ DOMAIN gender' \subseteq {"gender", "nameHash", "best", "bestHash"}
      /\ UpdateOf(answers', raw.best, age') /\ DOMAIN age' \subseteq {"age"} /\ UpdateOf(answers', raw.best, prepared')
  BY <1>1 DEF AudienceInv, Results, UpdateOf, Explained
<1>6. QED BY <1>1, <1>2, <1>4, <1>5, AudienceResult

LEMMA AudienceAge == AudienceInv /\ Audience!ComputeAge => AudienceInv'
<1> SUFFICES ASSUME AudienceInv, Audience!ComputeAge PROVE AudienceInv'
  OBVIOUS
<1>1. /\ audienceTodo # {} /\ audienceTodo' \subseteq audienceTodo
      /\ UNCHANGED <<contact, year, raw, geo, gender, prepared, audienceEdits, audienceFaults, answers>>
      /\ age' = Audience!None \/ age' = [age |-> year]
  BY DEF Audience!ComputeAge
<1>2. audienceFaults' \in 0 .. MaxAudienceFaults /\ year \in 0 .. AudienceYears
  BY <1>1 DEF AudienceInv, AudienceTyped
<1>3. UpdateOf(answers', raw.best, age') /\ DOMAIN age' \subseteq {"age"}
  <2>1. CASE age' = Audience!None
    BY <2>1 DEF UpdateOf, Audience!None
  <2>2. CASE age' = [age |-> year]
    BY <1>2, <2>2 DEF UpdateOf, Managed
  <2>3. QED BY <1>1, <2>1, <2>2
<1>4. /\ UpdateOf(answers', raw.best, geo') /\ DOMAIN geo' \subseteq {"geo", "geoHash"}
      /\ UpdateOf(answers', raw.best, gender') /\ DOMAIN gender' \subseteq {"gender", "nameHash", "best", "bestHash"} /\ UpdateOf(answers', raw.best, prepared')
  BY <1>1 DEF AudienceInv, Results, UpdateOf, Explained
<1>5. QED BY <1>1, <1>2, <1>3, <1>4, AudienceResult

LEMMA AudienceAllowed ==
  ASSUME audienceFaults \in 0 .. MaxAudienceFaults, audienceFaults' <= MaxAudienceFaults,
         audienceFaults' \in {audienceFaults, audienceFaults + 1}
  PROVE  audienceFaults' \in 0 .. MaxAudienceFaults
BY AudienceLimits

LEMMA AudienceCategorize == AudienceInv /\ Audience!Categorize => AudienceInv'
<1> SUFFICES ASSUME AudienceInv, Audience!Categorize PROVE AudienceInv'
  OBVIOUS
<1> DEFINE hash(g) == <<g, raw.self>>
           due(g) == hash(g) # raw.bestHash /\ (raw.self # "" \/ g \notin {"", "error"})
           stored(g) == IF due(g) THEN hash(g) ELSE raw.bestHash
           given(g, b) ==
             Audience!Merge([gender |-> g, nameHash |-> raw.name, bestHash |-> stored(g)],
                                         IF b = "" THEN Audience!None ELSE [best |-> b])
<1>1. /\ audienceTodo # {} /\ audienceTodo' \subseteq audienceTodo
      /\ UNCHANGED <<contact, year, raw, geo, age, prepared, audienceEdits>>
  BY DEF Audience!Categorize
<1>2. \E g \in IF raw.name = raw.nameHash THEN {raw.gender} ELSE {AudienceGenderize[raw.name], "error"} :
         \E b \in IF due(g) THEN {Audience!Best(g, raw.self), ""} ELSE {""} :
            /\ gender' = Audience!None \/ gender' = given(g, b)
            /\ audienceFaults' \in {audienceFaults, audienceFaults + 1} /\ audienceFaults' <= MaxAudienceFaults
            /\ answers' = IF due(g) /\ b = "" THEN answers \cup {hash(g)} ELSE answers
  BY DEF Audience!Categorize, Audience!Hash, Audience!ForBest
<1>3. PICK g \in IF raw.name = raw.nameHash THEN {raw.gender} ELSE {AudienceGenderize[raw.name], "error"} :
         \E b \in IF due(g) THEN {Audience!Best(g, raw.self), ""} ELSE {""} :
            /\ gender' = Audience!None \/ gender' = given(g, b)
            /\ audienceFaults' \in {audienceFaults, audienceFaults + 1} /\ audienceFaults' <= MaxAudienceFaults
            /\ answers' = IF due(g) /\ b = "" THEN answers \cup {hash(g)} ELSE answers
  BY <1>2
<1>4. PICK b \in IF due(g) THEN {Audience!Best(g, raw.self), ""} ELSE {""} :
            /\ gender' = Audience!None \/ gender' = given(g, b)
            /\ audienceFaults' \in {audienceFaults, audienceFaults + 1} /\ audienceFaults' <= MaxAudienceFaults
            /\ answers' = IF due(g) /\ b = "" THEN answers \cup {hash(g)} ELSE answers
  BY <1>3
<1>5. ContactTyped(raw) /\ audienceFaults \in 0 .. MaxAudienceFaults
  BY DEF AudienceInv, AudienceTyped
<1>6. audienceFaults' \in 0 .. MaxAudienceFaults
  BY <1>4, <1>5, AudienceAllowed
<1>7. g \in Genders
  <2>1. AudienceGenderize[raw.name] \in Genders /\ raw.gender \in Genders
    BY <1>5, AudienceAssumption DEF ContactTyped, Genders
  <2>2. QED BY <1>3, <2>1 DEF Genders
<1>8. answers \subseteq answers'
  BY <1>4
<1>9. Explained(answers, raw.best, raw.bestHash)
  BY <1>1 DEF AudienceInv, Results, Sound, Explained, Managed
<1>10. UpdateOf(answers', raw.best, gender') /\ DOMAIN gender' \subseteq {"gender", "nameHash", "best", "bestHash"}
  <2>1. CASE gender' = Audience!None
    BY <2>1 DEF UpdateOf, Audience!None
  <2>2. CASE gender' = given(g, b)
    <3> DEFINE G == given(g, b)
               B == IF b = "" THEN raw.best ELSE b
    <3>1. Explained(answers', B, stored(g))
      <4>1. CASE due(g) /\ b = ""
        <5>1. answers' = answers \cup {hash(g)} /\ stored(g) = hash(g)
          BY <1>4, <4>1
        <5>2. QED BY <5>1 DEF Explained
      <4>2. CASE due(g) /\ b # ""
        <5>1. b = Audience!Best(g, raw.self) /\ hash(g)[1] = g /\ hash(g)[2] = raw.self
          BY <1>4, <4>2
        <5>2. QED BY <1>1, <4>2, <5>1 DEF Explained, Audience!Best
      <4>3. CASE ~due(g)
        <5>1. b = "" /\ stored(g) = raw.bestHash
          BY <1>4, <4>3
        <5>2. QED BY <1>1, <1>8, <1>9, <5>1 DEF Explained, Audience!Best
      <4>4. QED BY <4>1, <4>2, <4>3
    <3> HIDE DEF stored
    <3>2. /\ DOMAIN G = {"gender", "nameHash", "bestHash"} \cup (IF b = "" THEN {} ELSE {"best"})
          /\ G.gender = g /\ G.bestHash = stored(g) /\ (b # "" => G.best = b)
      BY DEF Audience!Merge, Audience!None
    <3> HIDE DEF G, given
    <3>3. gender' = G
      BY <2>2 DEF G
    <3>4. B = IF "best" \in DOMAIN G THEN G.best ELSE raw.best
      BY <3>2
    <3> HIDE DEF B
    <3>5. Explained(answers', IF "best" \in DOMAIN G THEN G.best ELSE raw.best, G.bestHash)
      BY <3>1, <3>2, <3>4
    <3>6. UpdateOf(answers', raw.best, G)
      BY <1>7, <3>2, <3>5 DEF UpdateOf, Managed
    <3>7. QED BY <3>2, <3>3, <3>6
  <2>3. QED BY <1>4, <2>1, <2>2
<1>11. /\ UpdateOf(answers', raw.best, geo') /\ DOMAIN geo' \subseteq {"geo", "geoHash"}
       /\ UpdateOf(answers', raw.best, age') /\ DOMAIN age' \subseteq {"age"} /\ UpdateOf(answers', raw.best, prepared')
  BY <1>1, <1>8, UpdateStays DEF AudienceInv, Results
<1>12. QED BY <1>1, <1>6, <1>8, <1>10, <1>11, AudienceResult

LEMMA AudiencePrepare == AudienceInv /\ Audience!Prepare => AudienceInv'
<1> SUFFICES ASSUME AudienceInv, Audience!Prepare PROVE AudienceInv'
  OBVIOUS
<1> DEFINE P == Audience!Merge(Audience!Merge(geo, gender), age)
<1>1. /\ audienceTodo # {} /\ audienceTodo' \subseteq audienceTodo /\ prepared' = P
      /\ UNCHANGED <<contact, year, raw, geo, gender, age, audienceEdits, audienceFaults, answers>>
  BY DEF Audience!Prepare
<1>2. Results
  BY <1>1 DEF AudienceInv
<1>3. /\ DOMAIN geo \subseteq {"geo", "geoHash"} /\ DOMAIN gender \subseteq {"gender", "nameHash", "best", "bestHash"}
      /\ DOMAIN age \subseteq {"age"} /\ UpdateOf(answers, raw.best, geo) /\ UpdateOf(answers, raw.best, gender) /\ UpdateOf(answers, raw.best, age)
  BY <1>2 DEF Results
<1>4. /\ DOMAIN P = DOMAIN geo \cup DOMAIN gender \cup DOMAIN age
      /\ \A f \in DOMAIN geo : P[f] = geo[f]
      /\ \A f \in DOMAIN gender : P[f] = gender[f]
      /\ \A f \in DOMAIN age : P[f] = age[f]
  BY <1>3 DEF Audience!Merge
<1> HIDE DEF P
<1>5. UpdateOf(answers, raw.best, P)
  <2>1. DOMAIN P \subseteq Managed
    BY <1>3, <1>4 DEF Managed
  <2>2. ("geo" \in DOMAIN P <=> "geoHash" \in DOMAIN P)
        /\ ("geo" \in DOMAIN P => P.geo = P.geoHash /\ P.geo \in AudienceAddresses)
    BY <1>3, <1>4 DEF UpdateOf
  <2>3. "gender" \in DOMAIN P => P.gender \in Genders
    BY <1>3, <1>4 DEF UpdateOf
  <2>4. ("best" \in DOMAIN P => "bestHash" \in DOMAIN P)
        /\ ("bestHash" \in DOMAIN P => Explained(answers, IF "best" \in DOMAIN P THEN P.best ELSE raw.best, P.bestHash))
    <3>1. ("best" \in DOMAIN P <=> "best" \in DOMAIN gender) /\ ("bestHash" \in DOMAIN P <=> "bestHash" \in DOMAIN gender)
      BY <1>3, <1>4
    <3>2. ("best" \in DOMAIN P => P.best = gender.best) /\ ("bestHash" \in DOMAIN P => P.bestHash = gender.bestHash)
      BY <1>4, <3>1
    <3>3. QED BY <1>3, <3>1, <3>2 DEF UpdateOf
  <2>5. "age" \in DOMAIN P => P.age \in 0 .. AudienceYears
    BY <1>3, <1>4 DEF UpdateOf
  <2>6. QED BY <2>1, <2>2, <2>3, <2>4, <2>5 DEF UpdateOf
<1>6. UpdateOf(answers', raw.best, prepared')
  BY <1>1, <1>5 DEF UpdateOf, Explained
<1>7. /\ UpdateOf(answers', raw.best, geo') /\ DOMAIN geo' \subseteq {"geo", "geoHash"}
      /\ UpdateOf(answers', raw.best, gender') /\ DOMAIN gender' \subseteq {"gender", "nameHash", "best", "bestHash"}
      /\ UpdateOf(answers', raw.best, age') /\ DOMAIN age' \subseteq {"age"}
  BY <1>1, <1>3 DEF UpdateOf, Explained
<1>8. audienceFaults' \in 0 .. MaxAudienceFaults /\ answers \subseteq answers'
  BY <1>1 DEF AudienceInv, AudienceTyped
<1>9. QED BY <1>1, <1>6, <1>7, <1>8, AudienceResult

LEMMA AudienceSend == AudienceInv /\ Audience!Send => AudienceInv'
<1> SUFFICES ASSUME AudienceInv, Audience!Send PROVE AudienceInv'
  OBVIOUS
<1>1. /\ audienceTodo # {} /\ audienceTodo' = {}
      /\ UNCHANGED <<year, raw, audienceEdits, answers>>
      /\ audienceFaults' = audienceFaults \/ (audienceFaults < MaxAudienceFaults /\ audienceFaults' = audienceFaults + 1)
      /\ contact' = Audience!Merge(contact, prepared) \/ contact' = contact
  BY DEF Audience!Send
<1>2. ContactTyped(contact) /\ UpdateOf(answers, raw.best, prepared) /\ Results
  BY <1>1 DEF AudienceInv, AudienceTyped, Results
<1>3. ContactTyped(contact') /\ Sound'
  <2>1. CASE contact' = contact
    BY <1>1, <1>2, <2>1 DEF AudienceInv, Sound, Explained
  <2>2. CASE contact' = Audience!Merge(contact, prepared)
    <3>1. /\ DOMAIN contact' = DOMAIN contact
          /\ \A f \in DOMAIN contact : contact'[f] = IF f \in DOMAIN prepared THEN prepared[f] ELSE contact[f]
      BY <1>2, <2>2 DEF Audience!Merge, ContactTyped, UpdateOf
    <3>2. /\ contact'.address = contact.address /\ contact'.name = contact.name
          /\ contact'.geo = (IF "geo" \in DOMAIN prepared THEN prepared.geo ELSE contact.geo)
          /\ contact'.geoHash = (IF "geoHash" \in DOMAIN prepared THEN prepared.geoHash ELSE contact.geoHash)
          /\ contact'.gender = (IF "gender" \in DOMAIN prepared THEN prepared.gender ELSE contact.gender)
          /\ contact'.best = (IF "best" \in DOMAIN prepared THEN prepared.best ELSE contact.best)
          /\ contact'.bestHash = (IF "bestHash" \in DOMAIN prepared THEN prepared.bestHash ELSE contact.bestHash)
          /\ contact'.age = (IF "age" \in DOMAIN prepared THEN prepared.age ELSE contact.age)
      BY <1>2, <3>1 DEF ContactTyped, Managed, UpdateOf
    <3>3. ContactTyped(contact')
      BY <1>2, <3>1, <3>2 DEF ContactTyped, UpdateOf
    <3>4. contact'.geo = contact'.geoHash
      BY <1>2, <3>2 DEF AudienceInv, Sound, UpdateOf
    <3>5. Explained(answers, contact'.best, contact'.bestHash)
      <4>1. raw.best = contact.best
        BY <1>2 DEF Results, Managed
      <4>2. CASE "bestHash" \in DOMAIN prepared
        BY <1>2, <3>2, <4>1, <4>2 DEF UpdateOf
      <4>3. CASE "bestHash" \notin DOMAIN prepared
        BY <1>2, <3>2, <4>3 DEF UpdateOf, AudienceInv, Sound
      <4>4. QED BY <4>2, <4>3
    <3>6. QED BY <1>1, <3>3, <3>4, <3>5 DEF Sound, Explained
  <2>3. QED BY <1>1, <2>1, <2>2
<1>4. audienceFaults' \in 0 .. MaxAudienceFaults
  BY <1>1, AudienceLimits DEF AudienceInv, AudienceTyped
<1>5. ContactTyped(raw')
  BY <1>1 DEF AudienceInv, AudienceTyped
<1>6. AudienceTyped'
  BY <1>1, <1>3, <1>4, <1>5 DEF AudienceInv, AudienceTyped
<1>7. QED BY <1>1, <1>3, <1>6 DEF AudienceInv

LEMMA AudienceOther == AudienceInv /\ (Audience!Birthday \/ Audience!FailRun) => AudienceInv'
<1> SUFFICES ASSUME AudienceInv, Audience!Birthday \/ Audience!FailRun PROVE AudienceInv'
  OBVIOUS
<1>1. /\ audienceTodo' \in {audienceTodo, {}}
      /\ UNCHANGED <<contact, raw, geo, gender, age, prepared, audienceEdits, answers>>
  BY DEF Audience!Birthday, Audience!FailRun
<1>2. year' \in 0 .. AudienceYears /\ audienceFaults' \in 0 .. MaxAudienceFaults
  <2>1. CASE Audience!Birthday
    BY <2>1 DEF Audience!Birthday, AudienceInv, AudienceTyped
  <2>2. CASE Audience!FailRun
    BY <2>2, AudienceLimits DEF Audience!FailRun, AudienceInv, AudienceTyped
  <2>3. QED BY <2>1, <2>2
<1>3. ContactTyped(contact') /\ ContactTyped(raw')
  BY <1>1 DEF AudienceInv, AudienceTyped
<1>4. AudienceTyped'
  BY <1>1, <1>2, <1>3 DEF AudienceInv, AudienceTyped
<1>5. Sound'
  BY <1>1 DEF AudienceInv, Sound, Explained
<1>6. Results => Results'
  BY <1>1 DEF Results, UpdateOf, Explained
<1>7. QED BY <1>1, <1>4, <1>5, <1>6 DEF AudienceInv

LEMMA AudienceStep == AudienceInv /\ [Audience!Next]_audience => AudienceInv'
<1> SUFFICES ASSUME AudienceInv, [Audience!Next]_audience PROVE AudienceInv'
  OBVIOUS
<1>1. CASE Audience!Edit \/ Audience!Birthday \/ Audience!FailRun
  BY <1>1, AudienceEdit, AudienceOther
<1>2. CASE Audience!Run
  BY <1>2, AudienceExport, AudienceGeocode, AudienceCategorize, AudienceAge, AudiencePrepare, AudienceSend
     DEF Audience!Run
<1>3. CASE UNCHANGED audience
  <2>1. UNCHANGED <<contact, year, raw, audienceTodo, geo, gender, age, prepared, audienceEdits, audienceFaults, answers>>
    BY <1>3 DEF audience
  <2>2. ContactTyped(contact') /\ ContactTyped(raw')
    BY <2>1 DEF AudienceInv, AudienceTyped
  <2>3. AudienceTyped'
    BY <2>1, <2>2 DEF AudienceInv, AudienceTyped
  <2>4. Sound' /\ (Results => Results')
    BY <2>1 DEF AudienceInv, Sound, Results, UpdateOf, Explained
  <2>5. QED BY <2>1, <2>3, <2>4 DEF AudienceInv
<1>4. QED BY <1>1, <1>2, <1>3 DEF Audience!Next

(***************************************************************************)
(* Unified YSWS: a hash that ends the archiving is one that Archive wrote. *)
(***************************************************************************)

\* A hash that was never written, or that of a project which was archived.
ArchiveHash(h) ==
  h = <<>> \/ \E play, code : h = <<play, code, IF play = code THEN "" ELSE play, code>>

ProjectFields == {"geo", "archCode", "archLive", "hash", "repo", "fresh"}
Address == ProjectAddresses \cup {""}
Url == ProjectUrls \cup {""}

\* What a run may write of a project: some of the fields nobody edits.
Writable(fields) ==
  /\ DOMAIN fields \subseteq ProjectFields
  /\ "geo" \in DOMAIN fields => fields.geo \in Address
  /\ \A f \in {"archCode", "archLive", "repo"} \cap DOMAIN fields : fields[f] \in Url
  /\ "hash" \in DOMAIN fields => ArchiveHash(fields.hash)

RowsTyped ==
  /\ DOMAIN row = ProjectIds
  /\ \A p \in ProjectIds :
        /\ DOMAIN row[p] = ProjectFields \cup {"addr", "code", "play"}
        /\ row[p].addr \in Address /\ row[p].code \in Url /\ row[p].play \in Url
        /\ row[p].geo \in Address
        /\ row[p].archCode \in Url /\ row[p].archLive \in Url /\ row[p].repo \in Url
        /\ ArchiveHash(row[p].hash)

OutTyped == DOMAIN out = ProjectIds /\ \A p \in ProjectIds : Writable(out[p])

RunTyped ==
  /\ recent \subseteq ProjectIds /\ wants \subseteq ProjectIds
  /\ DOMAIN projectFetched \in {{}, ProjectIds}
  /\ phase \in {"idle", "work", "update", "search", "refresh", "load"}
  /\ projectTodo \subseteq {"geocode", "archive", "stats"}
  /\ left \subseteq Project!Found /\ lost \subseteq Project!Found \ left
  /\ phase # "update" => left = {}
  /\ phase \in {"idle", "work"} => lost = {}

ProjectBounds == projectEdits \in 0 .. MaxProjectEdits /\ projectFaults \in 0 .. MaxProjectFaults

ProjectInv == RowsTyped /\ OutTyped /\ RunTyped /\ ProjectBounds

LEMMA ProjectLimits == MaxProjectEdits \in Nat /\ MaxProjectFaults \in Nat
BY ProjectAssumption

LEMMA ProjectTypeOK == ProjectInv => Project!TypeOK
<1> SUFFICES ASSUME ProjectInv PROVE Project!TypeOK
  OBVIOUS
<1>1. ASSUME NEW p \in ProjectIds
      PROVE  /\ [addr |-> row[p].addr, code |-> row[p].code, play |-> row[p].play] \in Project!Entered
             /\ row[p].geo \in ProjectAddresses \cup {""}
             /\ {row[p].archCode, row[p].archLive, row[p].repo} \subseteq ProjectUrls \cup {""}
             /\ DOMAIN out[p] \subseteq DOMAIN row[p] \ {"addr", "code", "play"}
  <2>1. DOMAIN out[p] \subseteq DOMAIN row[p] \ {"addr", "code", "play"}
    BY DEF ProjectInv, RowsTyped, OutTyped, Writable, ProjectFields
  <2>2. QED BY <2>1 DEF ProjectInv, RowsTyped, Address, Url, Project!Entered, Project!None
<1>2. QED BY <1>1 DEF ProjectInv, RunTyped, ProjectBounds, Project!TypeOK, Project!None

LEMMA ProjectSettled == ProjectInv => Project!SettledIsArchived
<1> SUFFICES ASSUME ProjectInv, NEW p \in ProjectIds, row[p].hash = Project!Hash(row[p])
             PROVE  {row[p].code, row[p].play} \ {""} \subseteq {row[p].archCode, row[p].archLive}
  BY DEF Project!SettledIsArchived, Project!None
<1>1. row[p].hash = <<row[p].play, row[p].code, row[p].archLive, row[p].archCode>>
  BY DEF Project!Hash
<1>2. PICK play, code : row[p].hash = <<play, code, IF play = code THEN "" ELSE play, code>>
  BY <1>1 DEF ProjectInv, RowsTyped, ArchiveHash
<1>3. /\ row[p].play = play /\ row[p].code = code /\ row[p].archCode = code
      /\ row[p].archLive = IF play = code THEN "" ELSE play
  <2> DEFINE live == IF play = code THEN "" ELSE play
  <2>1. <<row[p].play, row[p].code, row[p].archLive, row[p].archCode>> = <<play, code, live, code>>
    BY <1>1, <1>2
  <2> HIDE DEF live
  <2>2. row[p].play = play /\ row[p].code = code /\ row[p].archLive = live /\ row[p].archCode = code
    BY <2>1
  <2>3. QED BY <2>2 DEF live
<1>4. QED BY <1>3

LEMMA ProjectStarts == Project!Init => ProjectInv
<1> SUFFICES ASSUME Project!Init PROVE ProjectInv
  OBVIOUS
<1>1. RowsTyped
  BY ProjectAssumption
  DEF Project!Init, Project!Blank, Project!None, RowsTyped, ProjectFields, Address, Url, ArchiveHash
<1>2. OutTyped
  BY DEF Project!Init, Project!NoFields, OutTyped, Writable
<1>3. RunTyped
  BY DEF Project!Init, RunTyped
<1>4. ProjectBounds
  BY ProjectLimits DEF Project!Init, ProjectBounds
<1>5. QED BY <1>1, <1>2, <1>3, <1>4 DEF ProjectInv

\* What fills out or a row keeps them typed.
LEMMA OverWritable ==
  ASSUME NEW f, NEW g, Writable(f), Writable(g) PROVE Writable(Project!Over(f, g))
BY DEF Writable, Project!Over

LEMMA ArchivedWritable ==
  ASSUME NEW r, r.code \in Url, r.play \in Url PROVE Writable(Project!Archived(r))
<1> DEFINE live == IF r.play = r.code THEN "" ELSE r.play
           Part(field, u) == IF u = "" THEN Project!NoFields ELSE [f \in {field} |-> u]
<1>1. Writable(Part("archCode", r.code)) /\ Writable(Part("archLive", live))
  BY DEF Writable, Project!NoFields, ProjectFields, Url
<1>2. Writable([hash |-> <<r.play, r.code, live, r.code>>])
  BY DEF Writable, ProjectFields, ArchiveHash
<1>3. Project!Archived(r) =
        Project!Over(Project!Over(Part("archCode", r.code), Part("archLive", live)),
                     [hash |-> <<r.play, r.code, live, r.code>>])
  BY DEF Project!Archived, Project!None
<1> HIDE DEF Part, live
<1>4. QED BY <1>1, <1>2, <1>3, OverWritable

LEMMA SameSize == \A S : Project!Cardinality(S) = Cardinality(S)
BY Zenon DEF Cardinality, Project!Cardinality

\* Of a pipeline whose fields are writable.
LEMMA PipelineKeeps ==
  ASSUME ProjectInv, phase = "work", NEW name1, NEW due \in SUBSET ProjectIds, NEW served, NEW fields,
         \A p \in due : Writable(fields[p]),
         Project!Pipeline(name1, due, served, fields)
  PROVE  ProjectInv'
<1>1. /\ projectTodo' = projectTodo \ {name1} /\ projectFaults' = projectFaults + Cardinality(due \ served)
      /\ projectFaults + Cardinality(due \ served) <= MaxProjectFaults
      /\ out' = [p \in ProjectIds |-> IF p \in due THEN Project!Over(fields[p], out[p]) ELSE out[p]]
      /\ UNCHANGED <<row, recent, wants, phase, left, lost, projectFetched, projectEdits>>
  BY SameSize DEF Project!Pipeline
<1>2. OutTyped'
  BY <1>1, OverWritable DEF ProjectInv, OutTyped
<1>3. Cardinality(due \ served) \in Nat
  BY ProjectAssumption, FS_Subset, FS_CardinalityType
<1>4. ProjectBounds'
  BY <1>1, <1>3, ProjectLimits DEF ProjectInv, ProjectBounds
<1>5. RowsTyped' /\ RunTyped'
  BY <1>1 DEF ProjectInv, RowsTyped, RunTyped
<1>6. QED BY <1>2, <1>4, <1>5 DEF ProjectInv

LEMMA ProjectStep == ProjectInv /\ [Project!Next]_project => ProjectInv'
<1> SUFFICES ASSUME ProjectInv, [Project!Next]_project PROVE ProjectInv'
  OBVIOUS
<1>a. RowsTyped /\ OutTyped /\ RunTyped /\ ProjectBounds
  BY DEF ProjectInv
<1>1. ASSUME NEW served \in SUBSET ProjectIds, phase = "work",
             Project!Geocode(served) \/ Project!Archive(served) \/ Project!Stats(served)
      PROVE  ProjectInv'
  <2>1. CASE Project!Geocode(served)
    <3> DEFINE fields == [p \in Project!GeocodeDue |->
                             IF p \in served THEN [geo |-> row[p].addr] ELSE Project!NoFields]
    <3>1. Project!GeocodeDue \subseteq ProjectIds /\ \A p \in Project!GeocodeDue : Writable(fields[p])
      BY <1>a DEF Project!GeocodeDue, Project!NoFields, Writable, ProjectFields, RowsTyped
    <3>2. Project!Pipeline("geocode", Project!GeocodeDue, served, fields)
      BY <2>1 DEF Project!Geocode
    <3> HIDE DEF fields
    <3>3. QED BY <1>1, <3>1, <3>2, PipelineKeeps
  <2>2. CASE Project!Archive(served)
    <3> DEFINE fields == [p \in Project!ArchiveDue |-> Project!WhenArchived(row[p], p \in served)]
    <3>1. Project!ArchiveDue \subseteq ProjectIds
      BY <1>a DEF Project!ArchiveDue, RunTyped
    <3>2. ASSUME NEW p \in Project!ArchiveDue PROVE Writable(fields[p])
      BY <1>a, <3>1, ArchivedWritable DEF Project!WhenArchived, Project!NoFields, Writable, RowsTyped
    <3>3. Project!Pipeline("archive", Project!ArchiveDue, served, fields)
      BY <2>2 DEF Project!Archive
    <3> HIDE DEF fields
    <3>4. QED BY <1>1, <3>1, <3>2, <3>3, PipelineKeeps
  <2>3. CASE Project!Stats(served)
    <3> DEFINE fields == [p \in Project!StatsDue |->
                             IF p \in served \/ row[p].code \notin ProjectGitHub
                             THEN [repo |-> row[p].code, fresh |-> TRUE] ELSE [fresh |-> TRUE]]
    <3>1. Project!StatsDue \subseteq ProjectIds /\ \A p \in Project!StatsDue : Writable(fields[p])
      BY <1>a DEF Project!StatsDue, Writable, ProjectFields, RowsTyped
    <3>2. Project!Pipeline("stats", Project!StatsDue,
                           served \cup {p \in Project!StatsDue : row[p].code \notin ProjectGitHub}, fields)
      BY <2>3 DEF Project!Stats
    <3> HIDE DEF fields
    <3>3. QED BY <1>1, <3>1, <3>2, PipelineKeeps
  <2>4. QED BY <1>1, <2>1, <2>2, <2>3
<1>2. ASSUME NEW p \in ProjectIds, NEW ok \in BOOLEAN, Project!Batch(p, ok) PROVE ProjectInv'
  <2>1. /\ phase = "update" /\ p \in left /\ left' = left \ {p}
        /\ UNCHANGED <<recent, wants, phase, projectTodo, out, projectFetched, projectEdits>>
        /\ \/ row' = [row EXCEPT ![p] = Project!Over(out[p], row[p])] /\ UNCHANGED <<lost, projectFaults>>
           \/ /\ projectFaults < MaxProjectFaults /\ projectFaults' = projectFaults + 1
              /\ lost' = lost \cup {p} /\ UNCHANGED row
    BY <1>2 DEF Project!Batch
  <2>2. RowsTyped'
    <3>1. CASE row' = row
      BY <1>a, <3>1 DEF RowsTyped
    <3>2. CASE row' = [row EXCEPT ![p] = Project!Over(out[p], row[p])]
      <4> DEFINE r == Project!Over(out[p], row[p])
      <4>1. Writable(out[p])
        BY <1>a DEF OutTyped
      <4>2. /\ DOMAIN r = ProjectFields \cup {"addr", "code", "play"}
            /\ r.addr \in Address /\ r.code \in Url /\ r.play \in Url /\ r.geo \in Address
        BY <1>a, <4>1 DEF RowsTyped, Writable, Project!Over, ProjectFields
      <4>3. r.archCode \in Url /\ r.archLive \in Url /\ r.repo \in Url /\ ArchiveHash(r.hash)
        BY <1>a, <4>1 DEF RowsTyped, Writable, Project!Over, ProjectFields
      <4> HIDE DEF r
      <4>4. row' = [row EXCEPT ![p] = r]
        BY <3>2 DEF r
      <4>5. QED BY <1>a, <4>2, <4>3, <4>4 DEF RowsTyped
    <3>3. QED BY <2>1, <3>1, <3>2
  <2>3. RunTyped'
    BY <1>a, <2>1 DEF RunTyped, Project!Found
  <2>4. ProjectBounds'
    BY <1>a, <2>1, ProjectLimits DEF ProjectBounds
  <2>5. OutTyped'
    BY <1>a, <2>1 DEF OutTyped
  <2>6. QED BY <2>2, <2>3, <2>4, <2>5 DEF ProjectInv
<1>3. ASSUME NEW wanted \in SUBSET ProjectIds, Project!Search(wanted) PROVE ProjectInv'
  <2>1. /\ phase = "search" /\ phase' = "refresh" /\ wants' = wants \ wanted
        /\ projectFaults' = projectFaults + Cardinality(Project!Newest(wants) \ wanted)
        /\ projectFaults + Cardinality(Project!Newest(wants) \ wanted) <= MaxProjectFaults
        /\ UNCHANGED <<row, recent, projectTodo, out, left, lost, projectFetched, projectEdits>>
    BY <1>3, SameSize DEF Project!Search
  <2>2. Cardinality(Project!Newest(wants) \ wanted) \in Nat
    <3>1. Project!Newest(wants) \ wanted \subseteq ProjectIds
      BY <1>a DEF Project!Newest, RunTyped
    <3>2. QED BY <3>1, ProjectAssumption, FS_Subset, FS_CardinalityType
  <2>3. ProjectBounds'
    BY <1>a, <2>1, <2>2, ProjectLimits DEF ProjectBounds
  <2>4. RowsTyped' /\ OutTyped' /\ RunTyped'
    BY <1>a, <2>1 DEF RowsTyped, OutTyped, RunTyped, Project!Found
  <2>5. QED BY <2>3, <2>4 DEF ProjectInv
<1>4. CASE Project!Begin \/ Project!Prepare \/ Project!Refresh
  <2>1. UNCHANGED <<row, recent, wants, out, lost, projectEdits, projectFaults>>
    BY <1>4 DEF Project!Begin, Project!Prepare, Project!Refresh
  <2>2. RowsTyped' /\ OutTyped' /\ ProjectBounds'
    BY <1>a, <2>1 DEF RowsTyped, OutTyped, ProjectBounds
  <2>3. RunTyped'
    BY <1>4, <1>a, <2>1
    DEF Project!Begin, Project!Prepare, Project!Refresh, RunTyped, Project!Found, RowsTyped
  <2>4. QED BY <2>2, <2>3 DEF ProjectInv
<1>5. ASSUME Project!End, UNCHANGED <<row, recent, wants, projectEdits>>, ProjectBounds' PROVE ProjectInv'
  <2>1. OutTyped'
    BY <1>5 DEF Project!End, Project!NoFields, OutTyped, Writable
  <2>2. RowsTyped' /\ RunTyped'
    BY <1>5, <1>a DEF Project!End, RowsTyped, RunTyped
  <2>3. QED BY <1>5, <2>1, <2>2 DEF ProjectInv
<1>6. CASE Project!EndUpdate
  <2>1. CASE Project!End
    BY <1>5, <1>6, <1>a, <2>1 DEF Project!EndUpdate, ProjectBounds
  <2>2. CASE ~Project!End
    <3>1. /\ phase' = "search" /\ left = {}
          /\ UNCHANGED <<row, recent, wants, projectTodo, out, left, lost, projectFetched, projectEdits,
                         projectFaults>>
      BY <1>6, <2>2 DEF Project!EndUpdate
    <3>2. QED BY <1>a, <3>1 DEF ProjectInv, RowsTyped, OutTyped, RunTyped, ProjectBounds, Project!Found
  <2>3. QED BY <2>1, <2>2
<1>7. CASE Project!Load \/ Project!Die
  <2>1. ProjectBounds'
    BY <1>7, <1>a, ProjectLimits DEF Project!Load, Project!Die, ProjectBounds
  <2>2. QED BY <1>5, <1>7, <2>1 DEF Project!Load, Project!Die
<1>8. ASSUME NEW p \in ProjectIds,
             \/ Project!Day(p) \/ Project!Week(p)
             \/ \E a \in Address : Project!Edit(p, "addr", a)
             \/ \E f \in {"code", "play"}, u \in Url : Project!Edit(p, f, u)
      PROVE  ProjectInv'
  <2>1. UNCHANGED <<wants, phase, projectTodo, out, left, lost, projectFetched, projectFaults>>
    BY <1>8 DEF Project!Day, Project!Week, Project!Edit
  <2>2. RowsTyped'
    <3>1. CASE Project!Day(p)
      BY <1>a, <3>1 DEF Project!Day, RowsTyped, ProjectFields
    <3>2. CASE Project!Week(p)
      BY <1>a, <3>2 DEF Project!Week, RowsTyped
    <3>3. ASSUME NEW a \in Address, Project!Edit(p, "addr", a) PROVE RowsTyped'
      BY <1>a, <3>3 DEF Project!Edit, RowsTyped, ProjectFields
    <3>4. ASSUME NEW f \in {"code", "play"}, NEW u \in Url, Project!Edit(p, f, u) PROVE RowsTyped'
      BY <1>a, <3>4 DEF Project!Edit, RowsTyped, ProjectFields
    <3>5. QED BY <1>8, <3>1, <3>2, <3>3, <3>4
  <2>3. recent' \subseteq recent
    BY <1>8 DEF Project!Day, Project!Week, Project!Edit
  <2>4. ProjectBounds'
    BY <1>8, <1>a, ProjectLimits DEF Project!Day, Project!Week, Project!Edit, ProjectBounds
  <2>5. OutTyped' /\ RunTyped'
    BY <1>a, <2>1, <2>3 DEF OutTyped, RunTyped, Project!Found
  <2>6. QED BY <2>2, <2>4, <2>5 DEF ProjectInv
<1>9. CASE UNCHANGED project
  BY <1>9, <1>a DEF project, ProjectInv, RowsTyped, OutTyped, RunTyped, ProjectBounds, Project!Found
<1>10. QED
  BY <1>1, <1>2, <1>3, <1>4, <1>6, <1>7, <1>8, <1>9 DEF Project!Next, Project!Run, Address, Url, Project!None

(***************************************************************************)
(* Row hashes: nobody but the worker that holds a table records it, and    *)
(* what is stale or being written was touched since the pass altered it.   *)
(***************************************************************************)
HoldsTable(w) == hashesPc[w] \notin {"done", "next", "fetch"}
InQueue(t) == \E i \in 1 .. Len(queue) : queue[i] = t

HashesTyped ==
  /\ main \in {"idle", "join"} /\ queue \in Seq(HashesTables)
  /\ handler \in Seq({"lock", "cancel", "drain"})
  /\ stop \in BOOLEAN /\ hit \subseteq HashesWorkers
  /\ hashesPc \in [HashesWorkers -> {"done", "next", "fetch", "connect", "register", "check",
                                     "alter", "count", "update"}]
  /\ on \in [HashesWorkers -> HashesTables \cup {""}]
  /\ status \in [HashesTables -> {"pending", "running", "completed", "skipped", "error"}]
  /\ stale \in [HashesTables -> SUBSET HashesRows]
  /\ writing \in [HashesTables -> SUBSET HashesRows]
  /\ touched \in [HashesTables -> SUBSET HashesRows]

HashesBounds == hashesEdits \in 0 .. MaxHashesEdits /\ hashesFaults \in 0 .. MaxHashesFaults

\* A table is held by one worker, which shows it as running before it connects.
Holding ==
  /\ \A w \in HashesWorkers : HoldsTable(w) <=> on[w] # ""
  /\ \A w \in HashesWorkers : hashesPc[w] = "connect" => status[on[w]] = "pending"
  /\ \A w \in HashesWorkers :
        HoldsTable(w) /\ hashesPc[w] # "connect" => status[on[w]] = "running"
  /\ \A w, x \in HashesWorkers : HoldsTable(w) /\ on[x] = on[w] => x = w
  /\ \A t \in HashesTables : status[t] = "running" => \E w \in HashesWorkers : on[w] = t
  /\ \A w \in hit : HoldsTable(w)

\* A table is in the queue once, pending and held by nobody.
Queued ==
  /\ \A i, j \in 1 .. Len(queue) : queue[i] = queue[j] => i = j
  /\ \A i \in 1 .. Len(queue) : status[queue[i]] = "pending"
  /\ \A i \in 1 .. Len(queue), w \in HashesWorkers : on[w] # queue[i]

\* Unless the pass is to stop, a table that nobody took is in the queue.
Taken ==
  /\ handler # <<>> => main = "join" /\ stop = TRUE
  /\ main = "idle" => \A w \in HashesWorkers : hashesPc[w] = "done"
  /\ stop = FALSE /\ main # "idle" =>
        /\ \A t \in HashesTables : status[t] = "pending" =>
              InQueue(t) \/ \E w \in HashesWorkers : on[w] = t
        /\ \A w \in HashesWorkers : hashesPc[w] = "done" => queue = <<>>
  /\ stop = FALSE /\ main = "idle" =>
        /\ queue = <<>>
        /\ \/ \A t \in HashesTables : status[t] = "pending"
           \/ \A t \in HashesTables : status[t] # "pending"

Covered ==
  /\ \A t \in HashesTables :
        status[t] \in {"completed", "skipped"} => stale[t] \cup writing[t] \subseteq touched[t]
  /\ \A w \in HashesWorkers :
        hashesPc[w] \in {"count", "check", "update"} => writing[on[w]] \subseteq touched[on[w]]

HashesInv == HashesTyped /\ HashesBounds /\ Holding /\ Queued /\ Taken /\ Covered

LEMMA HashesLimits == MaxHashesEdits \in Nat /\ MaxHashesFaults \in Nat
BY HashesAssumption

LEMMA HashesNames == "" \notin HashesTables /\ HashesWorkers # {}
BY HashesAssumption

LEMMA HashesTypeOK == HashesInv => Hashes!TypeOK
BY DEF HashesInv, HashesTyped, HashesBounds, Hashes!TypeOK, Hashes!Querying, Hashes!Final, Hashes!None

LEMMA HashesSound == HashesInv => Hashes!HashedUnlessTouched
BY DEF HashesInv, Covered, Hashes!HashedUnlessTouched

LEMMA HashesRecorded == HashesInv => Hashes!AllRecorded
<1> SUFFICES ASSUME HashesInv, main = "idle" PROVE
         /\ \A t \in HashesTables : status[t] # "running"
         /\ stop \/ queue = <<>>
         /\ ~stop => \/ \A t \in HashesTables : status[t] = "pending"
                     \/ \A t \in HashesTables : status[t] # "pending"
  BY DEF Hashes!AllRecorded
<1>1. \A w \in HashesWorkers : hashesPc[w] = "done" /\ on[w] = ""
  BY DEF HashesInv, Holding, HoldsTable, Taken
<1>2. \A t \in HashesTables : status[t] # "running"
  <2>1. SUFFICES ASSUME NEW t \in HashesTables, status[t] = "running" PROVE FALSE
    OBVIOUS
  <2>2. PICK w \in HashesWorkers : on[w] = t
    BY <2>1 DEF HashesInv, Holding
  <2>3. QED BY <2>2, <1>1, HashesNames
<1>3. stop \in BOOLEAN
  BY DEF HashesInv, HashesTyped
<1>4. QED BY <1>2, <1>3 DEF HashesInv, Taken

\* The tables in some order, each once.
LEMMA HashesOrder ==
  LET s == Hashes!SetToSeq(HashesTables)
  IN  /\ s \in Seq(HashesTables)
      /\ \A i, j \in 1 .. Len(s) : s[i] = s[j] => i = j
      /\ \A t \in HashesTables : \E i \in 1 .. Len(s) : s[i] = t
<1> DEFINE n == Cardinality(HashesTables)
           s == Hashes!SetToSeq(HashesTables)
<1>0. \A S : Hashes!Cardinality(S) = Cardinality(S)
  BY Zenon DEF Cardinality, Hashes!Cardinality
<1>1. n \in Nat /\ IsFiniteSet(1 .. n) /\ Cardinality(1 .. n) = n /\ IsFiniteSet(HashesTables)
  <2>1. IsFiniteSet(HashesTables)
    BY HashesAssumption
  <2>2. n \in Nat
    BY <2>1, FS_CardinalityType
  <2>3. QED BY <2>1, <2>2, FS_Interval
<1>2. \E f : f \in [1 .. n -> HashesTables] /\ IsInjective(f)
  <2>1. PICK f : f \in Bijection(1 .. n, HashesTables)
    BY <1>1, FS_CardinalityType DEF ExistsBijection
  <2>2. QED BY <2>1 DEF Bijection, Injection, IsInjective
<1>3. s \in [1 .. n -> HashesTables] /\ IsInjective(s)
  BY <1>2, <1>0 DEF Hashes!SetToSeq, Hashes!IsInjective, IsInjective
<1>4. s \in Injection(1 .. n, HashesTables)
  BY <1>3 DEF Injection
<1>5. s \in Surjection(1 .. n, HashesTables)
  BY <1>1, <1>4, FS_Injection
<1>6. s \in Seq(HashesTables) /\ Len(s) = n
  BY <1>1, <1>3, SeqDef
<1> HIDE DEF s, n
<1>7. \A i, j \in 1 .. Len(s) : s[i] = s[j] => i = j
  BY <1>3, <1>6 DEF IsInjective
<1>8. \A t \in HashesTables : \E i \in 1 .. Len(s) : s[i] = t
  BY <1>5, <1>6 DEF Surjection
<1>9. QED BY <1>6, <1>7, <1>8 DEF s

LEMMA HashesInitially == Hashes!Init => HashesInv
<1> SUFFICES ASSUME Hashes!Init PROVE HashesInv
  OBVIOUS
<1>1. HashesTyped
  <2>1. queue \in Seq(HashesTables) /\ handler \in Seq({"lock", "cancel", "drain"})
    BY DEF Hashes!Init
  <2>2. /\ main = "idle" /\ stop = FALSE /\ hit = {}
        /\ hashesPc = [w \in HashesWorkers |-> "done"] /\ on = [w \in HashesWorkers |-> ""]
        /\ status = [t \in HashesTables |-> "pending"]
        /\ stale = [t \in HashesTables |-> HashesRows]
        /\ writing = [t \in HashesTables |-> {}] /\ touched = [t \in HashesTables |-> {}]
    BY DEF Hashes!Init, Hashes!None
  <2>3. QED BY <2>1, <2>2 DEF HashesTyped
<1>2. HashesBounds
  BY HashesLimits DEF Hashes!Init, HashesBounds
<1>3. Holding
  BY DEF Hashes!Init, Holding, HoldsTable, Hashes!None
<1>4. Queued /\ Taken
  BY DEF Hashes!Init, Queued, Taken, InQueue
<1>5. Covered
  BY DEF Hashes!Init, Covered
<1>6. QED BY <1>1, <1>2, <1>3, <1>4, <1>5 DEF HashesInv

\* The first table leaves the queue.
LEMMA QueueMoves ==
  ASSUME HashesTyped, queue # <<>>
  PROVE  /\ Head(queue) \in HashesTables /\ Head(queue) = queue[1] /\ 1 \in 1 .. Len(queue)
         /\ Tail(queue) \in Seq(HashesTables)
         /\ \A i \in 1 .. Len(Tail(queue)) : i + 1 \in 1 .. Len(queue) /\ Tail(queue)[i] = queue[i + 1]
         /\ \A i \in 1 .. Len(queue) :
               i = 1 \/ (i - 1 \in 1 .. Len(Tail(queue)) /\ Tail(queue)[i - 1] = queue[i])
<1>1. queue \in Seq(HashesTables)
  BY DEF HashesTyped
<1>2. /\ Len(queue) \in Nat /\ Len(queue) # 0 /\ Len(Tail(queue)) = Len(queue) - 1
      /\ Head(queue) = queue[1] /\ Tail(queue) \in Seq(HashesTables)
      /\ \A i \in 1 .. Len(Tail(queue)) : Tail(queue)[i] = queue[i + 1]
  BY <1>1, HeadTailProperties, LenProperties, EmptySeq
<1>3. queue[1] \in HashesTables
  BY <1>1, <1>2, ElementOfSeq
<1>4. QED BY <1>2, <1>3

LEMMA HashesStart == HashesInv /\ Hashes!Start => HashesInv'
<1> SUFFICES ASSUME HashesInv, Hashes!Start PROVE HashesInv'
  OBVIOUS
<1> DEFINE s == Hashes!SetToSeq(HashesTables)
<1>1. /\ queue' = s /\ stop' = FALSE /\ main = "idle" /\ main' = "join"
      /\ hashesPc' = [w \in HashesWorkers |-> "next"]
      /\ status' = [t \in HashesTables |-> "pending"]
      /\ UNCHANGED <<handler, on, hit, stale, writing, touched, hashesEdits, hashesFaults>>
  BY DEF Hashes!Start, Hashes!data
<1>2. /\ s \in Seq(HashesTables)
      /\ \A i, j \in 1 .. Len(s) : s[i] = s[j] => i = j
      /\ \A t \in HashesTables : \E i \in 1 .. Len(s) : s[i] = t
      /\ \A i \in 1 .. Len(s) : s[i] \in HashesTables
  BY HashesOrder, ElementOfSeq
<1> HIDE DEF s
<1>3. HashesTyped'
  BY <1>1, <1>2 DEF HashesInv, HashesTyped
<1>4. \A w \in HashesWorkers : on[w] = "" /\ w \notin hit
  BY <1>1 DEF HashesInv, Holding, HoldsTable, Taken
<1>5. Holding'
  <2>1. \A w \in HashesWorkers : ~HoldsTable(w)' /\ on'[w] = ""
    BY <1>1, <1>4 DEF HoldsTable
  <2>2. hit \subseteq HashesWorkers
    BY DEF HashesInv, HashesTyped
  <2>3. \A w \in HashesWorkers : w \notin hit'
    BY <1>1, <1>4
  <2>4. \A t \in HashesTables : status'[t] # "running"
    BY <1>1
  <2>5. QED BY <1>1, <2>1, <2>2, <2>3, <2>4 DEF Holding
<1>6. Queued'
  <2>1. \A i \in 1 .. Len(s) : s[i] # ""
    BY <1>2, HashesNames
  <2>2. QED BY <1>1, <1>2, <1>4, <2>1 DEF Queued
<1>7. Taken'
  <2>1. handler = <<>>
    BY <1>1 DEF HashesInv, Taken
  <2>2. QED BY <1>1, <1>2, <2>1 DEF Taken, InQueue
<1>8. Covered'
  BY <1>1 DEF Covered
<1>9. HashesBounds'
  BY <1>1 DEF HashesInv, HashesBounds
<1>10. QED BY <1>3, <1>5, <1>6, <1>7, <1>8, <1>9 DEF HashesInv

\* The frames of the handler.
LEMMA HandlerMoves ==
  ASSUME HashesTyped
  PROVE  LET Frames == {"lock", "cancel", "drain"} IN
         /\ Append(handler, "lock") \in Seq(Frames) /\ Append(handler, "lock") # <<>>
         /\ handler # <<>> =>
               /\ Hashes!Front(handler) \in Seq(Frames)
               /\ \A f \in Frames : /\ [handler EXCEPT ![Len(handler)] = f] \in Seq(Frames)
                                    /\ [handler EXCEPT ![Len(handler)] = f] # <<>>
<1> DEFINE Frames == {"lock", "cancel", "drain"}
<1>1. handler \in Seq(Frames)
  BY DEF HashesTyped
<1> HIDE DEF Frames
<1>2. ASSUME handler # <<>>, NEW f \in Frames
      PROVE  /\ [handler EXCEPT ![Len(handler)] = f] \in Seq(Frames)
             /\ [handler EXCEPT ![Len(handler)] = f] # <<>>
  BY <1>1, <1>2, ExceptSeq, EmptySeq, LenProperties
<1>3. ASSUME handler # <<>> PROVE Hashes!Front(handler) \in Seq(Frames)
  BY <1>1, <1>3 DEF Hashes!Front
<1>4. Append(handler, "lock") \in Seq(Frames) /\ Append(handler, "lock") # <<>>
  BY <1>1 DEF Frames
<1>5. QED BY <1>2, <1>3, <1>4 DEF Frames

LEMMA HashesMain ==
  HashesInv /\ (Hashes!End \/ Hashes!Terminate \/ Hashes!AcquireLock \/ Hashes!Cancel) => HashesInv'
<1> SUFFICES ASSUME HashesInv, Hashes!End \/ Hashes!Terminate \/ Hashes!AcquireLock \/ Hashes!Cancel
             PROVE  HashesInv'
  OBVIOUS
<1> USE DEF Hashes!HandlerAt, Hashes!Frame
<1>1. UNCHANGED <<queue, hashesPc, on, status, stale, writing, touched, hashesEdits>>
  BY DEF Hashes!End, Hashes!Terminate, Hashes!AcquireLock, Hashes!Cancel, Hashes!data
<1>a. HashesTyped
  BY DEF HashesInv
<1>2. /\ main' \in {"idle", "join"} /\ main # "idle"
      /\ stop' = stop \/ stop' = TRUE
      /\ hit' = hit \/ \E s \in SUBSET {w \in HashesWorkers : hashesPc[w] \in {"alter", "count", "update"}} :
                           hit' = hit \cup s
      /\ main' = "idle" => stop' = stop /\ \A w \in HashesWorkers : hashesPc[w] = "done"
      /\ handler' # <<>> => main' = "join" /\ stop' = TRUE
  <2>1. CASE Hashes!End
    BY <2>1 DEF Hashes!End
  <2>2. CASE Hashes!Terminate
    BY <2>2 DEF Hashes!Terminate
  <2>3. CASE Hashes!AcquireLock \/ Hashes!Cancel
    <3>1. handler # <<>> /\ UNCHANGED <<main, stop>>
      BY <2>3 DEF Hashes!AcquireLock, Hashes!Cancel
    <3>2. main = "join" /\ stop = TRUE
      BY <3>1 DEF HashesInv, Taken
    <3>3. hit' = hit \/ \E s \in SUBSET {w \in HashesWorkers : hashesPc[w] \in {"alter", "count", "update"}} :
                           hit' = hit \cup s
      BY <2>3 DEF Hashes!AcquireLock, Hashes!Cancel, Hashes!Querying
    <3>4. QED BY <3>1, <3>2, <3>3
  <2>4. QED BY <2>1, <2>2, <2>3
<1>b. handler' \in Seq({"lock", "cancel", "drain"})
  <2>1. CASE Hashes!End
    BY <1>a, <2>1 DEF Hashes!End, HashesTyped
  <2>2. CASE Hashes!Terminate
    BY <1>a, <2>2, HandlerMoves DEF Hashes!Terminate
  <2>3. CASE Hashes!AcquireLock \/ Hashes!Cancel
    BY <1>a, <2>3, HandlerMoves DEF Hashes!AcquireLock, Hashes!Cancel
  <2>4. QED BY <2>1, <2>2, <2>3
<1>3. HashesTyped'
  BY <1>1, <1>2, <1>a, <1>b DEF HashesTyped
<1>4. Holding'
  <2>1. \A w \in hit' : HoldsTable(w)
    <3>1. \A w \in hit : HoldsTable(w)
      BY DEF HashesInv, Holding
    <3>2. ASSUME NEW s \in SUBSET {w \in HashesWorkers : hashesPc[w] \in {"alter", "count", "update"}}
          PROVE  \A w \in s : HoldsTable(w)
      BY DEF HoldsTable
    <3>3. QED BY <1>2, <3>1, <3>2
  <2>2. \A w : HoldsTable(w)' <=> HoldsTable(w)
    BY <1>1 DEF HoldsTable
  <2>3. QED BY <1>1, <2>1, <2>2 DEF HashesInv, Holding
<1>5. Queued'
  BY <1>1 DEF HashesInv, Queued
<1>6. Taken'
  <2>1. handler' # <<>> => main' = "join" /\ stop' = TRUE
    BY <1>2
  <2>2. main' = "idle" => \A w \in HashesWorkers : hashesPc'[w] = "done"
    BY <1>1, <1>2
  <2>3. ASSUME stop' = FALSE, main' # "idle"
        PROVE  /\ \A t \in HashesTables : status'[t] = "pending" =>
                     InQueue(t)' \/ \E w \in HashesWorkers : on'[w] = t
               /\ \A w \in HashesWorkers : hashesPc'[w] = "done" => queue' = <<>>
    BY <1>1, <1>2, <2>3 DEF HashesInv, Taken, InQueue
  <2>4. ASSUME stop' = FALSE, main' = "idle"
        PROVE  /\ queue' = <<>>
               /\ \A t \in HashesTables : status'[t] # "pending"
    <3>1. queue = <<>>
      <4>1. PICK w \in HashesWorkers : TRUE
        BY HashesNames
      <4>2. hashesPc[w] = "done" /\ stop = FALSE /\ main # "idle"
        BY <1>2, <2>4
      <4>3. QED BY <4>2 DEF HashesInv, Taken
    <3>2. \A t \in HashesTables : ~InQueue(t) /\ ~ \E w \in HashesWorkers : on[w] = t
      <4>1. \A w \in HashesWorkers : on[w] = ""
        BY <1>2, <2>4 DEF HashesInv, Holding, HoldsTable
      <4>2. \A t : ~InQueue(t)
        BY <3>1 DEF InQueue
      <4>3. QED BY <4>1, <4>2, HashesNames
    <3>3. QED BY <1>1, <1>2, <2>4, <3>1, <3>2 DEF HashesInv, Taken
  <2>5. QED BY <2>1, <2>2, <2>3, <2>4 DEF Taken
<1>7. Covered'
  BY <1>1 DEF HashesInv, Covered
<1>8. HashesBounds'
  BY <1>1, HashesLimits DEF HashesInv, HashesBounds, Hashes!End, Hashes!Terminate, Hashes!AcquireLock, Hashes!Cancel
<1>9. QED BY <1>3, <1>4, <1>5, <1>6, <1>7, <1>8 DEF HashesInv

LEMMA HashesDrain == HashesInv /\ Hashes!Drain => HashesInv'
<1> SUFFICES ASSUME HashesInv, Hashes!Drain PROVE HashesInv'
  OBVIOUS
<1>a. handler # <<>>
  BY DEF Hashes!Drain, Hashes!HandlerAt
<1>1. /\ main = "join" /\ stop = TRUE
      /\ UNCHANGED <<main, stop, hashesPc, on, hit, status, stale, writing, touched, hashesEdits, hashesFaults>>
      /\ queue' = queue \/ (queue # <<>> /\ queue' = Tail(queue))
      /\ handler' = handler \/ handler' = Hashes!Front(handler)
  BY <1>a DEF Hashes!Drain, Hashes!data, HashesInv, Taken
<1>2. HashesTyped'
  <2>1. queue' \in Seq(HashesTables)
    BY <1>1, QueueMoves DEF HashesInv, HashesTyped
  <2>2. handler' \in Seq({"lock", "cancel", "drain"})
    BY <1>1, <1>a, HandlerMoves DEF HashesInv, HashesTyped
  <2>3. QED BY <1>1, <2>1, <2>2 DEF HashesInv, HashesTyped
<1>3. Holding'
  BY <1>1 DEF HashesInv, Holding, HoldsTable
<1>4. Queued'
  <2>1. CASE queue' = queue
    BY <1>1, <2>1 DEF HashesInv, Queued
  <2>2. CASE queue # <<>> /\ queue' = Tail(queue)
    <3>1. HashesTyped /\ Queued /\ Len(Tail(queue)) \in Nat
      BY <2>2, QueueMoves, LenProperties DEF HashesInv
    <3>2. ASSUME NEW i \in 1 .. Len(Tail(queue)), NEW j \in 1 .. Len(Tail(queue)), Tail(queue)[i] = Tail(queue)[j]
          PROVE  i = j
      <4>1. i + 1 = j + 1
        BY <2>2, <3>1, <3>2, QueueMoves DEF Queued
      <4>2. QED BY <4>1, <3>1
    <3>3. QED BY <1>1, <2>2, <3>1, <3>2, QueueMoves DEF Queued
  <2>3. QED BY <1>1, <2>1, <2>2
<1>5. Taken'
  <2>1. main # "idle"
    BY <1>1
  <2>2. QED BY <1>1, <2>1 DEF Taken
<1>6. Covered' /\ HashesBounds'
  BY <1>1 DEF HashesInv, Covered, HashesBounds
<1>7. QED BY <1>2, <1>3, <1>4, <1>5, <1>6 DEF HashesInv

\* What is held stays held while only the workers' places move on.
LEMMA HashesHolds ==
  ASSUME HashesInv, UNCHANGED <<on, hit, status>>,
         \A x \in HashesWorkers : /\ HoldsTable(x)' <=> HoldsTable(x)
                                  /\ hashesPc'[x] = "connect" <=> hashesPc[x] = "connect"
  PROVE  Holding'
<1>1. \A w \in HashesWorkers : HoldsTable(w)' <=> on'[w] # ""
  <2>1. \A w \in HashesWorkers : HoldsTable(w) <=> on[w] # ""
    BY DEF HashesInv, Holding
  <2>2. QED BY <2>1
<1>2. \A w \in HashesWorkers : hashesPc'[w] = "connect" => status'[on'[w]] = "pending"
  <2>1. \A w \in HashesWorkers : hashesPc[w] = "connect" => status[on[w]] = "pending"
    BY DEF HashesInv, Holding
  <2>2. QED BY <2>1
<1>3. \A w \in HashesWorkers : HoldsTable(w)' /\ hashesPc'[w] # "connect" => status'[on'[w]] = "running"
  <2>1. \A w \in HashesWorkers : HoldsTable(w) /\ hashesPc[w] # "connect" => status[on[w]] = "running"
    BY DEF HashesInv, Holding
  <2>2. QED BY <2>1
<1>4. \A w, x \in HashesWorkers : HoldsTable(w)' /\ on'[x] = on'[w] => x = w
  <2>1. \A w, x \in HashesWorkers : HoldsTable(w) /\ on[x] = on[w] => x = w
    BY DEF HashesInv, Holding
  <2>2. QED BY <2>1
<1>5. \A t \in HashesTables : status'[t] = "running" => \E w \in HashesWorkers : on'[w] = t
  BY DEF HashesInv, Holding
<1>6. \A w \in hit' : HoldsTable(w)'
  <2>1. hit \subseteq HashesWorkers /\ \A w \in hit : HoldsTable(w)
    BY DEF HashesInv, HashesTyped, Holding
  <2>2. QED BY <2>1
<1>7. QED BY <1>1, <1>2, <1>3, <1>4, <1>5, <1>6 DEF Holding

\* A worker without a table asks whether to stop, and takes the next.
LEMMA HashesAsk ==
  ASSUME HashesInv, NEW w \in HashesWorkers, Hashes!Ask(w),
         UNCHANGED <<main, handler, stop, writing, hashesEdits, hashesFaults>>
  PROVE  HashesInv'
<1>1. /\ hashesPc[w] = "next" /\ hashesPc' = [hashesPc EXCEPT ![w] = IF stop THEN "done" ELSE "fetch"]
      /\ UNCHANGED <<main, handler, queue, stop, on, hit, status, stale, writing, touched, hashesEdits, hashesFaults>>
  BY DEF Hashes!Ask, Hashes!Goto
<1>2. HashesTyped'
  BY <1>1 DEF HashesInv, HashesTyped
<1>3. \A x \in HashesWorkers :
         /\ HoldsTable(x)' <=> HoldsTable(x)
         /\ hashesPc'[x] = "connect" <=> hashesPc[x] = "connect"
         /\ hashesPc'[x] \in {"count", "check", "update"} => hashesPc[x] \in {"count", "check", "update"}
  BY <1>1 DEF HashesInv, HashesTyped, HoldsTable
<1>4. Holding'
  BY <1>1, <1>3, HashesHolds
<1>5. Queued' /\ HashesBounds'
  BY <1>1 DEF HashesInv, Queued, HashesBounds
<1>6. Taken'
  <2>1. main # "idle"
    BY <1>1 DEF HashesInv, Taken
  <2>2. stop = FALSE => \A x \in HashesWorkers : hashesPc'[x] = "done" => hashesPc[x] = "done"
    BY <1>1 DEF HashesInv, HashesTyped
  <2>3. QED BY <1>1, <2>1, <2>2 DEF HashesInv, Taken, InQueue
<1>7. Covered'
  BY <1>1, <1>3 DEF HashesInv, Covered
<1>8. QED BY <1>2, <1>4, <1>5, <1>6, <1>7 DEF HashesInv

LEMMA HashesTake ==
  ASSUME HashesInv, NEW w \in HashesWorkers, Hashes!Take(w),
         UNCHANGED <<main, handler, stop, writing, hashesEdits, hashesFaults>>
  PROVE  HashesInv'
<1>0. /\ UNCHANGED <<main, handler, stop>>
      /\ handler # <<>> => main = "join" /\ stop = TRUE
  BY DEF HashesInv, Taken
<1>1. hashesPc[w] = "fetch" /\ main # "idle" /\ on[w] = "" /\ w \notin hit
  BY DEF Hashes!Take, Hashes!Goto, HashesInv, Taken, Holding, HoldsTable
<1>2. UNCHANGED <<main, handler, stop, hit, status, stale, writing, touched, hashesEdits, hashesFaults>>
  BY DEF Hashes!Take
<1>3. CASE queue = <<>>
  <2>1. hashesPc' = [hashesPc EXCEPT ![w] = "done"] /\ UNCHANGED <<queue, on>>
    BY <1>3 DEF Hashes!Take, Hashes!Goto
  <2>2. HashesTyped'
    BY <1>2, <2>1 DEF HashesInv, HashesTyped
  <2>3. \A x \in HashesWorkers :
           /\ HoldsTable(x)' <=> HoldsTable(x)
           /\ hashesPc'[x] = "connect" <=> hashesPc[x] = "connect"
           /\ hashesPc'[x] \in {"count", "check", "update"} => hashesPc[x] \in {"count", "check", "update"}
    BY <1>1, <2>1 DEF HashesInv, HashesTyped, HoldsTable
  <2>4. Holding'
    BY <1>2, <2>1, <2>3, HashesHolds
  <2>5. Queued' /\ HashesBounds'
    BY <1>2, <2>1 DEF HashesInv, Queued, HashesBounds
  <2>6. Taken'
    <3>1. \A t : InQueue(t)' <=> InQueue(t)
      BY <2>1 DEF InQueue
    <3>2. /\ main' # "idle" /\ stop' = stop
          /\ handler' # <<>> => main' = "join" /\ stop' = TRUE
      BY <1>0, <1>1
    <3>3. stop' = FALSE => \A t \in HashesTables : status'[t] = "pending" =>
             InQueue(t)' \/ \E x \in HashesWorkers : on'[x] = t
      BY <1>1, <1>2, <2>1, <3>1, <3>2 DEF HashesInv, Taken
    <3>4. QED BY <1>3, <2>1, <3>2, <3>3 DEF Taken
  <2>7. Covered'
    BY <1>2, <2>1, <2>3 DEF HashesInv, Covered
  <2>8. QED BY <2>2, <2>4, <2>5, <2>6, <2>7 DEF HashesInv
<1>4. CASE queue # <<>>
  <2> DEFINE t == queue[1]
  <2>0. HashesTyped
    BY DEF HashesInv
  <2>1. t \in HashesTables /\ 1 \in 1 .. Len(queue) /\ t = Head(queue) /\ t # ""
    BY <1>4, <2>0, QueueMoves, HashesNames
  <2>2. /\ hashesPc' = [hashesPc EXCEPT ![w] = "connect"] /\ on' = [on EXCEPT ![w] = t]
        /\ queue' = Tail(queue)
    BY <1>4, <2>1 DEF Hashes!Take, Hashes!Goto
  <2>3. status[t] = "pending"
    BY <2>1 DEF HashesInv, Queued
  <2> HIDE DEF t
  <2>4. HashesTyped'
    <3>1. queue' \in Seq(HashesTables)
      BY <1>4, <2>0, <2>2, QueueMoves
    <3>2. QED BY <1>2, <2>1, <2>2, <3>1 DEF HashesInv, HashesTyped
  <2>5. /\ HoldsTable(w)' /\ on'[w] = t /\ hashesPc'[w] = "connect" /\ status' = status
        /\ \A x \in HashesWorkers \ {w} : (HoldsTable(x)' <=> HoldsTable(x)) /\ on'[x] = on[x] /\ hashesPc'[x] = hashesPc[x]
    BY <1>2, <2>0, <2>1, <2>2 DEF HashesTyped, HoldsTable
  <2>6. \A x \in HashesWorkers : on[x] # t
    BY <2>1 DEF HashesInv, Queued, t
  <2>7. Holding'
    <3>1. \A x \in HashesWorkers : HoldsTable(x)' <=> on'[x] # ""
      BY <2>1, <2>5 DEF HashesInv, Holding
    <3>a. \A x \in HashesWorkers : hashesPc'[x] = "connect" => status'[on'[x]] = "pending"
      <4>1. \A x \in HashesWorkers \ {w} : hashesPc[x] = "connect" => status[on[x]] = "pending"
        BY DEF HashesInv, Holding
      <4>2. QED BY <2>3, <2>5, <4>1
    <3>2. \A x \in HashesWorkers : HoldsTable(x)' /\ hashesPc'[x] # "connect" =>
             status'[on'[x]] = "running"
      <4>1. \A x \in HashesWorkers \ {w} : HoldsTable(x) /\ hashesPc[x] # "connect" => status[on[x]] = "running"
        BY DEF HashesInv, Holding
      <4>2. QED BY <2>5, <4>1
    <3>3. ASSUME NEW x \in HashesWorkers, NEW y \in HashesWorkers, HoldsTable(x)', on'[y] = on'[x]
          PROVE  y = x
      <4>1. CASE x = w
        BY <2>5, <2>6, <3>3, <4>1
      <4>2. CASE y = w
        BY <2>5, <2>6, <3>3, <4>2
      <4>3. CASE x # w /\ y # w
        <5>1. HoldsTable(x) /\ on[y] = on[x]
          BY <2>5, <3>3, <4>3
        <5>2. QED BY <5>1 DEF HashesInv, Holding
      <4>4. QED BY <4>1, <4>2, <4>3
    <3>4. \A u \in HashesTables : status'[u] = "running" => \E x \in HashesWorkers : on'[x] = u
      <4> SUFFICES ASSUME NEW u \in HashesTables, status[u] = "running" PROVE \E x \in HashesWorkers : on'[x] = u
        BY <2>5
      <4>1. PICK x \in HashesWorkers : on[x] = u
        BY DEF HashesInv, Holding
      <4>2. x # w
        BY <1>1, <4>1, HashesNames
      <4>3. QED BY <2>5, <4>1, <4>2
    <3>5. \A x \in hit' : HoldsTable(x)'
      BY <1>1, <1>2, <2>0, <2>5 DEF HashesInv, Holding, HashesTyped
    <3>6. QED BY <3>1, <3>a, <3>2, <3>3, <3>4, <3>5 DEF Holding
  <2>8. Queued'
    <3>1. Len(Tail(queue)) \in Nat
      BY <2>0, <1>4, QueueMoves, LenProperties
    <3>2. ASSUME NEW i \in 1 .. Len(Tail(queue)), NEW j \in 1 .. Len(Tail(queue)), Tail(queue)[i] = Tail(queue)[j]
          PROVE  i = j
      <4>1. i + 1 = j + 1
        BY <1>4, <2>0, <3>2, QueueMoves DEF HashesInv, Queued
      <4>2. QED BY <3>1, <4>1
    <3>3. ASSUME NEW i \in 1 .. Len(Tail(queue))
          PROVE  /\ status'[Tail(queue)[i]] = "pending"
                 /\ \A x \in HashesWorkers : on'[x] # Tail(queue)[i]
      <4>1. i + 1 \in 1 .. Len(queue) /\ Tail(queue)[i] = queue[i + 1] /\ i + 1 # 1
        BY <1>4, <2>0, <3>1, QueueMoves
      <4>2. queue[i + 1] # t
        BY <2>1, <4>1 DEF t, HashesInv, Queued
      <4>3. /\ status[queue[i + 1]] = "pending"
            /\ \A x \in HashesWorkers : on[x] # queue[i + 1]
        BY <4>1 DEF HashesInv, Queued
      <4>4. QED BY <2>5, <4>1, <4>2, <4>3
    <3>4. QED BY <2>2, <3>2, <3>3 DEF Queued
  <2>9. Taken'
    <3>1. ASSUME stop = FALSE, NEW u \in HashesTables, status'[u] = "pending", u # t
          PROVE  InQueue(u)' \/ \E x \in HashesWorkers : on'[x] = u
      <4>1. InQueue(u) \/ \E x \in HashesWorkers : on[x] = u
        BY <1>1, <2>5, <3>1 DEF HashesInv, Taken
      <4>2. CASE InQueue(u)
        <5>1. PICK i \in 1 .. Len(queue) : queue[i] = u
          BY <4>2 DEF InQueue
        <5>2. i # 1
          BY <3>1, <5>1 DEF t
        <5>3. i - 1 \in 1 .. Len(Tail(queue)) /\ Tail(queue)[i - 1] = u
          BY <1>4, <2>0, <5>1, <5>2, QueueMoves
        <5>4. QED BY <2>2, <5>3 DEF InQueue
      <4>3. ASSUME NEW x \in HashesWorkers, on[x] = u PROVE \E y \in HashesWorkers : on'[y] = u
        <5>1. x # w
          BY <1>1, <4>3, HashesNames
        <5>2. QED BY <2>5, <4>3, <5>1
      <4>4. QED BY <4>1, <4>2, <4>3
    <3>2. stop = FALSE => \A x \in HashesWorkers : hashesPc'[x] # "done"
      BY <1>1, <1>4, <2>0, <2>2, <2>5 DEF HashesInv, Taken, HashesTyped
    <3>3. main' # "idle" /\ (handler' # <<>> => main' = "join" /\ stop' = TRUE)
      BY <1>0, <1>1
    <3>4. QED BY <1>2, <2>5, <3>1, <3>2, <3>3 DEF Taken
  <2>10. Covered'
    <3>1. \A x \in HashesWorkers : hashesPc'[x] \in {"count", "check", "update"} => x # w
      BY <2>0, <2>2 DEF HashesTyped
    <3>2. QED BY <1>2, <2>5, <3>1 DEF HashesInv, Covered
  <2>11. HashesBounds'
    BY <1>2 DEF HashesInv, HashesBounds
  <2>12. QED BY <2>4, <2>7, <2>8, <2>9, <2>10, <2>11 DEF HashesInv
<1>5. QED BY <1>3, <1>4

\* A worker that goes on with the table it holds.
LEMMA HashesGoOn ==
  ASSUME HashesInv, NEW w \in HashesWorkers, HoldsTable(w),
         hashesPc[w] # "connect", NEW p \in {"alter", "count", "check", "update"},
         hashesPc' = [hashesPc EXCEPT ![w] = p],
         UNCHANGED <<main, handler, queue, stop, on, hit, status, writing, hashesEdits, hashesFaults>>,
         NEW b, NEW T, stale' = [stale EXCEPT ![on[w]] = @ \ b], T \in {{}, touched[on[w]]},
         touched' = [touched EXCEPT ![on[w]] = T],
         p \in {"count", "check", "update"} => writing[on[w]] \subseteq T
  PROVE  HashesInv'
<1> DEFINE t == on[w]
<1>0. HashesTyped
  BY DEF HashesInv
<1>1. t \in HashesTables /\ status[t] = "running" /\ main # "idle"
  <2>1. on[w] # "" /\ status[on[w]] = "running"
    BY DEF HashesInv, Holding
  <2>2. main # "idle"
    BY DEF HoldsTable, HashesInv, Taken
  <2>3. QED BY <1>0, <2>1, <2>2 DEF HashesTyped
<1> HIDE DEF t
<1>2. /\ stale' \in [HashesTables -> SUBSET HashesRows] /\ touched' \in [HashesTables -> SUBSET HashesRows]
      /\ \A u \in HashesTables \ {t} : stale'[u] = stale[u] /\ touched'[u] = touched[u]
      /\ touched'[t] = T
  BY <1>0, <1>1 DEF HashesTyped, t
<1>3. HashesTyped'
  BY <1>0, <1>2 DEF HashesTyped
<1>4. \A x \in HashesWorkers :
         /\ HoldsTable(x)' <=> HoldsTable(x)
         /\ hashesPc'[x] = "done" <=> hashesPc[x] = "done"
         /\ hashesPc'[x] = "connect" <=> hashesPc[x] = "connect"
         /\ x # w => hashesPc'[x] = hashesPc[x]
         /\ hashesPc'[w] = p
  BY <1>0 DEF HashesTyped, HoldsTable
<1>5. Holding'
  BY <1>4, HashesHolds
<1>6. Queued' /\ HashesBounds'
  BY DEF HashesInv, Queued, HashesBounds
<1>7. Taken'
  <2>1. \A u : InQueue(u)' <=> InQueue(u)
    BY DEF InQueue
  <2>2. QED BY <1>1, <1>4, <2>1 DEF HashesInv, Taken
<1>8. Covered'
  <2>1. ASSUME NEW u \in HashesTables, status'[u] \in {"completed", "skipped"}
        PROVE  stale'[u] \cup writing'[u] \subseteq touched'[u]
    <3>1. u # t /\ status[u] \in {"completed", "skipped"}
      BY <1>1, <2>1
    <3>2. QED BY <1>2, <3>1 DEF HashesInv, Covered
  <2>2. ASSUME NEW x \in HashesWorkers, hashesPc'[x] \in {"count", "check", "update"}
        PROVE  writing'[on'[x]] \subseteq touched'[on'[x]]
    <3>1. CASE x = w
      BY <1>2, <1>4, <2>2, <3>1 DEF t
    <3>2. CASE x # w
      <4>1. hashesPc[x] \in {"count", "check", "update"} /\ HoldsTable(x)
        BY <1>4, <2>2, <3>2 DEF HoldsTable
      <4>2. on[x] # "" /\ on[x] # t
        BY <3>2, <4>1 DEF HashesInv, Holding, t
      <4>3. on[x] \in HashesTables
        BY <1>0, <4>2 DEF HashesTyped
      <4>4. QED BY <1>2, <4>1, <4>2, <4>3 DEF HashesInv, Covered
    <3>3. QED BY <3>1, <3>2
  <2>3. QED BY <2>1, <2>2 DEF Covered
<1>9. QED BY <1>3, <1>5, <1>6, <1>7, <1>8 DEF HashesInv

\* A worker that records the table it holds.
LEMMA HashesRecord ==
  ASSUME HashesInv, NEW w \in HashesWorkers, HoldsTable(w), NEW s \in {"completed", "skipped", "error"},
         Hashes!Record(w, s),
         UNCHANGED <<main, handler, queue, stop, stale, writing, touched, hashesEdits>>,
         hashesFaults' \in 0 .. MaxHashesFaults,
         s # "error" => stale[on[w]] \cup writing[on[w]] \subseteq touched[on[w]]
  PROVE  HashesInv'
<1> DEFINE t == on[w]
<1>0. HashesTyped
  BY DEF HashesInv
<1>1. t \in HashesTables /\ status[t] \in {"pending", "running"} /\ main # "idle"
  <2>1. on[w] # "" /\ status[on[w]] \in {"pending", "running"}
    BY DEF HashesInv, Holding
  <2>2. main # "idle"
    BY DEF HoldsTable, HashesInv, Taken
  <2>3. QED BY <1>0, <2>1, <2>2 DEF HashesTyped
<1>2. /\ status' = [status EXCEPT ![t] = s] /\ hashesPc' = [hashesPc EXCEPT ![w] = "next"]
      /\ on' = [on EXCEPT ![w] = ""] /\ hit' = hit \ {w}
  BY DEF Hashes!Record, Hashes!None
<1> HIDE DEF t
<1>3. HashesTyped'
  BY <1>0, <1>1, <1>2 DEF HashesTyped
<1>4. /\ hashesPc'[w] = "next" /\ ~HoldsTable(w)' /\ on'[w] = "" /\ status'[t] = s
      /\ \A x \in HashesWorkers \ {w} : (HoldsTable(x)' <=> HoldsTable(x)) /\ on'[x] = on[x] /\ hashesPc'[x] = hashesPc[x]
      /\ \A u \in HashesTables \ {t} : status'[u] = status[u]
  BY <1>0, <1>1, <1>2 DEF HashesTyped, HoldsTable
<1>5. \A x \in HashesWorkers \ {w} : on[x] # t
  BY DEF HashesInv, Holding, t
<1>6. Holding'
  <2>1. \A x \in HashesWorkers : HoldsTable(x)' <=> on'[x] # ""
    <3>1. ASSUME NEW x \in HashesWorkers \ {w} PROVE HoldsTable(x)' <=> on'[x] # ""
      <4>1. HoldsTable(x) <=> on[x] # ""
        BY DEF HashesInv, Holding
      <4>2. QED BY <1>4, <4>1
    <3>2. QED BY <1>4, <3>1
  <2>a. \A x \in HashesWorkers \ {w} : HoldsTable(x) => status'[on'[x]] = status[on[x]]
    <3> SUFFICES ASSUME NEW x \in HashesWorkers \ {w}, HoldsTable(x)
                 PROVE  status'[on[x]] = status[on[x]]
      BY <1>4
    <3>1. on[x] # "" /\ on[x] # t
      BY <1>5 DEF HashesInv, Holding
    <3>2. on[x] \in HashesTables
      BY <1>0, <3>1 DEF HashesTyped
    <3>3. QED BY <1>4, <3>1, <3>2
  <2>b. \A x \in HashesWorkers : hashesPc'[x] = "connect" => status'[on'[x]] = "pending"
    <3>1. \A x \in HashesWorkers : hashesPc'[x] = "connect" => x # w /\ hashesPc[x] = "connect" /\ HoldsTable(x)
      BY <1>4 DEF HoldsTable
    <3>2. \A x \in HashesWorkers : hashesPc[x] = "connect" => status[on[x]] = "pending"
      BY DEF HashesInv, Holding
    <3>3. QED BY <2>a, <3>1, <3>2
  <2>2. \A x \in HashesWorkers : HoldsTable(x)' /\ hashesPc'[x] # "connect" =>
           status'[on'[x]] = "running"
    <3>1. \A x \in HashesWorkers : HoldsTable(x) /\ hashesPc[x] # "connect" => status[on[x]] = "running"
      BY DEF HashesInv, Holding
    <3>2. QED BY <1>4, <2>a, <3>1
  <2>3. ASSUME NEW x \in HashesWorkers, NEW y \in HashesWorkers, HoldsTable(x)', on'[y] = on'[x]
        PROVE  y = x
    <3>1. x # w
      BY <1>4, <2>3
    <3>2. HoldsTable(x) /\ on'[x] = on[x] /\ on[x] # ""
      BY <1>4, <2>3, <3>1 DEF HashesInv, Holding
    <3>3. y # w
      BY <1>4, <2>3, <3>2
    <3>4. on[y] = on[x]
      BY <1>4, <2>3, <3>2, <3>3
    <3>5. QED BY <3>2, <3>4 DEF HashesInv, Holding
  <2>4. \A u \in HashesTables : status'[u] = "running" => \E x \in HashesWorkers : on'[x] = u
    <3> SUFFICES ASSUME NEW u \in HashesTables \ {t}, status[u] = "running" PROVE \E x \in HashesWorkers : on'[x] = u
      BY <1>4
    <3>1. PICK x \in HashesWorkers : on[x] = u
      BY DEF HashesInv, Holding
    <3>2. x # w
      BY <3>1 DEF t
    <3>3. QED BY <1>4, <3>1, <3>2
  <2>5. \A x \in hit' : HoldsTable(x)'
    BY <1>0, <1>2, <1>4 DEF HashesInv, Holding, HashesTyped
  <2>6. QED BY <2>1, <2>b, <2>2, <2>3, <2>4, <2>5 DEF Holding
<1>7. Queued'
  <2>1. ASSUME NEW i \in 1 .. Len(queue)
        PROVE  status'[queue[i]] = "pending" /\ \A x \in HashesWorkers : on'[x] # queue[i]
    <3>1. /\ queue[i] \in HashesTables /\ status[queue[i]] = "pending"
          /\ \A x \in HashesWorkers : on[x] # queue[i]
      BY <1>0, ElementOfSeq DEF HashesInv, Queued, HashesTyped
    <3>2. queue[i] # t /\ queue[i] # ""
      BY <3>1, HashesNames DEF t
    <3>3. QED BY <1>4, <3>1, <3>2
  <2>2. QED BY <2>1 DEF HashesInv, Queued
<1>8. Taken'
  <2>1. \A u : InQueue(u)' <=> InQueue(u)
    BY DEF InQueue
  <2>2. \A u \in HashesTables : status'[u] = "pending" => u # t /\ status[u] = "pending"
    BY <1>1, <1>4
  <2>a. \A u \in HashesTables \ {t} : \A x \in HashesWorkers : on[x] = u => on'[x] = u
    BY <1>4 DEF t
  <2>3. \A x \in HashesWorkers : hashesPc'[x] = "done" => hashesPc[x] = "done"
    BY <1>4
  <2>b. ASSUME stop = FALSE, NEW u \in HashesTables, status'[u] = "pending"
        PROVE  InQueue(u)' \/ \E x \in HashesWorkers : on'[x] = u
    BY <1>1, <2>1, <2>2, <2>a, <2>b DEF HashesInv, Taken
  <2>4. QED BY <1>1, <2>3, <2>b DEF HashesInv, Taken
<1>9. Covered'
  <2>1. \A u \in HashesTables \ {t} : status'[u] = status[u]
    BY <1>4
  <2>2. status'[t] \in {"completed", "skipped"} => stale[t] \cup writing[t] \subseteq touched[t]
    BY <1>4 DEF t
  <2>3. \A x \in HashesWorkers : hashesPc'[x] \in {"count", "check", "update"} => x # w
    BY <1>4
  <2>4. QED BY <1>4, <2>1, <2>2, <2>3 DEF HashesInv, Covered
<1>10. HashesBounds'
  BY DEF HashesInv, HashesBounds
<1>11. QED BY <1>3, <1>6, <1>7, <1>8, <1>9, <1>10 DEF HashesInv

\* A worker that shows its table as running and connects.
LEMMA HashesConnect ==
  ASSUME HashesInv, NEW w \in HashesWorkers, Hashes!Connect(w),
         UNCHANGED <<main, handler, stop, writing, hashesEdits, hashesFaults>>
  PROVE  HashesInv'
<1> DEFINE t == on[w]
<1>0. HashesTyped
  BY DEF HashesInv
<1>1. /\ hashesPc[w] = "connect" /\ hashesPc' = [hashesPc EXCEPT ![w] = "register"]
      /\ status' = [status EXCEPT ![t] = "running"] /\ HoldsTable(w)
      /\ UNCHANGED <<main, handler, queue, stop, on, hit, stale, writing, touched, hashesEdits,
                     hashesFaults>>
  BY DEF Hashes!Connect, Hashes!Goto, HoldsTable
<1>2. t \in HashesTables /\ status[t] = "pending" /\ main # "idle"
  <2>1. on[w] # "" /\ status[on[w]] = "pending"
    BY <1>1 DEF HashesInv, Holding
  <2>2. main # "idle"
    BY <1>1 DEF HashesInv, Taken
  <2>3. QED BY <1>0, <2>1, <2>2 DEF HashesTyped
<1>3. \A x \in HashesWorkers \ {w} : on[x] # t
  BY <1>1 DEF HashesInv, Holding
<1>4. on[w] = t
  OBVIOUS
<1> HIDE DEF t
<1>5. HashesTyped'
  BY <1>0, <1>1, <1>2 DEF HashesTyped
<1>6. /\ status'[t] = "running" /\ hashesPc'[w] = "register"
      /\ \A u \in HashesTables \ {t} : status'[u] = status[u]
      /\ \A x \in HashesWorkers : HoldsTable(x)' <=> HoldsTable(x)
      /\ \A x \in HashesWorkers \ {w} : hashesPc'[x] = hashesPc[x]
  BY <1>0, <1>1, <1>2 DEF HashesTyped, HoldsTable
<1>7. Holding'
  <2>1. ASSUME NEW x \in HashesWorkers, HoldsTable(x), x # w
        PROVE  status'[on[x]] = status[on[x]]
    <3>1. on[x] # "" /\ on[x] # t
      BY <1>3, <2>1 DEF HashesInv, Holding
    <3>2. on[x] \in HashesTables
      BY <1>0, <3>1 DEF HashesTyped
    <3>3. QED BY <1>6, <3>1, <3>2
  <2>a. \A x \in HashesWorkers : hashesPc'[x] = "connect" => status'[on'[x]] = "pending"
    <3>1. \A x \in HashesWorkers : hashesPc'[x] = "connect" => x # w /\ hashesPc[x] = "connect" /\ HoldsTable(x)
      BY <1>6 DEF HoldsTable
    <3>2. QED BY <1>1, <2>1, <3>1 DEF HashesInv, Holding
  <2>2. \A x \in HashesWorkers : HoldsTable(x)' /\ hashesPc'[x] # "connect" =>
           status'[on'[x]] = "running"
    <3>1. \A x \in HashesWorkers : HoldsTable(x) /\ hashesPc[x] # "connect" => status[on[x]] = "running"
      BY DEF HashesInv, Holding
    <3>2. QED BY <1>1, <1>4, <1>6, <2>1, <3>1
  <2>3. \A u \in HashesTables : status'[u] = "running" => \E x \in HashesWorkers : on'[x] = u
    <3>1. \A u \in HashesTables : status[u] = "running" => \E x \in HashesWorkers : on[x] = u
      BY DEF HashesInv, Holding
    <3>2. QED BY <1>1, <1>4, <1>6, <3>1
  <2>4. \A x \in HashesWorkers : HoldsTable(x)' <=> on'[x] # ""
    BY <1>1, <1>6 DEF HashesInv, Holding
  <2>5. \A x, y \in HashesWorkers : HoldsTable(x)' /\ on'[y] = on'[x] => y = x
    BY <1>1, <1>6 DEF HashesInv, Holding
  <2>6. \A x \in hit' : HoldsTable(x)'
    BY <1>0, <1>1, <1>6 DEF HashesInv, Holding, HashesTyped
  <2>7. QED BY <2>a, <2>2, <2>3, <2>4, <2>5, <2>6 DEF Holding
<1>8. Queued'
  <2>1. ASSUME NEW i \in 1 .. Len(queue) PROVE status'[queue[i]] = "pending"
    <3>1. /\ queue[i] \in HashesTables /\ status[queue[i]] = "pending"
          /\ queue[i] # t
      BY <1>0, <1>4, ElementOfSeq DEF HashesInv, Queued, HashesTyped
    <3>2. QED BY <1>6, <3>1
  <2>2. QED BY <1>1, <2>1 DEF HashesInv, Queued
<1>9. Taken'
  <2>1. \A u : InQueue(u)' <=> InQueue(u)
    BY <1>1 DEF InQueue
  <2>2. \A u \in HashesTables : status'[u] = "pending" => status[u] = "pending"
    BY <1>2, <1>6
  <2>3. \A x \in HashesWorkers : hashesPc'[x] = "done" => hashesPc[x] = "done"
    BY <1>6
  <2>4. QED BY <1>1, <1>2, <2>1, <2>2, <2>3 DEF HashesInv, Taken
<1>10. Covered'
  <2>1. \A u \in HashesTables : status'[u] \in {"completed", "skipped"} => status[u] = status'[u]
    BY <1>6
  <2>2. \A x \in HashesWorkers : hashesPc'[x] \in {"count", "check", "update"} => x # w
    BY <1>6
  <2>3. QED BY <1>1, <1>6, <2>1, <2>2 DEF HashesInv, Covered
<1>11. HashesBounds'
  BY <1>1 DEF HashesInv, HashesBounds
<1>12. QED BY <1>5, <1>7, <1>8, <1>9, <1>10, <1>11 DEF HashesInv

LEMMA HashesWorker ==
  ASSUME HashesInv, NEW w \in HashesWorkers, Hashes!Work(w)
  PROVE  HashesInv'
<1>0. UNCHANGED <<main, handler, stop, writing, hashesEdits, hashesFaults>> /\ HashesTyped
  BY DEF Hashes!Work, HashesInv
<1>a. hashesFaults' \in 0 .. MaxHashesFaults
  BY <1>0 DEF HashesInv, HashesBounds
<1>b. HoldsTable(w) => on[w] \in HashesTables
  <2>1. HoldsTable(w) => on[w] # ""
    BY DEF HashesInv, Holding
  <2>2. QED BY <1>0, <2>1 DEF HashesTyped
<1>c. HoldsTable(w) => /\ stale = [stale EXCEPT ![on[w]] = @ \ {}]
                       /\ touched = [touched EXCEPT ![on[w]] = touched[on[w]]]
  BY <1>0, <1>b DEF HashesTyped
<1>d. hashesPc[w] \in {"count", "check", "update"} => writing[on[w]] \subseteq touched[on[w]]
  BY DEF HashesInv, Covered
<1>1. CASE Hashes!Ask(w)
  BY <1>0, <1>1, HashesAsk
<1>2. CASE Hashes!Take(w)
  BY <1>0, <1>2, HashesTake
<1>3. CASE Hashes!Connect(w)
  BY <1>0, <1>3, HashesConnect
<1>e. CASE Hashes!Register(w)
  <2>1. /\ hashesPc[w] # "connect" /\ hashesPc' = [hashesPc EXCEPT ![w] = "alter"] /\ HoldsTable(w)
        /\ UNCHANGED <<queue, on, status, stale, touched, hit>>
    BY <1>e DEF Hashes!Register, Hashes!Goto, HoldsTable
  <2>2. QED BY <1>0, <1>c, <2>1, HashesGoOn
<1>4. CASE Hashes!Alter(w)
  <2>1. /\ hashesPc[w] # "connect" /\ hashesPc' = [hashesPc EXCEPT ![w] = "count"] /\ writing[on[w]] = {} /\ HoldsTable(w)
        /\ touched' = [touched EXCEPT ![on[w]] = {}] /\ UNCHANGED <<queue, on, status, stale, hit>>
    BY <1>4 DEF Hashes!Alter, Hashes!Goto, HoldsTable
  <2>2. QED BY <1>0, <1>c, <2>1, HashesGoOn
<1>5. CASE Hashes!Count(w)
  <2>1. hashesPc[w] = "count" /\ HoldsTable(w) /\ UNCHANGED <<queue, stale, touched>>
    BY <1>5 DEF Hashes!Count, HoldsTable
  <2>2. CASE stale[on[w]] = {}
    <3>1. Hashes!Record(w, "skipped")
      BY <1>5, <2>2 DEF Hashes!Count
    <3>2. stale[on[w]] \cup writing[on[w]] \subseteq touched[on[w]]
      BY <1>d, <2>1, <2>2
    <3>3. QED BY <1>0, <1>a, <2>1, <3>1, <3>2, HashesRecord
  <2>3. CASE stale[on[w]] # {}
    <3>1. hashesPc' = [hashesPc EXCEPT ![w] = "check"] /\ UNCHANGED <<on, status, hit>>
      BY <1>5, <2>3 DEF Hashes!Count, Hashes!Goto
    <3>2. QED BY <1>0, <1>c, <1>d, <2>1, <3>1, HashesGoOn
  <2>4. QED BY <2>2, <2>3
<1>6. CASE Hashes!Check(w)
  <2>1. hashesPc[w] = "check" /\ HoldsTable(w) /\ UNCHANGED <<queue, stale, touched>>
    BY <1>6 DEF Hashes!Check, HoldsTable
  <2>2. CASE stop
    <3>1. Hashes!Record(w, "error")
      BY <1>6, <2>2 DEF Hashes!Check
    <3>2. QED BY <1>0, <1>a, <2>1, <3>1, HashesRecord
  <2>3. CASE ~stop
    <3>1. hashesPc' = [hashesPc EXCEPT ![w] = "update"] /\ UNCHANGED <<on, status, hit>>
      BY <1>6, <2>3 DEF Hashes!Check, Hashes!Goto
    <3>2. QED BY <1>0, <1>c, <1>d, <2>1, <3>1, HashesGoOn
  <2>4. QED BY <2>2, <2>3
<1>7. CASE Hashes!Batch(w)
  <2>1. hashesPc[w] = "update" /\ HoldsTable(w) /\ UNCHANGED <<queue, touched>>
    BY <1>7 DEF Hashes!Batch, HoldsTable
  <2>2. CASE stale[on[w]] \ writing[on[w]] = {}
    <3>1. Hashes!Record(w, "completed") /\ UNCHANGED stale
      BY <1>7, <2>2 DEF Hashes!Batch
    <3>2. stale[on[w]] \cup writing[on[w]] \subseteq touched[on[w]]
      BY <1>d, <2>1, <2>2
    <3>3. QED BY <1>0, <1>a, <2>1, <3>1, <3>2, HashesRecord
  <2>3. CASE stale[on[w]] \ writing[on[w]] # {}
    <3>1. /\ hashesPc' = [hashesPc EXCEPT ![w] = "check"] /\ UNCHANGED <<on, status, hit>>
          /\ \E b : stale' = [stale EXCEPT ![on[w]] = @ \ b]
      BY <1>7, <2>3 DEF Hashes!Batch, Hashes!Goto
    <3>2. PICK b : stale' = [stale EXCEPT ![on[w]] = @ \ b]
      BY <3>1
    <3>3. QED BY <1>0, <1>c, <1>d, <2>1, <3>1, <3>2, HashesGoOn
  <2>4. QED BY <2>2, <2>3
<1>8. CASE Hashes!Cancelled(w)
  <2>1. HoldsTable(w) /\ Hashes!Record(w, "error") /\ UNCHANGED <<queue, stale, touched>>
    BY <1>8 DEF Hashes!Cancelled, HashesInv, Holding
  <2>2. QED BY <1>0, <1>a, <2>1, HashesRecord
<1>9. QED BY <1>1, <1>2, <1>3, <1>e, <1>4, <1>5, <1>6, <1>7, <1>8 DEF Hashes!Work

LEMMA HashesFail ==
  ASSUME HashesInv, NEW w \in HashesWorkers, Hashes!Fail(w)
  PROVE  HashesInv'
<1>1. /\ HoldsTable(w) /\ Hashes!Record(w, "error")
      /\ UNCHANGED <<main, handler, queue, stop, stale, writing, touched, hashesEdits>>
  BY DEF Hashes!Fail, Hashes!Querying, Hashes!data, HoldsTable
<1>2. hashesFaults' \in 0 .. MaxHashesFaults
  BY HashesLimits DEF Hashes!Fail, HashesInv, HashesBounds
<1>3. QED BY <1>1, <1>2, HashesRecord

\* What another session locks or writes is touched.
LEMMA HashesSessions ==
  ASSUME HashesInv, NEW t \in HashesTables, Hashes!Write(t) \/ Hashes!EndWrite(t)
  PROVE  HashesInv'
<1>0. HashesTyped
  BY DEF HashesInv
<1>1. UNCHANGED <<main, handler, queue, stop, hashesPc, on, hit, status, hashesFaults>>
  BY DEF Hashes!Write, Hashes!EndWrite
<1>2. /\ stale' \in [HashesTables -> SUBSET HashesRows] /\ writing' \in [HashesTables -> SUBSET HashesRows]
      /\ touched' \in [HashesTables -> SUBSET HashesRows]
      /\ \A u \in HashesTables :
            /\ touched[u] \subseteq touched'[u]
            /\ stale'[u] \cup writing'[u] \subseteq stale[u] \cup writing[u] \cup touched'[u]
            /\ writing'[u] \subseteq writing[u] \cup touched'[u]
  <2>1. CASE Hashes!Write(t)
    <3>1. PICK rs \in SUBSET HashesRows : /\ writing' = [writing EXCEPT ![t] = rs]
                                          /\ touched' = [touched EXCEPT ![t] = @ \cup rs]
      BY <2>1 DEF Hashes!Write
    <3>2. stale' = stale
      BY <2>1 DEF Hashes!Write
    <3>3. QED BY <1>0, <3>1, <3>2 DEF HashesTyped
  <2>2. CASE Hashes!EndWrite(t)
    <3>1. /\ writing' = [writing EXCEPT ![t] = {}] /\ touched' = touched
          /\ stale' = stale \/ stale' = [stale EXCEPT ![t] = @ \cup writing[t]]
      BY <2>2 DEF Hashes!EndWrite
    <3>2. QED BY <1>0, <3>1 DEF HashesTyped
  <2>3. QED BY <2>1, <2>2
<1>3. HashesTyped'
  BY <1>0, <1>1, <1>2 DEF HashesTyped
<1>4. Holding' /\ Queued'
  <2>1. Holding'
    BY <1>1, HashesHolds DEF HoldsTable
  <2>2. QED BY <1>1, <2>1 DEF HashesInv, Queued
<1>5. Taken'
  <2>1. \A u : InQueue(u)' <=> InQueue(u)
    BY <1>1 DEF InQueue
  <2>2. QED BY <1>1, <2>1 DEF HashesInv, Taken
<1>6. Covered'
  <2>1. \A u \in HashesTables :
           status'[u] \in {"completed", "skipped"} => stale'[u] \cup writing'[u] \subseteq touched'[u]
    BY <1>1, <1>2 DEF HashesInv, Covered
  <2>2. ASSUME NEW x \in HashesWorkers, hashesPc'[x] \in {"count", "check", "update"}
        PROVE  writing'[on'[x]] \subseteq touched'[on'[x]]
    <3>1. on[x] # "" /\ writing[on[x]] \subseteq touched[on[x]]
      BY <1>1, <2>2 DEF HashesInv, Covered, Holding, HoldsTable
    <3>2. on[x] \in HashesTables
      BY <1>0, <3>1 DEF HashesTyped
    <3>3. QED BY <1>1, <1>2, <3>1, <3>2
  <2>3. QED BY <2>1, <2>2 DEF Covered
<1>7. HashesBounds'
  BY <1>1, HashesLimits DEF HashesInv, HashesBounds, Hashes!Write, Hashes!EndWrite
<1>8. QED BY <1>3, <1>4, <1>5, <1>6, <1>7 DEF HashesInv

LEMMA HashesStep == HashesInv /\ [Hashes!Next]_hashes => HashesInv'
<1> SUFFICES ASSUME HashesInv, [Hashes!Next]_hashes PROVE HashesInv'
  OBVIOUS
<1>1. CASE Hashes!Main \/ Hashes!Terminate
  BY <1>1, HashesStart, HashesMain, HashesDrain DEF Hashes!Main
<1>2. CASE \E w \in HashesWorkers : Hashes!Work(w) \/ Hashes!Fail(w)
  BY <1>2, HashesWorker, HashesFail
<1>3. CASE \E t \in HashesTables : Hashes!Write(t) \/ Hashes!EndWrite(t)
  BY <1>3, HashesSessions
<1>4. CASE UNCHANGED hashes
  <2>1. UNCHANGED <<main, handler, queue, stop, hashesPc, on, hit, status, stale, writing, touched,
                    hashesEdits, hashesFaults>>
    BY <1>4 DEF hashes
  <2>2. HashesTyped' /\ HashesBounds' /\ Queued' /\ Covered'
    BY <2>1 DEF HashesInv, HashesTyped, HashesBounds, Queued, Covered
  <2>5. Holding'
    BY <2>1, HashesHolds DEF HoldsTable
  <2>3. Taken'
    BY <2>1 DEF HashesInv, Taken, InQueue
  <2>4. QED BY <2>2, <2>3, <2>5 DEF HashesInv
<1>5. QED BY <1>1, <1>2, <1>3, <1>4 DEF Hashes!Next

(***************************************************************************)
(* Reader grants: a script is what its catalog and its streams ask for, so *)
(* that it leaves just that where they are the current ones.               *)
(***************************************************************************)
KeptOf(cols, s) ==
  CASE s.kind = "all" -> cols
    [] s.kind = "except" -> cols \ s.cols
    [] s.kind = "only" -> s.cols
    [] s.kind = "off" -> {}

GrantOf(cols, s) ==
  IF s.kind = "all" THEN [table |-> TRUE, cols |-> {}] ELSE [table |-> FALSE, cols |-> KeptOf(cols, s)]

Mirrored(streams) == {t \in GrantTables : streams[t].kind # "off"}
GrantsOf(cat, streams) == [t \in Mirrored(streams) |-> GrantOf(cat[t], streams[t])]

Stream == [kind : {"off", "all", "except", "only"}, cols : SUBSET GrantColumns]
TableGrant == [table : BOOLEAN, cols : SUBSET GrantColumns]

ScriptOf(s) ==
  /\ s.kind \in {"setup", "refresh"} /\ s.password \in 0 .. MaxGrantRenders
  /\ s.from.catalog \in [GrantTables -> SUBSET GrantColumns]
  /\ s.from.stream \in [GrantTables -> GrantStreams]
  /\ s.grants = GrantsOf(s.from.catalog, s.from.stream)
  /\ \A t \in Mirrored(s.from.stream) : KeptOf(s.from.catalog[t], s.from.stream[t]) # {}

GrantsTyped ==
  /\ catalog \in [GrantTables -> SUBSET GrantColumns] /\ stream \in [GrantTables -> GrantStreams]
  /\ acl \in [GrantTables -> TableGrant]
  /\ \A t \in GrantTables : acl[t].cols \subseteq catalog[t]
  /\ settled \subseteq {"setup", "refresh"}
  /\ copied \in [GrantTables -> SUBSET GrantColumns]

ScriptTyped == script = {} \/ \E s : script = {s} /\ ScriptOf(s)

ReportTyped == report \subseteq {<<>>} \cup {<<t>> : t \in GrantTables} \cup (GrantTables \X GrantColumns)

GrantsBounds ==
  /\ password \in 0 .. MaxGrantRenders /\ url \in 0 .. MaxGrantRenders
  /\ grantsChanges \in 0 .. MaxGrantChanges /\ renders \in 0 .. MaxGrantRenders
  /\ grantsFaults \in 0 .. MaxGrantFaults

GrantsInv == GrantsTyped /\ ScriptTyped /\ ReportTyped /\ GrantsBounds /\ Grants!GrantsMatch

LEMMA GrantLimits == MaxGrantChanges \in Nat /\ MaxGrantRenders \in Nat /\ MaxGrantFaults \in Nat
BY GrantAssumption

LEMMA GrantStreamTypes == GrantStreams \subseteq Stream /\ GrantStart \in [GrantTables -> GrantStreams]
BY GrantAssumption DEF Stream

LEMMA GrantsTypeOK == GrantsInv => Grants!TypeOK
<1> SUFFICES ASSUME GrantsInv PROVE Grants!TypeOK
  OBVIOUS
<1>0. \A S : Grants!Cardinality(S) = Cardinality(S)
  BY Zenon DEF Cardinality, Grants!Cardinality
<1>1. Grants!Cardinality(script) <= 1
  BY <1>0, FS_EmptySet, FS_Singleton DEF GrantsInv, ScriptTyped
<1>2. report \subseteq {Grants!NotChecked} \cup {<<t>> : t \in GrantTables} \cup (GrantTables \X GrantColumns)
  BY DEF GrantsInv, ReportTyped, Grants!NotChecked
<1>3. acl \in [GrantTables -> Grants!Grant]
  BY DEF GrantsInv, GrantsTyped, TableGrant, Grants!Grant
<1>4. QED BY <1>1, <1>2, <1>3 DEF GrantsInv, GrantsTyped, GrantsBounds, Grants!TypeOK

LEMMA GrantsSound == GrantsInv => Grants!GrantsMatch
BY DEF GrantsInv

LEMMA KeptType ==
  ASSUME NEW cols \in SUBSET GrantColumns, NEW s \in Stream
  PROVE  KeptOf(cols, s) \in SUBSET GrantColumns /\ GrantOf(cols, s) \in TableGrant
<1>1. s.kind \in {"off", "all", "except", "only"} /\ s.cols \in SUBSET GrantColumns
  BY DEF Stream
<1>2. KeptOf(cols, s) \in SUBSET GrantColumns
  BY <1>1 DEF KeptOf
<1>3. QED BY <1>2 DEF GrantOf, TableGrant

LEMMA KeptNow == \A t : Grants!Kept(t) = KeptOf(catalog[t], stream[t]) /\ Grants!Derived(t) = GrantOf(catalog[t], stream[t])
<1>1. \A t : Grants!Kept(t) = KeptOf(catalog[t], stream[t])
  BY DEF Grants!Kept, KeptOf
<1>2. QED BY <1>1 DEF Grants!Derived, GrantOf

LEMMA GrantsStart == Grants!Init => GrantsInv
<1> SUFFICES ASSUME Grants!Init PROVE GrantsInv
  OBVIOUS
<1>1. GrantsTyped
  BY GrantStreamTypes DEF Grants!Init, Grants!None, GrantsTyped, TableGrant
<1>2. ScriptTyped /\ ReportTyped /\ Grants!GrantsMatch
  BY DEF Grants!Init, ScriptTyped, ReportTyped, Grants!GrantsMatch
<1>3. GrantsBounds
  BY GrantLimits DEF Grants!Init, GrantsBounds
<1>4. QED BY <1>1, <1>2, <1>3 DEF GrantsInv

\* What the reader is left with depends on the catalog, the streams and its grants.
LEMMA MatchKept ==
  ASSUME Grants!GrantsMatch, UNCHANGED <<catalog, stream, acl, settled>>
  PROVE  Grants!GrantsMatch'
BY DEF Grants!GrantsMatch, Grants!Active, Grants!Mismatches, Grants!Kept, Grants!Readable, Grants!Verified

LEMMA GrantsChange ==
  ASSUME GrantsInv, NEW t \in GrantTables, Grants!Migrate(t) \/ Grants!EditStream(t)
  PROVE  GrantsInv'
<1>1. /\ settled' = {} /\ grantsChanges < MaxGrantChanges /\ grantsChanges' = grantsChanges + 1
      /\ UNCHANGED <<password, url, script, copied, report, renders, grantsFaults>>
  BY DEF Grants!Migrate, Grants!EditStream
<1>2. GrantsTyped'
  <2>1. CASE Grants!Migrate(t)
    <3>1. PICK cols \in SUBSET GrantColumns :
             /\ catalog' = [catalog EXCEPT ![t] = cols]
             /\ acl' = [acl EXCEPT ![t] = IF cols = {} THEN Grants!None ELSE [acl[t] EXCEPT !.cols = @ \cap cols]]
      BY <2>1 DEF Grants!Migrate
    <3> DEFINE g == IF cols = {} THEN Grants!None ELSE [acl[t] EXCEPT !.cols = @ \cap cols]
    <3>2. acl[t] \in TableGrant /\ acl[t].cols \subseteq catalog[t]
      BY DEF GrantsInv, GrantsTyped
    <3>3. g \in TableGrant /\ g.cols \subseteq cols
      BY <3>2 DEF TableGrant, Grants!None
    <3>4. acl' = [acl EXCEPT ![t] = g]
      <4>1. CASE cols = {}
        BY <3>1, <4>1
      <4>2. CASE cols # {}
        BY <3>1, <4>2
      <4>3. QED BY <4>1, <4>2
    <3> HIDE DEF g
    <3>5. stream' = stream
      BY <2>1 DEF Grants!Migrate
    <3>6. QED BY <1>1, <3>1, <3>3, <3>4, <3>5 DEF GrantsInv, GrantsTyped
  <2>2. CASE Grants!EditStream(t)
    <3>1. \E s \in GrantStreams : stream' = [stream EXCEPT ![t] = s]
      BY <2>2 DEF Grants!EditStream
    <3>2. UNCHANGED <<catalog, acl>>
      BY <2>2 DEF Grants!EditStream
    <3>3. QED BY <1>1, <3>1, <3>2 DEF GrantsInv, GrantsTyped
  <2>3. QED BY <2>1, <2>2
<1>3. ScriptTyped' /\ ReportTyped'
  BY <1>1 DEF GrantsInv, ScriptTyped, ReportTyped
<1>4. GrantsBounds'
  BY <1>1, GrantLimits DEF GrantsInv, GrantsBounds
<1>5. Grants!GrantsMatch'
  BY <1>1 DEF Grants!GrantsMatch
<1>6. QED BY <1>2, <1>3, <1>4, <1>5 DEF GrantsInv

LEMMA GrantsRender ==
  ASSUME GrantsInv, NEW kind \in {"setup", "refresh"}, Grants!Render(kind)
  PROVE  GrantsInv'
<1>1. UNCHANGED <<catalog, stream, acl, password, settled, copied, report, grantsChanges, grantsFaults>>
  BY DEF Grants!Render
<1>2. GrantsTyped' /\ ReportTyped'
  BY <1>1 DEF GrantsInv, GrantsTyped, ReportTyped
<1>3. Grants!GrantsMatch'
  BY <1>1, MatchKept DEF GrantsInv
<1>4. GrantsBounds'
  BY <1>1, GrantLimits DEF Grants!Render, GrantsInv, GrantsBounds
<1>5. ScriptTyped'
  <2> DEFINE s == [kind |-> kind, password |-> renders + 1, grants |-> GrantsOf(catalog, stream),
                   from |-> [catalog |-> catalog, stream |-> stream]]
  <2>1. Mirrored(stream) = Grants!Active
    BY DEF Mirrored, Grants!Active
  <2>2. [t \in Grants!Active |-> Grants!Derived(t)] = GrantsOf(catalog, stream)
    BY <2>1, KeptNow DEF GrantsOf
  <2>3. script' = {s}
    BY <2>2 DEF Grants!Render
  <2>4. \A t \in Mirrored(stream) : KeptOf(catalog[t], stream[t]) # {}
    BY <2>1, KeptNow DEF Grants!Render, Grants!Fits
  <2>5. renders + 1 \in 0 .. MaxGrantRenders
    BY GrantLimits DEF Grants!Render, GrantsInv, GrantsBounds
  <2>6. ScriptOf(s)
    <3>1. s.kind = kind /\ s.password = renders + 1 /\ s.from.catalog = catalog /\ s.from.stream = stream
          /\ s.grants = GrantsOf(catalog, stream)
      OBVIOUS
    <3> HIDE DEF s
    <3>2. catalog \in [GrantTables -> SUBSET GrantColumns] /\ stream \in [GrantTables -> GrantStreams]
      BY DEF GrantsInv, GrantsTyped
    <3>3. QED BY <3>1, <3>2, <2>4, <2>5 DEF ScriptOf
  <2> HIDE DEF s
  <2>7. QED BY <2>3, <2>6 DEF ScriptTyped
<1>6. QED BY <1>2, <1>3, <1>4, <1>5 DEF GrantsInv

\* The tables that a script names get what it was rendered for, the others nothing new.
LEMMA GrantsApply == GrantsInv /\ Grants!Apply => GrantsInv'
<1> SUFFICES ASSUME GrantsInv, Grants!Apply PROVE GrantsInv'
  OBVIOUS
<1> DEFINE Old(s, t) == IF t \in Grants!Revokes(s) THEN Grants!None ELSE acl[t]
           New(s, t) == IF t \notin DOMAIN s.grants THEN Old(s, t)
                        ELSE [table |-> Old(s, t).table \/ s.grants[t].table,
                              cols |-> Old(s, t).cols \cup s.grants[t].cols]
<1>1. UNCHANGED <<catalog, stream, url, copied, report, grantsChanges, renders, grantsFaults>> /\ script' = {}
  BY DEF Grants!Apply
<1>2. PICK s \in script :
         /\ \A t \in DOMAIN s.grants : catalog[t] # {} /\ s.grants[t].cols \subseteq catalog[t]
         /\ acl' = [t \in GrantTables |-> New(s, t)]
         /\ password' = IF s.kind = "setup" THEN s.password ELSE password
         /\ settled' = IF s.from = [catalog |-> catalog, stream |-> stream] THEN {s.kind} ELSE {}
  BY DEF Grants!Apply
<1>3. ScriptOf(s)
  BY <1>2 DEF GrantsInv, ScriptTyped
<1>4. /\ s.kind \in {"setup", "refresh"} /\ s.password \in 0 .. MaxGrantRenders
      /\ s.grants = GrantsOf(s.from.catalog, s.from.stream)
      /\ DOMAIN s.grants = Mirrored(s.from.stream)
      /\ \A t \in Mirrored(s.from.stream) : s.grants[t] = GrantOf(s.from.catalog[t], s.from.stream[t])
  BY <1>3 DEF ScriptOf, GrantsOf
<1>5. \A t \in DOMAIN s.grants : t \in GrantTables /\ s.grants[t] \in TableGrant
  <2> SUFFICES ASSUME NEW t \in DOMAIN s.grants PROVE t \in GrantTables /\ s.grants[t] \in TableGrant
    OBVIOUS
  <2>1. t \in GrantTables
    BY <1>4 DEF Mirrored
  <2>2. s.from.catalog[t] \in SUBSET GrantColumns /\ s.from.stream[t] \in Stream
    BY <1>3, <2>1, GrantStreamTypes DEF ScriptOf
  <2>3. QED BY <1>4, <2>1, <2>2, KeptType
<1>6. ASSUME NEW t \in GrantTables PROVE New(s, t) \in TableGrant /\ New(s, t).cols \subseteq catalog[t]
  <2>1. acl[t] \in TableGrant /\ acl[t].cols \subseteq catalog[t]
    BY DEF GrantsInv, GrantsTyped
  <2>2. Old(s, t) \in TableGrant /\ Old(s, t).cols \subseteq catalog[t]
    BY <2>1 DEF Grants!None, TableGrant
  <2> HIDE DEF Old
  <2>3. CASE t \in DOMAIN s.grants
    <3> DEFINE g == [table |-> Old(s, t).table \/ s.grants[t].table, cols |-> Old(s, t).cols \cup s.grants[t].cols]
    <3>1. s.grants[t] \in TableGrant /\ s.grants[t].cols \subseteq catalog[t]
      BY <1>2, <1>5, <2>3
    <3>2. (Old(s, t).table \/ s.grants[t].table) \in BOOLEAN /\ Old(s, t).cols \cup s.grants[t].cols \subseteq catalog[t]
      BY <2>2, <3>1
    <3>3. catalog[t] \subseteq GrantColumns
      BY DEF GrantsInv, GrantsTyped
    <3>4. g \in TableGrant /\ g.cols \subseteq catalog[t]
      BY <3>2, <3>3 DEF TableGrant
    <3> HIDE DEF g
    <3>5. New(s, t) = g
      BY <2>3 DEF g
    <3>6. QED BY <3>4, <3>5
  <2>4. CASE t \notin DOMAIN s.grants
    BY <2>2, <2>4
  <2>5. QED BY <2>3, <2>4
<1>7. \A t \in GrantTables : acl'[t] = New(s, t)
  BY <1>2
<1> HIDE DEF New
<1>8. GrantsTyped'
  <2>1. acl' \in [GrantTables -> TableGrant] /\ \A t \in GrantTables : acl'[t].cols \subseteq catalog[t]
    BY <1>2, <1>6
  <2>2. settled' \subseteq {"setup", "refresh"}
    BY <1>2, <1>4
  <2>3. QED BY <1>1, <2>1, <2>2 DEF GrantsInv, GrantsTyped
<1>9. ScriptTyped' /\ ReportTyped'
  BY <1>1 DEF GrantsInv, ScriptTyped, ReportTyped
<1>10. GrantsBounds'
  BY <1>1, <1>2, <1>4 DEF GrantsInv, GrantsBounds
<1>11. Grants!GrantsMatch'
  <2>1. CASE s.from # [catalog |-> catalog, stream |-> stream]
    BY <1>2, <2>1 DEF Grants!GrantsMatch
  <2>2. CASE s.from = [catalog |-> catalog, stream |-> stream]
    <3>1. s.from.catalog = catalog /\ s.from.stream = stream
      BY <2>2
    <3>2. DOMAIN s.grants = Mirrored(stream) /\ Mirrored(stream) = Grants!Active
          /\ \A t \in Mirrored(stream) : s.grants[t] = GrantOf(catalog[t], stream[t]) /\ KeptOf(catalog[t], stream[t]) # {}
      BY <1>3, <1>4, <3>1 DEF ScriptOf, Mirrored, Grants!Active
    <3>3. ASSUME NEW t \in GrantTables, t \in Grants!Revokes(s)
          PROVE  /\ t \in DOMAIN s.grants =>
                      /\ acl'[t].table = s.grants[t].table
                      /\ acl'[t].cols = s.grants[t].cols
                 /\ t \notin DOMAIN s.grants => acl'[t] = [table |-> FALSE, cols |-> {}]
      <4>1. Old(s, t) = [table |-> FALSE, cols |-> {}]
        BY <3>3 DEF Grants!None
      <4>2. t \in DOMAIN s.grants => s.grants[t].table \in BOOLEAN
        BY <1>5 DEF TableGrant
      <4> HIDE DEF Old
      <4>3. CASE t \in DOMAIN s.grants
        <5>1. /\ New(s, t).table = (Old(s, t).table \/ s.grants[t].table)
              /\ New(s, t).cols = Old(s, t).cols \cup s.grants[t].cols
          BY <4>3 DEF New
        <5>2. Old(s, t).table = FALSE /\ Old(s, t).cols = {}
          BY <4>1
        <5>3. New(s, t).table = s.grants[t].table
          BY <4>2, <4>3, <5>1, <5>2
        <5>4. QED BY <1>7, <4>3, <5>1, <5>2, <5>3
      <4>4. CASE t \notin DOMAIN s.grants
        BY <1>7, <4>1, <4>4 DEF New
      <4>5. QED BY <4>3, <4>4
    <3>4. \A t \in DOMAIN s.grants : t \in Grants!Revokes(s)
      BY <1>4, <1>5 DEF Grants!Revokes
    <3>5. ASSUME NEW t \in Grants!Active
          PROVE  Grants!Mismatches(t)' = {} /\ Grants!Readable(t)' # {}
      <4>1. t \in GrantTables /\ t \in DOMAIN s.grants /\ t \in Mirrored(stream)
        BY <1>5, <3>2
      <4>2. acl'[t].table = GrantOf(catalog[t], stream[t]).table /\ acl'[t].cols = GrantOf(catalog[t], stream[t]).cols
        BY <3>2, <3>3, <3>4, <4>1
      <4>3. Grants!Kept(t)' = KeptOf(catalog[t], stream[t])
        BY <1>1 DEF Grants!Kept, KeptOf
      <4>4. Grants!Readable(t)' = KeptOf(catalog[t], stream[t])
        <5>1. CASE stream[t].kind = "all"
          <6>1. acl'[t].table = TRUE
            BY <4>2, <5>1 DEF GrantOf
          <6>2. QED BY <1>1, <5>1, <6>1 DEF Grants!Readable, KeptOf
        <5>2. CASE stream[t].kind # "all"
          <6>1. acl'[t].table = FALSE /\ acl'[t].cols = KeptOf(catalog[t], stream[t])
            BY <4>2, <5>2 DEF GrantOf
          <6>2. QED BY <6>1 DEF Grants!Readable
        <5>3. QED BY <5>1, <5>2
      <4>5. KeptOf(catalog[t], stream[t]) # {}
        BY <3>2, <4>1
      <4>6. QED BY <4>3, <4>4, <4>5 DEF Grants!Mismatches
    <3>6. Grants!Active' = Grants!Active
      BY <1>1 DEF Grants!Active
    <3>7. s.kind = "setup" => Grants!Verified'
      <4> SUFFICES ASSUME s.kind = "setup", NEW t \in GrantTables, t \notin Grants!Active
                   PROVE  Grants!Readable(t)' = {}
        BY <3>5, <3>6 DEF Grants!Verified
      <4>1. t \in Grants!Revokes(s) /\ t \notin DOMAIN s.grants
        BY <3>2 DEF Grants!Revokes
      <4>2. acl'[t].table = FALSE /\ acl'[t].cols = {}
        BY <3>3, <4>1
      <4>3. QED BY <4>2 DEF Grants!Readable
    <3>8. settled' = {s.kind}
      BY <1>2, <2>2
    <3>9. QED BY <3>5, <3>6, <3>7, <3>8 DEF Grants!GrantsMatch
  <2>3. QED BY <2>1, <2>2
<1>12. QED BY <1>8, <1>9, <1>10, <1>11 DEF GrantsInv

\* What is left changes neither the grants nor what they were derived from.
LEMMA GrantsOther ==
  ASSUME GrantsInv, \/ Grants!Discard \/ Grants!Check \/ Grants!CheckFails
                    \/ \E t \in GrantTables : Grants!Mirror(t)
  PROVE  GrantsInv'
<1>1. /\ UNCHANGED <<catalog, stream, acl, password, url, settled, grantsChanges, renders>>
      /\ script' \in {script, {}}
  BY DEF Grants!Discard, Grants!Check, Grants!CheckFails, Grants!Mirror
<1>2. GrantsTyped'
  <2>1. copied' \in [GrantTables -> SUBSET GrantColumns]
    <3>1. CASE \E t \in GrantTables : Grants!Mirror(t)
      <4>1. PICK t \in GrantTables : Grants!Mirror(t)
        BY <3>1
      <4>2. stream[t] \in Stream /\ catalog[t] \in SUBSET GrantColumns
        BY GrantStreamTypes DEF GrantsInv, GrantsTyped
      <4>3. Grants!Kept(t) \in SUBSET GrantColumns
        BY <4>2, KeptType, KeptNow
      <4>4. QED BY <4>1, <4>3 DEF Grants!Mirror, GrantsInv, GrantsTyped
    <3>2. CASE copied' = copied
      BY <3>2 DEF GrantsInv, GrantsTyped
    <3>3. QED BY <3>1, <3>2 DEF Grants!Discard, Grants!Check, Grants!CheckFails
  <2>2. QED BY <1>1, <2>1 DEF GrantsInv, GrantsTyped
<1>3. ScriptTyped'
  BY <1>1 DEF GrantsInv, ScriptTyped
<1>4. ReportTyped'
  <2>1. report' = report \/ report' = {<<>>} \/ report' = Grants!Findings
    BY DEF Grants!Discard, Grants!Check, Grants!CheckFails, Grants!Mirror, Grants!NotChecked
  <2>2. Grants!Findings \subseteq {<<t>> : t \in GrantTables} \cup (GrantTables \X GrantColumns)
    BY DEF Grants!Findings, Grants!Checked
  <2>3. QED BY <2>1, <2>2 DEF GrantsInv, ReportTyped
<1>5. GrantsBounds'
  <2>1. grantsFaults' \in 0 .. MaxGrantFaults
    BY GrantLimits DEF GrantsInv, GrantsBounds, Grants!Discard, Grants!Check, Grants!CheckFails, Grants!Mirror
  <2>2. QED BY <1>1, <2>1 DEF GrantsInv, GrantsBounds
<1>6. Grants!GrantsMatch'
  BY <1>1, MatchKept DEF GrantsInv
<1>7. QED BY <1>2, <1>3, <1>4, <1>5, <1>6 DEF GrantsInv

LEMMA GrantsStep == GrantsInv /\ [Grants!Next]_grants => GrantsInv'
<1> SUFFICES ASSUME GrantsInv, [Grants!Next]_grants PROVE GrantsInv'
  OBVIOUS
<1>1. CASE \E t \in GrantTables : Grants!Migrate(t) \/ Grants!EditStream(t)
  BY <1>1, GrantsChange
<1>2. CASE Grants!Render("setup") \/ Grants!Render("refresh")
  BY <1>2, GrantsRender
<1>3. CASE Grants!Apply
  BY <1>3, GrantsApply
<1>4. CASE Grants!Discard \/ Grants!Check \/ Grants!CheckFails \/ \E t \in GrantTables : Grants!Mirror(t)
  BY <1>4, GrantsOther
<1>5. CASE UNCHANGED grants
  <2>1. UNCHANGED <<catalog, stream, acl, password, url, script, settled, copied, report, grantsChanges,
                    renders, grantsFaults>>
    BY <1>5 DEF grants
  <2>2. Grants!GrantsMatch'
    BY <2>1, MatchKept DEF GrantsInv
  <2>3. QED BY <2>1, <2>2 DEF GrantsInv, GrantsTyped, ScriptTyped, ReportTyped, GrantsBounds
<1>6. QED BY <1>1, <1>2, <1>3, <1>4, <1>5 DEF Grants!Next

(***************************************************************************)
(* True-spend site: what a run is about to push, and what it pushed, has   *)
(* been found to add up, and it reads nothing in between.                  *)
(***************************************************************************)
MartNames == {"tree", "ledger", "programs"}
Shown == [MartNames -> DOMAIN SiteSpend]

SiteTyped ==
  /\ marts \in Shown
  /\ siteRun \in [SiteRuns -> [step : Site!Steps, site : Shown, moved : BOOLEAN]]
  /\ branch = Null \/ branch \in [site : Shown, byHand : BOOLEAN]
  /\ hands \in 0 .. MaxSiteHands /\ siteFaults \in 0 .. MaxSiteFaults

Validated ==
  /\ \A r \in SiteRuns : siteRun[r].step \in {"fetch", "push"} => Site!Reconciles(siteRun[r].site)
  /\ branch # Null => Site!Reconciles(branch.site)

SiteInv == SiteTyped /\ Validated

LEMMA SiteLimits == MaxSiteHands \in Nat /\ MaxSiteFaults \in Nat
BY SiteAssumption

LEMMA MartSet == Site!ToSet(Site!Marts) = MartNames /\ DOMAIN Site!Marts = 1 .. 3
BY DEF Site!ToSet, Site!Marts, MartNames

LEMMA SiteShown == Site!Site = Shown
BY MartSet DEF Site!Site, Site!Builds, Shown

LEMMA SiteTypeOK == SiteInv => Site!TypeOK
BY SiteShown DEF SiteInv, SiteTyped, Site!TypeOK

LEMMA SiteAddsUp == SiteInv => Site!NumbersAddUp
BY DEF SiteInv, Validated, Site!NumbersAddUp, Site!Reconciles

LEMMA FirstBuild == [m \in MartNames |-> 0] \in Shown /\ Site!Idle = [step |-> "idle", site |-> [m \in MartNames |-> 0], moved |-> FALSE]
<1>1. PICK n \in Nat : DOMAIN SiteSpend = 0 .. n
  BY SiteAssumption
<1>2. 0 \in DOMAIN SiteSpend
  BY <1>1
<1>3. QED BY <1>2, MartSet DEF Shown, Site!Idle

LEMMA SiteStart == Site!Init => SiteInv
<1> SUFFICES ASSUME Site!Init PROVE SiteInv
  OBVIOUS
<1>1. marts = [m \in MartNames |-> 0] /\ siteRun = [r \in SiteRuns |-> Site!Idle] /\ branch = Null
  BY MartSet DEF Site!Init
<1>2. Site!Idle \in [step : Site!Steps, site : Shown, moved : BOOLEAN] /\ Site!Idle.step = "idle"
  BY FirstBuild DEF Site!Steps
<1>3. hands \in 0 .. MaxSiteHands /\ siteFaults \in 0 .. MaxSiteFaults
  BY SiteLimits DEF Site!Init
<1>4. SiteTyped
  BY <1>1, <1>2, <1>3, FirstBuild DEF SiteTyped
<1>5. Validated
  BY <1>1, <1>2 DEF Validated
<1>6. QED BY <1>4, <1>5 DEF SiteInv

LEMMA SiteRebuild == SiteInv /\ Site!Rebuild => SiteInv'
<1> SUFFICES ASSUME SiteInv, Site!Rebuild PROVE SiteInv'
  OBVIOUS
<1> DEFINE i == IF Site!Behind = {} THEN 1 ELSE Site!Min(Site!Behind)
<1>1. UNCHANGED <<siteRun, branch, hands, siteFaults>> /\ marts' = [marts EXCEPT ![Site!Marts[i]] = @ + 1]
  BY DEF Site!Rebuild
<1>2. PICK n \in Nat : DOMAIN SiteSpend = 0 .. n
  BY SiteAssumption
<1>3. \A m \in MartNames : marts[m] \in 0 .. n
  BY <1>2 DEF SiteInv, SiteTyped, Shown
<1>4. Site!Marts[i] \in MartNames /\ marts[Site!Marts[i]] + 1 \in 0 .. n
  <2>1. CASE Site!Behind = {}
    <3>1. Site!Marts[i] = "tree"
      BY <2>1 DEF Site!Marts
    <3>2. marts["tree"] + 1 \in 0 .. n
      BY <1>2, <2>1 DEF Site!Rebuild, Site!Builds
    <3>3. QED BY <3>1, <3>2 DEF MartNames
  <2>2. CASE Site!Behind # {}
    <3>1. Site!Behind \subseteq 1 .. 3
      BY MartSet DEF Site!Behind
    <3>2. \E x \in Site!Behind : \A y \in Site!Behind : x <= y
      <4>1. CASE 1 \in Site!Behind
        BY <3>1, <4>1
      <4>2. CASE 1 \notin Site!Behind /\ 2 \in Site!Behind
        BY <3>1, <4>2
      <4>3. CASE 1 \notin Site!Behind /\ 2 \notin Site!Behind
        <5>1. \A y \in Site!Behind : y = 3
          BY <3>1, <4>3
        <5>2. PICK x \in Site!Behind : TRUE
          BY <2>2
        <5>3. QED BY <5>1, <5>2
      <4>4. QED BY <4>1, <4>2, <4>3
    <3>3. i \in Site!Behind
      BY <2>2, <3>2 DEF Site!Min
    <3> HIDE DEF i
    <3>4. i \in 1 .. 3 /\ marts[Site!Marts[i]] < marts["tree"]
      BY <3>1, <3>3 DEF Site!Behind
    <3>5. Site!Marts[i] \in MartNames
      BY <3>4 DEF Site!Marts, MartNames
    <3>6. "tree" \in MartNames
      BY DEF MartNames
    <3>7. QED BY <1>3, <3>4, <3>5, <3>6
  <2>3. QED BY <2>1, <2>2
<1> HIDE DEF i
<1>5. marts' \in Shown
  BY <1>1, <1>2, <1>4 DEF SiteInv, SiteTyped, Shown
<1>6. SiteTyped'
  BY <1>1, <1>5 DEF SiteInv, SiteTyped
<1>7. Validated'
  BY <1>1 DEF SiteInv, Validated
<1>8. QED BY <1>6, <1>7 DEF SiteInv

RunOfSite == [step : Site!Steps, site : Shown, moved : BOOLEAN]

LEMMA SiteLate ==
  ASSUME SiteInv, NEW r \in SiteRuns
  PROVE  Site!Late[r] \in RunOfSite /\ Site!Late[r].step = siteRun[r].step /\ Site!Late[r].site = siteRun[r].site
         /\ DOMAIN Site!Late = SiteRuns
<1>1. siteRun[r] \in RunOfSite
  BY DEF SiteInv, SiteTyped, RunOfSite
<1>2. Site!Late[r] = [siteRun[r] EXCEPT !.moved = @ \/ siteRun[r].step = "push"] /\ DOMAIN Site!Late = SiteRuns
  BY DEF Site!Late
<1>3. QED BY <1>1, <1>2 DEF RunOfSite

LEMMA SiteRunStep ==
  ASSUME SiteInv, NEW r \in SiteRuns, Site!Run(r) \/ Site!Fail(r)
  PROVE  SiteInv'
<1>0. /\ siteRun[r] \in RunOfSite /\ siteRun \in [SiteRuns -> RunOfSite] /\ marts \in Shown
      /\ Site!Idle \in RunOfSite /\ Site!Idle.step = "idle"
  BY FirstBuild DEF SiteInv, SiteTyped, RunOfSite, Site!Steps
<1>1. UNCHANGED <<marts, hands>> /\ siteFaults' \in 0 .. MaxSiteFaults
  BY SiteLimits DEF Site!Run, Site!Start, Site!Read, Site!Validate, Site!Fetch, Site!Push, Site!Fail,
                    SiteInv, SiteTyped
<1>2. ASSUME NEW x \in RunOfSite, siteRun' = [siteRun EXCEPT ![r] = x], branch' = branch,
             x.step \in {"fetch", "push"} => Site!Reconciles(x.site)
      PROVE  SiteInv'
  <2>1. siteRun' \in [SiteRuns -> RunOfSite]
    BY <1>0, <1>2
  <2>2. SiteTyped'
    BY <1>1, <1>2, <2>1 DEF SiteInv, SiteTyped, RunOfSite
  <2>3. ASSUME NEW q \in SiteRuns, siteRun'[q].step \in {"fetch", "push"} PROVE Site!Reconciles(siteRun'[q].site)
    <3>1. CASE q = r
      BY <1>0, <1>2, <2>3, <3>1
    <3>2. CASE q # r
      BY <1>0, <1>2, <2>3, <3>2 DEF SiteInv, Validated
    <3>3. QED BY <3>1, <3>2
  <2>4. QED BY <1>2, <2>2, <2>3 DEF SiteInv, Validated
<1>3. CASE Site!Start(r)
  <2>1. siteRun' = [siteRun EXCEPT ![r] = [siteRun[r] EXCEPT !.step = "programs"]] /\ branch' = branch
    BY <1>0, <1>3 DEF Site!Start, Site!Go
  <2>2. [siteRun[r] EXCEPT !.step = "programs"] \in RunOfSite /\ [siteRun[r] EXCEPT !.step = "programs"].step = "programs"
    BY <1>0 DEF RunOfSite, Site!Steps
  <2>3. QED BY <1>2, <2>1, <2>2
<1>4. CASE Site!Read(r)
  <2> DEFINE step == siteRun[r].step
             x == [siteRun[r] EXCEPT !.site[step] = marts[step], !.step = Site!After[step]]
  <2>1. siteRun' = [siteRun EXCEPT ![r] = x] /\ branch' = branch
    BY <1>0, <1>4 DEF Site!Read
  <2>2. step \in MartNames /\ Site!After[step] \in {"tree", "ledger", "validate"}
    BY <1>4 DEF Site!Read, Site!After, MartNames
  <2>3. x \in RunOfSite /\ x.step \in {"tree", "ledger", "validate"}
    BY <1>0, <2>2 DEF RunOfSite, Site!Steps, Shown
  <2> HIDE DEF x
  <2>4. QED BY <1>2, <2>1, <2>3
<1>5. CASE Site!Validate(r)
  <2>1. CASE Site!Reconciles(siteRun[r].site)
    <3> DEFINE x == [siteRun[r] EXCEPT !.step = "fetch"]
    <3>1. siteRun' = [siteRun EXCEPT ![r] = x] /\ branch' = branch
      BY <1>0, <1>5, <2>1 DEF Site!Validate, Site!Go
    <3>2. x \in RunOfSite /\ x.site = siteRun[r].site
      BY <1>0 DEF RunOfSite, Site!Steps
    <3> HIDE DEF x
    <3>3. QED BY <1>2, <2>1, <3>1, <3>2
  <2>2. CASE ~Site!Reconciles(siteRun[r].site)
    <3>1. siteRun' = [siteRun EXCEPT ![r] = Site!Idle] /\ branch' = branch
      BY <1>5, <2>2 DEF Site!Validate, Site!Stop
    <3>2. QED BY <1>0, <1>2, <3>1
  <2>3. QED BY <2>1, <2>2
<1>6. CASE Site!Fetch(r)
  <2> DEFINE x == [siteRun[r] EXCEPT !.step = "push", !.moved = FALSE]
  <2>1. siteRun' = [siteRun EXCEPT ![r] = x] /\ branch' = branch /\ siteRun[r].step = "fetch"
    BY <1>0, <1>6 DEF Site!Fetch
  <2>2. x \in RunOfSite /\ x.site = siteRun[r].site
    BY <1>0 DEF RunOfSite, Site!Steps
  <2>3. Site!Reconciles(siteRun[r].site)
    BY <2>1 DEF SiteInv, Validated
  <2> HIDE DEF x
  <2>4. QED BY <1>2, <2>1, <2>2, <2>3
<1>7. CASE Site!Push(r)
  <2>1. CASE siteRun[r].moved
    <3>1. siteRun' = [siteRun EXCEPT ![r] = Site!Idle] /\ branch' = branch
      BY <1>7, <2>1 DEF Site!Push, Site!Stop
    <3>2. QED BY <1>0, <1>2, <3>1
  <2>2. CASE ~siteRun[r].moved
    <3>1. /\ branch' = [site |-> siteRun[r].site, byHand |-> FALSE]
          /\ siteRun' = [Site!Late EXCEPT ![r] = Site!Idle] /\ siteRun[r].step = "push"
      BY <1>7, <2>2 DEF Site!Push
    <3>2. siteRun' \in [SiteRuns -> RunOfSite]
          /\ \A q \in SiteRuns : siteRun'[q].step \in {"fetch", "push"} =>
                siteRun'[q].step = siteRun[q].step /\ siteRun'[q].site = siteRun[q].site
      <4>1. DOMAIN siteRun' = SiteRuns /\ siteRun'[r] = Site!Idle
            /\ \A q \in SiteRuns \ {r} : siteRun'[q] = Site!Late[q]
        BY <3>1 DEF Site!Late
      <4>2. siteRun' = [q \in SiteRuns |-> siteRun'[q]]
        BY <3>1 DEF Site!Late
      <4>3. \A q \in SiteRuns : siteRun'[q] \in RunOfSite
        BY <1>0, <4>1, SiteLate
      <4>4. QED BY <1>0, <4>1, <4>2, <4>3, SiteLate
    <3>3. branch'.site = siteRun[r].site /\ branch' \in [site : Shown, byHand : BOOLEAN]
      BY <1>0, <3>1 DEF RunOfSite
    <3>4. SiteTyped'
      BY <1>1, <3>2, <3>3 DEF SiteInv, SiteTyped, RunOfSite
    <3>5. Validated'
      BY <3>1, <3>2, <3>3 DEF SiteInv, Validated
    <3>6. QED BY <3>4, <3>5 DEF SiteInv
  <2>3. QED BY <2>1, <2>2
<1>8. CASE Site!Fail(r)
  <2>1. siteRun' = [siteRun EXCEPT ![r] = Site!Idle] /\ branch' = branch
    BY <1>8 DEF Site!Fail, Site!Stop
  <2>2. QED BY <1>0, <1>2, <2>1
<1>9. QED BY <1>3, <1>4, <1>5, <1>6, <1>7, <1>8 DEF Site!Run

LEMMA SiteByHand == SiteInv /\ Site!CommitByHand => SiteInv'
<1> SUFFICES ASSUME SiteInv, Site!CommitByHand PROVE SiteInv'
  OBVIOUS
<1>1. branch # Null /\ siteRun' = Site!Late /\ branch' = [branch EXCEPT !.byHand = TRUE] /\ UNCHANGED <<marts, siteFaults>>
  BY DEF Site!CommitByHand
<1>2. branch \in [site : Shown, byHand : BOOLEAN]
  BY <1>1 DEF SiteInv, SiteTyped
<1>3. branch' \in [site : Shown, byHand : BOOLEAN] /\ branch'.site = branch.site
  BY <1>1, <1>2
<1>4. siteRun' \in [SiteRuns -> RunOfSite]
  <2>1. siteRun' = [r \in SiteRuns |-> Site!Late[r]]
    BY <1>1 DEF Site!Late
  <2>2. QED BY <2>1, SiteLate
<1>5. hands' \in 0 .. MaxSiteHands
  BY SiteLimits DEF Site!CommitByHand, SiteInv, SiteTyped
<1>6. SiteTyped'
  BY <1>1, <1>3, <1>4, <1>5 DEF SiteInv, SiteTyped, RunOfSite
<1>7. Validated'
  BY <1>1, <1>3, SiteLate DEF SiteInv, Validated
<1>8. QED BY <1>6, <1>7 DEF SiteInv

LEMMA SiteStep == SiteInv /\ [Site!Next]_site => SiteInv'
<1> SUFFICES ASSUME SiteInv, [Site!Next]_site PROVE SiteInv'
  OBVIOUS
<1>1. CASE Site!Rebuild \/ Site!CommitByHand
  BY <1>1, SiteRebuild, SiteByHand
<1>2. CASE \E r \in SiteRuns : Site!Run(r) \/ Site!Fail(r)
  BY <1>2, SiteRunStep
<1>3. CASE UNCHANGED site
  BY <1>3 DEF site, SiteInv, SiteTyped, Validated
<1>4. QED BY <1>1, <1>2, <1>3 DEF Site!Next

(***************************************************************************)
(* The five together.                                                      *)
(***************************************************************************)

ResultsInv ==
  /\ asset = "audience" => AudienceInv
  /\ asset = "project" => ProjectInv
  /\ asset = "hashes" => HashesInv
  /\ asset = "grants" => GrantsInv
  /\ asset = "site" => SiteInv

(* What was computed from an input stands beside that input, however runs  *)
(* fail and inputs change in between: coordinates and best-known genders   *)
(* beside what was hashed, archives beside the hash that ends them, hashes *)
(* beside their rows, grants beside streams, and sums beside their total.  *)
THEOREM ResultsMatchInputs == Spec => []ResultMatchesInput
<1>1. Init => ResultsInv
  BY AudienceStart, ProjectStarts, HashesInitially, GrantsStart, SiteStart DEF Init, ResultsInv
<1>2. ResultsInv /\ [Next]_vars => ResultsInv'
  <2> SUFFICES ASSUME ResultsInv, [Next]_vars PROVE ResultsInv'
    OBVIOUS
  <2>1. /\ asset' = asset /\ (asset = "audience" => [Audience!Next]_audience)
        /\ asset = "project" => [Project!Next]_project
        /\ asset = "hashes" => [Hashes!Next]_hashes
        /\ asset = "grants" => [Grants!Next]_grants
        /\ asset = "site" => [Site!Next]_site
    BY DEF Next, vars
  <2>2. QED BY <2>1, AudienceStep, ProjectStep, HashesStep, GrantsStep, SiteStep DEF ResultsInv
<1>3. ResultsInv => ResultMatchesInput
  BY AudienceSound, ProjectSettled, HashesSound, GrantsSound, SiteAddsUp DEF ResultsInv, ResultMatchesInput
<1>4. QED BY <1>1, <1>2, <1>3, PTL DEF Spec
=============================================================================
