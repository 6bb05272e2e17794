------------------------ MODULE RunSchedulingProofs ------------------------
(* Proofs about RunScheduling, for every set of jobs and of run ids, every *)
(* limit, and every number of manual actions, hangs and deployments.       *)
EXTENDS RunScheduling, FiniteSetTheorems, SequenceTheorems, TLAPS

(***************************************************************************)
(* Sequences without repetition: what the queue's operations do to them.   *)
(***************************************************************************)

Elements(seq) == {seq[i] : i \in DOMAIN seq}
NoRepeat(seq) == \A i, j \in DOMAIN seq : seq[i] = seq[j] => i = j

\* A new last element is added and nothing else.
LEMMA AppendNew ==
  ASSUME NEW S, NEW seq \in Seq(S), NEW e \in S, NoRepeat(seq), e \notin Elements(seq)
  PROVE  /\ Append(seq, e) \in Seq(S) /\ NoRepeat(Append(seq, e))
         /\ Elements(Append(seq, e)) = Elements(seq) \cup {e}
<1>1. /\ DOMAIN seq = 1 .. Len(seq) /\ Len(seq) \in Nat
      /\ DOMAIN Append(seq, e) = 1 .. Len(seq) + 1
      /\ \A i \in 1 .. Len(seq) : Append(seq, e)[i] = seq[i]
      /\ Append(seq, e)[Len(seq) + 1] = e
  OBVIOUS
<1>2. 1 .. Len(seq) + 1 = (1 .. Len(seq)) \cup {Len(seq) + 1}
  BY <1>1
<1>3. Elements(Append(seq, e)) = Elements(seq) \cup {e}
  <2>1. \A x : x \in Elements(Append(seq, e)) => x \in Elements(seq) \cup {e}
    BY <1>1, <1>2 DEF Elements
  <2>2. \A x \in Elements(seq) : x \in Elements(Append(seq, e))
    BY <1>1, <1>2 DEF Elements
  <2>3. e \in Elements(Append(seq, e))
    BY <1>1, <1>2 DEF Elements
  <2>4. QED BY <2>1, <2>2, <2>3
<1>4. NoRepeat(Append(seq, e))
  BY <1>1, <1>2 DEF NoRepeat, Elements
<1>5. QED BY <1>3, <1>4

\* Taking an element out of the middle takes away that one only.
Remove(seq, i) == SubSeq(seq, 1, i - 1) \o SubSeq(seq, i + 1, Len(seq))

LEMMA RemoveOne ==
  ASSUME NEW S, NEW seq \in Seq(S), NEW i \in DOMAIN seq, NoRepeat(seq)
  PROVE  /\ Remove(seq, i) \in Seq(S) /\ NoRepeat(Remove(seq, i))
         /\ Elements(Remove(seq, i)) = Elements(seq) \ {seq[i]}
<1> DEFINE a == SubSeq(seq, 1, i - 1)
           b == SubSeq(seq, i + 1, Len(seq))
           new == Remove(seq, i)
           At(k) == IF k < i THEN k ELSE k + 1
<1>1. /\ DOMAIN seq = 1 .. Len(seq) /\ Len(seq) \in Nat /\ i \in 1 .. Len(seq)
      /\ \A k \in 1 .. Len(seq) : seq[k] \in S
  OBVIOUS
<1>2. /\ a \in Seq(S) /\ Len(a) = i - 1
      /\ \A k \in 1 .. i - 1 : a[k] = seq[k]
  <2>1. \A k \in 1 .. i - 1 : seq[k] \in S
    BY <1>1
  <2>2. QED BY <1>1, <2>1, SubSeqProperties
<1>3. /\ b \in Seq(S) /\ Len(b) = Len(seq) - i
      /\ \A k \in 1 .. Len(seq) - i : b[k] = seq[i + k]
  <2>1. \A k \in i + 1 .. Len(seq) : seq[k] \in S
    BY <1>1
  <2>2. QED BY <1>1, <2>1, SubSeqProperties
<1>4. /\ new \in Seq(S) /\ Len(new) = Len(seq) - 1 /\ DOMAIN new = 1 .. Len(seq) - 1
      /\ \A k \in 1 .. Len(seq) - 1 : new[k] = seq[At(k)]
  <2>1. new = a \o b
    BY DEF Remove
  <2>2. new \in Seq(S) /\ Len(new) = Len(seq) - 1
    BY <1>1, <1>2, <1>3, <2>1, ConcatProperties
  <2>3. \A k \in 1 .. Len(seq) - 1 : new[k] = IF k <= Len(a) THEN a[k] ELSE b[k - Len(a)]
    BY <1>1, <1>2, <1>3, <2>1, ConcatProperties
  <2> HIDE DEF a, b, new
  <2>4. ASSUME NEW k \in 1 .. Len(seq) - 1 PROVE new[k] = seq[At(k)]
    <3>1. CASE k < i
      BY <1>1, <1>2, <2>3, <3>1
    <3>2. CASE ~(k < i)
      <4>1. k - (i - 1) \in 1 .. Len(seq) - i /\ i + (k - (i - 1)) = k + 1
        BY <1>1, <3>2
      <4>2. new[k] = b[k - (i - 1)]
        BY <1>1, <1>2, <2>3, <3>2
      <4>3. b[k - (i - 1)] = seq[k + 1]
        BY <1>3, <4>1
      <4>4. QED BY <3>2, <4>2, <4>3
    <3>3. QED BY <3>1, <3>2
  <2>5. QED BY <2>2, <2>4
<1>5. \A k \in 1 .. Len(seq) - 1 : At(k) \in 1 .. Len(seq) /\ At(k) # i
  BY <1>1
<1>6. \A k, m \in 1 .. Len(seq) - 1 : At(k) = At(m) => k = m
  BY <1>1
<1>7. NoRepeat(new)
  BY <1>1, <1>4, <1>5, <1>6 DEF NoRepeat
<1>8. Elements(new) = Elements(seq) \ {seq[i]}
  <2>1. ASSUME NEW x \in Elements(new) PROVE x \in Elements(seq) \ {seq[i]}
    <3>1. PICK k \in 1 .. Len(seq) - 1 : x = seq[At(k)]
      BY <1>4 DEF Elements
    <3>2. QED BY <1>1, <1>5, <3>1 DEF Elements, NoRepeat
  <2>2. ASSUME NEW x \in Elements(seq), x # seq[i] PROVE x \in Elements(new)
    <3>1. PICK k \in 1 .. Len(seq) : x = seq[k]
      BY <1>1 DEF Elements
    <3>2. k # i
      BY <2>2, <3>1
    <3>3. \E m \in 1 .. Len(seq) - 1 : At(m) = k
      <4>1. CASE k < i
        BY <1>1, <4>1
      <4>2. CASE k > i
        <5>1. k - 1 \in 1 .. Len(seq) - 1 /\ At(k - 1) = k
          BY <1>1, <4>2
        <5>2. QED BY <5>1
      <4>3. QED BY <1>1, <3>2, <4>1, <4>2
    <3>4. QED BY <1>4, <3>1, <3>3 DEF Elements
  <2>3. QED BY <2>1, <2>2
<1>9. QED BY <1>4, <1>7, <1>8

\* Such a sequence is as long as it has elements.
LEMMA LengthIsCount ==
  ASSUME NEW S, NEW seq \in Seq(S), NoRepeat(seq)
  PROVE  Len(seq) = Cardinality(Elements(seq))
<1>1. Len(seq) \in Nat /\ DOMAIN seq = 1 .. Len(seq)
  OBVIOUS
<1>2. seq \in Bijection(1 .. Len(seq), Elements(seq))
  <2>1. seq \in [1 .. Len(seq) -> Elements(seq)]
    BY <1>1 DEF Elements
  <2>2. seq \in Injection(1 .. Len(seq), Elements(seq))
    BY <1>1, <2>1 DEF Injection, IsInjective, NoRepeat
  <2>3. seq \in Surjection(1 .. Len(seq), Elements(seq))
    BY <1>1, <2>1 DEF Surjection, Elements
  <2>4. QED BY <2>2, <2>3 DEF Bijection
<1>3. QED BY <1>1, <1>2, FS_CountingElements DEF ExistsBijection

(***************************************************************************)
(* Type correctness.  The queue holds each queued run once.  While the     *)
(* container boots no process is left, so that the runs listed as orphans  *)
(* stay in progress until they are cancelled: nothing but the clean-up can *)
(* end them.                                                               *)
(***************************************************************************)

Queued == {r \in Ids : status[r] = "QUEUED"}

Fields ==
  /\ job \in [Ids -> Jobs]
  /\ kind \in [Ids -> {"scheduled", "manual", "retry"}]
  /\ status \in [Ids -> {Free} \cup InFlight \cup Terminal]
  /\ process \in [Ids -> {"none", "alive", "hung", "dead"}]
  /\ ticking \subseteq Jobs
  /\ container \in {"up", "booting", "cleaning"}
QueueOK == queue \in Seq(Ids) /\ NoRepeat(queue) /\ Elements(queue) = Queued
PendingOK == pending \subseteq {r \in Ids : status[r] = "FAILURE"}
OrphansOK ==
  /\ orphans \subseteq {r \in Ids : status[r] \in InProgress}
  /\ container # "cleaning" => orphans = {}
  /\ container # "up" => \A r \in Ids : ~Live(r)
Typed == Fields /\ QueueOK /\ PendingOK /\ OrphansOK

LEMMA TypedInit == Init => Typed
<1> SUFFICES ASSUME Init PROVE Typed
  OBVIOUS
<1> USE SchedulingAssumption DEF Init
<1>1. Fields
  BY DEF Fields, NoJob
<1>2. QueueOK
  BY DEF QueueOK, Queued, NoRepeat, Elements, Free
<1>3. PendingOK /\ OrphansOK
  BY DEF PendingOK, OrphansOK
<1>4. QED BY <1>1, <1>2, <1>3 DEF Typed

\* Steps that neither queue a run nor start one leave the queue as it is.
LEMMA QueueFrame ==
  ASSUME QueueOK, UNCHANGED queue,
         \A r \in Ids : status'[r] = "QUEUED" <=> status[r] = "QUEUED"
  PROVE  QueueOK'
BY DEF QueueOK, Queued

\* A run enters the queue.
LEMMA TypedEnqueue ==
  ASSUME Typed, NEW j \in Jobs, NEW k \in {"scheduled", "manual", "retry"}, Enqueue(j, k),
         ticking' \subseteq Jobs, pending' \subseteq pending,
         UNCHANGED <<orphans, container>>
  PROVE  Typed'
<1>1. PICK r \in Ids :
        /\ status[r] = Free
        /\ job' = [job EXCEPT ![r] = j]
        /\ kind' = [kind EXCEPT ![r] = k]
        /\ status' = [status EXCEPT ![r] = "QUEUED"]
        /\ process' = [process EXCEPT ![r] = "none"]
        /\ queue' = Append(queue, r)
  BY DEF Enqueue
<1> USE <1>1 DEF Typed
<1>2. Fields'
  BY DEF Fields, InFlight
<1>3. QueueOK'
  <2>1. r \notin Elements(queue)
    BY DEF QueueOK, Queued, Free
  <2>2. Queued' = Queued \cup {r}
    BY DEF Queued, Fields
  <2>3. QED BY <2>1, <2>2, AppendNew DEF QueueOK
<1>4. PendingOK'
  BY DEF PendingOK, Fields, Free
<1>5. OrphansOK'
  BY DEF OrphansOK, Fields, Free, InProgress, Live
<1>6. QED BY <1>2, <1>3, <1>4, <1>5

\* Runs are requested: by a schedule, by hand, by the retry daemon.
LEMMA TypedRequest ==
  ASSUME Typed
  PROVE  /\ \A j \in Jobs : Evaluate(j) \/ RequestRun(j) \/ LaunchManually(j) => Typed'
         /\ \A r \in Ids : Retry(r) => Typed'
<1>1. ASSUME NEW j \in Jobs, Evaluate(j) PROVE Typed'
  BY <1>1 DEF Evaluate, run, Typed, Fields, QueueOK, Queued, PendingOK, OrphansOK, Live
<1>2. ASSUME NEW j \in Jobs, RequestRun(j) PROVE Typed'
  <2>1. ticking' \subseteq Jobs
    BY <1>2 DEF RequestRun, Typed, Fields
  <2>2. QED BY <1>2, <2>1, TypedEnqueue DEF RequestRun
<1>3. ASSUME NEW j \in Jobs, LaunchManually(j) PROVE Typed'
  <2>1. ticking' \subseteq Jobs
    BY <1>3 DEF LaunchManually, Typed, Fields
  <2>2. QED BY <1>3, <2>1, TypedEnqueue DEF LaunchManually
<1>4. ASSUME NEW r \in Ids, Retry(r) PROVE Typed'
  <2>1. CASE UNCHANGED <<run, queue>>
    BY <1>4, <2>1 DEF Retry, run, Typed, Fields, QueueOK, Queued, PendingOK, OrphansOK, Live
  <2>2. CASE Enqueue(job[r], "retry")
    <3>1. ticking' \subseteq Jobs /\ job[r] \in Jobs /\ pending' \subseteq pending
      BY <1>4 DEF Retry, Typed, Fields
    <3>2. QED BY <1>4, <2>2, <3>1, TypedEnqueue DEF Retry
  <2>3. QED BY <1>4, <2>1, <2>2 DEF Retry
<1>5. QED BY <1>1, <1>2, <1>3, <1>4

\* The coordinator starts a run: it leaves the queue.
LEMMA TypedDequeue == Typed /\ Dequeue => Typed'
<1> SUFFICES ASSUME Typed, Dequeue PROVE Typed'
  OBVIOUS
<1>1. PICK i \in DOMAIN queue :
        /\ container = "up"
        /\ status' = [status EXCEPT ![queue[i]] = "STARTING"]
        /\ queue' = Remove(queue, i)
        /\ UNCHANGED <<job, kind, process, ticking, pending, orphans, container, counts>>
  BY DEF Dequeue, Remove
<1>2. queue[i] \in Ids /\ status[queue[i]] = "QUEUED"
  <2>1. queue[i] \in Elements(queue)
    BY DEF Elements
  <2>2. QED BY <2>1 DEF Typed, QueueOK, Queued
<1> USE <1>1, <1>2 DEF Typed
<1>3. Fields'
  BY DEF Fields, InFlight, InProgress
<1>4. QueueOK'
  <2>1. Queued' = Queued \ {queue[i]}
    BY DEF Queued, Fields
  <2>2. QED BY <2>1, RemoveOne DEF QueueOK
<1>5. PendingOK'
  BY DEF PendingOK, Fields
<1>6. OrphansOK'
  BY DEF OrphansOK, Live
<1>7. QED BY <1>3, <1>4, <1>5, <1>6

\* A run that is not queued goes on to another status: the queue, the retries
\* and the orphans stay what they are.
LEMMA TypedProgress ==
  ASSUME Typed, NEW r \in Ids, status[r] # "QUEUED",
         NEW s \in InProgress \cup Terminal, status' = [status EXCEPT ![r] = s],
         NEW p \in {"none", "alive", "hung", "dead"}, process' = [process EXCEPT ![r] = p],
         pending' = pending \/ (s = "FAILURE" /\ pending' = pending \cup {r}),
         r \notin pending, container = "up" \/ (s \in InProgress /\ p = process[r]),
         UNCHANGED <<job, kind, queue, ticking, orphans, container>>
  PROVE  Typed'
<1> USE DEF Typed
<1>1. Fields'
  BY DEF Fields, InFlight
<1>2. QueueOK'
  BY QueueFrame DEF Fields, InProgress, Terminal
<1>3. PendingOK'
  BY DEF PendingOK, Fields
<1>4. OrphansOK'
  BY DEF OrphansOK, Fields, Live
<1>5. QED BY <1>1, <1>2, <1>3, <1>4

LEMMA TypedRun == ASSUME Typed, NEW r \in Ids
  PROVE  /\ Start(r) \/ StartTimeout(r) => Typed'
         /\ \A s \in Terminal : Finish(r, s) => Typed'
         /\ Hang(r) \/ Release(r) \/ Terminate(r) => Typed'
         /\ CancelTimeout(r) \/ MaxRuntime(r) \/ Stalled(r) => Typed'
         /\ Purge(r) => Typed'
<1> USE DEF Typed
<1>1. status[r] \in InProgress => r \notin pending /\ status[r] # "QUEUED"
  BY DEF PendingOK, InProgress
<1>2. process = [process EXCEPT ![r] = process[r]]
  BY DEF Fields
<1>3. process[r] \in {"none", "alive", "hung", "dead"}
  BY DEF Fields
<1>4. Live(r) => container = "up"
  BY DEF OrphansOK, Fields
<1>5. Start(r) => Typed'
  BY <1>1, TypedProgress DEF Start, InProgress
<1>6. StartTimeout(r) => Typed'
  BY <1>1, <1>2, <1>3, TypedProgress DEF StartTimeout, Ended, InProgress, Terminal
<1>7. ASSUME NEW s \in Terminal, Finish(r, s) PROVE Typed'
  <2>1. container = "up"
    BY <1>4, <1>7 DEF Finish, Live
  <2>2. CASE status[r] \in InProgress
    BY <1>1, <1>7, <2>1, <2>2, TypedProgress DEF Finish, Ended
  <2>3. CASE status[r] \notin InProgress
    BY <1>7, <2>1, <2>3 DEF Finish, Fields, QueueOK, Queued, PendingOK, OrphansOK, Live
  <2>4. QED BY <2>2, <2>3
<1>8. Hang(r) \/ Release(r) => Typed'
  BY <1>4 DEF Hang, Release, Fields, QueueOK, Queued, PendingOK, OrphansOK, Live
<1>9. Terminate(r) => Typed'
  BY <1>1, <1>2, <1>3, TypedProgress DEF Terminate, InProgress
<1>10. CancelTimeout(r) => Typed'
  BY <1>1, <1>2, <1>3, TypedProgress DEF CancelTimeout, Ended, InProgress, Terminal
<1>11. MaxRuntime(r) => Typed'
  <2> SUFFICES ASSUME MaxRuntime(r) PROVE Typed'
    OBVIOUS
  <2>1. PICK p \in {process[r]} \cup {q \in {"dead"} : process[r] = "alive"} :
          process' = [process EXCEPT ![r] = p]
    BY DEF MaxRuntime
  <2>2. p \in {"none", "alive", "hung", "dead"}
    BY <1>3, <2>1
  <2>3. QED BY <1>1, <2>1, <2>2, TypedProgress DEF MaxRuntime, Ended, InProgress, Terminal
<1>12. Stalled(r) => Typed'
  BY <1>1, <1>2, <1>3, TypedProgress DEF Stalled, Ended, InProgress, Terminal
<1>13. Purge(r) => Typed'
  <2> SUFFICES ASSUME Purge(r) PROVE Typed'
    OBVIOUS
  <2>1. Fields'
    BY SchedulingAssumption DEF Purge, Fields, NoJob
  <2>2. QueueOK'
    BY QueueFrame DEF Purge, Fields, Terminal, Free
  <2>3. PendingOK' /\ OrphansOK'
    BY DEF Purge, PendingOK, OrphansOK, Fields, Terminal, InProgress, Free, Live
  <2>4. QED BY <2>1, <2>2, <2>3
<1>14. QED BY <1>5, <1>6, <1>7, <1>8, <1>9, <1>10, <1>11, <1>12, <1>13

\* The container is replaced and cleans up.
LEMMA TypedBoot == Typed /\ (Deploy \/ Boot) => Typed'
<1> SUFFICES ASSUME Typed PROVE Deploy \/ Boot => Typed'
  OBVIOUS
<1> USE DEF Typed
<1>1. Deploy => Typed'
  BY DEF Deploy, Fields, QueueOK, Queued, PendingOK, OrphansOK, Live
<1>2. ListOrphans => Typed'
  BY DEF ListOrphans, run, Inflight, InProgress, Fields, QueueOK, Queued, PendingOK,
         OrphansOK, Live
<1>3. SkipCleanup \/ StartDaemon => Typed'
  BY DEF SkipCleanup, StartDaemon, run, Fields, QueueOK, Queued, PendingOK, OrphansOK, Live
<1>4. ASSUME NEW r \in Ids, CancelOrphan(r) PROVE Typed'
  <2> USE <1>4 DEF CancelOrphan
  <2>1. status[r] \in InProgress
    BY DEF OrphansOK
  <2>2. Fields'
    BY DEF Fields, Terminal
  <2>3. QueueOK'
    BY <2>1, QueueFrame DEF Fields, InProgress
  <2>4. PendingOK' /\ OrphansOK'
    BY <2>1 DEF PendingOK, OrphansOK, Fields, InProgress, Live
  <2>5. QED BY <2>2, <2>3, <2>4
<1>5. ASSUME NEW r \in Ids, MissOrphan(r) PROVE Typed'
  BY <1>5 DEF MissOrphan, run, Fields, QueueOK, Queued, PendingOK, OrphansOK, Live
<1>6. QED BY <1>1, <1>2, <1>3, <1>4, <1>5 DEF Boot

LEMMA TypedNext == Typed /\ [Next]_vars => Typed'
<1> SUFFICES ASSUME Typed, [Next]_vars PROVE Typed'
  OBVIOUS
<1>1. CASE UNCHANGED vars
  BY <1>1 DEF vars, run, Typed, Fields, QueueOK, Queued, PendingOK, OrphansOK, Live
<1>2. ASSUME NEW r \in Ids,
             \/ Retry(r) \/ Start(r) \/ End(r) \/ Monitor(r) \/ Purge(r)
             \/ Hang(r) \/ Release(r) \/ Terminate(r) \/ Stalled(r)
      PROVE  Typed'
  BY <1>2, TypedRequest, TypedRun DEF End, Monitor
<1>3. QED BY <1>1, <1>2, TypedRequest, TypedDequeue, TypedBoot DEF Next

LEMMA TypedImpliesTypeOK == Typed => TypeOK
<1> SUFFICES ASSUME Typed PROVE TypeOK
  OBVIOUS
<1> USE DEF Typed
<1>1. Len(queue) = Cardinality(Queued)
  BY LengthIsCount DEF QueueOK
<1>2. orphans \subseteq Ids
  BY DEF OrphansOK
<1>3. QED BY <1>1, <1>2 DEF TypeOK, Fields, QueueOK, Queued, Elements, PendingOK

LEMMA AlwaysTyped == Spec => []Typed
BY TypedInit, TypedNext, PTL DEF Spec

(* Every field keeps its type; the queue holds exactly the queued runs,    *)
(* each once; only failed runs wait for the retry daemon.                  *)
THEOREM SchedulingTypeCorrect == Spec => []TypeOK
BY AlwaysTyped, TypedImpliesTypeOK, PTL

(***************************************************************************)
(* What a step can do to the runs in flight.  Only three kinds of steps    *)
(* bring a run nearer to the data: a schedule decides, a run is queued, a  *)
(* queued run is started.  All others only take runs away.                 *)
(***************************************************************************)

Starts(r) ==
  /\ status[r] = "QUEUED" /\ MayStart(r)
  /\ status' = [status EXCEPT ![r] = "STARTING"]
  /\ UNCHANGED <<job, kind, ticking>>

OnlyEnds ==
  /\ ticking' \subseteq ticking
  /\ \A r \in Ids : status'[r] \in InFlight =>
        /\ status[r] \in InFlight /\ job'[r] = job[r] /\ kind'[r] = kind[r]
        /\ status'[r] \in InProgress => status[r] \in InProgress

LEMMA RunOnlyEnds == ASSUME Typed, NEW r \in Ids
  PROVE  /\ Start(r) \/ StartTimeout(r) \/ Hang(r) \/ Release(r) \/ Terminate(r) => OnlyEnds
         /\ \A s \in Terminal : Finish(r, s) => OnlyEnds
         /\ CancelTimeout(r) \/ MaxRuntime(r) \/ Stalled(r) \/ Purge(r) => OnlyEnds
<1> USE DEF Typed, Fields, OnlyEnds, Ended, InFlight, InProgress, Terminal, Free
<1>1. Start(r) \/ StartTimeout(r) => OnlyEnds
  BY DEF Start, StartTimeout
<1>2. Hang(r) \/ Release(r) => OnlyEnds
  BY DEF Hang, Release
<1>3. Terminate(r) => OnlyEnds
  BY DEF Terminate
<1>4. ASSUME NEW s \in Terminal, Finish(r, s) PROVE OnlyEnds
  BY <1>4 DEF Finish
<1>5. CancelTimeout(r) \/ MaxRuntime(r) \/ Stalled(r) => OnlyEnds
  BY DEF CancelTimeout, MaxRuntime, Stalled
<1>6. Purge(r) => OnlyEnds
  BY DEF Purge
<1>7. QED BY <1>1, <1>2, <1>3, <1>4, <1>5, <1>6

LEMMA BootOnlyEnds == Typed /\ (Deploy \/ Boot) => OnlyEnds
<1> SUFFICES ASSUME Typed PROVE Deploy \/ Boot => OnlyEnds
  OBVIOUS
<1> USE DEF Typed, Fields, OnlyEnds, run
<1>1. Deploy \/ ListOrphans \/ SkipCleanup \/ StartDaemon => OnlyEnds
  BY DEF Deploy, ListOrphans, SkipCleanup, StartDaemon
<1>2. ASSUME NEW r \in Ids, CancelOrphan(r) PROVE OnlyEnds
  BY <1>2 DEF CancelOrphan, InFlight, InProgress
<1>3. ASSUME NEW r \in Ids, MissOrphan(r) PROVE OnlyEnds
  BY <1>3 DEF MissOrphan
<1>4. QED BY <1>1, <1>2, <1>3 DEF Boot

LEMMA DequeueStarts == Typed /\ Dequeue => \E r \in Ids : Starts(r)
<1> SUFFICES ASSUME Typed, Dequeue PROVE \E r \in Ids : Starts(r)
  OBVIOUS
<1>1. PICK i \in DOMAIN queue :
        /\ MayStart(queue[i])
        /\ status' = [status EXCEPT ![queue[i]] = "STARTING"]
        /\ UNCHANGED <<job, kind, ticking>>
  BY DEF Dequeue
<1>2. queue[i] \in Queued
  BY DEF Typed, QueueOK, Elements
<1>3. QED BY <1>1, <1>2 DEF Queued, Starts

\* Every step of the system is one of these.
LEMMA StepKinds ==
  ASSUME Typed, [Next]_vars
  PROVE  \/ OnlyEnds
         \/ \E j \in Jobs : Evaluate(j)
         \/ \E j \in Jobs : j \in ticking /\ Enqueue(j, "scheduled") /\ ticking' = ticking \ {j}
         \/ \E j \in Jobs, k \in {"manual", "retry"} : Enqueue(j, k) /\ ticking' = ticking
         \/ \E r \in Ids : Starts(r)
<1>1. CASE UNCHANGED vars
  BY <1>1 DEF vars, run, OnlyEnds
<1>2. ASSUME NEW r \in Ids, Retry(r)
      PROVE  \/ OnlyEnds
             \/ \E j \in Jobs, k \in {"manual", "retry"} : Enqueue(j, k) /\ ticking' = ticking
  <2>1. job[r] \in Jobs
    BY DEF Typed, Fields
  <2>2. CASE UNCHANGED <<run, queue>>
    BY <1>2, <2>2 DEF Retry, run, OnlyEnds
  <2>3. CASE Enqueue(job[r], "retry")
    BY <1>2, <2>1, <2>3 DEF Retry
  <2>4. QED BY <1>2, <2>2, <2>3 DEF Retry
<1>3. ASSUME NEW r \in Ids,
             \/ Start(r) \/ End(r) \/ Monitor(r) \/ Purge(r)
             \/ Hang(r) \/ Release(r) \/ Terminate(r) \/ Stalled(r)
      PROVE  OnlyEnds
  BY <1>3, RunOnlyEnds DEF End, Monitor
<1>4. ASSUME NEW j \in Jobs, RequestRun(j)
      PROVE  j \in ticking /\ Enqueue(j, "scheduled") /\ ticking' = ticking \ {j}
  BY <1>4 DEF RequestRun
<1>5. ASSUME NEW j \in Jobs, LaunchManually(j)
      PROVE  Enqueue(j, "manual") /\ ticking' = ticking
  BY <1>5 DEF LaunchManually
<1>6. QED BY <1>1, <1>2, <1>3, <1>4, <1>5, DequeueStarts, BootOnlyEnds DEF Next

(***************************************************************************)
(* NoPileUp.  A tick decides in one step and requests its run in another,  *)
(* with manual launches and retries in between.  What makes it inductive   *)
(* is that a schedule that has decided finds its job without a scheduled   *)
(* run until it requests one: only that schedule could have added it.      *)
(***************************************************************************)

Scheduled(j) == {r \in Having(InFlight, j) : kind[r] = "scheduled"}
AtMostOne(S) == \A q, r \in S : q = r
ScheduledOnce ==
  \A j \in Tagged : AtMostOne(Scheduled(j)) /\ (j \in ticking => Scheduled(j) = {})

LEMMA ScheduledOnceInit == Init => ScheduledOnce
BY DEF Init, ScheduledOnce, AtMostOne, Scheduled, Having, InFlight, InProgress, Free

\* A step that adds no scheduled run and no decision keeps it.
LEMMA NoneScheduled ==
  ASSUME ScheduledOnce, \A j \in Tagged : Scheduled(j)' \subseteq Scheduled(j),
         ticking' \subseteq ticking
  PROVE  ScheduledOnce'
<1>1. ASSUME NEW j \in Tagged
      PROVE  AtMostOne(Scheduled(j)') /\ (j \in ticking' => Scheduled(j)' = {})
  BY DEF ScheduledOnce, AtMostOne
<1>2. QED BY <1>1 DEF ScheduledOnce, AtMostOne

LEMMA EnqueueSchedules ==
  ASSUME Typed, NEW j \in Jobs, NEW k \in {"scheduled", "manual", "retry"}, Enqueue(j, k),
         NEW i \in Tagged
  PROVE  /\ i # j \/ k # "scheduled" => Scheduled(i)' \subseteq Scheduled(i)
         /\ \E r \in Ids : Scheduled(i)' \subseteq Scheduled(i) \cup {r}
<1>1. PICK r \in Ids :
        /\ status[r] = Free
        /\ job' = [job EXCEPT ![r] = j]
        /\ kind' = [kind EXCEPT ![r] = k]
        /\ status' = [status EXCEPT ![r] = "QUEUED"]
  BY DEF Enqueue
<1>2. \A q \in Ids : q # r => job'[q] = job[q] /\ kind'[q] = kind[q] /\ status'[q] = status[q]
  BY <1>1 DEF Typed, Fields
<1>3. job'[r] = j /\ kind'[r] = k
  BY <1>1 DEF Typed, Fields
<1>4. Scheduled(i)' \subseteq Scheduled(i) \cup {r}
  BY <1>2 DEF Scheduled, Having
<1>5. i # j \/ k # "scheduled" => r \notin Scheduled(i)'
  BY <1>3 DEF Scheduled, Having
<1>6. QED BY <1>4, <1>5

LEMMA ScheduledOnceNext == Typed /\ ScheduledOnce /\ [Next]_vars => ScheduledOnce'
<1> SUFFICES ASSUME Typed, ScheduledOnce, [Next]_vars PROVE ScheduledOnce'
  OBVIOUS
<1>1. CASE OnlyEnds
  <2>1. \A j \in Tagged : Scheduled(j)' \subseteq Scheduled(j)
    BY <1>1 DEF OnlyEnds, Scheduled, Having
  <2>2. QED BY <1>1, <2>1, NoneScheduled DEF OnlyEnds
<1>2. ASSUME NEW j \in Jobs, Evaluate(j) PROVE ScheduledOnce'
  <2>1. \A i \in Tagged : Scheduled(i)' = Scheduled(i)
    BY <1>2 DEF Evaluate, run, Scheduled, Having
  <2>2. j \in Tagged => Scheduled(j) = {}
    BY <1>2 DEF Evaluate, SkipTick, Scheduled
  <2>3. QED BY <1>2, <2>1, <2>2 DEF Evaluate, ScheduledOnce, AtMostOne
<1>3. ASSUME NEW j \in Jobs, j \in ticking, Enqueue(j, "scheduled"), ticking' = ticking \ {j}
      PROVE  ScheduledOnce'
  <2>1. ASSUME NEW i \in Tagged
        PROVE  AtMostOne(Scheduled(i)') /\ (i \in ticking' => Scheduled(i)' = {})
    <3>1. CASE i = j
      <4>1. \E r \in Ids : Scheduled(i)' \subseteq Scheduled(i) \cup {r}
        BY <1>3, EnqueueSchedules
      <4>2. Scheduled(i) = {}
        BY <1>3, <3>1 DEF ScheduledOnce
      <4>3. QED BY <1>3, <3>1, <4>1, <4>2 DEF AtMostOne
    <3>2. CASE i # j
      <4>1. Scheduled(i)' \subseteq Scheduled(i)
        BY <1>3, <3>2, EnqueueSchedules
      <4>2. QED BY <1>3, <4>1 DEF ScheduledOnce, AtMostOne
    <3>3. QED BY <3>1, <3>2
  <2>2. QED BY <2>1 DEF ScheduledOnce, AtMostOne
<1>4. ASSUME NEW j \in Jobs, NEW k \in {"manual", "retry"}, Enqueue(j, k), ticking' = ticking
      PROVE  ScheduledOnce'
  <2>1. \A i \in Tagged : Scheduled(i)' \subseteq Scheduled(i)
    BY <1>4, EnqueueSchedules
  <2>2. QED BY <1>4, <2>1, NoneScheduled
<1>5. ASSUME NEW r \in Ids, Starts(r) PROVE ScheduledOnce'
  <2>1. \A i \in Tagged : Scheduled(i)' \subseteq Scheduled(i)
    BY <1>5 DEF Starts, Scheduled, Having, Typed, Fields, InFlight
  <2>2. QED BY <1>5, <2>1, NoneScheduled DEF Starts
<1>6. QED BY <1>1, <1>2, <1>3, <1>4, <1>5, StepKinds

LEMMA ScheduledOnceIsNoPileUp == ScheduledOnce => NoPileUp
<1> SUFFICES ASSUME ScheduledOnce, NEW j \in Tagged PROVE Cardinality(Scheduled(j)) <= 1
  BY DEF NoPileUp, Scheduled
<1>1. CASE Scheduled(j) = {}
  BY <1>1, FS_EmptySet
<1>2. CASE Scheduled(j) # {}
  <2>1. PICK r : r \in Scheduled(j)
    BY <1>2
  <2>2. Scheduled(j) = {r}
    BY <2>1 DEF ScheduledOnce, AtMostOne
  <2>3. QED BY <2>2, FS_Singleton
<1>3. QED BY <1>1, <1>2

(* The schedule of a serial job never has two runs waiting or under way:   *)
(* whatever is launched or retried between its look at the runs in flight  *)
(* and its request, through restarts and for any limits.                   *)
THEOREM NothingPilesUp == Spec => []NoPileUp
<1>1. Spec => []ScheduledOnce
  BY AlwaysTyped, ScheduledOnceInit, ScheduledOnceNext, PTL DEF Spec
<1>2. QED BY <1>1, ScheduledOnceIsNoPileUp, PTL

(***************************************************************************)
(* SerialButForTimeouts.  The database never has two runs of a serial job  *)
(* in progress, since only the coordinator starts them; two live processes *)
(* of that job are then those of runs one of which is over.                *)
(***************************************************************************)

OneInProgress == \A j \in Tagged : AtMostOne(Having(InProgress, j))

LEMMA OneInProgressInit == Init => OneInProgress
BY DEF Init, OneInProgress, AtMostOne, Having, InProgress, Free

LEMMA FewerInProgress ==
  ASSUME OneInProgress, \A j \in Tagged : Having(InProgress, j)' \subseteq Having(InProgress, j)
  PROVE  OneInProgress'
BY DEF OneInProgress, AtMostOne

LEMMA OneInProgressNext == Typed /\ OneInProgress /\ [Next]_vars => OneInProgress'
<1> SUFFICES ASSUME Typed, OneInProgress, [Next]_vars PROVE OneInProgress'
  OBVIOUS
<1>1. CASE OnlyEnds
  <2>1. \A j \in Tagged : Having(InProgress, j)' \subseteq Having(InProgress, j)
    BY <1>1 DEF OnlyEnds, Having, InFlight
  <2>2. QED BY <2>1, FewerInProgress
<1>2. ASSUME NEW j \in Jobs, Evaluate(j) PROVE OneInProgress'
  BY <1>2 DEF Evaluate, run, OneInProgress, AtMostOne, Having
<1>3. ASSUME NEW j \in Jobs, NEW k \in {"scheduled", "manual", "retry"}, Enqueue(j, k)
      PROVE  OneInProgress'
  <2>1. \A i \in Tagged : Having(InProgress, i)' \subseteq Having(InProgress, i)
    BY <1>3 DEF Enqueue, Having, Typed, Fields, InProgress
  <2>2. QED BY <2>1, FewerInProgress
<1>4. ASSUME NEW r \in Ids, Starts(r) PROVE OneInProgress'
  <2>1. ASSUME NEW j \in Tagged PROVE AtMostOne(Having(InProgress, j)')
    <3>1. Having(InProgress, j)' \subseteq Having(InProgress, j) \cup {r}
      BY <1>4 DEF Starts, Having, Typed, Fields
    <3>2. job[r] # j => r \notin Having(InProgress, j)'
      BY <1>4 DEF Starts, Having
    <3>3. job[r] = j => Having(InProgress, j) = {}
      BY <1>4 DEF Starts, MayStart
    <3>4. QED BY <3>1, <3>2, <3>3 DEF OneInProgress, AtMostOne
  <2>2. QED BY <2>1 DEF OneInProgress, AtMostOne
<1>5. QED BY <1>1, <1>2, <1>3, <1>4, StepKinds

(* Two processes of a serial job are alive together only if the run of one *)
(* was ended in the database alone, however many runs are launched by      *)
(* hand, retried or lost with a container.                                 *)
THEOREM SerialUnlessTimedOut == Spec => []SerialButForTimeouts
<1>1. Spec => []OneInProgress
  BY AlwaysTyped, OneInProgressInit, OneInProgressNext, PTL DEF Spec
<1>2. OneInProgress => SerialButForTimeouts
  BY DEF OneInProgress, AtMostOne, Having, SerialButForTimeouts, Abandoned
<1>3. QED BY <1>1, <1>2, PTL

(***************************************************************************)
(* QueueSurvivesRestart.                                                   *)
(***************************************************************************)

LEMMA RestartKeepsQueue ==
  ASSUME Typed, [Next]_vars, container # "up", NEW r \in Ids, status[r] = "QUEUED"
  PROVE  status'[r] = "QUEUED"
<1> USE DEF Typed, Fields
<1>1. CASE UNCHANGED vars
  BY <1>1 DEF vars, run
<1>2. ASSUME NEW j \in Jobs, NEW k, Enqueue(j, k) PROVE status'[r] = "QUEUED"
  BY <1>2 DEF Enqueue
<1>3. ASSUME NEW q \in Ids, CancelOrphan(q) PROVE status'[r] = "QUEUED"
  BY <1>3 DEF CancelOrphan, OrphansOK, InProgress
<1>4. Boot => status'[r] = "QUEUED"
  BY <1>3 DEF Boot, ListOrphans, SkipCleanup, StartDaemon, MissOrphan, run
<1>5. ASSUME NEW q \in Ids,
             \/ Retry(q) \/ Start(q) \/ End(q) \/ Monitor(q) \/ Purge(q)
             \/ Hang(q) \/ Release(q) \/ Terminate(q) \/ Stalled(q)
      PROVE  status'[r] = "QUEUED"
  <2>1. ~Live(q)
    BY DEF OrphansOK
  <2>2. CASE Terminate(q)
    BY <2>2 DEF Terminate
  <2>3. QED
    BY <1>5, <2>1, <2>2 DEF Retry, Start, End, Finish, Monitor, StartTimeout, CancelTimeout,
       MaxRuntime, Purge, Hang, Release, Stalled, Live
<1>6. QED BY <1>1, <1>2, <1>4, <1>5 DEF Next, Evaluate, RequestRun, LaunchManually, Dequeue, Deploy

(* While a new container boots, no queued run is taken for an orphan of    *)
(* the old one.                                                            *)
THEOREM RestartSparesQueue == Spec => QueueSurvivesRestart
<1> DEFINE Kept == \A r \in Ids : status[r] = "QUEUED" /\ container # "up" => status'[r] = "QUEUED"
<1>1. Typed /\ [Next]_vars => Kept
  BY RestartKeepsQueue
<1>2. QED BY <1>1, AlwaysTyped, PTL DEF Spec, QueueSurvivesRestart

=============================================================================
