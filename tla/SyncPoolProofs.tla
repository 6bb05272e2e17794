-------------------------- MODULE SyncPoolProofs --------------------------
(* Proofs about SyncPool, for every set of tables and workers and every    *)
(* number of outages, dropped connections, dead workers and signals.       *)
EXTENDS SyncPool, FiniteSetTheorems, SequenceTheorems, TLAPS

USE DEF workerVars, reportVars, envVars, GoTo

(***************************************************************************)
(* Sequences: what the queue's operations do to its elements.              *)
(***************************************************************************)

NoRepeat(seq) == \A i, j \in DOMAIN seq : seq[i] = seq[j] => i = j

LEMMA ElementsOfEmpty == Elements(<< >>) = {}
BY DEF Elements

LEMMA ElementsOfAppend ==
  ASSUME NEW S, NEW seq \in Seq(S), NEW e \in S
  PROVE  /\ Elements(Append(seq, e)) = Elements(seq) \cup {e}
         /\ NoRepeat(seq) /\ e \notin Elements(seq) => NoRepeat(Append(seq, e))
<1>1. /\ DOMAIN seq = 1 .. Len(seq) /\ Len(seq) \in Nat
      /\ DOMAIN Append(seq, e) = 1 .. Len(seq) + 1
      /\ \A i \in 1 .. Len(seq) : Append(seq, e)[i] = seq[i]
      /\ Append(seq, e)[Len(seq) + 1] = e
  OBVIOUS
<1>2. 1 .. Len(seq) + 1 = (1 .. Len(seq)) \cup {Len(seq) + 1}
  BY <1>1
<1>3. Elements(Append(seq, e)) = Elements(seq) \cup {e}
  <2>1. \A x : x \in Elements(Append(seq, e)) => x \in Elements(seq) \cup {e}
    BY <1>1, <1>2 DEF Elements
  <2>2. \A x \in Elements(seq) : x \in Elements(Append(seq, e))
    BY <1>1, <1>2 DEF Elements
  <2>3. e \in Elements(Append(seq, e))
    BY <1>1, <1>2 DEF Elements
  <2>4. QED BY <2>1, <2>2, <2>3
<1>4. ASSUME NoRepeat(seq), e \notin Elements(seq) PROVE NoRepeat(Append(seq, e))
  BY <1>1, <1>2, <1>4 DEF NoRepeat, Elements
<1>5. QED BY <1>3, <1>4

LEMMA ElementsOfTail ==
  ASSUME NEW S, NEW seq \in Seq(S), seq # << >>
  PROVE  /\ Head(seq) \in Elements(seq) /\ Tail(seq) \in Seq(S)
         /\ Elements(seq) = Elements(Tail(seq)) \cup {Head(seq)}
         /\ NoRepeat(seq) => NoRepeat(Tail(seq)) /\ Head(seq) \notin Elements(Tail(seq))
<1>1. /\ DOMAIN seq = 1 .. Len(seq) /\ Len(seq) \in Nat \ {0}
      /\ Tail(seq) \in Seq(S) /\ DOMAIN Tail(seq) = 1 .. Len(seq) - 1
      /\ \A i \in 1 .. Len(seq) - 1 : Tail(seq)[i] = seq[i + 1]
      /\ Head(seq) = seq[1]
  OBVIOUS
<1>2. \A i \in 1 .. Len(seq) : i = 1 \/ i - 1 \in 1 .. Len(seq) - 1
  BY <1>1
<1>3. \A i \in 1 .. Len(seq) - 1 : i + 1 \in 1 .. Len(seq) /\ i + 1 # 1
  BY <1>1
<1>4. 1 \in 1 .. Len(seq)
  BY <1>1
<1>5. Elements(seq) = Elements(Tail(seq)) \cup {Head(seq)}
  <2>1. ASSUME NEW x \in Elements(seq) PROVE x \in Elements(Tail(seq)) \cup {Head(seq)}
    <3>1. PICK i \in 1 .. Len(seq) : x = seq[i]
      BY <1>1 DEF Elements
    <3>2. CASE i = 1
      BY <1>1, <3>1, <3>2
    <3>3. CASE i # 1
      <4>1. i - 1 \in DOMAIN Tail(seq) /\ x = Tail(seq)[i - 1]
        BY <1>1, <1>2, <3>1, <3>3
      <4>2. QED BY <4>1 DEF Elements
    <3>4. QED BY <3>2, <3>3
  <2>2. \A x \in Elements(Tail(seq)) : x \in Elements(seq)
    BY <1>1, <1>3 DEF Elements
  <2>3. QED BY <2>1, <2>2, <1>1, <1>4 DEF Elements
<1>6. ASSUME NoRepeat(seq)
      PROVE  NoRepeat(Tail(seq)) /\ Head(seq) \notin Elements(Tail(seq))
  BY <1>1, <1>3, <1>4, <1>6 DEF NoRepeat, Elements
<1>7. QED BY <1>1, <1>4, <1>5, <1>6 DEF Elements

\* The initial queue holds every table once.
LEMMA InitialQueue ==
  ASSUME NEW order \in [1 .. Cardinality(Tables) -> Tables], Elements(order) = Tables
  PROVE  order \in Seq(Tables) /\ NoRepeat(order)
<1> DEFINE n == Cardinality(Tables)
<1>1. n \in Nat
  BY FS_CardinalityType, PoolAssumption
<1>2. IsFiniteSet(1 .. n) /\ Cardinality(1 .. n) = n
  BY <1>1, FS_Interval
<1>3. order \in Surjection(1 .. n, Tables)
  <2>1. order \in [1 .. n -> Tables] /\ DOMAIN order = 1 .. n
    OBVIOUS
  <2>2. \A t \in Tables : \E i \in 1 .. n : order[i] = t
    BY <2>1 DEF Elements
  <2>3. QED BY <2>1, <2>2 DEF Surjection
<1>4. order \in Injection(1 .. n, Tables)
  BY <1>2, <1>3, FS_SurjSameCardinalityImpliesInj
<1>5. NoRepeat(order)
  BY <1>4 DEF Injection, IsInjective, NoRepeat
<1>6. order \in Seq(Tables)
  BY <1>1, SeqDef
<1>7. QED BY <1>5, <1>6

(***************************************************************************)
(* Type correctness.  A worker has a table between taking it and recording *)
(* its result, which is why the queue never gets anything but tables.      *)
(***************************************************************************)

Holding == {"took", "sync", "syncing", "after", "record"}
Holds == \A w \in Workers : table[w] # Null <=> pc[w] \in Holding
Typed == TypeOK /\ Holds

LEMMA TypedInit == Init => Typed
<1> SUFFICES ASSUME Init PROVE Typed
  OBVIOUS
<1>1. queue \in Seq(Tables)
  BY InitialQueue DEF Init
<1>2. handler \in Seq(Frames)
  BY DEF Init
<1>3. QED BY <1>1, <1>2 DEF Init, Typed, TypeOK, Holds, Holding, Phases, Connections, Outcomes

LEMMA TypedWorker == \A w \in Workers : Typed /\ WorkerStep(w) => Typed'
<1> SUFFICES ASSUME Typed, NEW w \in Workers PROVE WorkerStep(w) => Typed'
  OBVIOUS
<1>a. table[w] # Null => table[w] \in Tables
  BY DEF Typed, TypeOK
<1> USE PoolAssumption, <1>a DEF Typed, TypeOK, Holds, Holding, Phases, Running, Gone
<1>1. Start(w) \/ Attach(w) => Typed'
  <2>1. Start(w) => Typed'
    BY DEF Start, Connect, Connections
  <2>2. Attach(w) => Typed'
    BY DEF Attach
  <2>3. QED BY <2>1, <2>2
<1>2. Die(w) => Typed'
  <2> SUFFICES ASSUME Die(w) PROVE Typed'
    OBVIOUS
  <2>1. faults' \in [Kinds -> Nat]
    BY DEF Die, Kinds
  <2>2. QED BY <2>1 DEF Die, Connections
<1>3. CheckStop(w) \/ GetTimesOut(w) \/ Recheck(w) => Typed'
  BY DEF CheckStop, GetTimesOut, Recheck
<1>4. Take(w) => Typed'
  <2> SUFFICES ASSUME Take(w) PROVE Typed'
    OBVIOUS
  <2>1. Head(queue) \in Tables /\ queue' \in Seq(Tables)
    BY DEF Take
  <2>2. QED BY <2>1 DEF Take
<1>5. EnsureConnection(w) => Typed'
  BY DEF EnsureConnection, Connect, Connections
<1>6. Requeue(w) => Typed'
  <2> SUFFICES ASSUME Requeue(w) PROVE Typed'
    OBVIOUS
  <2>1. queue' \in Seq(Tables)
    BY DEF Requeue
  <2>2. QED BY <2>1 DEF Requeue, Connect, Connections
<1>7. SkipTable(w) => Typed'
  <2> SUFFICES ASSUME SkipTable(w) PROVE Typed'
    OBVIOUS
  <2>1. outcome' \in [Workers -> Outcomes] /\ marked' \in [Tables -> Nat]
    BY DEF SkipTable, Mark, Outcomes
  <2>2. QED BY <2>1 DEF SkipTable, Mark
<1>8. BeginTable(w) => Typed'
  BY DEF BeginTable
<1>9. (\E s \in {"completed", "skipped"} : FinishTable(w, s)) => Typed'
  BY DEF FinishTable, Mark, Outcomes
<1>10. FailTable(w) => Typed'
  BY DEF FailTable, Mark, Outcomes, Connections
<1>11. Interrupted(w) => Typed'
  BY DEF Interrupted, Mark
<1>12. AfterTable(w) => Typed'
  <2> SUFFICES ASSUME AfterTable(w) PROVE Typed'
    OBVIOUS
  <2>1. pg' \in [Workers -> Connections]
    BY DEF AfterTable, Connect, Connections
  <2>2. again' \in [Workers -> BOOLEAN]
    BY DEF AfterTable
  <2>3. pc' \in [Workers -> Phases] /\ Holds'
    BY DEF AfterTable
  <2>4. QED BY <2>1, <2>2, <2>3 DEF AfterTable
<1>13. Record(w) => Typed'
  BY DEF Record
<1>14. Leave(w) => Typed'
  BY DEF Leave, Connections
<1>15. QED
  BY <1>1, <1>2, <1>3, <1>4, <1>5, <1>6, <1>7, <1>8, <1>9, <1>10, <1>11, <1>12, <1>13,
     <1>14 DEF WorkerStep

LEMMA TypedMain == Typed /\ (MainStep \/ Signal) => Typed'
<1> SUFFICES ASSUME Typed PROVE MainStep \/ Signal => Typed'
  OBVIOUS
<1> USE DEF Typed, TypeOK, Holds, Frames, HandlerAt
<1>1. ASSUME NEW f \in Frames, handler # << >>, Frame(f) PROVE handler' \in Seq(Frames)
  BY <1>1, ExceptSeq DEF Frame
<1>2. SetFlags \/ AcquireLock \/ ReleaseLock => Typed'
  <2>1. SetFlags => Typed'
    BY <1>1 DEF SetFlags
  <2>2. AcquireLock => Typed'
    BY <1>1 DEF AcquireLock
  <2>3. ReleaseLock => Typed'
    BY <1>1 DEF ReleaseLock
  <2>4. QED BY <2>1, <2>2, <2>3
<1>3. Drain => Typed'
  BY DEF Drain
<1>4. Return => Typed'
  <2> SUFFICES ASSUME Return PROVE Typed'
    OBVIOUS
  <2>1. handler' \in Seq(Frames)
    BY DEF Return
  <2>2. QED BY <2>1 DEF Return
<1>5. Join \/ Conclude => Typed'
  BY DEF Join, Conclude
<1>6. Signal => Typed'
  BY DEF Signal, Kinds
<1>7. QED BY <1>2, <1>3, <1>4, <1>5, <1>6 DEF MainStep

LEMMA TypedEnvironment ==
  Typed /\ (Outage \/ Restore \/ \E w \in Workers : DropConnection(w)) => Typed'
<1> SUFFICES ASSUME Typed
             PROVE  Outage \/ Restore \/ (\E w \in Workers : DropConnection(w)) => Typed'
  OBVIOUS
<1> USE DEF Typed, TypeOK, Holds
<1>1. Outage => Typed'
  <2> SUFFICES ASSUME Outage PROVE Typed'
    OBVIOUS
  <2>1. pg' \in [Workers -> Connections] /\ faults' \in [Kinds -> Nat]
    BY DEF Outage, Broken, Connections, Kinds
  <2>2. QED BY <2>1 DEF Outage
<1>2. Restore => Typed'
  BY DEF Restore
<1>3. ASSUME NEW w \in Workers, DropConnection(w) PROVE Typed'
  <2>1. pg' \in [Workers -> Connections] /\ faults' \in [Kinds -> Nat]
    BY <1>3 DEF DropConnection, Connections, Kinds
  <2>2. QED BY <1>3, <2>1 DEF DropConnection
<1>4. QED BY <1>1, <1>2, <1>3

LEMMA TypedStep == Typed /\ [Next]_vars => Typed'
<1>1. Typed /\ UNCHANGED vars => Typed'
  BY DEF vars, Typed, TypeOK, Holds
<1>2. QED BY <1>1, TypedWorker, TypedMain, TypedEnvironment DEF Next

THEOREM TypedAlways == Spec => []Typed
BY TypedInit, TypedStep, PTL DEF Spec

\* The queue holds tables and nothing else, a worker at most one table, and
\* each status is one the program knows (SyncProgress, sync_worker_loop).
THEOREM PoolTypeCorrect == Spec => []TypeOK
<1>1. Typed => TypeOK
  BY DEF Typed
<1>2. QED BY <1>1, TypedAlways, PTL

(***************************************************************************)
(* One place.  Only five actions move a table; each is a step of the bag.  *)
(***************************************************************************)

Moves(w) == Take(w) \/ Requeue(w) \/ Record(w) \/ Interrupted(w)

LEMMA OnlyMovesMove ==
  [Next]_vars => \/ UNCHANGED <<queue, table, results>>
                 \/ \E w \in Workers : Moves(w)
                 \/ Drain
<1> USE DEF Moves
<1>1. ASSUME NEW w \in Workers, WorkerStep(w)
      PROVE  UNCHANGED <<queue, table, results>> \/ Moves(w)
  BY <1>1 DEF WorkerStep, Start, Attach, Die, CheckStop, GetTimesOut, Recheck, EnsureConnection,
     SkipTable, BeginTable, FinishTable, FailTable, AfterTable, Leave, Mark
<1>2. ASSUME NEW w \in Workers, DropConnection(w) PROVE UNCHANGED <<queue, table, results>>
  BY <1>2 DEF DropConnection
<1>3. MainStep \/ Signal \/ Outage \/ Restore => UNCHANGED <<queue, table, results>> \/ Drain
  BY DEF MainStep, SetFlags, AcquireLock, ReleaseLock, Return, Join, Conclude, Signal, Outage,
     Restore
<1>4. QED BY <1>1, <1>2, <1>3 DEF Next, vars

LEMMA BusyGains ==
  ASSUME Typed, NEW w \in Workers, NEW t \in Tables, table[w] = Null,
         table' = [table EXCEPT ![w] = t]
  PROVE  Busy' = Busy \cup {t}
<1>1. table'[w] = t /\ t # Null /\ \A v \in Workers \ {w} : table'[v] = table[v]
  BY PoolAssumption DEF Typed, TypeOK
<1>2. \A x : x \in Busy' => x \in Busy \cup {t}
  BY <1>1 DEF Busy
<1>3. \A x : x \in Busy \cup {t} => x \in Busy'
  BY <1>1 DEF Busy
<1>4. QED BY <1>2, <1>3

LEMMA BusyLoses ==
  ASSUME Typed, OnePlace, NEW w \in Workers, table[w] # Null,
         table' = [table EXCEPT ![w] = Null]
  PROVE  table[w] \in Tables /\ table[w] \in Busy /\ Busy' = Busy \ {table[w]}
<1>1. table'[w] = Null /\ \A v \in Workers \ {w} : table'[v] = table[v] /\ table[v] # table[w]
  BY DEF Typed, TypeOK, OnePlace
<1>2. \A x : x \in Busy' => x \in Busy \ {table[w]}
  BY <1>1 DEF Busy
<1>3. \A x : x \in Busy \ {table[w]} => x \in Busy'
  BY <1>1 DEF Busy
<1>4. QED BY <1>2, <1>3 DEF Busy, Typed, TypeOK

LEMMA TakeMoves ==
  ASSUME Typed, OnePlace, NEW w \in Workers, Take(w)
  PROVE  /\ Head(queue) \in Elements(queue) /\ Head(queue) \in Tables
         /\ table[w] = Null /\ table' = [table EXCEPT ![w] = Head(queue)]
         /\ Elements(queue') = Elements(queue) \ {Head(queue)} /\ NoRepeat(queue')
         /\ Busy' = Busy \cup {Head(queue)} /\ Reported' = Reported
<1>1. queue \in Seq(Tables) /\ queue # << >> /\ NoRepeat(queue)
  BY DEF Take, Typed, TypeOK, OnePlace, NoRepeat
<1>2. /\ Head(queue) \in Elements(queue) /\ Head(queue) \in Tables
      /\ Elements(queue') = Elements(queue) \ {Head(queue)} /\ NoRepeat(queue')
  BY <1>1, ElementsOfTail DEF Take
<1>3. table[w] = Null /\ table' = [table EXCEPT ![w] = Head(queue)]
  BY DEF Take, Typed, Holds, Holding
<1>4. QED BY <1>2, <1>3, BusyGains DEF Take, Reported

LEMMA RequeueMoves ==
  ASSUME Typed, OnePlace, NEW w \in Workers, Requeue(w)
  PROVE  /\ table[w] \in Tables /\ table[w] \in Busy
         /\ table' = [table EXCEPT ![w] = Null]
         /\ Elements(queue') = Elements(queue) \cup {table[w]} /\ NoRepeat(queue')
         /\ Busy' = Busy \ {table[w]} /\ Reported' = Reported
<1>1. table[w] # Null /\ table' = [table EXCEPT ![w] = Null]
  BY DEF Requeue, Typed, Holds, Holding
<1>2. table[w] \in Tables /\ table[w] \in Busy /\ Busy' = Busy \ {table[w]}
  BY <1>1, BusyLoses
<1>3. queue \in Seq(Tables) /\ NoRepeat(queue) /\ table[w] \notin Elements(queue)
  BY <1>2 DEF Typed, TypeOK, OnePlace, NoRepeat
<1>4. Elements(queue') = Elements(queue) \cup {table[w]} /\ NoRepeat(queue')
  BY <1>2, <1>3, ElementsOfAppend DEF Requeue
<1>5. QED BY <1>1, <1>2, <1>4 DEF Requeue, Reported

LEMMA RecordMoves ==
  ASSUME Typed, OnePlace, NEW w \in Workers, Record(w)
  PROVE  /\ table[w] \in Tables /\ table[w] \in Busy
         /\ table' = [table EXCEPT ![w] = Null] /\ queue' = queue
         /\ Busy' = Busy \ {table[w]} /\ Reported' = Reported \cup {table[w]}
<1>1. table[w] # Null /\ table' = [table EXCEPT ![w] = Null] /\ queue' = queue
  BY DEF Record, Typed, Holds, Holding
<1>2. table[w] \in Tables /\ table[w] \in Busy /\ Busy' = Busy \ {table[w]}
  BY <1>1, BusyLoses
<1>3. Reported' = Reported \cup {table[w]}
  BY <1>2 DEF Record, Reported, Typed, TypeOK
<1>4. QED BY <1>1, <1>2, <1>3

LEMMA InterruptedMoves ==
  ASSUME Typed, OnePlace, NEW w \in Workers, Interrupted(w)
  PROVE  /\ stop /\ table[w] \in Tables /\ table[w] \in Busy
         /\ table' = [table EXCEPT ![w] = Null] /\ queue' = queue
         /\ Busy' = Busy \ {table[w]} /\ Reported' = Reported
<1>1. stop /\ table[w] # Null /\ table' = [table EXCEPT ![w] = Null] /\ queue' = queue
  BY DEF Interrupted, Typed, Holds, Holding
<1>2. QED BY <1>1, BusyLoses DEF Interrupted, Mark, Reported

LEMMA DrainMoves ==
  ASSUME Typed, OnePlace, Drain
  PROVE  /\ Head(queue) \in Elements(queue) /\ Head(queue) \in Tables
         /\ Elements(queue') = Elements(queue) \ {Head(queue)} /\ NoRepeat(queue')
         /\ table' = table /\ Busy' = Busy /\ Reported' = Reported
<1>1. queue \in Seq(Tables) /\ queue # << >> /\ NoRepeat(queue)
  BY DEF Drain, Typed, TypeOK, OnePlace, NoRepeat
<1>2. /\ Head(queue) \in Elements(queue) /\ Head(queue) \in Tables
      /\ Elements(queue') = Elements(queue) \ {Head(queue)} /\ NoRepeat(queue')
  BY <1>1, ElementsOfTail DEF Drain
<1>3. QED BY <1>2 DEF Drain, Busy, Reported

LEMMA OnePlaceInit == Init => OnePlace
<1> SUFFICES ASSUME Init PROVE OnePlace
  OBVIOUS
<1>1. NoRepeat(queue)
  BY InitialQueue DEF Init
<1>2. Busy = {} /\ Reported = {}
  BY DEF Init, Busy, Reported
<1>3. \A w \in Workers : table[w] = Null
  BY DEF Init
<1>4. QED BY <1>1, <1>2, <1>3 DEF OnePlace, NoRepeat

LEMMA OnePlaceStep == Typed /\ OnePlace /\ [Next]_vars => OnePlace'
<1> SUFFICES ASSUME Typed, OnePlace, [Next]_vars PROVE OnePlace'
  OBVIOUS
<1>1. table \in [Workers -> Tables \cup {Null}]
  BY DEF Typed, TypeOK
<1> DEFINE Apart(tab) == \A v, x \in Workers : tab[v] = tab[x] /\ tab[v] # Null => v = x
<1>2. /\ Apart(table) /\ NoRepeat(queue) /\ Elements(queue) \cap Busy = {}
      /\ Reported \cap (Elements(queue) \cup Busy) = {}
  BY DEF OnePlace, NoRepeat
<1>3. \A w \in Workers : table' = [table EXCEPT ![w] = Null] => Apart(table')
  BY <1>1, <1>2
<1>4. SUFFICES /\ Apart(table') /\ NoRepeat(queue') /\ Elements(queue') \cap Busy' = {}
               /\ Reported' \cap (Elements(queue') \cup Busy') = {}
  BY DEF OnePlace, NoRepeat
<1> HIDE DEF Apart
<1>5. CASE UNCHANGED <<queue, table, results>>
  BY <1>2, <1>5 DEF Busy, Reported
<1>6. ASSUME NEW w \in Workers, Take(w) PROVE <1>4!1
  <2>1. Apart(table')
    <3>1. Head(queue) \notin Busy /\ table[w] = Null
      BY <1>2, <1>6, TakeMoves
    <3>2. \A v \in Workers : table[v] # Head(queue)
      BY <3>1, <1>6, TakeMoves, PoolAssumption DEF Busy
    <3>3. table' = [table EXCEPT ![w] = Head(queue)]
      BY <1>6, TakeMoves
    <3>4. QED BY <1>1, <1>2, <3>2, <3>3 DEF Apart
  <2>2. QED BY <1>2, <1>6, <2>1, TakeMoves
<1>7. ASSUME NEW w \in Workers, Requeue(w) PROVE <1>4!1
  BY <1>2, <1>3, <1>7, RequeueMoves
<1>8. ASSUME NEW w \in Workers, Record(w) PROVE <1>4!1
  BY <1>2, <1>3, <1>8, RecordMoves
<1>9. ASSUME NEW w \in Workers, Interrupted(w) PROVE <1>4!1
  BY <1>2, <1>3, <1>9, InterruptedMoves
<1>10. CASE Drain
  BY <1>2, <1>10, DrainMoves
<1>11. QED BY <1>5, <1>6, <1>7, <1>8, <1>9, <1>10, OnlyMovesMove DEF Moves

\* A table is never with two workers, nor with one and in the queue, nor
\* anywhere once it has its result (sync_worker_loop): with any number of
\* workers, requeues, retries and interruptions.
THEOREM TableIsInOnePlace == Spec => []OnePlace
BY OnePlaceInit, OnePlaceStep, TypedAlways, PTL DEF Spec

(***************************************************************************)
(* Nothing is forgotten.  The handler drains the queue only after it has   *)
(* set the flags, whatever other signals interrupt it.                     *)
(***************************************************************************)

Flagged == \A i \in DOMAIN handler : handler[i] # "flags" => stop

LEMMA WorkerLeavesMain ==
  \A w \in Workers :
     WorkerStep(w) => /\ UNCHANGED <<stop, handler, main>> /\ pc[w] \notin Gone
                      /\ \E phase : pc' = [pc EXCEPT ![w] = phase]
<1> SUFFICES ASSUME NEW w \in Workers, WorkerStep(w)
             PROVE  /\ UNCHANGED <<stop, handler, main>> /\ pc[w] \notin Gone
                    /\ \E phase : pc' = [pc EXCEPT ![w] = phase]
  OBVIOUS
<1>1. UNCHANGED <<stop, handler, main>>
  BY DEF WorkerStep, Start, Attach, Die, CheckStop, Take, GetTimesOut, Recheck, EnsureConnection,
     Requeue, SkipTable, BeginTable, FinishTable, FailTable, Interrupted, AfterTable, Record, Leave
<1>2. pc[w] \notin Gone
  BY DEF WorkerStep, Start, Attach, Die, CheckStop, Take, GetTimesOut, Recheck, EnsureConnection,
     Requeue, SkipTable, BeginTable, FinishTable, FailTable, Interrupted, AfterTable, Record,
     Leave, Gone
<1>3. \E phase : pc' = [pc EXCEPT ![w] = phase]
  BY DEF WorkerStep, Start, Attach, Die, CheckStop, Take, GetTimesOut, Recheck, EnsureConnection,
     Requeue, SkipTable, BeginTable, FinishTable, FailTable, Interrupted, AfterTable, Record, Leave
<1>4. QED BY <1>1, <1>2, <1>3

LEMMA EnvironmentLeavesMain ==
  Outage \/ Restore \/ (\E w \in Workers : DropConnection(w))
    => UNCHANGED <<stop, handler, main, pc>>
BY DEF Outage, Restore, DropConnection

LEMMA FlaggedStep == Typed /\ Flagged /\ [Next]_vars => Flagged'
<1> SUFFICES ASSUME Typed, Flagged, [Next]_vars PROVE Flagged'
  OBVIOUS
<1>1. handler \in Seq(Frames)
  BY DEF Typed, TypeOK
<1>2. CASE UNCHANGED <<stop, handler>>
  BY <1>2 DEF Flagged
<1>3. CASE SetFlags
  BY <1>3 DEF SetFlags, Flagged
<1>4. ASSUME HandlerAt("lock") \/ HandlerAt("interrupt"), NEW f, Frame(f), UNCHANGED stop
      PROVE  Flagged'
  <2>1. stop
    BY <1>1, <1>4 DEF HandlerAt, Top, Flagged
  <2>2. QED BY <2>1, <1>4 DEF Flagged
<1>5. CASE AcquireLock \/ ReleaseLock
  BY <1>4, <1>5 DEF AcquireLock, ReleaseLock
<1>6. CASE Return
  <2>1. \A i \in DOMAIN handler' : i \in DOMAIN handler /\ handler'[i] = handler[i]
    BY <1>1, <1>6 DEF Return, HandlerAt
  <2>2. QED BY <2>1, <1>6 DEF Return, Flagged
<1>7. CASE Signal
  <2>1. \A i \in DOMAIN handler' :
           handler'[i] = "flags" \/ (i \in DOMAIN handler /\ handler'[i] = handler[i])
    BY <1>1, <1>7 DEF Signal
  <2>2. QED BY <2>1, <1>7 DEF Signal, Flagged
<1>8. QED
  BY <1>2, <1>3, <1>5, <1>6, <1>7, WorkerLeavesMain, EnvironmentLeavesMain
     DEF Next, vars, MainStep, Drain, Join, Conclude

LEMMA FlaggedAlways == Spec => []Flagged
<1>1. Init => Flagged
  BY DEF Init, Flagged
<1>2. QED BY <1>1, FlaggedStep, TypedAlways, PTL DEF Spec

\* stop is set once and for all.
LEMMA StopStays == [Next]_vars => (stop => stop')
BY WorkerLeavesMain, EnvironmentLeavesMain
   DEF Next, vars, MainStep, SetFlags, AcquireLock, ReleaseLock, Drain, Return, Join, Conclude,
       Signal

LEMMA NothingForgottenStep ==
  Typed /\ OnePlace /\ Flagged /\ NothingForgotten /\ [Next]_vars => NothingForgotten'
<1> SUFFICES ASSUME Typed, OnePlace, Flagged, NothingForgotten, [Next]_vars, ~stop'
             PROVE  Tables \subseteq Elements(queue') \cup Busy' \cup Reported'
  BY DEF NothingForgotten
<1>1. ~stop /\ Tables \subseteq Elements(queue) \cup Busy \cup Reported
  BY StopStays DEF NothingForgotten
<1>2. CASE UNCHANGED <<queue, table, results>>
  BY <1>1, <1>2 DEF Busy, Reported
<1>3. ASSUME NEW w \in Workers, Take(w)
      PROVE  Tables \subseteq Elements(queue') \cup Busy' \cup Reported'
  BY <1>1, <1>3, TakeMoves
<1>4. ASSUME NEW w \in Workers, Requeue(w)
      PROVE  Tables \subseteq Elements(queue') \cup Busy' \cup Reported'
  BY <1>1, <1>4, RequeueMoves
<1>5. ASSUME NEW w \in Workers, Record(w)
      PROVE  Tables \subseteq Elements(queue') \cup Busy' \cup Reported'
  BY <1>1, <1>5, RecordMoves
<1>6. \A w \in Workers : ~Interrupted(w)
  BY <1>1, InterruptedMoves
<1>7. ~Drain
  BY <1>1 DEF Drain, HandlerAt, Top, Flagged, Typed, TypeOK
<1>8. QED BY <1>2, <1>3, <1>4, <1>5, <1>6, <1>7, OnlyMovesMove DEF Moves

\* Until a signal stops the pool, no table is lost between the queue, the
\* workers and the results (sync_worker_loop, handle_termination).
THEOREM NoTableForgotten == Spec => []NothingForgotten
<1>1. Init => NothingForgotten
  BY DEF Init, NothingForgotten
<1>2. QED
  BY <1>1, NothingForgottenStep, TypedAlways, TableIsInOnePlace, FlaggedAlways, PTL DEF Spec

(***************************************************************************)
(* Completion.  The main thread concludes without a signal only when every *)
(* worker is gone, and a worker leaves a queue that somebody may still     *)
(* fill only to somebody who is still running.                             *)
(***************************************************************************)

Concluded ==
    /\ main \in {"complete", "terminated"} => handler = << >>
    /\ main \in {"joined", "complete"} => stop \/ \A w \in Workers : pc[w] \in Gone
    /\ main = "complete" => ~stop

Attended ==
    ~stop /\ (\E w \in Workers : pc[w] \in {"leaving", "left"})
       => queue = << >> \/ \E v \in Workers : pc[v] \in Running

LEMMA ConcludedStep == Typed /\ Concluded /\ [Next]_vars => Concluded'
<1> SUFFICES ASSUME Typed, Concluded, [Next]_vars PROVE Concluded'
  OBVIOUS
<1>1. (\A w \in Workers : pc[w] \in Gone) => \A w \in Workers : ~WorkerStep(w)
  BY WorkerLeavesMain
<1>2. ASSUME NEW w \in Workers, WorkerStep(w) PROVE Concluded'
  BY <1>1, <1>2, WorkerLeavesMain DEF Concluded
<1>3. CASE UNCHANGED <<stop, handler, main, pc>>
  BY <1>3 DEF Concluded
<1>4. CASE SetFlags \/ AcquireLock \/ ReleaseLock \/ Drain \/ Return
  BY <1>4 DEF SetFlags, AcquireLock, ReleaseLock, Drain, Return, HandlerAt, Concluded
<1>5. CASE Join
  BY <1>5 DEF Join, Concluded
<1>6. CASE Conclude
  BY <1>6 DEF Conclude, Concluded
<1>7. CASE Signal
  BY <1>7 DEF Signal, Concluded
<1>8. QED
  BY <1>2, <1>3, <1>4, <1>5, <1>6, <1>7, EnvironmentLeavesMain DEF Next, vars, MainStep

LEMMA AttendedStep == Typed /\ Attended /\ [Next]_vars => Attended'
<1> SUFFICES ASSUME Typed, Attended, [Next]_vars, ~stop',
                    NEW u \in Workers, pc'[u] \in {"leaving", "left"}
             PROVE  queue' = << >> \/ \E v \in Workers : pc'[v] \in Running
  BY DEF Attended
<1> DEFINE Goal == queue' = << >> \/ \E v \in Workers : pc'[v] \in Running
<1>a. ~stop /\ pc \in [Workers -> Phases]
  BY StopStays DEF Typed, TypeOK
<1>1. CASE UNCHANGED <<queue, pc>>
  BY <1>a, <1>1 DEF Attended
<1>2. CASE pc' = pc /\ Drain
  BY <1>a, <1>2 DEF Drain, Attended
<1>3. ASSUME NEW w \in Workers, WorkerStep(w) PROVE Goal
  <2>1. PICK phase : pc' = [pc EXCEPT ![w] = phase]
    BY <1>3, WorkerLeavesMain
  <2>2. CASE pc'[w] \in Running
    BY <2>2
  <2>3. CASE pc'[w] \notin Running /\ pc[w] \in Running
    <3>1. Recheck(w) /\ queue = << >> /\ queue' = queue
      BY <1>a, <1>3, <2>3 DEF Running, WorkerStep, Start, Attach, Die, CheckStop, Take,
         GetTimesOut, Recheck, EnsureConnection, Requeue, SkipTable, BeginTable, FinishTable,
         FailTable, Interrupted, AfterTable, Record, Leave, Phases
    <3>2. QED BY <3>1
  <2>4. CASE pc'[w] \notin Running /\ pc[w] \notin Running
    <3>1. Start(w) \/ Attach(w) \/ Die(w) \/ Leave(w)
      BY <1>3, <2>4 DEF Running, WorkerStep, CheckStop, Take, GetTimesOut, Recheck,
         EnsureConnection, Requeue, SkipTable, BeginTable, FinishTable, FailTable, Interrupted,
         AfterTable, Record
    <3>2. /\ queue' = queue /\ pc'[w] \in {"attach", "loop", "died", "left"}
          /\ pc'[w] = "left" => pc[w] = "leaving"
      BY <1>a, <3>1 DEF Start, Attach, Die, Leave
    <3>3. \E x \in Workers : pc[x] \in {"leaving", "left"}
      <4>1. CASE u = w
        BY <3>2, <4>1
      <4>2. CASE u # w
        BY <1>a, <2>1, <4>2
      <4>3. QED BY <4>1, <4>2
    <3>4. CASE queue = << >>
      BY <3>2, <3>4
    <3>5. CASE \E v \in Workers : pc[v] \in Running
      BY <1>a, <2>1, <2>4, <3>5
    <3>6. QED BY <1>a, <3>3, <3>4, <3>5 DEF Attended
  <2>5. QED BY <2>2, <2>3, <2>4
<1>4. QED
  BY <1>1, <1>2, <1>3 DEF Next, vars, MainStep, SetFlags, AcquireLock, ReleaseLock, Drain, Return,
     Join, Conclude, Signal, Outage, Restore, DropConnection

LEMMA CompletionAlways == Spec => [](Concluded /\ Attended)
<1>1. Init => Concluded /\ Attended
  BY DEF Init, Concluded, Attended
<1>2. QED BY <1>1, ConcludedStep, AttendedStep, TypedAlways, PTL DEF Spec

\* A run that ends without a signal has a result for every table, provided one
\* worker got a DuckLake connection (sync_worker_loop and the joins of
\* _ducklake_sync_impl).
THEOREM CompleteRunIsComplete == Spec => []CompleteIsComplete
<1>1. Typed /\ Concluded /\ Attended /\ NothingForgotten => CompleteIsComplete
  <2> SUFFICES ASSUME Typed, Concluded, Attended, NothingForgotten, main = "complete",
                      NEW w \in Workers, pc[w] = "left"
               PROVE  Reported = Tables
    BY DEF CompleteIsComplete, SomeoneStayed
  <2>1. ~stop /\ \A v \in Workers : pc[v] \in Gone
    BY DEF Concluded
  <2>2. \A v \in Workers : pc[v] \notin Running /\ table[v] = Null
    BY <2>1 DEF Gone, Running, Typed, Holds, Holding
  <2>3. queue = << >> /\ Busy = {}
    BY <2>1, <2>2 DEF Attended, Busy
  <2>4. QED BY <2>1, <2>3, ElementsOfEmpty DEF NothingForgotten, Reported
<1>2. QED BY <1>1, TypedAlways, CompletionAlways, NoTableForgotten, PTL

(***************************************************************************)
(* Tries and results.  The number of tries a table has had follows from    *)
(* where it is; a worker that is done with a table left it in a final      *)
(* status.                                                                 *)
(***************************************************************************)

Tries(w) ==
    IF pc[w] = "took" THEN 0
    ELSE IF pc[w] \in {"sync", "syncing"} THEN IF again[w] THEN 1 ELSE 0
    ELSE IF again[w] THEN 2 ELSE 1

Fresh == \A t \in Elements(queue) : marked[t] = 0
Counted == \A w \in Workers : table[w] # Null /\ pc[w] # "record" => marked[table[w]] = Tries(w)
Bounded == \A t \in Tables : marked[t] <= 2 /\ results[t] <= 1
TookAnew == \A w \in Workers : pc[w] = "took" => again[w] = FALSE
TriesInv == Fresh /\ Counted /\ Bounded /\ TookAnew

Final == \A w \in Workers :
             pc[w] \in {"after", "record"} => status[table[w]] \in Verdict(outcome[w])

\* What another worker's step, or a step of its own elsewhere, cannot touch.
LEMMA OthersTables ==
  ASSUME Typed, OnePlace, NEW w \in Workers, NEW v \in Workers, v # w, table[v] # Null
  PROVE  table[w] # table[v]
BY DEF Typed, TypeOK, OnePlace

LEMMA HoldsWhatIsApart ==
  ASSUME Typed, OnePlace, NEW w \in Workers, table[w] # Null
  PROVE  /\ table[w] \in Tables /\ table[w] \notin Elements(queue) /\ results[table[w]] = 0
<1>1. table[w] \in Tables /\ table[w] \in Busy
  BY DEF Busy, Typed, TypeOK
<1>2. table[w] \notin Elements(queue) /\ table[w] \notin Reported
  BY <1>1 DEF OnePlace
<1>3. QED BY <1>1, <1>2 DEF Reported, Typed, TypeOK

\* A worker's step in which it marks its table.
LEMMA MarkStep ==
  ASSUME Typed, OnePlace, TriesInv, Final, NEW w \in Workers, NEW s, NEW o, s \in Verdict(o),
         pc[w] \in {"sync", "syncing"}, Mark(table[w], s), outcome' = [outcome EXCEPT ![w] = o],
         pc' = [pc EXCEPT ![w] = "after"], UNCHANGED <<queue, table, again>>
  PROVE  TriesInv' /\ Final'
<1>1. /\ table[w] # Null /\ table[w] \in Tables /\ table[w] \notin Elements(queue)
      /\ results[table[w]] = 0
  BY HoldsWhatIsApart DEF Typed, Holds, Holding
<1>2. \A v \in Workers \ {w} : table[v] # Null => table[v] # table[w]
  BY OthersTables
<1>3. /\ marked' = [marked EXCEPT ![table[w]] = @ + 1]
      /\ status' = [status EXCEPT ![table[w]] = s] /\ results' = results
  BY DEF Mark
<1>4. marked[table[w]] = IF again[w] THEN 1 ELSE 0
  BY <1>1 DEF TriesInv, Counted, Tries
<1>5. \A t \in Tables \ {table[w]} : marked'[t] = marked[t] /\ status'[t] = status[t]
  BY <1>3 DEF Typed, TypeOK
<1>6. marked'[table[w]] = (IF again[w] THEN 2 ELSE 1) /\ status'[table[w]] = s
  BY <1>1, <1>3, <1>4 DEF Typed, TypeOK
<1>7. /\ \A v \in Workers : table[v] \in Tables \cup {Null} /\ again[v] \in BOOLEAN
      /\ Elements(queue) \subseteq Tables /\ pc'[w] = "after"
      /\ \A v \in Workers \ {w} : pc'[v] = pc[v]
  BY DEF Typed, TypeOK, Elements
<1>8. Fresh'
  BY <1>1, <1>5, <1>7 DEF TriesInv, Fresh
<1>9. Counted'
  <2> SUFFICES ASSUME NEW v \in Workers, table[v] # Null, pc'[v] # "record"
               PROVE  marked'[table[v]] = Tries(v)'
    BY DEF Counted
  <2>1. CASE v = w
    BY <1>6, <1>7, <2>1 DEF Tries
  <2>2. CASE v # w
    BY <1>2, <1>5, <1>7, <2>2 DEF Tries, TriesInv, Counted
  <2>3. QED BY <2>1, <2>2
<1>10. Bounded'
  BY <1>3, <1>5, <1>6 DEF TriesInv, Bounded
<1>11. TookAnew'
  BY <1>7 DEF TriesInv, TookAnew
<1>12. Final'
  <2>1. \A v \in Workers \ {w} : pc[v] \in {"after", "record"} => table[v] \in Tables \ {table[w]}
    BY <1>2, <1>7 DEF Typed, Holds, Holding
  <2>2. outcome'[w] = o /\ \A v \in Workers \ {w} : outcome'[v] = outcome[v]
    BY DEF Typed, TypeOK
  <2>3. QED BY <1>5, <1>6, <1>7, <2>1, <2>2 DEF Final
<1>13. QED BY <1>8, <1>9, <1>10, <1>11, <1>12 DEF TriesInv

LEMMA TriesElsewhere ==
  ASSUME Typed, TriesInv, Final, NEW w \in Workers, NEW phase,
         pc' = [pc EXCEPT ![w] = phase], UNCHANGED <<queue, table, again, outcome, status, results, marked>>,
         phase \notin {"took", "record", "after"},
         table[w] # Null => Tries(w)' = Tries(w) /\ pc[w] # "record"
  PROVE  TriesInv' /\ Final'
<1>1. pc'[w] = phase /\ \A v \in Workers \ {w} : pc'[v] = pc[v]
  BY DEF Typed, TypeOK
<1>2. Counted'
  BY <1>1 DEF TriesInv, Counted, Tries
<1>3. Fresh' /\ Bounded' /\ TookAnew'
  BY <1>1 DEF TriesInv, Fresh, Bounded, TookAnew
<1>4. Final'
  BY <1>1 DEF Final
<1>5. QED BY <1>2, <1>3, <1>4 DEF TriesInv

LEMMA TriesWorker ==
  \A w \in Workers : Typed /\ OnePlace /\ TriesInv /\ Final /\ WorkerStep(w) => TriesInv' /\ Final'
<1> SUFFICES ASSUME Typed, OnePlace, TriesInv, Final, NEW w \in Workers
             PROVE  WorkerStep(w) => TriesInv' /\ Final'
  OBVIOUS
<1>a. /\ pc \in [Workers -> Phases] /\ again \in [Workers -> BOOLEAN]
      /\ table \in [Workers -> Tables \cup {Null}]
      /\ marked \in [Tables -> Nat] /\ results \in [Tables -> Nat]
      /\ DOMAIN status = Tables /\ Elements(queue) \subseteq Tables
  BY DEF Typed, TypeOK, Elements
<1>b. /\ Fresh /\ Counted /\ Bounded /\ TookAnew
      /\ \A v \in Workers : table[v] # Null <=> pc[v] \in Holding
  BY DEF TriesInv, Typed, Holds
<1>c. pc[w] \in Holding =>
         /\ table[w] # Null /\ table[w] \in Tables /\ table[w] \notin Elements(queue)
         /\ results[table[w]] = 0
         /\ \A v \in Workers \ {w} : table[v] # Null => table[v] # table[w]
  BY <1>b, HoldsWhatIsApart, OthersTables
<1>1. Start(w) \/ Attach(w) \/ Die(w) \/ CheckStop(w) \/ GetTimesOut(w) \/ Recheck(w) \/ Leave(w)
        => TriesInv' /\ Final'
  <2> SUFFICES ASSUME \/ Start(w) \/ Attach(w) \/ Die(w) \/ CheckStop(w) \/ GetTimesOut(w)
                      \/ Recheck(w) \/ Leave(w)
               PROVE  TriesInv' /\ Final'
    OBVIOUS
  <2>1. UNCHANGED <<queue, table, again, outcome, status, results, marked>> /\ pc[w] \notin Holding
    BY DEF Start, Attach, Die, CheckStop, GetTimesOut, Recheck, Leave, Holding
  <2>2. \E phase \in {"attach", "loop", "died", "leaving", "get", "empty", "left"} :
           pc' = [pc EXCEPT ![w] = phase]
    BY DEF Start, Attach, Die, CheckStop, GetTimesOut, Recheck, Leave
  <2>3. QED BY <1>b, <2>1, <2>2, TriesElsewhere
<1>2. Take(w) => TriesInv' /\ Final'
  <2> SUFFICES ASSUME Take(w) PROVE TriesInv' /\ Final'
    OBVIOUS
  <2>1. /\ Head(queue) \in Elements(queue) /\ table'[w] = Head(queue)
        /\ \A v \in Workers \ {w} : table'[v] = table[v] /\ pc'[v] = pc[v] /\ again'[v] = again[v]
        /\ pc'[w] = "took" /\ again'[w] = FALSE
        /\ UNCHANGED <<outcome, status, results, marked>> /\ Elements(queue') \subseteq Elements(queue)
    BY <1>a, TakeMoves DEF Take
  <2>2. Fresh' /\ Bounded' /\ TookAnew'
    BY <1>b, <2>1 DEF Fresh, Bounded, TookAnew
  <2>3. Counted'
    BY <1>b, <2>1 DEF Counted, Tries, Fresh
  <2>4. Final'
    BY <2>1 DEF Final
  <2>5. QED BY <2>2, <2>3, <2>4 DEF TriesInv
<1>3. EnsureConnection(w) => TriesInv' /\ Final'
  <2> SUFFICES ASSUME EnsureConnection(w) PROVE TriesInv' /\ Final'
    OBVIOUS
  <2>1. /\ UNCHANGED <<queue, table, again, outcome, status, results, marked>>
        /\ pc' = [pc EXCEPT ![w] = "sync"] /\ pc[w] = "took" /\ again[w] = FALSE
    BY <1>b DEF EnsureConnection, TookAnew
  <2>2. Tries(w)' = Tries(w)
    BY <1>a, <2>1 DEF Tries
  <2>3. QED BY <2>1, <2>2, TriesElsewhere
<1>4. Requeue(w) => TriesInv' /\ Final'
  <2> SUFFICES ASSUME Requeue(w) PROVE TriesInv' /\ Final'
    OBVIOUS
  <2>1. /\ table'[w] = Null /\ \A v \in Workers \ {w} : table'[v] = table[v] /\ pc'[v] = pc[v]
        /\ pc'[w] = "loop" /\ UNCHANGED <<again, outcome, status, results, marked>>
        /\ Elements(queue') = Elements(queue) \cup {table[w]} /\ pc[w] = "took"
    BY <1>a, RequeueMoves DEF Requeue
  <2>2. marked[table[w]] = 0
    BY <1>b, <2>1 DEF Counted, Tries, Holding
  <2>3. QED
    BY <1>b, <2>1, <2>2 DEF TriesInv, Fresh, Counted, Bounded, TookAnew, Tries, Final
<1>5. SkipTable(w) => TriesInv' /\ Final'
  <2>1. "skipped" \in Verdict("missing")
    BY DEF Verdict
  <2>2. QED BY <2>1, MarkStep DEF SkipTable
<1>6. BeginTable(w) => TriesInv' /\ Final'
  <2> SUFFICES ASSUME BeginTable(w) PROVE TriesInv' /\ Final'
    OBVIOUS
  <2>1. /\ pc' = [pc EXCEPT ![w] = "syncing"] /\ pc[w] = "sync"
        /\ status' = [status EXCEPT ![table[w]] = "syncing"]
        /\ UNCHANGED <<queue, table, again, outcome, results, marked>>
    BY DEF BeginTable
  <2>2. pc'[w] = "syncing" /\ \A v \in Workers \ {w} : pc'[v] = pc[v]
    BY <1>a, <2>1
  <2>3. Counted' /\ Fresh' /\ Bounded' /\ TookAnew'
    BY <1>b, <2>1, <2>2 DEF Counted, Fresh, Bounded, TookAnew, Tries
  <2>4. \A t \in Tables \ {table[w]} : status'[t] = status[t]
    BY <1>a, <2>1
  <2>5. \A t \in Reported : t \in Tables \ {table[w]}
    BY <1>c, <2>1 DEF Reported, Holding
  <2>6. \A v \in Workers \ {w} : pc[v] \in {"after", "record"} => table[v] \in Tables \ {table[w]}
    BY <1>a, <1>b, <1>c, <2>1 DEF Holding
  <2>7. Final'
    BY <2>1, <2>2, <2>4, <2>5, <2>6 DEF Final
  <2>8. QED BY <2>3, <2>7 DEF TriesInv
<1>7. (\E s \in {"completed", "skipped"} : FinishTable(w, s)) => TriesInv' /\ Final'
  <2> SUFFICES ASSUME NEW s \in {"completed", "skipped"}, FinishTable(w, s)
               PROVE  TriesInv' /\ Final'
    OBVIOUS
  <2>1. s \in Verdict("ok")
    BY DEF Verdict
  <2>2. QED BY <2>1, MarkStep DEF FinishTable
<1>8. FailTable(w) => TriesInv' /\ Final'
  <2>1. "error" \in Verdict("error")
    BY DEF Verdict
  <2>2. QED BY <2>1, MarkStep DEF FailTable
<1>9. Interrupted(w) => TriesInv' /\ Final'
  <2> SUFFICES ASSUME Interrupted(w) PROVE TriesInv' /\ Final'
    OBVIOUS
  <2>1. /\ pc[w] = "syncing" /\ pc'[w] = "leaving" /\ table'[w] = Null /\ queue' = queue
        /\ \A v \in Workers \ {w} : table'[v] = table[v] /\ pc'[v] = pc[v]
        /\ UNCHANGED <<again, outcome, results>>
    BY <1>a DEF Interrupted, Mark
  <2>2. marked[table[w]] <= 1 /\ marked[table[w]] \in Nat
    BY <1>a, <1>b, <1>c, <2>1 DEF Counted, Tries, Holding
  <2>3. /\ marked'[table[w]] = marked[table[w]] + 1 /\ status'[table[w]] = "error"
        /\ \A t \in Tables \ {table[w]} : marked'[t] = marked[t] /\ status'[t] = status[t]
    BY <1>a, <1>c, <2>1 DEF Interrupted, Mark, Holding
  <2>4. Fresh' /\ Bounded' /\ TookAnew'
    BY <1>a, <1>b, <1>c, <2>1, <2>2, <2>3 DEF Fresh, Bounded, TookAnew, Holding
  <2>5. Counted'
    BY <1>a, <1>b, <1>c, <2>1, <2>3 DEF Counted, Tries, Holding
  <2>6. Final'
    <3>1. \A t \in Reported : t \in Tables \ {table[w]}
      BY <1>c, <2>1 DEF Reported, Holding
    <3>2. \A v \in Workers \ {w} :
             pc[v] \in {"after", "record"} => table[v] \in Tables \ {table[w]}
      BY <1>a, <1>b, <1>c, <2>1 DEF Holding
    <3>3. QED BY <2>1, <2>3, <3>1, <3>2 DEF Final
  <2>7. QED BY <2>4, <2>5, <2>6 DEF TriesInv
<1>10. AfterTable(w) => TriesInv' /\ Final'
  <2> SUFFICES ASSUME AfterTable(w) PROVE TriesInv' /\ Final'
    OBVIOUS
  <2>1. /\ pc[w] = "after" /\ UNCHANGED <<queue, table, outcome, status, results, marked>>
        /\ \A v \in Workers \ {w} : pc'[v] = pc[v] /\ again'[v] = again[v]
        /\ \/ pc'[w] = "record"
           \/ pc'[w] = "sync" /\ ~again[w] /\ again'[w] = TRUE
    BY <1>a DEF AfterTable, Typed, TypeOK
  <2>2. Counted'
    BY <1>a, <1>b, <2>1 DEF Counted, Tries
  <2>3. Fresh' /\ Bounded' /\ TookAnew'
    BY <1>b, <2>1 DEF Fresh, Bounded, TookAnew
  <2>4. Final'
    BY <2>1 DEF Final
  <2>5. QED BY <2>2, <2>3, <2>4 DEF TriesInv
<1>11. Record(w) => TriesInv' /\ Final'
  <2> SUFFICES ASSUME Record(w) PROVE TriesInv' /\ Final'
    OBVIOUS
  <2>1. /\ pc[w] = "record" /\ pc'[w] = "loop" /\ table'[w] = Null
        /\ \A v \in Workers \ {w} : table'[v] = table[v] /\ pc'[v] = pc[v]
        /\ UNCHANGED <<queue, again, outcome, status, marked>>
        /\ results'[table[w]] = 1 /\ \A t \in Tables \ {table[w]} : results'[t] = results[t]
    BY <1>a, <1>c DEF Record, Holding
  <2>2. Fresh' /\ Bounded' /\ TookAnew' /\ Counted'
    BY <1>b, <1>c, <2>1 DEF Fresh, Bounded, TookAnew, Counted, Tries, Holding
  <2>3. Final'
    BY <1>b, <1>c, <2>1 DEF Final, Holding
  <2>4. QED BY <2>2, <2>3 DEF TriesInv
<1>12. QED
  BY <1>1, <1>2, <1>3, <1>4, <1>5, <1>6, <1>7, <1>8, <1>9, <1>10, <1>11 DEF WorkerStep

LEMMA TriesStep == Typed /\ OnePlace /\ TriesInv /\ Final /\ [Next]_vars => TriesInv' /\ Final'
<1> SUFFICES ASSUME Typed, OnePlace, TriesInv, Final, [Next]_vars PROVE TriesInv' /\ Final'
  OBVIOUS
<1>1. CASE /\ UNCHANGED <<pc, table, again, outcome, status, results, marked>>
           /\ Elements(queue') \subseteq Elements(queue)
  BY <1>1 DEF TriesInv, Fresh, Counted, Bounded, TookAnew, Tries, Final
<1>2. CASE Drain
  BY <1>1, <1>2, DrainMoves DEF Drain
<1>3. ASSUME NEW w \in Workers, WorkerStep(w) PROVE TriesInv' /\ Final'
  BY <1>3, TriesWorker
<1>4. QED
  BY <1>1, <1>2, <1>3 DEF Next, vars, MainStep, SetFlags, AcquireLock, ReleaseLock, Return, Join,
     Conclude, Signal, Outage, Restore, DropConnection

LEMMA TriesAlways == Spec => [](TriesInv /\ Final)
<1>1. Init => TriesInv /\ Final
  BY DEF Init, TriesInv, Fresh, Counted, Bounded, TookAnew, Final, Reported, Elements
<1>2. QED BY <1>1, TriesStep, TypedAlways, TableIsInOnePlace, PTL DEF Spec

\* However often connections are lost and tables requeued, a table is tried
\* twice at the most and gets one result ("reconnect and retry it once").
THEOREM RetriesAreBounded == Spec => []TriedTwiceAtMost
<1>1. TriesInv => TriedTwiceAtMost
  BY DEF TriesInv, Bounded, TriedTwiceAtMost
<1>2. QED BY <1>1, TriesAlways, PTL

\* A step that touches the result, the status or the marks of a table is one
\* of the worker that has it.
LEMMA ReportsStay ==
  ASSUME Typed, OnePlace, Final, [Next]_vars, NEW t \in Tables
  PROVE  /\ results'[t] # results[t] =>
               \E w \in Workers : table[w] = t /\ status'[t] \in Verdict(outcome[w])
         /\ results[t] > 0 => UNCHANGED <<results[t], status[t], marked[t]>>
<1> DEFINE Goal == /\ results'[t] # results[t] =>
                        \E w \in Workers : table[w] = t /\ status'[t] \in Verdict(outcome[w])
                   /\ results[t] > 0 => UNCHANGED <<results[t], status[t], marked[t]>>
<1>1. CASE UNCHANGED <<status, results, marked>>
  BY <1>1
<1>2. ASSUME NEW w \in Workers, NEW s, pc[w] \in {"sync", "syncing"}, Mark(table[w], s) PROVE Goal
  <2>1. results[table[w]] = 0
    BY <1>2, HoldsWhatIsApart DEF Typed, Holds, Holding
  <2>2. QED BY <1>2, <2>1 DEF Mark, Typed, TypeOK
<1>3. ASSUME NEW w \in Workers, BeginTable(w) PROVE Goal
  <2>1. results[table[w]] = 0
    BY <1>3, HoldsWhatIsApart DEF BeginTable, Typed, Holds, Holding
  <2>2. QED BY <1>3, <2>1 DEF BeginTable, Typed, TypeOK
<1>4. ASSUME NEW w \in Workers, Record(w) PROVE Goal
  <2>1. results[table[w]] = 0 /\ table[w] \in Tables
    BY <1>4, HoldsWhatIsApart DEF Record, Typed, Holds, Holding
  <2>2. status'[table[w]] \in Verdict(outcome[w])
    BY <1>4 DEF Record, Final
  <2>3. \A u \in Tables \ {table[w]} : results'[u] = results[u]
    BY <1>4 DEF Record, Typed, TypeOK
  <2>4. status' = status /\ marked' = marked
    BY <1>4 DEF Record
  <2>5. QED BY <2>1, <2>2, <2>3, <2>4
<1>5. ASSUME NEW w \in Workers, WorkerStep(w) PROVE Goal
  <2>1. CASE UNCHANGED <<status, results, marked>>
    BY <1>1, <2>1
  <2>2. CASE SkipTable(w) \/ (\E s \in {"completed", "skipped"} : FinishTable(w, s)) \/ FailTable(w)
             \/ Interrupted(w)
    <3>1. pc[w] \in {"sync", "syncing"} /\ \E s : Mark(table[w], s)
      BY <2>2 DEF SkipTable, FinishTable, FailTable, Interrupted
    <3>2. QED BY <1>2, <3>1
  <2>3. QED
    BY <1>3, <1>4, <1>5, <2>1, <2>2 DEF WorkerStep, Start, Attach, Die, CheckStop, Take,
       GetTimesOut, Recheck, EnsureConnection, Requeue, AfterTable, Leave, reportVars
<1>6. QED
  BY <1>1, <1>5 DEF Next, vars, reportVars, MainStep, SetFlags, AcquireLock, ReleaseLock, Drain,
     Return, Join, Conclude, Signal, Outage, Restore, DropConnection

\* A table is reported with the status of its last try, and whatever happens
\* later neither its status nor its result changes again (mark_completed,
\* mark_skipped and the end of sync_worker_loop).
THEOREM ResultsStayFinal == Spec => ResultsAreFinal
<1>1. Typed /\ OnePlace /\ Final /\ [Next]_vars =>
         [\A t \in Tables :
             /\ results'[t] # results[t] =>
                   \E w \in Workers : table[w] = t /\ status'[t] \in Verdict(outcome[w])
             /\ results[t] > 0 => UNCHANGED <<results[t], status[t], marked[t]>>]_vars
  BY ReportsStay
<1>2. QED
  BY <1>1, TriesAlways, TypedAlways, TableIsInOnePlace, PTL DEF Spec, ResultsAreFinal

(***************************************************************************)
(* Refinement.  Every step of the pool is a step of the bag or leaves the  *)
(* bag as it is.                                                           *)
(***************************************************************************)

BagState ==
    CASE main = "complete" -> IF SomeoneStayed THEN "finished" ELSE "deserted"
      [] stop -> "cancelled"
      [] OTHER -> "open"

LEMMA BagStateStays ==
  ASSUME UNCHANGED <<stop, main>>, main # "complete" \/ UNCHANGED pc
  PROVE  BagState' = BagState
BY DEF BagState, SomeoneStayed

LEMMA WorkerNotComplete ==
  ASSUME Concluded, NEW w \in Workers, WorkerStep(w)
  PROVE  main # "complete" /\ BagState' = BagState
<1>1. main # "complete"
  BY WorkerLeavesMain DEF Concluded
<1>2. UNCHANGED <<stop, main>>
  BY WorkerLeavesMain
<1>3. QED BY <1>1, <1>2, BagStateStays

LEMMA BagInit == Init => Bag!Init
<1> SUFFICES ASSUME Init PROVE Bag!Init
  OBVIOUS
<1>1. Elements(queue) = Tables /\ Busy = {} /\ Reported = {}
  BY DEF Init, Busy, Reported
<1>2. main # "complete" /\ ~stop
  BY DEF Init
<1>3. QED BY <1>1, <1>2 DEF Bag!Init

LEMMA BagStep ==
  Typed /\ OnePlace /\ Flagged /\ Concluded /\ CompleteIsComplete' /\ [Next]_vars
    => [Bag!Next]_(Bag!vars)
<1> SUFFICES ASSUME Typed, OnePlace, Flagged, Concluded, CompleteIsComplete', [Next]_vars
             PROVE  [Bag!Next]_(Bag!vars)
  OBVIOUS
<1>1. ASSUME UNCHANGED <<queue, table, results>>, BagState' = BagState
      PROVE  [Bag!Next]_(Bag!vars)
  BY <1>1 DEF Bag!vars, BagState, Busy, Reported
<1>2. ASSUME NEW w \in Workers, WorkerStep(w) PROVE [Bag!Next]_(Bag!vars)
  <2>1. BagState' = BagState /\ main # "complete"
    BY <1>2, WorkerNotComplete
  <2>2. ASSUME Take(w) PROVE Bag!Take(Head(queue)) /\ Head(queue) \in Tables
    BY <2>1, <2>2, TakeMoves DEF Bag!Take, BagState
  <2>3. ASSUME Requeue(w) PROVE Bag!HandBack(table[w]) /\ table[w] \in Tables
    BY <2>1, <2>3, RequeueMoves DEF Bag!HandBack, BagState
  <2>4. ASSUME Record(w) PROVE Bag!Report(table[w]) /\ table[w] \in Tables
    BY <2>1, <2>4, RecordMoves DEF Bag!Report, BagState
  <2>5. ASSUME Interrupted(w) PROVE Bag!Drop(table[w]) /\ table[w] \in Tables
    <3>1. BagState = "cancelled"
      BY <2>1, <2>5, InterruptedMoves DEF BagState
    <3>2. table[w] \notin Reported /\ table[w] \notin Elements(queue)
      BY <2>5, InterruptedMoves DEF OnePlace
    <3>3. QED BY <2>1, <2>5, <3>1, <3>2, InterruptedMoves DEF Bag!Drop, BagState
  <2>6. CASE UNCHANGED <<queue, table, results>>
    BY <1>1, <2>1, <2>6
  <2>7. CASE Moves(w)
    BY <2>2, <2>3, <2>4, <2>5, <2>7 DEF Moves, Bag!Next
  <2>8. UNCHANGED <<queue, table, results>> \/ Moves(w)
    BY <1>2 DEF Moves, WorkerStep, Start, Attach, Die, CheckStop, GetTimesOut, Recheck,
       EnsureConnection, SkipTable, BeginTable, FinishTable, FailTable, AfterTable, Leave, Mark
  <2>9. QED BY <2>6, <2>7, <2>8
<1>3. CASE Drain
  <2>1. stop /\ main # "complete" /\ BagState' = BagState
    <3>1. stop
      BY <1>3 DEF Drain, HandlerAt, Top, Flagged, Typed, TypeOK
    <3>2. main # "complete"
      BY <1>3 DEF Drain, HandlerAt, Concluded
    <3>3. QED BY <1>3, <3>1, <3>2, BagStateStays DEF Drain
  <2>2. BagState = "cancelled"
    BY <2>1 DEF BagState
  <2>3. Head(queue) \notin Reported /\ Head(queue) \notin Busy /\ Head(queue) \in Tables
    BY <1>3, DrainMoves DEF OnePlace
  <2>4. Bag!Drop(Head(queue))
    BY <1>3, <2>1, <2>2, <2>3, DrainMoves DEF Bag!Drop, BagState
  <2>5. QED BY <2>3, <2>4 DEF Bag!Next
<1>4. CASE SetFlags
  <2>1. main # "complete" /\ main' = main /\ stop'
    BY <1>4 DEF SetFlags, HandlerAt, Concluded
  <2>2. BagState' = "cancelled" /\ UNCHANGED <<queue, table, results>>
    BY <1>4, <2>1 DEF SetFlags, BagState
  <2>3. Bag!Cancel
    BY <2>2 DEF Bag!Cancel, BagState, Busy, Reported
  <2>4. QED BY <2>3 DEF Bag!Next
<1>5. CASE AcquireLock \/ ReleaseLock \/ Return \/ Signal \/ Outage \/ Restore
  <2>1. UNCHANGED <<queue, table, results, stop, main, pc>>
    BY <1>5 DEF AcquireLock, ReleaseLock, Return, Signal, Outage, Restore
  <2>2. QED BY <1>1, <2>1, BagStateStays
<1>6. ASSUME NEW w \in Workers, DropConnection(w) PROVE [Bag!Next]_(Bag!vars)
  <2>1. UNCHANGED <<queue, table, results, stop, main, pc>>
    BY <1>6 DEF DropConnection
  <2>2. QED BY <1>1, <2>1, BagStateStays
<1>7. CASE Join
  <2>1. UNCHANGED <<queue, table, results, stop>> /\ main = "joining" /\ main' = "joined"
    BY <1>7 DEF Join
  <2>2. BagState' = BagState
    BY <2>1 DEF BagState
  <2>3. QED BY <1>1, <2>1, <2>2
<1>8. CASE Conclude
  <2>1. UNCHANGED <<queue, table, results, stop, pc>> /\ main = "joined"
    BY <1>8 DEF Conclude
  <2>2. CASE stop
    <3>1. BagState' = BagState
      BY <1>8, <2>1, <2>2 DEF Conclude, BagState
    <3>2. QED BY <1>1, <2>1, <3>1
  <2>3. CASE ~stop
    <3>1. main' = "complete" /\ BagState = "open"
      BY <1>8, <2>1, <2>3 DEF Conclude, BagState
    <3>2. BagState' = IF SomeoneStayed' THEN "finished" ELSE "deserted"
      BY <2>1, <2>3, <3>1 DEF BagState
    <3>3. Busy = {}
      BY <2>1, <2>3 DEF Concluded, Gone, Typed, Holds, Holding, Busy
    <3>4. Busy' = Busy /\ Reported' = Reported
      BY <2>1 DEF Busy, Reported
    <3>5. CASE SomeoneStayed'
      <4>1. Reported = Tables
        BY <3>1, <3>4, <3>5 DEF CompleteIsComplete
      <4>2. Bag!Finish
        BY <2>1, <3>1, <3>2, <3>4, <3>5, <4>1 DEF Bag!Finish, BagState
      <4>3. QED BY <4>2 DEF Bag!Next
    <3>6. CASE ~SomeoneStayed'
      <4>1. Bag!Desert
        BY <2>1, <3>1, <3>2, <3>3, <3>4, <3>6 DEF Bag!Desert, BagState
      <4>2. QED BY <4>1 DEF Bag!Next
    <3>7. QED BY <3>5, <3>6
  <2>4. QED BY <2>2, <2>3
<1>9. CASE UNCHANGED vars
  <2>1. UNCHANGED <<queue, table, results, stop, main, pc>>
    BY <1>9 DEF vars
  <2>2. QED BY <1>1, <2>1, BagStateStays
<1>10. QED
  BY <1>2, <1>3, <1>4, <1>5, <1>6, <1>7, <1>8, <1>9 DEF Next, MainStep

\* The pool implements the bag of work: workers, connections, retries and
\* signals never show in what happens to the tables (_ducklake_sync_impl).
THEOREM PoolIsWorkBag == Spec => IsWorkBag
<1>1. Spec => Bag!Init /\ [][Bag!Next]_(Bag!vars)
  BY BagInit, BagStep, TypedAlways, TableIsInOnePlace, FlaggedAlways, CompletionAlways,
     CompleteRunIsComplete, PTL DEF Spec
<1>2. QED BY <1>1 DEF IsWorkBag, Bag!Spec
=============================================================================
