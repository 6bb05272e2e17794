---------------------------- MODULE ZoomChildren ----------------------------
(***************************************************************************)
(* The seven assets that read one report per meeting or recording:         *)
(* participants, details, QoS, sharing, polls, Q&A and recording views.    *)
(* They differ in the key a report entry is stored under; the former keys  *)
(* let different people collide (see the comments beside them).            *)
(***************************************************************************)
EXTENDS Naturals, FiniteSetsExt

CONSTANTS
    Meetings,
    Accounts,   \* a Zoom account: its id, or the name and email of polls
    Sessions,   \* Zoom's id of a participation, a poll launch, a question
    Times,
    Guest,      \* the empty id, name and email of who is not signed in
    BatchSize, MaxEntries, MaxFaults

Kinds == {"participants", "details", "qos", "sharing", "polls", "qa", "analytics"}
Entries == [account : Accounts \cup {Guest}, session : Sessions, at : Times]

VARIABLES
    kind,      \* the asset at work
    report,    \* what Zoom reports of each meeting
    table,     \* the rows: a set of [key, entry]
    batch,     \* the batch of the run
    todo, pc, faults,
    fetched    \* history: the meetings read by this run

vars == <<kind, report, table, batch, todo, pc, faults, fetched>>

\* pid, keyed by the participant's session and the time of joining.
ParticipantKey(e) == <<e.session, e.at>>
\* did and qid of _detail_row and _qos_row: participant_uuid and join_time.
DetailKey(e) == <<e.session, e.at>>
QosKey(e) == <<e.session, e.at>>
\* sid: a hash of the whole entry.
SharingKey(e) == <<e>>
\* Polls and Q&A: who, which launch or question, and when.
PollKey(e) == <<e.account, e.session, e.at>>
QaKey(e) == <<e.session, e.account, e.at>>
\* aid: the view's time, email and name.
ViewKey(e) == <<e.at, e.account>>

Key(e) ==
    CASE kind = "participants" -> ParticipantKey(e)
      [] kind = "details" -> DetailKey(e)
      [] kind = "qos" -> QosKey(e)
      [] kind = "sharing" -> SharingKey(e)
      [] kind = "polls" -> PollKey(e)
      [] kind = "qa" -> QaKey(e)
      [] kind = "analytics" -> ViewKey(e)

Init ==
    /\ kind = "participants" /\ report = [m \in Meetings |-> {}]
    /\ table = {} /\ batch = {} /\ todo = {} /\ pc = "idle"
    /\ faults = 0 /\ fetched = {}

(* A run of one of the assets over the meetings of its look-back window.   *)
Start ==
    /\ pc = "idle" /\ table = {}
    /\ \E k \in Kinds :
           /\ kind' = k
           /\ \E S \in UNION {kSubset(n, Meetings \X Entries) : n \in 0 .. MaxEntries} :
                  report' = [m \in Meetings |-> {p[2] : p \in {q \in S : q[1] = m}}]
    /\ pc' = "reading" /\ todo' = Meetings /\ batch' = {} /\ fetched' = {}
    /\ UNCHANGED <<table, faults>>

Again ==
    /\ pc \in {"done", "failed"} /\ todo = {}
    /\ pc' = "reading" /\ todo' = Meetings /\ batch' = {} /\ fetched' = {}
    /\ UNCHANGED <<kind, report, table, faults>>

\* _dedupe_on_conflict_key and INSERT ... ON CONFLICT DO UPDATE: of rows that
\* share a key one is kept, and it replaces the one in the table.
Upserted(B) ==
    {T \in SUBSET (B \cup {r \in table : \A b \in B : b.key # r.key}) :
        /\ \A r \in table : (\A b \in B : b.key # r.key) => r \in T
        /\ \A b \in B : Cardinality({r \in T : r.key = b.key}) = 1}

Row(m, e) == [key |-> <<m, Key(e)>>, entry |-> e]

(* One meeting: its report is read, and a full batch is upserted.          *)
FetchMeeting(m) ==
    /\ pc = "reading" /\ m \in todo
    /\ todo' = todo \ {m} /\ fetched' = fetched \cup {m}
    /\ LET B == batch \cup {Row(m, e) : e \in report[m]}
       IN  IF Cardinality(B) >= BatchSize
           THEN table' \in Upserted(B) /\ batch' = {}
           ELSE batch' = B /\ table' = table
    /\ UNCHANGED <<kind, report, pc, faults>>

(* An error of one meeting is counted, and the next run reads it again.    *)
SkipMeeting(m) ==
    /\ pc = "reading" /\ m \in todo /\ faults < MaxFaults
    /\ todo' = todo \ {m} /\ faults' = faults + 1
    /\ UNCHANGED <<kind, report, table, batch, pc, fetched>>

(* The last batch.  That of the details has 25 placeholders for its 31     *)
(* columns: execute_values raises, and the run fails.                      *)
Finish ==
    /\ pc = "reading" /\ todo = {}
    /\ IF kind = "details" /\ batch # {}
       THEN pc' = "failed" /\ table' = table
       ELSE pc' = "done" /\ table' \in Upserted(batch)
    /\ batch' = {}
    /\ UNCHANGED <<kind, report, todo, faults, fetched>>

Next ==
    \/ Start \/ Again \/ Finish
    \/ \E m \in Meetings : FetchMeeting(m) \/ SkipMeeting(m)

Spec == Init /\ [][Next]_vars

-----------------------------------------------------------------------------

TypeOK ==
    /\ kind \in Kinds /\ report \in [Meetings -> SUBSET Entries]
    /\ todo \subseteq Meetings /\ fetched \subseteq Meetings
    /\ pc \in {"idle", "reading", "done", "failed"} /\ faults \in 0 .. MaxFaults
    /\ \A r \in table \cup batch : r.key[1] \in Meetings /\ r.entry \in Entries

\* What Zoom gives to tell the entries of a report apart: participations by
\* their session and when they began; a view is not told from another of the
\* same person in the same second; the others by all they say.
Told(e) ==
    CASE kind \in {"participants", "details", "qos"} -> <<e.session, e.at>>
      [] kind = "analytics" -> <<e.account, e.at>>
      [] OTHER -> e

(* A run that succeeds has stored every entry it read, in a row that no      *)
(* entry told apart from it has taken: the last batch is written, and a      *)
(* guest, a rejoined session or a second answer keeps a row of its own.      *)
EveryEntryHasItsRow ==
    pc = "done" =>
        \A m \in fetched : \A e \in report[m] :
            \E r \in table : r.key[1] = m /\ Told(r.entry) = Told(e)
=============================================================================
