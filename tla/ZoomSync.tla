------------------------------ MODULE ZoomSync ------------------------------
(***************************************************************************)
(* zoom_meetings and zoom_recordings: read per user, from a high-water     *)
(* mark that only a finished run moves (it is metadata of the asset's last *)
(* materialization).  The two differ in what an error of one user does:    *)
(* zoom_meetings fails, zoom_recordings counts it and goes on.             *)
(* Time is in half days, so that a timestamp and its date differ.          *)
(***************************************************************************)
EXTENDS Naturals, FiniteSetsExt

CONSTANTS
    Users,
    Ticks,        \* 1 .. n
    Overlap,      \* OVERLAP, LOOKBACK and the length of a chunk
    Lookback,
    ChunkLength,
    BatchSize, MaxMeetings,
    MaxFaults     \* bound on users who leave, failed requests, killed runs

VARIABLES
    now, held,    \* meetings that ended: their host and end
    active,       \* users of fetch_users (status "active")
    asset,        \* "meetings" or "recordings"
    rows,         \* zoom.meetings or zoom.recordings
    mark,         \* latest_meeting_end or latest_recording_start; 0 for none
    pc, start, end,
    todo,         \* users still to ask about
    newest,       \* latest_end or latest_start
    seen,         \* rows not yet upserted
    faults,
    first,        \* history: where the last run without a mark began to read
    skipped       \* history: meetings of users whose error was passed over

vars == <<now, held, active, asset, rows, mark, pc, start, end, todo, newest, seen, faults, first, skipped>>
run == <<pc, start, end, todo, newest, seen>>

Date(t) == t \div 2

(* _month_chunks: a chunk ends ChunkLength after it began and the next one *)
(* begins a day later; Zoom takes the dates of both ends, inclusive.       *)
Dates(s, e) ==
    LET from[t \in 0 .. Max(Ticks) + ChunkLength + 2] ==
            IF t >= e THEN {}
            ELSE LET to == Min({t + ChunkLength, e})
                 IN  (Date(t) .. Date(to)) \cup from[to + 2]
    IN  from[s]

Minus(a, b) == IF a > b THEN a - b ELSE 0

Init ==
    /\ now = 1 /\ held = {} /\ active = Users
    /\ asset \in {"meetings", "recordings"}
    /\ rows = {} /\ mark = 0
    /\ pc = "idle" /\ start = 0 /\ end = 0 /\ todo = {} /\ newest = 0 /\ seen = {}
    /\ faults = 0 /\ first = 0 /\ skipped = {}

(* A run is shorter than the overlap of a day.                             *)
Tick ==
    /\ now + 1 \in Ticks
    /\ pc = "idle" \/ now < end + Overlap
    /\ now' = now + 1
    /\ UNCHANGED <<held, active, asset, rows, mark, run, faults, first, skipped>>

Meet(u) ==
    /\ u \in active /\ Cardinality(held) < MaxMeetings
    /\ held' = held \cup {[host |-> u, at |-> now]}
    /\ UNCHANGED <<now, active, asset, rows, mark, run, faults, first, skipped>>

Deactivate(u) ==
    /\ u \in active /\ faults < MaxFaults
    /\ active' = active \ {u} /\ faults' = faults + 1
    /\ UNCHANGED <<now, held, asset, rows, mark, run, first, skipped>>

(* _resolve_start, then the list of users.  Without a mark on the last     *)
(* materialization (none yet, or a run that saw no meeting) LOOKBACK.      *)
Start ==
    /\ pc = "idle"
    /\ pc' = "users" /\ end' = now /\ todo' = active
    /\ start' = IF mark = 0 THEN Minus(now, Lookback) ELSE Minus(mark, Overlap)
    /\ newest' = 0 /\ seen' = {}
    /\ UNCHANGED <<now, held, active, asset, rows, mark, faults, first, skipped>>

Reported(u) == {m \in held : m.host = u /\ Date(m.at) \in Dates(start, end)}

(* The meetings of one user; a full batch is upserted on the way.          *)
FetchUser(u) ==
    /\ pc = "users" /\ u \in todo
    /\ todo' = todo \ {u}
    /\ newest' = Max({newest} \cup {m.at : m \in Reported(u)})
    /\ LET S == seen \cup Reported(u)
       IN  IF Cardinality(S) >= BatchSize
           THEN rows' = rows \cup S /\ seen' = {}
           ELSE seen' = S /\ rows' = rows
    /\ UNCHANGED <<now, held, active, asset, mark, pc, start, end, faults, first, skipped>>

(* zoom_recordings passes over a user whose recordings cannot be read.     *)
SkipUser(u) ==
    /\ pc = "users" /\ u \in todo /\ asset = "recordings" /\ faults < MaxFaults
    /\ todo' = todo \ {u} /\ faults' = faults + 1
    /\ skipped' = skipped \cup Reported(u)
    /\ UNCHANGED <<now, held, active, asset, rows, mark, pc, start, end, newest, seen, first>>

Finish ==
    /\ pc = "users" /\ todo = {}
    /\ pc' = "idle" /\ rows' = rows \cup seen /\ seen' = {}
    /\ mark' = newest
    /\ first' = IF mark = 0 THEN start + 1 ELSE first
    /\ start' = 0 /\ end' = 0 /\ newest' = 0
    /\ UNCHANGED <<now, held, active, asset, todo, faults, skipped>>

(* _request gives up (15 attempts at a 429, or another status), a list of  *)
(* users or a database that fails, a killed run: no materialization.       *)
Fail ==
    /\ pc = "users" /\ faults < MaxFaults
    /\ pc' = "idle" /\ seen' = {} /\ faults' = faults + 1
    /\ start' = 0 /\ end' = 0 /\ newest' = 0 /\ todo' = {}
    /\ UNCHANGED <<now, held, active, asset, rows, mark, first, skipped>>

Next ==
    \/ Tick \/ Start \/ Finish \/ Fail
    \/ \E u \in Users : Meet(u) \/ Deactivate(u) \/ FetchUser(u) \/ SkipUser(u)

Spec == Init /\ [][Next]_vars

-----------------------------------------------------------------------------

TypeOK ==
    /\ now \in Ticks /\ active \subseteq Users /\ todo \subseteq Users
    /\ \A S \in {held, rows, seen, skipped} : S \subseteq [host : Users, at : Ticks]
    /\ pc \in {"idle", "users"} /\ asset \in {"meetings", "recordings"}
    /\ {mark, start, end, newest} \subseteq 0 .. now
    /\ faults \in 0 .. MaxFaults

(* What ended before the point the next run reads from is stored, if its   *)
(* host is still listed: a host who leaves the account first takes the     *)
(* meetings since the last run along, and a user zoom_recordings passed    *)
(* over is asked for only what is newer than everybody's newest recording. *)
NoneLost ==
    mark # 0 =>
        \A m \in held :
            /\ m.host \in active
            /\ m.at >= first /\ m.at < Minus(mark, Overlap)
            => m \in rows \cup skipped
=============================================================================
