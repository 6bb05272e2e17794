--------------------------- MODULE SlackAnalytics ---------------------------
(***************************************************************************)
(* slack_public_channel_analytics and slack_member_analytics: one file per *)
(* day at Slack, one DELETE and COPY per day, committed day by day.  The   *)
(* first run goes backwards from today; later runs forward from the newest *)
(* day stored.  The two assets are the same program over two tables.       *)
(***************************************************************************)
EXTENDS Naturals, FiniteSetsExt

CONSTANTS
    Days,        \* 1 .. n
    MaxFaults    \* bound on runs that end early

VARIABLES
    today,
    files,       \* days Slack has published a file for
    gone,        \* days Slack will never publish one for
    days,        \* the days the table holds
    pc,          \* "idle", "forward" or "backward"
    current,     \* current_date
    found,       \* found_first_success
    faults,
    cut          \* history: did a backfill end early after storing a day?

vars == <<today, files, gone, days, pc, current, found, faults, cut>>

Newest == Max(days \cup {0})

(* Slack publishes the days in order, and may skip one for good.           *)
Published == files \cup gone

Init ==
    /\ today = 1 /\ files = {} /\ gone = {} /\ days = {}
    /\ pc = "idle" /\ current = 0 /\ found = FALSE
    /\ faults = 0 /\ cut = FALSE

NextDay ==
    /\ today + 1 \in Days
    /\ today' = today + 1
    /\ UNCHANGED <<files, gone, days, pc, current, found, faults, cut>>

Publish ==
    LET d == Max(Published \cup {0}) + 1
    IN  /\ d < today
        /\ \/ files' = files \cup {d} /\ gone' = gone
           \/ gone' = gone \cup {d} /\ files' = files
        /\ UNCHANGED <<today, days, pc, current, found, faults, cut>>

(* MAX(date) decides the direction.                                        *)
Start ==
    /\ pc = "idle"
    /\ IF days # {}
       THEN pc' = "forward" /\ current' = Newest + 1
       ELSE pc' = "backward" /\ current' = today
    /\ found' = FALSE
    /\ UNCHANGED <<today, files, gone, days, faults, cut>>

(* copy_records_to_table: DELETE and COPY of one day in one commit.        *)
Forward ==
    /\ pc = "forward"
    /\ IF current <= today /\ current \in files
       THEN days' = days \cup {current} /\ current' = current + 1 /\ pc' = pc
       ELSE pc' = "idle" /\ UNCHANGED <<days, current>>
    /\ UNCHANGED <<today, files, gone, found, faults, cut>>

(* A day that is not there is passed over until the first that is; after   *)
(* it, file_not_found is the end of the history.                           *)
Backward ==
    /\ pc = "backward" /\ current > 0
    /\ \/ /\ current \in files
          /\ days' = days \cup {current} /\ found' = TRUE
          /\ current' = current - 1 /\ pc' = pc
       \/ /\ current \notin files /\ ~found
          /\ current' = current - 1 /\ UNCHANGED <<days, found, pc>>
       \/ /\ current \notin files /\ found
          /\ pc' = "idle" /\ UNCHANGED <<days, found, current>>
    /\ UNCHANGED <<today, files, gone, faults, cut>>

(* Before the first day of the organization there are no files: the search *)
(* for one ends with the run (date.min is far below), the end of the       *)
(* history as it should.                                                   *)
Underflow ==
    /\ pc = "backward" /\ current = 0
    /\ pc' = "idle"
    /\ UNCHANGED <<today, files, gone, days, current, found, faults, cut>>

(* A 429 (not retried here), a timeout, any other error, a killed run.     *)
Interrupt ==
    /\ pc # "idle" /\ faults < MaxFaults
    /\ pc' = "idle" /\ faults' = faults + 1
    /\ cut' = (cut \/ (pc = "backward" /\ found))
    /\ UNCHANGED <<today, files, gone, days, current, found>>

Next == NextDay \/ Publish \/ Start \/ Forward \/ Backward \/ Underflow \/ Interrupt

Spec == Init /\ [][Next]_vars

-----------------------------------------------------------------------------

TypeOK ==
    /\ today \in Days /\ files \subseteq Days /\ gone \subseteq Days
    /\ days \subseteq Days /\ pc \in {"idle", "forward", "backward"}
    /\ current \in 0 .. today + 1
    /\ {found, cut} \subseteq BOOLEAN /\ faults \in 0 .. MaxFaults

(* The days stored follow each other: neither direction, in whatever order *)
(* runs fail, leaves out a day between two it stored.                      *)
Contiguous == \A d \in days, e \in Days : d < e /\ e < Newest => e \in days

(* Unless a backfill was cut short after its first day, the table holds    *)
(* the whole run of published days below its newest.                       *)
HistoryKept ==
    pc # "backward" /\ ~cut /\ days # {} => Min(days) - 1 \notin files

(* A published day newer than the table is stored in the end, unless a day *)
(* without a file stands before it: the forward run stops there for good.  *)
CaughtUp ==
    \A d \in Days :
        [](days # {} /\ d \in files =>
            <>(d \in days \/ d < Newest \/ \E g \in gone : g < d /\ g > Newest))
=============================================================================
