------------------------------ MODULE WorkBag ------------------------------
(***************************************************************************)
(* What a pool of workers promises about its tables: every table is taken  *)
(* by at most one worker at a time, may be handed back, is reported at     *)
(* most once, and none is forgotten before the pool is cancelled.  A pool  *)
(* that somebody stayed to the end of finishes only when every table is    *)
(* reported.  SyncPool implements it.                                      *)
(***************************************************************************)
CONSTANT Tables

VARIABLES
    todo,      \* tables nobody has
    busy,      \* tables some worker has
    reported,  \* tables with a result
    state      \* "open", "cancelled", "finished" or "deserted"

vars == <<todo, busy, reported, state>>

Init ==
    /\ todo = Tables
    /\ busy = {}
    /\ reported = {}
    /\ state = "open"

Take(t) ==
    /\ t \in todo
    /\ todo' = todo \ {t}
    /\ busy' = busy \cup {t}
    /\ UNCHANGED <<reported, state>>

HandBack(t) ==
    /\ t \in busy
    /\ busy' = busy \ {t}
    /\ todo' = todo \cup {t}
    /\ UNCHANGED <<reported, state>>

Report(t) ==
    /\ t \in busy
    /\ busy' = busy \ {t}
    /\ reported' = reported \cup {t}
    /\ UNCHANGED <<todo, state>>

\* After a cancellation a table may be dropped wherever it is.
Cancel ==
    /\ state' = "cancelled"
    /\ UNCHANGED <<todo, busy, reported>>

Drop(t) ==
    /\ state = "cancelled"
    /\ t \notin reported
    /\ todo' = todo \ {t}
    /\ busy' = busy \ {t}
    /\ UNCHANGED <<reported, state>>

Finish ==
    /\ state = "open"
    /\ reported = Tables
    /\ state' = "finished"
    /\ UNCHANGED <<todo, busy, reported>>

\* All workers died before they could start.
Desert ==
    /\ state = "open"
    /\ busy = {}
    /\ state' = "deserted"
    /\ UNCHANGED <<todo, busy, reported>>

Next ==
    \/ Cancel \/ Finish \/ Desert
    \/ \E t \in Tables : Take(t) \/ HandBack(t) \/ Report(t) \/ Drop(t)

Spec == Init /\ [][Next]_vars
=============================================================================
