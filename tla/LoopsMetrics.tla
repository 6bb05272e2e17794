----------------------------- MODULE LoopsMetrics -----------------------------
(***************************************************************************)
(* loops_campaign_recipient_metrics: every run takes the sent campaigns    *)
(* whose metrics are due, most urgent first, pages through the recipients  *)
(* of each and commits campaign by campaign.  It starts no campaign after  *)
(* a deadline; a run still going at its max_runtime is killed then or      *)
(* some time later.                                                        *)
(***************************************************************************)
EXTENDS Naturals, FiniteSets, SequencesExt

CONSTANTS
    Campaigns,
    Pages,           \* Pages[c]: requests its recipients take, one unit of time each
    Short,           \* campaigns Loops never returns 98% of the recipients of
    Delays,          \* time other assets of the run take before
    Budget,          \* LOOPS_METRICS_TIME_BUDGET_SECONDS
    MaxRuntime,      \* LOOPS_METRICS_RUN_MAX_RUNTIME_SECONDS
    Margin,          \* LOOPS_METRICS_RUN_SAFETY_MARGIN_SECONDS
    None, MaxFaults

VARIABLES
    rows,            \* campaign -> "none", "part" or "all" of its recipients stored
    fetched,         \* campaigns with metrics_last_fetched_at, oldest first
    elapsed,         \* campaigns whose interval since then has passed
    pc,              \* "idle", "picking" or "paging"
    clock,           \* time since the start of the run
    deadline,
    startKnown,      \* whether the start of the run was read from its record
    todo,            \* loops_campaigns_needing_metrics_fetch
    current, page,
    faults

vars == <<rows, fetched, elapsed, pc, clock, deadline, startKnown, todo, current, page,
          faults>>
store == <<rows, fetched, elapsed>>

Never == Campaigns \ ToSet(fetched)
Incomplete == {c \in Campaigns : rows[c] # "all"}
Due == Never \cup elapsed

Init ==
    /\ rows = [c \in Campaigns |-> "none"] /\ fetched = <<>> /\ elapsed = {}
    /\ pc = "idle" /\ clock = 0 /\ deadline = 0 /\ startKnown = TRUE
    /\ todo = <<>> /\ current = None /\ page = 0 /\ faults = 0

(* The interval of a campaign, a day to 90 days after how long ago it was  *)
(* sent, and a day while it is incomplete.                                 *)
Elapse(c) ==
    /\ c \in ToSet(fetched) \ elapsed
    /\ elapsed' = elapsed \cup {c}
    /\ UNCHANGED <<rows, fetched, pc, clock, deadline, startKnown, todo, current, page, faults>>

(* ORDER BY: never fetched, then incomplete, then the oldest.              *)
NewestFirst(c) == Len(fetched) - (CHOOSE i \in DOMAIN fetched : fetched[i] = c) \* slip: DESC
Oldest(c) == CHOOSE i \in DOMAIN fetched : fetched[i] = c
Rank(c) == IF c \in Never THEN 0 ELSE IF c \in Incomplete THEN Oldest(c) ELSE Len(fetched) + Oldest(c)
Urgent(S) == {order \in [1 .. Cardinality(S) -> S] :
                 \A i, j \in DOMAIN order :
                     i < j => order[i] # order[j] /\ Rank(order[i]) <= Rank(order[j])}

Lesser(a, b) == IF a < b THEN a ELSE b
BudgetOnly(d, known) == d + Budget \* slip: the limit of the run is not looked at
Deadline(d, known) == IF known THEN Lesser(d + Budget, MaxRuntime - Margin) ELSE d + Budget

\* When the record of the run, or a start time in it, cannot be had, the
\* deadline is that of the budget.
Start ==
    /\ pc = "idle" /\ Due # {}
    /\ startKnown' \in BOOLEAN
    /\ IF startKnown' THEN faults' = faults ELSE faults < MaxFaults /\ faults' = faults + 1
    /\ \E d \in Delays : clock' = d /\ deadline' = Deadline(d, startKnown')
    /\ todo' \in Urgent(Due) /\ pc' = "picking"
    /\ UNCHANGED <<store, current, page>>

Pick ==
    /\ pc = "picking" /\ todo # <<>> /\ clock < deadline
    /\ current' = Head(todo) /\ todo' = Tail(todo) /\ page' = 0 /\ pc' = "paging"
    /\ UNCHANGED <<store, clock, deadline, startKnown, faults>>

Ended ==
    /\ pc' = "idle" /\ clock' = 0 /\ deadline' = 0 /\ startKnown' = TRUE
    /\ todo' = <<>> /\ current' = None /\ page' = 0
    /\ UNCHANGED store

Stop ==
    /\ pc = "picking" /\ (todo = <<>> \/ clock >= deadline)
    /\ Ended /\ faults' = faults

PersistAgain(c, extent) == \* slip: the stamp is added to the former one
    /\ rows' = [rows EXCEPT ![c] = IF @ = "all" THEN "all" ELSE extent]
    /\ fetched' = Append(fetched, c)
    /\ elapsed' = elapsed \ {c}

(* _persist_campaign_metrics: rows and stamp in one transaction.  Rows of  *)
(* an earlier fetch stay.                                                  *)
Persist(c, extent) ==
    /\ rows' = [rows EXCEPT ![c] = IF @ = "all" THEN "all" ELSE extent]
    /\ fetched' = Append(SelectSeq(fetched, LAMBDA d : d # c), c)
    /\ elapsed' = elapsed \ {c}

ReadPage ==
    /\ pc = "paging" /\ clock' = clock + 1
    /\ \/ /\ page + 1 < Pages[current] /\ page' = page + 1
          /\ UNCHANGED <<store, pc, current, faults>>
       \/ /\ page + 1 = Pages[current]
          /\ Persist(current, IF current \in Short THEN "part" ELSE "all")
          /\ pc' = "picking" /\ current' = None /\ page' = 0 /\ faults' = faults
       \/ \* an empty page, or one of duplicates only, ends the paging early
          /\ faults < MaxFaults /\ faults' = faults + 1
          /\ Persist(current, "part")
          /\ pc' = "picking" /\ current' = None /\ page' = 0
    /\ UNCHANGED <<deadline, startKnown, todo>>

(* A request fails, or the campaign has no message: the next one.          *)
SkipCampaign ==
    /\ pc = "paging" /\ faults < MaxFaults /\ faults' = faults + 1
    /\ pc' = "picking" /\ current' = None /\ page' = 0
    /\ UNCHANGED <<store, clock, deadline, startKnown, todo>>

(* LoopsAuthError, an error of the warehouse, or the run is killed.        *)
FailRun ==
    /\ pc # "idle"
    /\ \/ faults < MaxFaults /\ faults' = faults + 1
       \/ clock >= MaxRuntime /\ faults' = faults
    /\ Ended

Run == Start \/ Pick \/ Stop \/ ReadPage
Next == Run \/ SkipCampaign \/ FailRun \/ \E c \in Campaigns : Elapse(c)

Spec == Init /\ [][Next]_vars /\ WF_vars(Run) /\ \A c \in Campaigns : WF_vars(Elapse(c))

-----------------------------------------------------------------------------

TypeOK ==
    /\ rows \in [Campaigns -> {"none", "part", "all"}]
    /\ ToSet(fetched) \subseteq Campaigns /\ IsInjective(fetched) /\ elapsed \subseteq ToSet(fetched)
    /\ pc \in {"idle", "picking", "paging"} /\ (pc = "paging") = (current \in Campaigns)
    /\ clock \in Nat /\ startKnown \in BOOLEAN /\ ToSet(todo) \subseteq Campaigns
    /\ faults \in 0 .. MaxFaults

(* The deadline is looked at between campaigns only, and yet a run that    *)
(* reaches its max_runtime with a campaign under way has only one that has *)
(* itself taken longer than the margin, unless the start of the run could  *)
(* not be read.                                                            *)
DoneBeforeKilled == pc = "paging" /\ startKnown /\ clock >= MaxRuntime => page > Margin

(* Every campaign that is due has its turn, though runs stop early and     *)
(* incomplete campaigns come first every day: if the time a run has left   *)
(* reaches beyond those Loops never completes.                             *)
EveryDueHasItsTurn == \A c \in Campaigns : []<>(c \notin Due)

(* A fetch that was cut short is repaired, if Loops has the recipients.    *)
Repaired == \A c \in Campaigns \ Short : <>[](rows[c] = "all")
=============================================================================
