--------------------------- MODULE TrueSpendSite ---------------------------
(* The true-spend site: a run reads the marts one statement at a time,     *)
(* while dbt may be rebuilding them, renders the documents, checks that    *)
(* they add up and commits them as the whole tree of a git branch.  Every  *)
(* run's files differ, for index.json carries the time they were built.    *)
EXTENDS Naturals, Sequences, SequencesExt, FiniteSetsExt

CONSTANTS
    Runs,        \* runs of the asset that may overlap
    Spend,       \* build of dbt -> organisation -> what it truly spent
    Private,     \* build of dbt -> the organisations whose rows are withheld
    MaxHands,    \* commits made by hand
    MaxFaults,   \* runs that fail for another reason
    Null

VARIABLES
    marts,   \* the build each mart is of
    run,     \* run -> its step, what it has read, and whether the branch
             \*        has moved since it was fetched
    branch,  \* the tree at the head of the branch, or Null
    hands, faults

vars == <<marts, run, branch, hands, faults>>

Marts == <<"tree", "ledger", "programs">>  \* in the order dbt builds them
Builds == DOMAIN Spend
Steps == {"idle", "programs", "tree", "ledger", "validate", "fetch", "push"}

\* What a site shows: the build each mart was read from.
Site == [ToSet(Marts) -> Builds]
Idle == [step |-> "idle", site |-> [m \in ToSet(Marts) |-> 0], moved |-> FALSE]

TypeOK ==
    /\ marts \in Site
    /\ run \in [Runs -> [step : Steps, site : Site, moved : BOOLEAN]]
    /\ branch = Null \/ branch \in [site : Site, byHand : BOOLEAN]
    /\ hands \in 0 .. MaxHands /\ faults \in 0 .. MaxFaults

Init ==
    /\ marts = [m \in ToSet(Marts) |-> 0]
    /\ run = [r \in Runs |-> Idle]
    /\ branch = Null /\ hands = 0 /\ faults = 0

-----------------------------------------------------------------------------
\* The marts that dbt has still to build as of the tree.
Behind == {i \in DOMAIN Marts : marts[Marts[i]] < marts["tree"]}

(* dbt rebuilds the next mart, with what is new at HCB if it begins again. *)
Rebuild ==
    /\ Behind # {} \/ marts["tree"] + 1 \in Builds
    /\ LET m == Marts[IF Behind = {} THEN 1 ELSE Min(Behind)]
       IN  marts' = [marts EXCEPT ![m] = @ + 1]
    /\ UNCHANGED <<run, branch, hands, faults>>

Go(r, step) == run' = [run EXCEPT ![r].step = step]
Stop(r) == run' = [run EXCEPT ![r] = Idle]

Start(r) ==
    /\ run[r].step = "idle" /\ Go(r, "programs")
    /\ UNCHANGED <<marts, branch, hands, faults>>

After == [programs |-> "tree", tree |-> "ledger", ledger |-> "validate"]

(* fetch_site_data: each statement sees what is committed when it begins. *)
Read(r) ==
    /\ run[r].step \in DOMAIN After
    /\ run' = [run EXCEPT ![r].site[run[r].step] = marts[run[r].step],
                          ![r].step = After[@]]
    /\ UNCHANGED <<marts, branch, hands, faults>>

SpentByAll(b) == MapThenSumSet(LAMBDA o : Spend[b][o], DOMAIN Spend[b])

\* The transactions listed, and the sums in place of those withheld: the
\* tree tells which is which, the amounts are the ledger's.
Listed(site) ==
    MapThenSumSet(LAMBDA o : Spend[site.ledger][o],
                  DOMAIN Spend[site.ledger] \ Private[site.tree])
Withheld(site) ==
    MapThenSumSet(LAMBDA o : Spend[site.ledger][o],
                  DOMAIN Spend[site.ledger] \cap Private[site.tree])

Reconciles(site) == Listed(site) + Withheld(site) = SpentByAll(site.programs)

(* validate_site_files: a gap fails the run before anything is published.  *)
Validate(r) ==
    /\ run[r].step = "validate"
    /\ IF Reconciles(run[r].site) THEN Go(r, "fetch") ELSE Stop(r)
    /\ UNCHANGED <<marts, branch, hands, faults>>

(* publish_site: the branch is fetched and its tree replaced. *)
Fetch(r) ==
    /\ run[r].step = "fetch"
    /\ run' = [run EXCEPT ![r].step = "push", ![r].moved = FALSE]
    /\ UNCHANGED <<marts, branch, hands, faults>>

\* Another commit is the head now: whoever fetched the last one comes late.
Late == [r \in Runs |-> [run[r] EXCEPT !.moved = @ \/ run[r].step = "push"]]

(* The push: refused, which fails the run, if the branch has moved on. *)
Push(r) ==
    /\ run[r].step = "push"
    /\ IF run[r].moved THEN Stop(r) /\ UNCHANGED branch
       ELSE /\ branch' = [site |-> run[r].site, byHand |-> FALSE]
            /\ run' = [Late EXCEPT ![r] = Idle]
    /\ UNCHANGED <<marts, hands, faults>>

(* Anything else that fails, a timeout of git too. *)
Fail(r) ==
    /\ run[r].step # "idle" /\ faults < MaxFaults
    /\ Stop(r)
    /\ faults' = faults + 1
    /\ UNCHANGED <<marts, branch, hands>>

(* Somebody commits to the branch by hand, a CNAME for example. *)
CommitByHand ==
    /\ hands < MaxHands /\ branch # Null
    /\ branch' = [branch EXCEPT !.byHand = TRUE] /\ run' = Late
    /\ hands' = hands + 1
    /\ UNCHANGED <<marts, faults>>

Run(r) == Start(r) \/ Read(r) \/ Validate(r) \/ Fetch(r) \/ Push(r)

Next ==
    \/ Rebuild \/ CommitByHand
    \/ \E r \in Runs : Run(r) \/ Fail(r)

Spec ==
    /\ Init /\ [][Next]_vars
    /\ WF_vars(Rebuild) /\ \A r \in Runs : WF_vars(Run(r))

-----------------------------------------------------------------------------
(* What is published adds up: the listed and the withheld spend are the    *)
(* total, although the marts are read one by one while dbt replaces them   *)
(* and organisations become private.                                       *)
NumbersAddUp ==
    branch # Null =>
        Listed(branch.site) + Withheld(branch.site) = SpentByAll(branch.site.programs)

(* Once dbt is done the site comes to show the marts as they are, and     *)
(* nothing else, however runs overlap, fail and are refused.               *)
SiteCatchesUp == <>[](branch = [site |-> marts, byHand |-> FALSE])
=============================================================================
