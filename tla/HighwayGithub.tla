--------------------------- MODULE HighwayGithub ----------------------------
(* Scrapes the commits of every submitted repository through a proxy of      *)
(* GitHub, page by page from the newest, and stores them in one transaction. *)
(* Somebody may push while the pages are read: what was on one page moves to *)
(* the next.                                                                 *)
EXTENDS Naturals, Sequences, SequencesExt, FiniteSetsExt

CONSTANTS
    Key,            \* submitted URL -> what parse_repo_key makes of it, or ""
    New,            \* the repositories without any commit at first
    PerPage,        \* PER_PAGE
    MaxPages,       \* MAX_PAGES_PER_REPO
    MaxPushes,      \* bound: commits that are pushed
    MaxFaults       \* bound: requests that fail for good, and crashes

VARIABLES
    answers,        \* per repository: "ok", "not_found" or "empty"
    commits,        \* per repository: how many it has, numbered from oldest
    status,         \* of the running scrape, per repository
    got,            \* the commits it has read, per repository
    page,           \* the next page, per repository
    was,            \* history: the commits there were when the scrape began
    table,          \* commits, by repository
    recorded,       \* repos: the scrape_status of each
    pushes, faults

vars == <<answers, commits, status, got, page, was, table, recorded, pushes,
          faults>>

Repos == {Key[u] : u \in DOMAIN Key} \ {""}
Fetching(r) == status[r] = "fetching"
Statuses == {"ok", "not_found", "empty", "error"}
MaxCommits == 1 + MaxPushes

TypeOK ==
    /\ answers \in [Repos -> Statuses \ {"error"}]
    /\ commits \in [Repos -> 0 .. MaxCommits]
    /\ status \in [Repos -> Statuses \cup {"idle", "fetching"}]
    /\ \A r \in Repos : ToSet(got[r]) \subseteq 1 .. commits[r]
    /\ page \in [Repos -> 1 .. MaxPages]
    /\ \A r \in Repos : was[r] \in 0 .. commits[r]
    /\ \A r \in Repos : table[r] \subseteq 1 .. commits[r]
    /\ recorded \in [Repos -> Statuses \cup {"never"}]
    /\ pushes \in 0 .. MaxPushes /\ faults \in 0 .. MaxFaults

Init ==
    /\ commits = [r \in Repos |-> IF r \in New THEN 0 ELSE 1]
    /\ answers = [r \in Repos |-> IF r \in New THEN "empty" ELSE "ok"]
    /\ status = [r \in Repos |-> "idle"] /\ got = [r \in Repos |-> <<>>]
    /\ page = [r \in Repos |-> 1] /\ was = [r \in Repos |-> 0]
    /\ table = [r \in Repos |-> {}] /\ recorded = [r \in Repos |-> "never"]
    /\ pushes = 0 /\ faults = 0

(* At GitHub.  A pushed commit is the newest; a repository can be deleted.   *)
Push(r) ==
    /\ pushes < MaxPushes /\ pushes' = pushes + 1
    /\ answers[r] # "not_found" /\ answers' = [answers EXCEPT ![r] = "ok"]
    /\ commits' = [commits EXCEPT ![r] = @ + 1]
    /\ UNCHANGED <<status, got, page, was, table, recorded, faults>>

Delete(r) ==
    /\ answers[r] # "not_found"
    /\ answers' = [answers EXCEPT ![r] = "not_found"]
    /\ UNCHANGED <<commits, status, got, page, was, table, recorded, pushes,
                   faults>>

-----------------------------------------------------------------------------
Begin ==
    /\ \A r \in Repos : status[r] = "idle"
    /\ status' = [r \in Repos |-> "fetching"] /\ was' = commits
    /\ UNCHANGED <<answers, commits, got, page, table, recorded, pushes,
                   faults>>

(* The p-th page of the listing of n commits, the newest first.              *)
Page(n, p) ==
    LET length == Min({PerPage, IF n > (p - 1) * PerPage
                                THEN n - (p - 1) * PerPage ELSE 0})
    IN  [i \in 1 .. length |-> n - (p - 1) * PerPage - i + 1]

(* Without a commit in the repository, or without the repository, what was   *)
(* read of it is dropped.                                                    *)
Read(r) ==
    /\ Fetching(r)
    /\ IF answers[r] # "ok"
       THEN /\ status' = [status EXCEPT ![r] = answers[r]]
            /\ got' = [got EXCEPT ![r] = <<>>]
            /\ UNCHANGED page
       ELSE LET items == Page(commits[r], page[r])
            IN  /\ got' = [got EXCEPT ![r] = @ \o items]
                /\ IF Len(items) < PerPage \/ page[r] = MaxPages
                   THEN status' = [status EXCEPT ![r] = "ok"] /\ UNCHANGED page
                   ELSE page' = [page EXCEPT ![r] = @ + 1] /\ UNCHANGED status
    /\ UNCHANGED <<answers, commits, was, table, recorded, pushes, faults>>

(* After the last retry what was read is kept, after another answer it is    *)
(* not.                                                                      *)
GiveUp(r) ==
    /\ Fetching(r) /\ faults < MaxFaults /\ faults' = faults + 1
    /\ status' = [status EXCEPT ![r] = "error"]
    /\ got' \in {got, [got EXCEPT ![r] = <<>>]}
    /\ UNCHANGED <<answers, commits, page, was, table, recorded, pushes>>

EndRun ==
    /\ status' = [r \in Repos |-> "idle"] /\ got' = [r \in Repos |-> <<>>]
    /\ page' = [r \in Repos |-> 1] /\ was' = [r \in Repos |-> 0]

(* One transaction: the old commits of what was read to its end go, all that *)
(* was read comes in.                                                        *)
Refreshed == {r \in Repos : status[r] \in {"ok", "not_found", "empty"}}

Upsert ==
    /\ \A r \in Repos : status[r] \in Statuses
    /\ table' = [r \in Repos |->
                    (IF r \in Refreshed THEN {} ELSE table[r])
                    \cup ToSet(got[r])]
    /\ recorded' = status
    /\ EndRun /\ UNCHANGED <<answers, commits, pushes, faults>>

(* A statement may not upsert one row twice: a commit that a push moved from *)
(* one page to the next fails the transaction, unless the two fall into      *)
(* different statements.                                                     *)
UpsertTwice ==
    /\ \A r \in Repos : status[r] \in Statuses
    /\ \E r \in Repos : ~ IsInjective(got[r])
    /\ EndRun
    /\ UNCHANGED <<answers, commits, table, recorded, pushes, faults>>

Crash ==
    /\ \E r \in Repos : status[r] # "idle"
    /\ faults < MaxFaults /\ faults' = faults + 1
    /\ EndRun /\ UNCHANGED <<answers, commits, table, recorded, pushes>>

Next ==
    \/ Begin \/ Upsert \/ UpsertTwice \/ Crash
    \/ \E r \in Repos : Push(r) \/ Delete(r) \/ Read(r) \/ GiveUp(r)

Spec == Init /\ [][Next]_vars

-----------------------------------------------------------------------------
(* However the pages shift while they are read and whatever fails: unless a  *)
(* repository has more commits than MAX_PAGES_PER_REPO pages hold, its       *)
(* commits go only with it, and what a scrape records as read to the end has *)
(* every commit there was when it began.                                     *)
CommitsKept ==
    [][\A r \in Repos : commits[r] <= MaxPages * PerPage =>
         /\ table[r] \subseteq table'[r] \/ recorded'[r] = "not_found"
         /\ recorded' # recorded /\ recorded'[r] = "ok" =>
               1 .. was[r] \subseteq table'[r]]_vars
=============================================================================
