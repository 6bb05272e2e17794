---------------------------- MODULE PullRequests ----------------------------
(* Dashbored turns what its wizard collected into a pull request, from the   *)
(* user's fork.  A submission reads the files it patches from upstream's     *)
(* main one by one, while others merge into it; the branch on the fork is    *)
(* the only thing it leaves behind if it fails, and it tries to take it back.*)
(* The same user may submit twice at once.                                   *)
EXTENDS Naturals, FiniteSets

CONSTANTS
    Submissions,    \* the threads that serve POST /pr
    User, Program,  \* submission -> who submits it, and what it adds
    Programs,       \* the programs that may be in the warehouse
    Files,          \* the shared files a submission patches
    Null,           \* no commit
    MaxFaults       \* bound: requests that fail and workers that are killed

VARIABLES
    main,           \* upstream's main: file -> the programs declared in it
    fork,           \* user -> "none", "building" or "ready"
    refs,           \* head -> the commit its branch points to
    prs,            \* head -> "none", "open", "merged" or "closed"
    phase,          \* submission -> where create() is
    base, tree,     \* submission -> base_sha, and the patched files so far
    lost,           \* the heads whose branch an answer or a worker lost
    faults

vars == <<main, fork, refs, prs, phase, base, tree, lost, faults>>

Users == {User[s] : s \in Submissions}
Head(s) == <<User[s], Program[s]>>
Heads == {Head(s) : s \in Submissions}
Content == [Files -> SUBSET Programs]
Commit == [by : Submissions, base : Content, tree : Content]
Phases == {"idle", "check", "base", "fork", "wait", "look", "fetch", "ref",
           "pr", "rollback"}

TypeOK ==
    /\ main \in Content /\ fork \in [Users -> {"none", "building", "ready"}]
    /\ \A h \in Heads : refs[h] = Null \/ refs[h] \in Commit
    /\ prs \in [Heads -> {"none", "open", "merged", "closed"}]
    /\ phase \in [Submissions -> Phases]
    /\ base \in [Submissions -> Content]
    /\ \A s \in Submissions :
          tree[s] \in UNION {[F -> SUBSET Programs] : F \in SUBSET Files}
    /\ lost \subseteq Heads /\ faults \in 0 .. MaxFaults

Nothing == [f \in Files |-> {}]
Init ==
    /\ main = Nothing /\ fork = [u \in Users |-> "none"]
    /\ refs = [h \in Heads |-> Null] /\ prs = [h \in Heads |-> "none"]
    /\ phase = [s \in Submissions |-> "idle"]
    /\ base = [s \in Submissions |-> Nothing]
    /\ tree = [s \in Submissions |-> <<>>] /\ lost = {} /\ faults = 0

-----------------------------------------------------------------------------
Goto(s, from, to) == phase[s] = from /\ phase' = [phase EXCEPT ![s] = to]

(* A submission forgets what it has read; a retry starts afresh.             *)
Forget(s) ==
    /\ base' = [base EXCEPT ![s] = Nothing] /\ tree' = [tree EXCEPT ![s] = <<>>]

Submit(s) ==
    /\ Goto(s, "idle", "check")
    /\ UNCHANGED <<main, fork, refs, prs, base, tree, lost, faults>>

(* A program that is declared upstream already is refused.                   *)
Declared(s) == \E f \in Files : Program[s] \in main[f]

Check(s) ==
    /\ Goto(s, "check", IF Declared(s) THEN "idle" ELSE "base")
    /\ UNCHANGED <<main, fork, refs, prs, base, tree, lost, faults>>

ReadBase(s) ==
    /\ Goto(s, "base", "fork") /\ base' = [base EXCEPT ![s] = main]
    /\ UNCHANGED <<main, fork, refs, prs, tree, lost, faults>>

(* A fork is asked for if there is none; when GitHub takes too long the      *)
(* submission is given up, and finds the fork, ready or not, the next time.  *)
EnsureFork(s) ==
    LET u == User[s]
    IN  \/ /\ fork[u] # "none" /\ Goto(s, "fork", "look")
           /\ UNCHANGED <<fork, base, tree>>
        \/ /\ fork[u] = "none" /\ Goto(s, "fork", "wait")
           /\ fork' = [fork EXCEPT ![u] = "building"]
           /\ UNCHANGED <<base, tree>>
        \/ /\ fork[u] = "ready" /\ Goto(s, "wait", "look")
           /\ UNCHANGED <<fork, base, tree>>
        \/ /\ fork[u] = "building" /\ Goto(s, "wait", "idle")
           /\ Forget(s) /\ UNCHANGED fork

(* The branch must not be there.                                             *)
Look(s) ==
    \/ /\ refs[Head(s)] = Null /\ Goto(s, "look", "fetch")
       /\ UNCHANGED <<base, tree>>
    \/ /\ refs[Head(s)] # Null /\ Goto(s, "look", "idle") /\ Forget(s)

(* A file is read from main as it is now and patched; the patch refuses a    *)
(* program that has come in since the check.                                 *)
Refuses(s, f) == Program[s] \in main[f]
Patched(s, f) == main[f] \cup {Program[s]}

Fetch(s) ==
    /\ phase[s] = "fetch"
    /\ \E f \in Files \ DOMAIN tree[s] :
          IF Refuses(s, f)
          THEN Goto(s, "fetch", "idle") /\ Forget(s)
          ELSE /\ tree' = [tree EXCEPT ![s] =
                    [g \in DOMAIN @ \cup {f} |->
                        IF g = f THEN Patched(s, f) ELSE @[g]]]
               /\ UNCHANGED <<phase, base>>

(* Tree and commit are objects nothing refers to yet; a fork that is still   *)
(* being built does not have the base.                                       *)
MakeCommit(s) ==
    /\ DOMAIN tree[s] = Files
    /\ IF fork[User[s]] = "ready"
       THEN Goto(s, "fetch", "ref") /\ UNCHANGED <<base, tree>>
       ELSE Goto(s, "fetch", "idle") /\ Forget(s)

(* The branch; if another submission has made it, this one fails and leaves  *)
(* it alone.                                                                 *)
CreateRef(s) ==
    LET h == Head(s)
    IN  IF refs[h] = Null
        THEN /\ Goto(s, "ref", "pr")
             /\ refs' = [refs EXCEPT ![h] =
                   [by |-> s, base |-> base[s], tree |-> tree[s]]]
             /\ UNCHANGED <<base, tree>>
        ELSE Goto(s, "ref", "idle") /\ Forget(s) /\ UNCHANGED refs

OpenPr(s) ==
    /\ Goto(s, "pr", "idle") /\ Forget(s)
    /\ prs' = [prs EXCEPT ![Head(s)] = "open"]

(* _delete_ref; GitHub closes the pull request of a branch that goes.        *)
DeleteRef(s) ==
    LET h == Head(s)
    IN  /\ Goto(s, "rollback", "idle") /\ Forget(s)
        /\ refs' = [refs EXCEPT ![h] = Null]
        /\ prs' = [prs EXCEPT ![h] = IF @ = "open" THEN "closed" ELSE @]

Create(s) ==
    /\ \/ EnsureFork(s) /\ UNCHANGED <<refs, prs>>
       \/ (Look(s) \/ Fetch(s) \/ MakeCommit(s)) /\ UNCHANGED <<fork, refs, prs>>
       \/ CreateRef(s) /\ UNCHANGED <<fork, prs>>
       \/ OpenPr(s) /\ UNCHANGED <<fork, refs>>
       \/ DeleteRef(s) /\ UNCHANGED fork
    /\ UNCHANGED <<main, lost, faults>>

-----------------------------------------------------------------------------
(* A request that fails; only the one for the pull request is rolled back.   *)
AfterFailure(s) == IF phase[s] = "pr" THEN "rollback" ELSE "idle"

Fail(s) ==
    /\ phase[s] \notin {"idle", "rollback"}
    /\ Goto(s, phase[s], AfterFailure(s)) /\ Forget(s)
    /\ UNCHANGED <<fork, refs, prs, lost>>

(* GitHub does what it was asked, and the answer gets lost.                  *)
LoseAnswer(s) ==
    \/ /\ phase[s] = "ref" /\ refs[Head(s)] = Null
       /\ refs' = [refs EXCEPT ![Head(s)] =
             [by |-> s, base |-> base[s], tree |-> tree[s]]]
       /\ Goto(s, "ref", "idle") /\ Forget(s)
       /\ lost' = lost \cup {Head(s)} /\ UNCHANGED <<fork, prs>>
    \/ /\ prs' = [prs EXCEPT ![Head(s)] = "open"]
       /\ Goto(s, "pr", "rollback") /\ Forget(s)
       /\ UNCHANGED <<fork, refs, lost>>

(* The branch cannot be deleted, which nobody is told, or the worker is      *)
(* killed before it could be.                                                *)
Leave(s) ==
    /\ phase[s] \in {"pr", "rollback"} /\ Goto(s, phase[s], "idle") /\ Forget(s)
    /\ lost' = lost \cup {Head(s)} /\ UNCHANGED <<fork, refs, prs>>

Fault(s) ==
    /\ faults < MaxFaults /\ faults' = faults + 1 /\ UNCHANGED main
    /\ Fail(s) \/ LoseAnswer(s) \/ Leave(s)

-----------------------------------------------------------------------------
(* GitHub, and the maintainers of upstream.                                  *)
ForkReady(u) ==
    /\ fork[u] = "building" /\ fork' = [fork EXCEPT ![u] = "ready"]
    /\ UNCHANGED <<main, refs, prs, phase, base, tree, lost, faults>>

(* A three-way merge: what the branch adds to its base is added, and what it *)
(* takes from its base is taken away.                                        *)
Merge(h) ==
    LET c == refs[h]
    IN  /\ prs[h] = "open" /\ \A f \in Files : h[2] \notin main[f]
        /\ main' = [f \in Files |->
              (main[f] \cup (c.tree[f] \ c.base[f])) \ (c.base[f] \ c.tree[f])]
        /\ prs' = [prs EXCEPT ![h] = "merged"]
        /\ UNCHANGED <<fork, refs, phase, base, tree, lost, faults>>

AddByHand(p) ==
    /\ \A f \in Files : p \notin main[f]
    /\ main' = [f \in Files |-> main[f] \cup {p}]
    /\ UNCHANGED <<fork, refs, prs, phase, base, tree, lost, faults>>

Next ==
    \/ \E s \in Submissions :
          \/ Submit(s) \/ Check(s) \/ ReadBase(s) \/ Create(s) \/ Fault(s)
    \/ \E u \in Users : ForkReady(u)
    \/ \E h \in Heads : Merge(h)
    \/ \E p \in Programs : AddByHand(p)

Spec == Init /\ [][Next]_vars

-----------------------------------------------------------------------------
(* Merging a pull request takes nothing away that others merged while its    *)
(* submission was reading file after file: the base is read before them.     *)
NothingReverted == [][\A f \in Files : main[f] \subseteq main'[f]]_main

(* An open pull request declares its own program and none that is not in     *)
(* main yet.                                                                 *)
AddsItsOwn ==
    \A h \in Heads : prs[h] = "open" =>
        \A f \in Files : refs[h].tree[f] \ main[f] \subseteq {h[2]}

(* A submission deletes no branch but the one it has made itself, though     *)
(* another one of the same user and program fails at the same time.          *)
OthersBranchKept ==
    [][\A h \in Heads : refs[h] # Null /\ refs'[h] = Null =>
          phase[refs[h].by] = "rollback"]_refs

(* A failed submission leaves no branch a retry would trip over, but where   *)
(* the answer to its creation or its deletion was lost, or the worker.       *)
NoStrayBranch ==
    \A h \in Heads : refs[h] # Null =>
        \/ prs[h] \in {"open", "merged"} \/ h \in lost
        \/ \E s \in Submissions : Head(s) = h /\ phase[s] \in {"pr", "rollback"}
=============================================================================
