----------------------------- MODULE YswsPrograms -----------------------------
(* What is written to the programs of the Unified YSWS base.  The true-spend *)
(* sync matches each program, by its id and its current HCB link, with the   *)
(* root of a mart that dbt built from an earlier copy of the same table, and *)
(* writes spend and URL, blanks included, batch by batch.  The sign-up stats *)
(* count, for each program with an engagement prefix, the people of the      *)
(* warehouse's audience whose events hold it.                                *)
EXTENDS Naturals, FiniteSets

CONSTANTS
    Programs,
    Roots,          \* HCB root organisations
    Prefixes,       \* loops_engagement_prefix
    SignUps,        \* people whose events hold each prefix
    MaxAge,         \* 36 hours
    MaxSpend,       \* bound: spend of a root
    MaxClock,       \* bound: the clock
    MaxEdits,       \* bound: edits
    MaxFaults       \* bound: calls, batches and runs that fail

VARIABLES
    now,
    link,           \* the root each program links to at Airtable
    prefix,         \* the prefix of each program
    spend,          \* the spend of each root at HCB
    mart,           \* the last successful build: members, spend and when
    shown,          \* spend and URL fields of each program at Airtable
    counted,        \* sign-up field of each program
    stats,          \* of the sign-up stats: "idle", "count", "prepare", "write"
    terms,          \* their candidates: program -> prefix
    counts,         \* program -> what it is to show
    phase,          \* of the true-spend sync
    update,         \* what it is writing
    left,           \* programs it has still to write
    calm,           \* history: programs whose link has not changed since the read
    edits, faults

vars == <<now, link, prefix, spend, mart, shown, counted, stats, terms, counts,
          phase, update, left, calm, edits, faults>>

None == ""
Blank == [root |-> None, spend |-> 0, at |-> 0]
Costs == [root : Roots, spend : 0 .. MaxSpend, at : 0 .. MaxClock] \cup {Blank}
NoMart == [members |-> [p \in {} |-> None], spend |-> [r \in {} |-> 0],
           at |-> 0]

TypeOK ==
    /\ now \in 0 .. MaxClock
    /\ link \in [Programs -> Roots \cup {None}]
    /\ prefix \in [Programs -> Prefixes \cup {None}]
    /\ spend \in [Roots -> 0 .. MaxSpend]
    /\ DOMAIN mart.spend \subseteq Roots /\ DOMAIN mart.members \subseteq Programs
    /\ mart.at <= now
    /\ shown \in [Programs -> Costs] /\ update \in [Programs -> Costs]
    /\ phase \in {"idle", "writing"}
    /\ stats \in {"idle", "count", "prepare", "write"}
    /\ DOMAIN counts \subseteq DOMAIN terms /\ DOMAIN terms \subseteq Programs
    /\ \A p \in DOMAIN terms : terms[p] \in Prefixes
    /\ left \subseteq Programs /\ calm \subseteq Programs
    /\ edits \in 0 .. MaxEdits /\ faults \in 0 .. MaxFaults

Init ==
    /\ now = 0 /\ link = [p \in Programs |-> None]
    /\ prefix = [p \in Programs |-> CHOOSE x \in Prefixes : TRUE]
    /\ spend = [r \in Roots |-> 0] /\ mart = NoMart
    /\ shown = [p \in Programs |-> Blank] /\ counted = [p \in Programs |-> 0]
    /\ stats = "idle" /\ terms = <<>> /\ counts = <<>>
    /\ phase = "idle" /\ update = [p \in Programs |-> Blank] /\ left = {}
    /\ calm = {} /\ edits = 0 /\ faults = 0

signups == <<counted, stats, terms, counts>>

Tick ==
    /\ now < MaxClock /\ now' = now + 1
    /\ UNCHANGED <<link, prefix, spend, mart, shown, signups, phase, update,
                   left, calm, edits, faults>>

Relink(p, root) ==
    /\ edits < MaxEdits /\ edits' = edits + 1
    /\ link[p] # root /\ link' = [link EXCEPT ![p] = root]
    /\ calm' = calm \ {p}
    /\ UNCHANGED <<now, prefix, spend, mart, shown, signups, phase, update,
                   left, faults>>

Rename(p, x) ==
    /\ edits < MaxEdits /\ edits' = edits + 1
    /\ prefix[p] # x /\ prefix' = [prefix EXCEPT ![p] = x]
    /\ UNCHANGED <<now, link, spend, mart, shown, signups, phase, update, left,
                   calm, faults>>

Spend(r) ==
    /\ spend[r] < MaxSpend /\ spend' = [spend EXCEPT ![r] = @ + 1]
    /\ UNCHANGED <<now, link, prefix, mart, shown, signups, phase, update,
                   left, calm, edits, faults>>

(* dbt builds the mart: the roots that some program links to, their members  *)
(* and their spend.                                                          *)
BuildMart ==
    /\ mart' = [members |-> [p \in {q \in Programs : link[q] # None} |->
                                link[p]],
                spend |-> [r \in {link[p] : p \in Programs} \ {None} |->
                              spend[r]],
                at |-> now]
    /\ UNCHANGED <<now, link, prefix, spend, shown, signups, phase, update,
                   left, calm, edits, faults>>

-----------------------------------------------------------------------------
(* The cost of a program: its root's, if it still links to that root.        *)
CostOf(p) ==
    IF p \in DOMAIN mart.members /\ mart.members[p] = link[p]
    THEN [root |-> link[p], spend |-> mart.spend[link[p]], at |-> mart.at]
    ELSE Blank

FreshMart == now <= mart.at + MaxAge

(* A stale mart and an empty one are refused.                                *)
ReadSpend ==
    /\ phase = "idle" /\ FreshMart /\ DOMAIN mart.spend # {}
    /\ phase' = "writing" /\ left' = Programs /\ calm' = Programs
    /\ update' = [p \in Programs |-> CostOf(p)]
    /\ UNCHANGED <<now, link, prefix, spend, mart, shown, signups, edits,
                   faults>>

(* Blanks are sent too.                                                      *)
WriteSpend(p) ==
    /\ phase = "writing" /\ p \in left
    /\ left' = left \ {p}
    /\ shown' = [shown EXCEPT ![p] = update[p]]
    /\ UNCHANGED <<now, link, prefix, spend, mart, signups, phase, update,
                   calm, edits, faults>>

EndSpend ==
    /\ phase = "writing" /\ left = {} /\ phase' = "idle" /\ calm' = {}
    /\ update' = [p \in Programs |-> Blank]
    /\ UNCHANGED <<now, link, prefix, spend, mart, shown, signups, left,
                   edits, faults>>

(* A batch, or the run, fails: what was written stays.                       *)
FailSpend ==
    /\ phase = "writing" /\ faults < MaxFaults /\ faults' = faults + 1
    /\ phase' = "idle" /\ left' = {} /\ calm' = {}
    /\ update' = [p \in Programs |-> Blank]
    /\ UNCHANGED <<now, link, prefix, spend, mart, shown, signups, edits>>

-----------------------------------------------------------------------------
(* The sign-up stats: programs without a prefix are left out.                *)
ReadPrograms ==
    /\ stats = "idle" /\ stats' = "count"
    /\ terms' = [p \in {q \in Programs : prefix[q] # None} |-> prefix[p]]
    /\ UNCHANGED <<counted, counts, faults>>

(* The query joins a row for each term with the audience and groups by term, *)
(* so a prefix that several programs have is counted as many times.          *)
CountOf(x) ==
    Cardinality(SignUps[x]) * Cardinality({p \in DOMAIN terms : terms[p] = x})

Count ==
    /\ stats = "count" /\ DOMAIN terms # {} /\ stats' = "prepare"
    /\ counts' = [p \in DOMAIN terms |-> CountOf(terms[p])]
    /\ UNCHANGED <<counted, terms, faults>>

(* One row for each program, from one input, so no two values conflict.      *)
Prepare ==
    /\ stats = "prepare" /\ stats' = "write"
    /\ UNCHANGED <<counted, terms, counts, faults>>

(* Batches that fail are passed over.                                        *)
WriteCounts(written) ==
    /\ stats = "write" /\ stats' = "idle"
    /\ faults' = faults + Cardinality(DOMAIN counts \ written)
    /\ faults' <= MaxFaults
    /\ counted' = [p \in Programs |->
                      IF p \in written THEN counts[p] ELSE counted[p]]
    /\ terms' = <<>> /\ counts' = <<>>

(* The query fails, for want of terms too, or the run does.                  *)
FailStats ==
    /\ stats # "idle" /\ stats' = "idle" /\ terms' = <<>> /\ counts' = <<>>
    /\ \/ stats = "count" /\ DOMAIN terms = {} /\ UNCHANGED faults
       \/ faults < MaxFaults /\ faults' = faults + 1
    /\ UNCHANGED counted

SignUpStats ==
    /\ \/ ReadPrograms \/ Count \/ Prepare \/ FailStats
       \/ \E written \in SUBSET DOMAIN counts : WriteCounts(written)
    /\ UNCHANGED <<now, link, prefix, spend, mart, shown, phase, update, left,
                   calm, edits>>

Sync == ReadSpend \/ EndSpend \/ \E p \in Programs : WriteSpend(p)

Next ==
    \/ Tick \/ BuildMart \/ Sync \/ FailSpend \/ SignUpStats
    \/ \E r \in Roots : Spend(r)
    \/ \E p \in Programs :
          \/ \E root \in Roots \cup {None} : Relink(p, root)
          \/ \E x \in Prefixes \cup {None} : Rename(p, x)

Spec == Init /\ [][Next]_vars

-----------------------------------------------------------------------------
(* A sync that gets to its end shows no program the spend of a root it does  *)
(* not link to, whatever the mart still says; a link that changed while it   *)
(* wrote waits for the next one.                                             *)
SpendOfItsRoot ==
    [][EndSpend => \A p \in calm : shown[p].root \in {None, link[p]}]_vars

(* Sign-ups written to a program are those of the prefix it still has when   *)
(* no other program had the same one, whichever programs came and went.      *)
SignUpsOfItsPrefix ==
    [][\A p \in Programs :
          /\ counted'[p] # counted[p] /\ terms[p] = prefix[p]
          /\ \A q \in DOMAIN terms \ {p} : terms[q] # terms[p]
          => counted'[p] = Cardinality(SignUps[prefix[p]])]_vars
=============================================================================
