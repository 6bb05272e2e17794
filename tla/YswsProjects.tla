----------------------------- MODULE YswsProjects -----------------------------
(* materialize_unified_ysws_job over the approved projects of the Unified    *)
(* YSWS base.  Three pipelines read the table on their own and call the      *)
(* geocoder, the archive and gh-proxy; one asset merges what they found and  *)
(* writes it batch by batch; then the projects that ask for it are searched  *)
(* for mentions, the table is read once more and loaded into the warehouse.  *)
(* People edit addresses and URLs all along.                                 *)
EXTENDS Naturals, FiniteSets

CONSTANTS
    Projects,       \* numbers: a later approval is a larger one
    Addresses,
    Urls,
    GitHub,         \* the URLs that name a GitHub repository
    Start,          \* the projects as they were submitted
    SearchLimit,    \* head(40)
    MaxEdits,       \* bound: edits
    MaxFaults       \* bound: calls, batches and runs that fail

VARIABLES
    row,            \* the table approved_projects at Airtable
    recent,         \* projects approved within a week
    wants,          \* projects whose formula asks for a mention search
    phase,          \* of the run
    todo,           \* pipelines still to run
    out,            \* what they found: the fields to write of each project
    left,           \* projects whose batch is still to be sent
    lost,           \* projects whose batch failed
    fetched,        \* the table as the _refresh asset has read it
    edits, faults

vars == <<row, recent, wants, phase, todo, out, left, lost, fetched,
          edits, faults>>

None == ""
NoFields == [f \in {} |-> None]
Over(fields, r) ==
    [f \in DOMAIN fields \cup DOMAIN r |->
        IF f \in DOMAIN fields THEN fields[f] ELSE r[f]]
Hash(r) == <<r.play, r.code, r.archLive, r.archCode>>
Entered == [addr : Addresses \cup {None}, code : Urls \cup {None},
            play : Urls \cup {None}]
Blank(e) == [addr |-> e.addr, code |-> e.code, play |-> e.play,
             geo |-> None, archCode |-> None, archLive |-> None,
             hash |-> <<>>, repo |-> None, fresh |-> FALSE]
Found == {p \in Projects : DOMAIN out[p] # {}}

TypeOK ==
    /\ \A p \in Projects :
          /\ [addr |-> row[p].addr, code |-> row[p].code,
              play |-> row[p].play] \in Entered
          /\ row[p].geo \in Addresses \cup {None}
          /\ {row[p].archCode, row[p].archLive, row[p].repo}
                 \subseteq Urls \cup {None}
          /\ DOMAIN out[p] \subseteq DOMAIN row[p] \ {"addr", "code", "play"}
    /\ recent \subseteq Projects /\ wants \subseteq Projects
    /\ DOMAIN fetched \in {{}, Projects}
    /\ phase \in {"idle", "work", "update", "search", "refresh", "load"}
    /\ todo \subseteq {"geocode", "archive", "stats"}
    /\ left \subseteq Found /\ lost \subseteq Found \ left
    /\ edits \in 0 .. MaxEdits /\ faults \in 0 .. MaxFaults

Init ==
    /\ row = [p \in Projects |-> Blank(Start[p])]
    /\ recent = Projects /\ wants = Projects
    /\ fetched = <<>>
    /\ phase = "idle" /\ todo = {} /\ out = [p \in Projects |-> NoFields]
    /\ left = {} /\ lost = {} /\ edits = 0 /\ faults = 0

Edit(p, field, value) ==
    /\ edits < MaxEdits /\ edits' = edits + 1
    /\ row[p][field] # value
    /\ row' = [row EXCEPT ![p][field] = value]
    /\ UNCHANGED <<recent, wants, phase, todo, out, left, lost, fetched,
                   faults>>

(* A day passes since the stats of a project were taken; a week since it was *)
(* approved.                                                                 *)
Day(p) ==
    /\ row[p].fresh /\ row' = [row EXCEPT ![p].fresh = FALSE]
    /\ UNCHANGED <<recent, wants, phase, todo, out, left, lost, fetched,
                   edits, faults>>
Week(p) ==
    /\ p \in recent /\ recent' = recent \ {p}
    /\ UNCHANGED <<row, wants, phase, todo, out, left, lost, fetched,
                   edits, faults>>

-----------------------------------------------------------------------------
(* The candidates of the three pipelines.                                    *)
GeocodeDue == {p \in Projects : row[p].addr # None /\ row[p].geo # row[p].addr}
ArchiveDue == {p \in recent : /\ {row[p].code, row[p].play} # {None}
                              /\ row[p].hash # Hash(row[p])}
StatsDue == {p \in Projects : row[p].code # None /\ ~ row[p].fresh}

Begin ==
    /\ phase = "idle" /\ phase' = "work"
    /\ todo' = {"geocode", "archive", "stats"}
    /\ UNCHANGED <<row, recent, wants, out, left, lost, fetched, edits, faults>>

(* A pipeline's candidates and the fields it fills for those it could serve. *)
Pipeline(name, due, served, fields) ==
    /\ name \in todo /\ served \subseteq due
    /\ faults + Cardinality(due \ served) <= MaxFaults
    /\ faults' = faults + Cardinality(due \ served)
    /\ todo' = todo \ {name}
    /\ out' = [p \in Projects |->
                  IF p \in due THEN Over(fields[p], out[p]) ELSE out[p]]
    /\ UNCHANGED <<row, recent, wants, phase, left, lost, fetched,
                   edits>>

Geocode(served) ==
    Pipeline("geocode", GeocodeDue, served,
             [p \in GeocodeDue |->
                 IF p \in served THEN [geo |-> row[p].addr] ELSE NoFields])

(* A URL that is both the code and the live one is archived as code.         *)
Archived(r) ==
    LET live == IF r.play = r.code THEN None ELSE r.play
        Part(field, url) == IF url = None THEN NoFields ELSE [f \in {field} |-> url]
    IN  Over(Over(Part("archCode", r.code), Part("archLive", live)),
             [hash |-> <<r.play, r.code, live, r.code>>])

ArchivedAnyway(r, served) ==
    IF served THEN Archived(r) ELSE [hash |-> Hash(r)]

(* Of a project whose URLs were not all archived nothing is written.         *)
WhenArchived(r, served) == IF served THEN Archived(r) ELSE NoFields

Archive(served) ==
    Pipeline("archive", ArchiveDue, served,
             [p \in ArchiveDue |-> WhenArchived(row[p], p \in served)])

(* Not only an answer says something: gh-proxy's errors count as a missing   *)
(* repository, and what is not on GitHub needs no question.  A timeout says  *)
(* nothing.  The stamp is renewed in every case.                             *)
Stats(served) ==
    Pipeline("stats", StatsDue,
             served \cup {p \in StatsDue : row[p].code \notin GitHub},
             [p \in StatsDue |->
                 IF p \in served \/ row[p].code \notin GitHub
                 THEN [repo |-> row[p].code, fresh |-> TRUE]
                 ELSE [fresh |-> TRUE]])

Prepare ==
    /\ phase = "work" /\ todo = {}
    /\ phase' = "update" /\ left' = Found
    /\ UNCHANGED <<row, recent, wants, todo, out, lost, fetched, edits,
                   faults>>

(* A failed batch is skipped.                                                *)
Batch(p, ok) ==
    /\ phase = "update" /\ p \in left /\ left' = left \ {p}
    /\ IF ok THEN row' = [row EXCEPT ![p] = Over(out[p], @)]
                  /\ UNCHANGED <<lost, faults>>
       ELSE /\ faults < MaxFaults /\ faults' = faults + 1
            /\ lost' = lost \cup {p} /\ UNCHANGED row
    /\ UNCHANGED <<recent, wants, phase, todo, out, fetched, edits>>

(* The end of a run: what it held is gone.                                   *)
End ==
    /\ phase' = "idle" /\ todo' = {} /\ left' = {} /\ lost' = {}
    /\ out' = [p \in Projects |-> NoFields] /\ fetched' = <<>>

(* The asset fails when less than half of the updates were accepted.         *)
EndUpdate ==
    /\ phase = "update" /\ left = {}
    /\ IF 2 * Cardinality(lost) > Cardinality(Found) THEN End
       ELSE phase' = "search" /\ UNCHANGED <<todo, out, left, lost, fetched>>
    /\ UNCHANGED <<row, recent, wants, edits, faults>>

Newest(ps) ==
    {p \in ps : Cardinality({q \in ps : q > p}) < SearchLimit}

(* The searches run side by side, each with a timeout.                       *)
Search(found) ==
    /\ phase = "search" /\ phase' = "refresh"
    /\ found \subseteq Newest(wants)
    /\ faults + Cardinality(Newest(wants) \ found) <= MaxFaults
    /\ faults' = faults + Cardinality(Newest(wants) \ found)
    /\ wants' = wants \ found
    /\ UNCHANGED <<row, recent, todo, out, left, lost, fetched, edits>>

Refresh ==
    /\ phase = "refresh" /\ phase' = "load" /\ fetched' = row
    /\ UNCHANGED <<row, recent, wants, todo, out, left, lost, edits,
                   faults>>

(* dlt replaces the warehouse table by what was fetched.                     *)
Load ==
    /\ phase = "load" /\ End
    /\ UNCHANGED <<row, recent, wants, edits, faults>>

Die ==
    /\ phase # "idle" /\ faults < MaxFaults /\ faults' = faults + 1
    /\ End
    /\ UNCHANGED <<row, recent, wants, edits>>

Run ==
    \/ Begin \/ Prepare \/ EndUpdate \/ Refresh \/ Load
    \/ phase = "work" /\ \E served \in SUBSET Projects :
          Geocode(served) \/ Archive(served) \/ Stats(served)
    \/ \E p \in Projects, ok \in BOOLEAN : Batch(p, ok)
    \/ \E found \in SUBSET Projects : Search(found)

Next ==
    \/ Run \/ Die
    \/ \E p \in Projects :
          \/ Day(p) \/ Week(p)
          \/ \E a \in Addresses \cup {None} : Edit(p, "addr", a)
          \/ \E f \in {"code", "play"}, u \in Urls \cup {None} : Edit(p, f, u)

Spec ==
    /\ Init /\ [][Next]_vars
    /\ WF_vars(Run) /\ \A p \in Projects : WF_vars(Day(p))

-----------------------------------------------------------------------------
(* Whatever was edited while a run had the old values in hand, whatever      *)
(* failed: in the end the coordinates are those of the address, and the      *)
(* repository's status is that of the code URL.                              *)
LocationSettles ==
    \A p \in Projects : <>[](row[p].addr # None => row[p].geo = row[p].addr)
RepositorySettles ==
    \A p \in Projects : <>[](row[p].code # None => row[p].repo = row[p].code)

(* ... the URLs of a project are archived before a week is over, or its hash *)
(* still asks for it.                                                        *)
UrlsArchived ==
    \A p \in Projects : <>[](p \in recent =>
        {row[p].code, row[p].play} \ {None}
            \subseteq {row[p].archCode, row[p].archLive})

(* A project never passes for archived when it is not: with the hash that    *)
(* ends the archiving, each of its URLs is archived.                         *)
SettledIsArchived ==
    \A p \in Projects : row[p].hash = Hash(row[p]) =>
        {row[p].code, row[p].play} \ {None}
            \subseteq {row[p].archCode, row[p].archLive}

(* Every project that asks for a search gets one, the oldest too.            *)
EveryoneSearched == \A p \in Projects : <>(p \notin wants)

(* A run that gets to its end leaves in the warehouse what it wrote.         *)
WarehouseHasUpdates ==
    [][Load => \A p \in Found \ lost : \A f \in DOMAIN out[p] \ {"fresh"} :
           fetched[p][f] = out[p][f]]_vars
=============================================================================
