---------------------------- MODULE SlackMembers ----------------------------
(***************************************************************************)
(* slack_member_metadata and slack_member_metadata_enrichment: two assets  *)
(* that write one table, slack.member_metadata.  The first reads the users *)
(* of every team page by page and upserts each page; the second reads one  *)
(* profile after the other and sets profile_fields.  They run one after    *)
(* the other in a job, and side by side when one is launched by hand.      *)
(***************************************************************************)
EXTENDS Naturals, FiniteSets

CONSTANTS
    Users,
    Teams,
    Member,       \* Member[t]: the users of a team; a user may be in several
    Versions,     \* of a profile, and of its custom fields
    Null,
    MaxEdits, MaxFaults

VARIABLES
    slack,        \* user -> [name, fields] at Slack
    table,        \* user -> [name, fields], or Null
    metaPc,       \* "idle", "listing" or "upserting"
    teams,        \* teams still to read, and the pages left of the one at hand
    pages,
    batch,        \* the page in memory
    seenIds,      \* seen_user_ids
    enrichPc,     \* "idle", "listing" or "setting"
    ids,          \* user_ids left
    profile,      \* the user at hand and the fields read, or Null
    edits, faults,
    oldNames,     \* history: users edited since they were last read and stored
    oldFields

vars == <<slack, table, metaPc, teams, pages, batch, seenIds, enrichPc, ids, profile,
          edits, faults, oldNames, oldFields>>
meta == <<metaPc, teams, pages, batch, seenIds>>
enrich == <<enrichPc, ids, profile>>

Init ==
    /\ slack = [u \in Users |-> [name |-> 1, fields |-> Null]]
    /\ table = [u \in Users |-> Null]
    /\ metaPc = "idle" /\ teams = {} /\ pages = {} /\ batch = {} /\ seenIds = {}
    /\ enrichPc = "idle" /\ ids = {} /\ profile = Null
    /\ edits = 0 /\ faults = 0 /\ oldNames = Users /\ oldFields = Users

Edit(u) ==
    /\ edits < MaxEdits /\ edits' = edits + 1
    /\ \/ \E n \in Versions : /\ slack' = [slack EXCEPT ![u].name = n]
                              /\ oldNames' = oldNames \cup {u} /\ oldFields' = oldFields
       \/ \E f \in Versions \cup {Null} : /\ slack' = [slack EXCEPT ![u].fields = f]
                                          /\ oldFields' = oldFields \cup {u} /\ oldNames' = oldNames
    /\ UNCHANGED <<table, meta, enrich, faults>>

-----------------------------------------------------------------------------
(* slack_member_metadata                                                   *)

ListTeams ==
    /\ metaPc = "idle"
    /\ metaPc' = "listing" /\ teams' = Teams /\ pages' = {} /\ batch' = {} /\ seenIds' = {}
    /\ UNCHANGED <<slack, table, enrich, edits, faults, oldNames, oldFields>>

NextTeam ==
    /\ metaPc = "listing" /\ pages = {}
    /\ IF teams = {}
       THEN metaPc' = "idle" /\ UNCHANGED <<teams, pages>>
       ELSE \E t \in teams : teams' = teams \ {t} /\ pages' = Member[t] /\ metaPc' = metaPc
    /\ UNCHANGED <<slack, table, batch, seenIds, enrich, edits, faults, oldNames, oldFields>>

(* A page of users.list (here of one user); users of an earlier team are   *)
(* filtered out.  A 429 is waited out in _make_request_with_retry.         *)
ReadUsers ==
    /\ metaPc = "listing"
    /\ \E u \in pages :
           /\ pages' = pages \ {u}
           /\ IF u \in seenIds
              THEN UNCHANGED <<metaPc, batch, seenIds, oldNames>>
              ELSE /\ batch' = {[id |-> u, name |-> slack[u].name]}
                   /\ seenIds' = seenIds \cup {u} /\ metaPc' = "upserting"
                   /\ oldNames' = oldNames \ {u}
    /\ UNCHANGED <<slack, table, teams, enrich, edits, faults, oldFields>>

\* _transform_user_record, and the columns the ON CONFLICT clause sets:
\* all but profile_fields.
Merged(u, b) ==
    [name |-> b.name, fields |-> IF table[u] = Null THEN Null ELSE table[u].fields]

UpsertBatch ==
    /\ metaPc = "upserting"
    /\ table' = [u \in Users |-> IF \E b \in batch : b.id = u
                                 THEN Merged(u, CHOOSE b \in batch : b.id = u)
                                 ELSE table[u]]
    /\ metaPc' = "listing" /\ batch' = {}
    /\ UNCHANGED <<slack, teams, pages, seenIds, enrich, edits, faults, oldNames, oldFields>>

FailMetadata ==
    /\ metaPc # "idle" /\ faults < MaxFaults
    /\ metaPc' = "idle" /\ faults' = faults + 1
    /\ oldNames' = oldNames \cup {b.id : b \in batch}
    /\ batch' = {} /\ pages' = {} /\ teams' = {}
    /\ UNCHANGED <<slack, table, seenIds, enrich, edits, oldFields>>

-----------------------------------------------------------------------------
(* slack_member_metadata_enrichment                                        *)

ListIds ==
    /\ enrichPc = "idle"
    /\ enrichPc' = "listing" /\ ids' = {u \in Users : table[u] # Null}
    /\ UNCHANGED <<slack, table, meta, profile, edits, faults, oldNames, oldFields>>

(* users.profile.get; after SlackRateLimitError the same user again.  A    *)
(* profile without fields is not stored.                                   *)
GetProfile ==
    /\ enrichPc = "listing"
    /\ \E u \in ids :
           /\ ids' = ids \ {u}
           /\ oldFields' = oldFields \ {u}
           /\ IF slack[u].fields # Null
              THEN profile' = [id |-> u, fields |-> slack[u].fields] /\ enrichPc' = "setting"
              ELSE UNCHANGED <<profile, enrichPc>>
    /\ UNCHANGED <<slack, table, meta, edits, faults, oldNames>>

SetFields ==
    /\ enrichPc = "setting"
    /\ table' = [table EXCEPT ![profile.id].fields = profile.fields]
    /\ enrichPc' = "listing" /\ profile' = Null
    /\ UNCHANGED <<slack, meta, ids, edits, faults, oldNames, oldFields>>

(* Another error of the API or of the UPDATE: the user is passed over.     *)
SkipProfile ==
    /\ enrichPc # "idle" /\ faults < MaxFaults /\ faults' = faults + 1
    /\ \/ /\ enrichPc = "listing"
          /\ \E u \in ids : ids' = ids \ {u}
          /\ UNCHANGED <<enrichPc, profile, oldFields>>
       \/ /\ enrichPc = "setting"
          /\ enrichPc' = "listing" /\ profile' = Null
          /\ oldFields' = oldFields \cup {profile.id} /\ ids' = ids
    /\ UNCHANGED <<slack, table, meta, edits, oldNames>>

EndEnrichment ==
    /\ enrichPc = "listing" /\ ids = {}
    /\ enrichPc' = "idle"
    /\ UNCHANGED <<slack, table, meta, ids, profile, edits, faults, oldNames, oldFields>>

Next ==
    \/ \E u \in Users : Edit(u)
    \/ ListTeams \/ NextTeam \/ ReadUsers \/ UpsertBatch \/ FailMetadata
    \/ ListIds \/ GetProfile \/ SetFields \/ SkipProfile \/ EndEnrichment

Spec == Init /\ [][Next]_vars

-----------------------------------------------------------------------------

TypeOK ==
    /\ \A u \in Users : table[u] = Null \/ /\ table[u].name \in Versions
                                           /\ table[u].fields \in Versions \cup {Null}
    /\ metaPc \in {"idle", "listing", "upserting"}
    /\ enrichPc \in {"idle", "listing", "setting"}
    /\ teams \subseteq Teams /\ pages \subseteq Users /\ seenIds \subseteq Users
    /\ ids \subseteq Users /\ Cardinality(batch) <= 1
    /\ edits \in 0 .. MaxEdits /\ faults \in 0 .. MaxFaults

(* Whatever the two runs do side by side, a user not edited since they     *)
(* were read has the name and the fields of Slack: the upsert of a page    *)
(* does not undo the enrichment.  Fields that were all removed at Slack    *)
(* are the exception, they stay.                                           *)
MembersFresh ==
    \A u \in Users :
        /\ u \notin oldNames /\ (metaPc = "upserting" => \A b \in batch : b.id # u) =>
               table[u] # Null /\ table[u].name = slack[u].name
        /\ /\ u \notin oldFields /\ slack[u].fields # Null
           /\ enrichPc = "setting" => profile.id # u
           => table[u] # Null /\ table[u].fields = slack[u].fields
=============================================================================
