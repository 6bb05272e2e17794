---------------------------- MODULE ReaderGrants ----------------------------
(* The login a mirror reads a program's database with: the grants derived  *)
(* from the streams of the program and the columns of its tables, rendered *)
(* as a script that somebody applies later, the mirror that copies what it *)
(* can read, and the daily check that tells when the grants have drifted.  *)
EXTENDS Naturals, FiniteSets, Sequences

CONSTANTS
    Tables, Columns,
    Streams,    \* forms of a stream: [kind |-> "off", "all", "except" or
                \* "only", cols |-> the columns named]
    Start,      \* the stream of each table
    MaxChanges, \* migrations and edits of the streams
    MaxRenders, \* scripts
    MaxFaults   \* checks that cannot connect for another reason

VARIABLES
    catalog,  \* the columns of each table, {} for no table
    stream,
    acl,      \* what the reader was granted of each table
    password, \* of the role, 0 while there is none
    url,      \* the password in the environment, 0 for the login of the app
    script,   \* {} or {the rendered script}
    settled,  \* {} or {the kind of script that was applied to what it was
              \* rendered from, nothing having changed since}
    copied,   \* the columns a green mirror last copied of each table
    report,   \* what the last check found: {} is success
    changes, renders, faults

vars == <<catalog, stream, acl, password, url, script, settled, copied,
          report, changes, renders, faults>>

\* Findings: <<t, c>>, <<t>> for a stream the source no longer fits, or
NotChecked == <<>>

None == [table |-> FALSE, cols |-> {}]
Grant == [table : BOOLEAN, cols : SUBSET Columns]

TypeOK ==
    /\ catalog \in [Tables -> SUBSET Columns] /\ stream \in [Tables -> Streams]
    /\ acl \in [Tables -> Grant]
    /\ \A t \in Tables : acl[t].cols \subseteq catalog[t]
    /\ password \in 0 .. MaxRenders /\ url \in 0 .. MaxRenders
    /\ Cardinality(script) <= 1 /\ settled \subseteq {"setup", "refresh"}
    /\ copied \in [Tables -> SUBSET Columns]
    /\ report \subseteq {NotChecked} \cup {<<t>> : t \in Tables}
                         \cup (Tables \X Columns)
    /\ changes \in 0 .. MaxChanges /\ renders \in 0 .. MaxRenders
    /\ faults \in 0 .. MaxFaults

Init ==
    /\ catalog = [t \in Tables |-> Columns] /\ stream = Start
    /\ acl = [t \in Tables |-> None]
    /\ password = 0 /\ url = 0 /\ script = {} /\ settled = {}
    /\ copied = [t \in Tables |-> {}] /\ report = {}
    /\ changes = 0 /\ renders = 0 /\ faults = 0

-----------------------------------------------------------------------------
Active == {t \in Tables : stream[t].kind # "off"}

\* The columns a stream is meant to copy.
Kept(t) ==
    CASE stream[t].kind = "all" -> catalog[t]
      [] stream[t].kind = "except" -> catalog[t] \ stream[t].cols
      [] stream[t].kind = "only" -> stream[t].cols
      [] stream[t].kind = "off" -> {}

\* No ValueError: the table is there, and each column that is named.
Fits(t) == Kept(t) # {} /\ stream[t].cols \subseteq catalog[t]

\* _replication_reader_grants: a whole table, or its kept columns by name.
Derived(t) ==
    IF stream[t].kind = "all" THEN [table |-> TRUE, cols |-> {}]
    ELSE [table |-> FALSE, cols |-> Kept(t)]

Readable(t) == IF acl[t].table THEN catalog[t] ELSE acl[t].cols

(* A migration of the program: a table or a column goes, and what was      *)
(* granted on it; or it comes, and is covered by a grant of the whole      *)
(* table only.                                                             *)
Migrate(t) ==
    /\ changes < MaxChanges
    /\ \E cols \in SUBSET Columns \ {catalog[t]} :
        /\ catalog' = [catalog EXCEPT ![t] = cols]
        /\ acl' = [acl EXCEPT ![t] =
            IF cols = {} THEN None ELSE [acl[t] EXCEPT !.cols = @ \cap cols]]
    /\ changes' = changes + 1 /\ settled' = {}
    /\ UNCHANGED <<stream, password, url, script, copied, report, renders, faults>>

(* Somebody edits the streams of the program. *)
EditStream(t) ==
    /\ changes < MaxChanges
    /\ \E s \in Streams \ {stream[t]} : stream' = [stream EXCEPT ![t] = s]
    /\ changes' = changes + 1 /\ settled' = {}
    /\ UNCHANGED <<catalog, acl, password, url, script, copied, report, renders,
                   faults>>

(* The script is rendered from the columns there are now.  That of the     *)
(* setup comes with a new password, which is in the environment from here. *)
Render(kind) ==
    /\ renders < MaxRenders
    /\ Active # {} /\ \A t \in Active : Fits(t)
    /\ renders' = renders + 1
    /\ script' = {[kind |-> kind, password |-> renders + 1,
                   grants |-> [t \in Active |-> Derived(t)],
                   from |-> [catalog |-> catalog, stream |-> stream]]}
    /\ url' = IF kind = "setup" THEN renders + 1 ELSE url
    /\ UNCHANGED <<catalog, stream, acl, password, settled, copied, report,
                   changes, faults>>

\* The tables whose privileges a script revokes before it grants.
Revokes(s) == IF s.kind = "setup" THEN Tables ELSE DOMAIN s.grants

(* The script runs in one transaction: it fails when a column or a table   *)
(* it names is gone, or the role it refreshes.                             *)
Apply ==
    /\ \E s \in script :
        /\ s.kind = "refresh" => password # 0
        /\ \A t \in DOMAIN s.grants :
            catalog[t] # {} /\ s.grants[t].cols \subseteq catalog[t]
        /\ acl' = [t \in Tables |->
            LET old == IF t \in Revokes(s) THEN None ELSE acl[t]
            IN  IF t \notin DOMAIN s.grants THEN old
                ELSE [table |-> old.table \/ s.grants[t].table,
                      cols |-> old.cols \cup s.grants[t].cols]]
        /\ password' = IF s.kind = "setup" THEN s.password ELSE password
        /\ settled' = IF s.from = [catalog |-> catalog, stream |-> stream]
                      THEN {s.kind} ELSE {}
    /\ script' = {}
    /\ UNCHANGED <<catalog, stream, url, copied, report, changes, renders, faults>>

(* Nobody applies the script, or it failed. *)
Discard ==
    /\ script # {} /\ script' = {}
    /\ UNCHANGED <<catalog, stream, acl, password, url, settled, copied, report,
                   changes, renders, faults>>

LogsIn == url # 0 /\ url = password

(* The mirror: a stream that excludes columns copies all others that it    *)
(* can read, one that names them or the table fails without any of them.   *)
Mirror(t) ==
    /\ LogsIn /\ t \in Active
    /\ stream[t].kind # "except" => Kept(t) \subseteq Readable(t)
    /\ Kept(t) \cap Readable(t) # {}
    /\ copied' = [copied EXCEPT ![t] = Kept(t) \cap Readable(t)]
    /\ UNCHANGED <<catalog, stream, acl, password, url, script, settled, report,
                   changes, renders, faults>>

-----------------------------------------------------------------------------
\* _column_grant_mismatches, both ways.
Mismatches(t) == (Kept(t) \ Readable(t)) \cup (Readable(t) \ Kept(t))

\* _verify_live_reader, of the tables: what is mirrored is readable as
\* derived, anything else is not.
Verified ==
    \A t \in Tables :
        IF t \in Active THEN Readable(t) # {} /\ Mismatches(t) = {}
        ELSE Readable(t) = {}

\* _col_streams: only these let a mirror stay green without a column.
Checked == {t \in Tables : stream[t].kind = "except"}

(* The daily check; a program that does not log in as the reader is        *)
(* skipped, and no program checked is a failure too.                       *)
Findings ==
    {<<t>> : t \in {u \in Checked : ~Fits(u)}}
        \cup {p \in Checked \X Columns : Fits(p[1]) /\ p[2] \in Mismatches(p[1])}

Check ==
    /\ report' = IF Checked = {} \/ ~LogsIn THEN {NotChecked} ELSE Findings
    /\ UNCHANGED <<catalog, stream, acl, password, url, script, settled, copied,
                   changes, renders, faults>>

CheckFails ==
    /\ faults < MaxFaults
    /\ report' = {NotChecked}
    /\ faults' = faults + 1
    /\ UNCHANGED <<catalog, stream, acl, password, url, script, settled, copied,
                   changes, renders>>

Next ==
    \/ \E t \in Tables : Migrate(t) \/ EditStream(t) \/ Mirror(t)
    \/ Render("setup") \/ Render("refresh") \/ Apply \/ Discard
    \/ Check \/ CheckFails

Spec == Init /\ [][Next]_vars /\ WF_vars(Check)

-----------------------------------------------------------------------------
(* A script that is applied to what it was rendered from leaves the reader *)
(* with what the streams need of each table they read, no column less or   *)
(* more, whatever was granted before; after that of the setup the          *)
(* verification passes.                                                    *)
GrantsMatch ==
    \A kind \in settled :
        /\ \A t \in Active : Mismatches(t) = {}
        /\ kind = "setup" => Verified

\* A green mirror leaves a column out that its stream keeps.
LeftOut(t) ==
    /\ LogsIn /\ t \in Checked /\ Fits(t) /\ copied[t] # {}
    /\ Kept(t) \ (copied[t] \cup Readable(t)) # {}

(* A column that a mirror stays green without, as one that a migration     *)
(* added, does not stay unnoticed: the check fails until it is granted,    *)
(* excluded or gone.                                                       *)
DriftReported ==
    \A t \in Tables : LeftOut(t) ~> (report # {} \/ ~LeftOut(t))
=============================================================================
