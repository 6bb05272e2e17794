---------------------------- MODULE SlackUsersSync ----------------------------
(* sync_slack_users_to_airtable: the records of a table at Airtable are made *)
(* those of the warehouse's active Slack users.  Both sides are read, a plan *)
(* of deletions, updates and creations is computed, and carried out batch by *)
(* batch; a batch that fails is counted and skipped.  Of a user's fields the *)
(* type is always sent; a flag or a name only when there is one.             *)
EXTENDS Naturals, FiniteSets, SequencesExt

CONSTANTS
    Users,
    Names,
    Ids,            \* record ids, 1 .. n
    Start,          \* the records there are at first
    BatchSize,      \* 10
    MaxChanges,     \* bound: changes in the warehouse
    MaxFaults       \* bound: batches and runs that fail

VARIABLES
    source,         \* the active users and what the warehouse says of them
    records,        \* the records at Airtable
    phase,
    existing,       \* the records as the run has read them
    desired,        \* the users as the run has read them
    delete, update, create,     \* what is left of the plan
    clean,          \* history: no batch of this run has failed
    changes, faults

vars == <<source, records, phase, existing, desired, delete, update, create,
          clean, changes, faults>>

None == ""
Empty == [x \in {} |-> 0]
Facts == [admin : BOOLEAN, name : Names \cup {None}]
Types == {"Admin", "Member"}
Record == [user : Users, type : Types, admin : BOOLEAN,
           name : Names \cup {None}]
Phases == {"idle", "read", "delete", "update", "create"}

TypeOK ==
    /\ DOMAIN source \subseteq Users
    /\ \A u \in DOMAIN source : source[u] \in Facts
    /\ DOMAIN records \subseteq Ids
    /\ \A i \in DOMAIN records : records[i] \in Record
    /\ phase \in Phases /\ clean \in BOOLEAN
    /\ DOMAIN existing \subseteq Ids /\ DOMAIN desired \subseteq Users
    /\ delete \subseteq Ids /\ update \subseteq Ids /\ create \subseteq Users
    /\ changes \in 0 .. MaxChanges /\ faults \in 0 .. MaxFaults

Init ==
    /\ source = [u \in Users |-> [admin |-> TRUE, name |-> None]]
    /\ records = Start
    /\ phase = "idle" /\ existing = Empty /\ desired = Empty
    /\ delete = {} /\ update = {} /\ create = {} /\ clean = TRUE
    /\ changes = 0 /\ faults = 0

Learn(u, facts) ==
    /\ changes < MaxChanges /\ changes' = changes + 1
    /\ source' = [x \in DOMAIN source \cup {u} |->
                     IF x = u THEN facts ELSE source[x]]
    /\ source' # source
    /\ UNCHANGED <<records, phase, existing, desired, delete, update, create,
                   clean, faults>>

(* The user is deleted at Slack.                                             *)
Leave(u) ==
    /\ changes < MaxChanges /\ changes' = changes + 1 /\ u \in DOMAIN source
    /\ source' = [x \in DOMAIN source \ {u} |-> source[x]]
    /\ UNCHANGED <<records, phase, existing, desired, delete, update, create,
                   clean, faults>>

-----------------------------------------------------------------------------
UserType(facts) == IF facts.admin THEN "Admin" ELSE "Member"

(* Airtable sets the fields it is sent and keeps the others.                 *)
Patch(record, facts) ==
    [record EXCEPT !.type = UserType(facts),
                   !.admin = @ \/ facts.admin,
                   !.name = IF facts.name = None THEN @ ELSE facts.name]

Fresh(u, facts) ==
    [user |-> u, type |-> UserType(facts), admin |-> facts.admin,
     name |-> facts.name]

Differs(record, facts) == record # Fresh(record.user, facts)

AnyRecord(i) == i \in DOMAIN existing    \* slip: the duplicates are not noticed
(* The record of a user is the first one listed; the others are duplicates.  *)
IsFirst(i) ==
    \A j \in DOMAIN existing : existing[j].user = existing[i].user => i <= j

ReadRecords ==
    /\ phase = "idle" /\ phase' = "read"
    /\ existing' = records /\ clean' = TRUE
    /\ UNCHANGED <<source, records, desired, delete, update, create, changes,
                   faults>>

ReadSource ==
    /\ phase = "read" /\ phase' = "delete"
    /\ desired' = source
    /\ LET known == {existing[i].user : i \in DOMAIN existing}
       IN  /\ delete' = {i \in DOMAIN existing :
                            existing[i].user \notin DOMAIN source \/ ~ IsFirst(i)}
           /\ update' = {i \in DOMAIN existing \ delete' :
                            Differs(existing[i], source[existing[i].user])}
           /\ create' = DOMAIN source \ known
    /\ UNCHANGED <<source, records, existing, clean, changes, faults>>

(* A batch of what is left: BatchSize of it, or all.                         *)
IsBatch(batch, whole) ==
    /\ batch \subseteq whole /\ batch # {}
    /\ \/ Cardinality(batch) = BatchSize
       \/ batch = whole /\ Cardinality(whole) < BatchSize

(* Whether the batch is accepted or not, the run goes on with the next.      *)
Outcome(ok, after) ==
    IF ok THEN records' = after /\ UNCHANGED <<clean, faults>>
    ELSE /\ faults < MaxFaults /\ faults' = faults + 1
         /\ clean' = FALSE /\ UNCHANGED records

Delete(batch, ok) ==
    /\ phase = "delete" /\ IsBatch(batch, delete)
    /\ delete' = delete \ batch
    /\ Outcome(ok, [i \in DOMAIN records \ batch |-> records[i]])
    /\ UNCHANGED <<source, phase, existing, desired, update, create, changes>>

Update(batch, ok) ==
    /\ phase = "update" /\ IsBatch(batch, update)
    /\ update' = update \ batch
    /\ Outcome(ok, [i \in DOMAIN records |->
                       IF i \in batch
                       THEN Patch(records[i], desired[records[i].user])
                       ELSE records[i]])
    /\ UNCHANGED <<source, phase, existing, desired, delete, create, changes>>

Create(batch, ok) ==
    /\ phase = "create" /\ IsBatch(batch, create)
    /\ create' = create \ batch
    /\ \E new \in kSubset(Cardinality(batch), Ids \ DOMAIN records) :
          LET user == [k \in 1 .. Cardinality(new) |-> SetToSeq(batch)[k]]
              id == SetToSeq(new)
              At(i) == CHOOSE k \in DOMAIN id : id[k] = i
          IN  Outcome(ok, [i \in DOMAIN records \cup new |->
                              IF i \in new
                              THEN Fresh(user[At(i)], desired[user[At(i)]])
                              ELSE records[i]])
    /\ UNCHANGED <<source, phase, existing, desired, delete, update, changes>>

ToUpdate ==
    /\ phase = "delete" /\ delete = {} /\ phase' = "update"
    /\ UNCHANGED <<source, records, existing, desired, delete, update, create,
                   clean, changes, faults>>

ToCreate ==
    /\ phase = "update" /\ update = {} /\ phase' = "create"
    /\ UNCHANGED <<source, records, existing, desired, delete, update, create,
                   clean, changes, faults>>

Forget ==
    /\ phase' = "idle" /\ existing' = Empty /\ desired' = Empty
    /\ delete' = {} /\ update' = {} /\ create' = {} /\ clean' = TRUE

Finish ==
    /\ phase = "create" /\ create = {} /\ Forget
    /\ UNCHANGED <<source, records, changes, faults>>

Die ==
    /\ phase # "idle" /\ faults < MaxFaults /\ faults' = faults + 1
    /\ Forget
    /\ UNCHANGED <<source, records, changes>>

Next ==
    \/ ReadRecords \/ ReadSource \/ ToUpdate \/ ToCreate \/ Finish \/ Die
    \/ \E ok \in BOOLEAN :
          \/ \E batch \in SUBSET Ids : Delete(batch, ok) \/ Update(batch, ok)
          \/ \E batch \in SUBSET Users : Create(batch, ok)
    \/ \E u \in Users :
          \/ Leave(u)
          \/ \E facts \in Facts : Learn(u, facts)

Spec == Init /\ [][Next]_vars

-----------------------------------------------------------------------------
(* A run without a failed batch leaves exactly one record for each user it   *)
(* has read, whatever earlier runs left half done, with the type the user    *)
(* has and every flag and name the user has.                                 *)
OneRecordEach ==
    [][Finish /\ clean =>
         /\ {records[i].user : i \in DOMAIN records} = DOMAIN desired
         /\ Cardinality(DOMAIN records) = Cardinality(DOMAIN desired)
         /\ \A i \in DOMAIN records :
               LET facts == desired[records[i].user]
               IN  /\ records[i].type = UserType(facts)
                   /\ facts.admin => records[i].admin
                   /\ facts.name \in {None, records[i].name}]_vars

(* Whatever fails, no user who stays loses the last record.                  *)
NobodyDropped ==
    [][\A u \in DOMAIN source :
         (\E i \in DOMAIN records : records[i].user = u) =>
             \/ \E i \in DOMAIN records' : records'[i].user = u
             \/ u \notin DOMAIN desired]_vars
=============================================================================
