----------------------------- MODULE LoopsLists -----------------------------
(* Who is on which mailing list.  The audience export has a column for every *)
(* list, named for its id and its name; dlt replaces the audience table with *)
(* it, truncating first, and columns that are no longer exported stay, empty.*)
(* The lists are mirrored on their own.  A later asset turns the columns     *)
(* into rows (email, list), in one transaction that reads the audience once  *)
(* per list, while another run may be loading it.                            *)
EXTENDS Naturals, FiniteSets

CONSTANTS
    Lists, Names, Contacts,
    MaxChanges,     \* bound: edits at Loops
    MaxFaults       \* bound: runs that fail

VARIABLES
    remote,         \* list -> "none", "live", "deleted" (and shown as such)
                    \*         or "gone" (and not shown)
    name, members,  \* list -> its name and its members at Loops
    export,         \* the export being loaded: column -> its members
    load,           \* "idle", "exported" or "truncated"
    columns,        \* the list columns of loops.audience
    audience,       \* column -> the contacts it holds true for
    listing,        \* the lists a run has fetched, or <<>>
    mirror,         \* loops.mailing_lists: list -> "none", "live", "deleted"
    run,            \* the unpivoting run: "idle" or "copy"
    todo, new,      \* the columns it has still to copy, and the rows so far
    read,           \* whether it has read the audience, which locks it
    mixed,          \* whether a load was under way meanwhile
    join,           \* loops.audience_mailing_lists
    changes, faults

vars == <<remote, name, members, export, load, columns, audience, listing,
          mirror, run, todo, new, read, mixed, join, changes, faults>>

Columns == Lists \X Names
Rows == Contacts \X Lists

TypeOK ==
    /\ remote \in [Lists -> {"none", "live", "deleted", "gone"}]
    /\ name \in [Lists -> Names] /\ members \in [Lists -> SUBSET Contacts]
    /\ DOMAIN export \subseteq Columns /\ DOMAIN audience = Columns
    /\ \A c \in DOMAIN export : export[c] \subseteq Contacts
    /\ \A c \in Columns : audience[c] \subseteq Contacts
    /\ load \in {"idle", "exported", "truncated"} /\ columns \subseteq Columns
    /\ mirror \in [Lists -> {"none", "live", "deleted"}]
    /\ DOMAIN listing \subseteq Lists
    /\ \A l \in DOMAIN listing : listing[l] \in {"live", "deleted"}
    /\ run \in {"idle", "copy"} /\ todo \subseteq columns
    /\ {new, join} \subseteq SUBSET Rows /\ {read, mixed} \subseteq BOOLEAN
    /\ changes \in 0 .. MaxChanges /\ faults \in 0 .. MaxFaults

Empty == [c \in Columns |-> {}]
Init ==
    /\ remote \in [Lists -> {"none", "live"}]
    /\ name = [l \in Lists |-> CHOOSE n \in Names : TRUE]
    /\ members \in [Lists -> SUBSET Contacts]
    /\ \A l \in Lists : remote[l] = "none" => members[l] = {}
    /\ export = <<>> /\ load = "idle" /\ columns = {} /\ audience = Empty
    /\ mirror = [l \in Lists |-> "none"] /\ listing = <<>>
    /\ run = "idle" /\ todo = {} /\ new = {} /\ read = FALSE /\ mixed = FALSE
    /\ join = {} /\ changes = 0 /\ faults = 0

loading == <<export, load, columns, audience>>
mirroring == <<listing, mirror>>
unpivoting == <<run, todo, new, read, join>>

-----------------------------------------------------------------------------
(* At Loops.                                                                 *)
Change ==
    /\ changes < MaxChanges /\ changes' = changes + 1
    /\ UNCHANGED <<loading, mirroring, unpivoting, mixed, faults>>

CreateList(l) ==
    /\ Change /\ remote[l] = "none" /\ remote' = [remote EXCEPT ![l] = "live"]
    /\ UNCHANGED <<name, members>>

DeleteList(l) ==
    /\ Change /\ remote[l] = "live"
    /\ \E s \in {"deleted", "gone"} : remote' = [remote EXCEPT ![l] = s]
    /\ UNCHANGED <<name, members>>

RenameList(l) ==
    /\ Change /\ remote[l] = "live"
    /\ \E n \in Names \ {name[l]} : name' = [name EXCEPT ![l] = n]
    /\ UNCHANGED <<remote, members>>

Subscribe(l) ==
    /\ Change /\ remote[l] = "live"
    /\ \E c \in Contacts : members' = [members EXCEPT ![l] =
             IF c \in @ THEN @ \ {c} ELSE @ \cup {c}]
    /\ UNCHANGED <<remote, name>>

-----------------------------------------------------------------------------
(* loops_audience: the export, sanitized column names, and a dlt load that   *)
(* replaces the table.                                                       *)
Export ==
    /\ load = "idle" /\ load' = "exported"
    /\ export' = [c \in {<<l, name[l]>> : l \in {k \in Lists :
                             remote[k] = "live"}} |-> members[c[1]]]
    /\ UNCHANGED <<remote, name, members, columns, audience, mirroring,
                   unpivoting, mixed, changes, faults>>

(* TRUNCATE waits for a transaction that has read the table.                 *)
Truncate ==
    /\ load = "exported" /\ load' = "truncated" /\ ~read
    /\ audience' = Empty /\ mixed' = (mixed \/ run = "copy")
    /\ UNCHANGED <<remote, name, members, export, columns, mirroring,
                   unpivoting, changes, faults>>

Insert ==
    /\ load = "truncated" /\ load' = "idle"
    /\ columns' = columns \cup DOMAIN export
    /\ audience' = [c \in Columns |->
                      IF c \in DOMAIN export THEN export[c] ELSE {}]
    /\ export' = <<>> /\ mixed' = (mixed \/ run = "copy")
    /\ UNCHANGED <<remote, name, members, mirroring, unpivoting, changes,
                   faults>>

(* loops_mailing_lists, and its upsert, which deletes nothing.               *)
FetchLists ==
    /\ listing = <<>>
    /\ listing' = [l \in {k \in Lists : remote[k] \in {"live", "deleted"}} |->
                      remote[l]]
    /\ UNCHANGED <<remote, name, members, loading, mirror, unpivoting, mixed,
                   changes, faults>>

UpsertLists ==
    /\ listing # <<>> /\ listing' = <<>>
    /\ mirror' = [l \in Lists |-> IF l \in DOMAIN listing THEN listing[l]
                                                          ELSE mirror[l]]
    /\ UNCHANGED <<remote, name, members, loading, unpivoting, mixed, changes,
                   faults>>

-----------------------------------------------------------------------------
(* loops_audience_mailing_lists_to_warehouse.                                *)
ColumnsOf(l) == {c \in columns : c[1] = l}
Wanted == {l \in Lists : mirror[l] = "live" /\ ColumnsOf(l) # {}}

(* A list takes the first of its columns that a set yields; without a list   *)
(* or a column the run ends before it truncates anything.                    *)
Begin ==
    /\ run = "idle" /\ Wanted # {} /\ run' = "copy"
    /\ \E column \in [Wanted -> columns] :
          /\ \A l \in Wanted : column[l] \in ColumnsOf(l)
          /\ todo' = {column[l] : l \in Wanted}
    /\ new' = {} /\ read' = FALSE /\ mixed' = (load = "truncated")
    /\ UNCHANGED <<remote, name, members, loading, mirroring, join, changes,
                   faults>>

Copy ==
    /\ run = "copy" /\ read' = TRUE
    /\ \E c \in todo :
          /\ new' = new \cup (audience[c] \X {c[1]})
          /\ todo' = todo \ {c}
    /\ UNCHANGED <<remote, name, members, loading, mirroring, run, mixed,
                   join, changes, faults>>

(* What the table had is truncated in the same transaction.                  *)
Commit ==
    /\ run = "copy" /\ todo = {} /\ run' = "idle"
    /\ join' = new /\ new' = {} /\ read' = FALSE /\ mixed' = FALSE
    /\ UNCHANGED <<remote, name, members, loading, mirroring, todo, changes,
                   faults>>

Fail ==
    /\ faults < MaxFaults /\ faults' = faults + 1
    /\ \/ /\ run = "copy" /\ run' = "idle" /\ todo' = {} /\ new' = {}
          /\ read' = FALSE /\ mixed' = FALSE
          /\ UNCHANGED <<loading, listing, join>>
       \/ /\ load # "idle" /\ load' = "idle" /\ export' = <<>>
          /\ UNCHANGED <<columns, audience, listing, unpivoting, mixed>>
       \/ /\ listing # <<>> /\ listing' = <<>>
          /\ UNCHANGED <<loading, unpivoting, mixed>>
    /\ UNCHANGED <<remote, name, members, mirror, changes>>

Load == Export \/ Truncate \/ Insert
Mirror == FetchLists \/ UpsertLists
Unpivot == Begin \/ Copy \/ Commit

Next ==
    \/ \E l \in Lists : CreateList(l) \/ DeleteList(l) \/ RenameList(l)
                          \/ Subscribe(l)
    \/ Load \/ Mirror \/ Unpivot \/ Fail

(* PostgreSQL queues for a lock, so TRUNCATE gets its turn.                  *)
Spec ==
    Init /\ [][Next]_vars /\ SF_vars(Load) /\ WF_vars(Mirror)
         /\ WF_vars(Unpivot)

-----------------------------------------------------------------------------
Renamed(l) == Cardinality(ColumnsOf(l)) > 1
Undisturbed == Commit /\ ~mixed

(* A run that no load disturbs, when no list has had two names, leaves the   *)
(* members the audience has of the lists, and of no list that is deleted.    *)
JoinExact ==
    [][Undisturbed /\ (\A l \in Lists : ~Renamed(l)) =>
          \A l \in Lists : {r[1] : r \in {q \in join' : q[2] = l}} \subseteq
              UNION {audience[k] : k \in ColumnsOf(l)}]_vars

(* If runs that no load disturbs go on, what loads, failures and deletions   *)
(* left does not last: once lists and memberships stay as they are the table *)
(* gets the members of the live lists, unless a renamed list left a second   *)
(* column, or no live list is left.                                          *)
JoinCatchesUp ==
    []<><<Undisturbed>>_vars =>
    []<>((\E l \in Lists : remote[l] = "live") /\ (\A l \in Lists : ~Renamed(l))
         => join = {r \in Rows : remote[r[2]] = "live" /\ r[1] \in members[r[2]]})
=============================================================================
