------------------------------ MODULE QuickBooks ------------------------------
(***************************************************************************)
(* quickbooks_online_sync: one thread per entity pages through QuickBooks  *)
(* and upserts what it reads, stamped with the run; rows of finished       *)
(* entities without the stamp are then deleted.  The threads share one     *)
(* TokenManager: every refresh of the access token also replaces the       *)
(* refresh token, which is stored for the next run.                        *)
(***************************************************************************)
EXTENDS Integers, FiniteSets

CONSTANTS
    Entities,
    Ids,
    Main,           \* the thread of the asset itself
    PageSize,
    MaxTokens,      \* bounds: tokens issued, changes at QuickBooks, failures
    MaxChanges,
    MaxFaults

VARIABLES
    objects,        \* entity -> ids at QuickBooks
    rows, stamped,  \* entity -> ids in the table, and those of this run
    alive,          \* refresh tokens QuickBooks accepts; a token is a number
    valid,          \* access tokens of this run it accepts
    stored, seed,   \* quickbooks._qbo_oauth, QBO_REFRESH_TOKEN
    access,         \* _access_token; 0 for None
    holder,         \* thread that holds the lock of the TokenManager to refresh, or "none"
    pc,             \* thread -> where it is
    held,           \* entity -> token of the request at hand
    start,          \* entity -> STARTPOSITION - 1
    issued, changes, faults,
    shifted,        \* history: entities that lost an object during the run
    unsaved,        \* history: a refresh token was never stored
    excused         \* history: starts and expiries of this run, less its refreshes

vars == <<objects, rows, stamped, alive, valid, stored, seed, access, holder, pc, held, start,
          issued, changes, faults, shifted, unsaved, excused>>
data == <<objects, rows, stamped, changes, shifted>>
tokens == <<alive, valid, stored, seed, access, issued, unsaved, excused>>
paging == <<held, start>>

Threads == Entities \cup {Main}
Running == pc[Main] # "idle"
Page(e) == {i \in objects[e] : Cardinality({j \in objects[e] : j < i}) - start[e] \in 0 .. PageSize - 1}

Init ==
    /\ objects = [e \in Entities |-> Ids] /\ rows = objects /\ stamped = [e \in Entities |-> {}]
    /\ alive = {1} /\ valid = {} /\ stored = 0 /\ seed = 1 /\ access = 0 /\ holder = "none"
    /\ pc = [t \in Threads |-> "idle"]
    /\ held = [e \in Entities |-> 0] /\ start = [e \in Entities |-> 0]
    /\ issued = 1 /\ changes = 0 /\ faults = 0
    /\ shifted = {} /\ unsaved = FALSE /\ excused = 0

-----------------------------------------------------------------------------
(* QuickBooks, and whoever runs scripts/qbo_auth.py                        *)

Remove(e, i) ==
    /\ changes < MaxChanges /\ changes' = changes + 1 /\ i \in objects[e]
    /\ objects' = [objects EXCEPT ![e] = @ \ {i}]
    /\ shifted' = IF Running THEN shifted \cup {e} ELSE shifted
    /\ UNCHANGED <<rows, stamped, tokens, holder, pc, paging, faults>>

Expire(a) ==
    /\ Running /\ a \in valid /\ valid' = valid \ {a}
    /\ excused' = excused + 1
    /\ UNCHANGED <<data, alive, stored, seed, access, issued, unsaved, holder, pc, paging, faults>>

Reauthorize ==
    /\ ~Running /\ issued < MaxTokens
    /\ alive \cap {stored, seed} = {}
    /\ issued' = issued + 1 /\ seed' = issued' /\ alive' = alive \cup {issued'}
    /\ unsaved' = FALSE
    /\ UNCHANGED <<data, valid, excused, stored, access, holder, pc, paging, faults>>

-----------------------------------------------------------------------------
(* TokenManager                                                            *)

(* access_token of the asset's own thread, which fails fast.               *)
Begin ==
    /\ ~Running /\ issued < MaxTokens
    /\ pc' = [pc EXCEPT ![Main] = "refresh"] /\ holder' = Main
    /\ access' = 0 /\ stamped' = [e \in Entities |-> {}] /\ shifted' = {}
    /\ excused' = 1 /\ valid' = {}
    /\ UNCHANGED <<objects, rows, changes, alive, stored, seed, issued, unsaved, paging, faults>>

(* Only the first thread refused with a token refreshes it.                *)
HandleUnauthorized(e) ==
    /\ pc[e] = "refused" /\ holder = "none"
    /\ IF access = held[e]
       THEN /\ issued < MaxTokens
            /\ holder' = e /\ pc' = [pc EXCEPT ![e] = "refresh"] /\ held' = held
       ELSE /\ holder' = holder /\ held' = [held EXCEPT ![e] = access]
            /\ pc' = [pc EXCEPT ![e] = "again"]
    /\ UNCHANGED <<data, tokens, start, faults>>

Accepted == IF stored \in alive THEN {stored} ELSE {seed} \cap alive

(* The POST: the stored token first, then the seed.                        *)
Refresh(t) ==
    /\ holder = t /\ pc[t] = "refresh"
    /\ IF Accepted # {}
       THEN /\ issued' = issued + 1 /\ alive' = (alive \ Accepted) \cup {issued'}
            /\ valid' = valid \cup {issued'} /\ access' = issued' /\ excused' = excused - 1
            /\ pc' = [pc EXCEPT ![t] = "persist"] /\ holder' = holder
       ELSE /\ pc' = [pc EXCEPT ![t] = IF t = Main THEN "idle" ELSE "failed"]
            /\ holder' = "none" /\ UNCHANGED <<issued, alive, valid, access, excused>>
    /\ UNCHANGED <<data, stored, seed, unsaved, paging, faults>>

(* _persist_refresh_token; the asset's thread then starts the others.      *)
Persist(t) ==
    /\ holder = t /\ pc[t] = "persist"
    /\ stored' = access /\ unsaved' = FALSE /\ holder' = "none"
    /\ pc' = [u \in Threads |-> IF t = Main THEN (IF u = Main THEN "syncing" ELSE "ask")
                                ELSE IF u = t THEN "again" ELSE pc[u]]
    /\ held' = [e \in Entities |-> IF e = t THEN access ELSE held[e]]
    /\ UNCHANGED <<data, alive, valid, seed, access, issued, excused, start, faults>>

PersistFails(t) ==
    /\ holder = t /\ pc[t] = "persist" /\ faults < MaxFaults
    /\ faults' = faults + 1 /\ unsaved' = TRUE /\ holder' = "none"
    /\ pc' = [pc EXCEPT ![t] = IF t = Main THEN "idle" ELSE "failed"]
    /\ UNCHANGED <<data, alive, valid, stored, seed, access, issued, excused, paging>>

-----------------------------------------------------------------------------
(* sync_entity                                                             *)

(* qbo_get and flush_rows: a 401 is retried once, a short page is the last. *)
(* The upsert is one with the request, nobody else writes the table.       *)
Call(e) ==
    /\ pc[e] \in {"ask", "again"} /\ (pc[e] = "ask" => holder = "none")
    /\ LET token == IF pc[e] = "ask" THEN access ELSE held[e]
       IN  IF token \in valid
           THEN /\ rows' = [rows EXCEPT ![e] = @ \cup Page(e)]
                /\ stamped' = [stamped EXCEPT ![e] = @ \cup Page(e)]
                /\ held' = [held EXCEPT ![e] = 0]
                /\ IF Cardinality(Page(e)) < PageSize
                   THEN pc' = [pc EXCEPT ![e] = "done"] /\ start' = [start EXCEPT ![e] = 0]
                   ELSE pc' = [pc EXCEPT ![e] = "ask"] /\ start' = [start EXCEPT ![e] = @ + PageSize]
           ELSE /\ pc' = [pc EXCEPT ![e] = IF @ = "ask" THEN "refused" ELSE "failed"]
                /\ held' = [held EXCEPT ![e] = token]
                /\ UNCHANGED <<rows, stamped, start>>
    /\ UNCHANGED <<objects, changes, shifted, tokens, holder, faults>>

(* Eight attempts at a 429, another status, or the upsert fails.           *)
FailEntity(e) ==
    /\ pc[e] \in {"ask", "again"} /\ faults < MaxFaults
    /\ faults' = faults + 1 /\ pc' = [pc EXCEPT ![e] = "failed"]
    /\ UNCHANGED <<data, tokens, holder, paging>>

FinishAll == \* slip: every entity is swept, the failed ones too
    /\ pc[Main] = "syncing" /\ \A e \in Entities : pc[e] \in {"done", "failed"}
    /\ rows' = stamped
    /\ pc' = [t \in Threads |-> "idle"]
    /\ held' = [e \in Entities |-> 0] /\ start' = held' /\ stamped' = [e \in Entities |-> {}]
    /\ UNCHANGED <<objects, changes, shifted, tokens, holder, faults>>

(* The asset fails, or sweeps the entities whose thread finished.          *)
Finish ==
    /\ pc[Main] = "syncing" /\ \A e \in Entities : pc[e] \in {"done", "failed"}
    /\ rows' = [e \in Entities |-> IF pc[e] = "done" THEN rows[e] \cap stamped[e] ELSE rows[e]]
    /\ pc' = [t \in Threads |-> "idle"]
    /\ held' = [e \in Entities |-> 0] /\ start' = held' /\ stamped' = [e \in Entities |-> {}]
    /\ UNCHANGED <<objects, changes, shifted, tokens, holder, faults>>

(* The run is killed, perhaps between the POST and the INSERT.             *)
Crash ==
    /\ Running /\ faults < MaxFaults /\ faults' = faults + 1
    /\ unsaved' = (unsaved \/ \E t \in Threads : pc[t] = "persist")
    /\ pc' = [t \in Threads |-> "idle"] /\ holder' = "none"
    /\ held' = [e \in Entities |-> 0] /\ start' = held'
    /\ UNCHANGED <<data, alive, valid, stored, seed, access, issued, excused>>

Next ==
    \/ \E e \in Entities, i \in Ids : Remove(e, i)
    \/ \E a \in valid : Expire(a)
    \/ Reauthorize \/ Begin \/ Finish \/ Crash
    \/ \E t \in Threads : Refresh(t) \/ Persist(t) \/ PersistFails(t)
    \/ \E e \in Entities : \/ HandleUnauthorized(e) \/ Call(e) \/ FailEntity(e)

Spec == Init /\ [][Next]_vars

-----------------------------------------------------------------------------

TypeOK ==
    /\ \A e \in Entities : /\ objects[e] \subseteq Ids /\ rows[e] \subseteq Ids
                           /\ stamped[e] \subseteq rows[e] \/ ~Running
                           /\ held[e] \in 0 .. issued
    /\ alive \cup valid \subseteq 1 .. issued
    /\ {stored, seed, access} \subseteq 0 .. issued /\ issued \in 1 .. MaxTokens
    /\ holder \in Threads \cup {"none"}
    /\ \A t \in Threads : pc[t] \in {"idle", "syncing", "ask", "refused", "refresh",
                                     "persist", "again", "done", "failed"}

(* A refresh is spent only where a run starts or a token expires, however  *)
(* many threads are refused with that token.                               *)
OneRefreshPerExpiry == excused >= 0

(* Rotation does not lock the sync out: unless a token was lost between    *)
(* the POST and the INSERT, or QuickBooks has just answered, a refresh     *)
(* token the next run tries is alive.                                      *)
NotLockedOut ==
    unsaved \/ (\E t \in Threads : pc[t] = "persist") \/ Accepted # {}

(* The sweep deletes only what is gone at QuickBooks, except from a paged  *)
(* list that grew shorter while it was read.                               *)
OnlyGoneDeleted ==
    [][\A e \in Entities : \A i \in rows[e] \ rows'[e] : i \notin objects[e] \/ e \in shifted]_vars
=============================================================================
