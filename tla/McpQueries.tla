------------------------------ MODULE McpQueries ------------------------------
(* The tools query and get_rows of warehouse-mcp: a pool of connections that *)
(* retries what a lost connection cut, and the cache of results its clients  *)
(* page through.  A result is known by the number of the query that stored   *)
(* it; its rows are 1 .. size.                                               *)
EXTENDS Naturals, Sequences, FiniteSets

CONSTANTS
    Clients,        \* the concurrent callers
    PoolSize,       \* connections of the pool
    MaxAttempts,    \* MAX_QUERY_ATTEMPTS
    MaxEntries,     \* entries of the cache
    Ttl,            \* the time an entry lives
    MaxRows,        \* bound: rows of a result
    MaxQueries,     \* bound: results stored
    MaxClock,       \* bound: the clock
    MaxFaults       \* bound: connections lost

VARIABLES
    now,            \* the clock
    free,           \* connections nobody holds
    call,           \* the query of each client, and where it stands
    cache,          \* entries; a younger one has a larger id
    results,        \* history: what was stored, when and of what size
    page,           \* what each client has read of which result
    faults

vars == <<now, free, call, cache, results, page, faults>>

stored == Len(results)
Idle == [phase |-> "idle", attempt |-> 0, refused |-> 0]
Nothing == [id |-> 0, offset |-> 0, rows |-> <<>>, more |-> FALSE]
Phases == {"idle", "waiting", "running", "backoff"}

TypeOK ==
    /\ now \in 0 .. MaxClock /\ free \in 0 .. PoolSize
    /\ call \in [Clients -> [phase : Phases, attempt : 0 .. MaxAttempts,
                             refused : 0 .. 2]]
    /\ stored <= MaxQueries /\ faults \in 0 .. MaxFaults
    /\ cache \subseteq {results[k] : k \in DOMAIN results}
    /\ \A c \in Clients : page[c].id \in 0 .. stored

Init ==
    /\ now = 0 /\ free = PoolSize /\ results = <<>> /\ faults = 0
    /\ call = [c \in Clients |-> Idle] /\ cache = {}
    /\ page = [c \in Clients |-> Nothing]

Tick ==
    /\ now < MaxClock /\ now' = now + 1
    /\ UNCHANGED <<free, call, cache, results, page, faults>>

-----------------------------------------------------------------------------
(* A query.                                                                  *)
Ask(c) ==
    /\ call[c].phase = "idle" /\ stored < MaxQueries
    /\ call' = [call EXCEPT ![c] = [Idle EXCEPT !.phase = "waiting",
                                                !.attempt = 1]]
    /\ UNCHANGED <<now, free, cache, results, page, faults>>

Acquire(c) ==
    /\ call[c].phase = "waiting" /\ free > 0
    /\ free' = free - 1
    /\ call' = [call EXCEPT ![c].phase = "running"]
    /\ UNCHANGED <<now, cache, results, page, faults>>

(* PoolTimeout is not retried.                                               *)
PoolTimeout(c) ==
    /\ call[c].phase = "waiting" /\ free = 0
    /\ call' = [call EXCEPT ![c].phase = "idle"]
    /\ UNCHANGED <<now, free, cache, results, page, faults>>

Live(entry) == now <= entry.at + Ttl
Evicted(entries) ==
    {e \in entries : Cardinality(entries) >= MaxEntries =>
                         \E older \in entries : older.id < e.id}
Rows(entry, offset, limit) ==
    [i \in 1 .. (IF offset + limit < entry.size THEN limit ELSE entry.size - offset)
        |-> offset + i]

(* The connection goes back, the expired entries and if need be the oldest   *)
(* one make room, and the caller sees the first rows of the new entry.       *)
Answer(c, size, preview) ==
    /\ call[c].phase = "running" /\ stored < MaxQueries
    /\ free' = free + 1
    /\ call' = [call EXCEPT ![c].phase = "idle"]
    /\ LET entry == [id |-> stored + 1, at |-> now, size |-> size]
       IN  /\ results' = Append(results, entry)
           /\ cache' = Evicted({e \in cache : Live(e)}) \cup {entry}
           /\ page' = [page EXCEPT ![c] =
                          [id |-> entry.id, offset |-> preview,
                           rows |-> Rows(entry, 0, preview),
                           more |-> size > preview]]
    /\ UNCHANGED <<now, faults>>

LoseHolding(c) ==
    /\ call[c].phase = "running" /\ faults < MaxFaults
    /\ faults' = faults + 1
    /\ call' = [call EXCEPT ![c].phase =
                   IF call[c].attempt < MaxAttempts THEN "backoff" ELSE "idle"]
    /\ UNCHANGED <<now, free, cache, results, page>>

(* The connection is gone: another one takes the query over, a few times.    *)
Lose(c) ==
    /\ call[c].phase = "running" /\ faults < MaxFaults
    /\ faults' = faults + 1 /\ free' = free + 1
    /\ call' = [call EXCEPT ![c].phase =
                   IF call[c].attempt < MaxAttempts THEN "backoff" ELSE "idle"]
    /\ UNCHANGED <<now, cache, results, page>>

Retry(c) ==
    /\ call[c].phase = "backoff"
    /\ call' = [call EXCEPT ![c].phase = "waiting", ![c].attempt = @ + 1]
    /\ UNCHANGED <<now, free, cache, results, page, faults>>

(* The server refuses the query: a timeout, a full disk.                     *)
Refuse(c) ==
    /\ call[c].phase = "running"
    /\ free' = free + 1
    /\ call' = [call EXCEPT ![c].refused = @ + 1, ![c].phase = "idle"]
    /\ UNCHANGED <<now, cache, results, page, faults>>

-----------------------------------------------------------------------------
(* A page of a stored result.                                                *)
NextOffset(offset, rows, limit) == offset + limit
(* The next page is read at the offset the last answer named.                *)
GetRows(c, limit) ==
    /\ call[c].phase = "idle" /\ page[c].id # 0 /\ page[c].more
    /\ \E e \in cache :
          /\ e.id = page[c].id /\ Live(e)
          /\ LET rows == Rows(e, page[c].offset, limit)
             IN  page' = [page EXCEPT
                    ![c].rows = @ \o rows,
                    ![c].offset = NextOffset(@, rows, limit),
                    ![c].more = page[c].offset + Len(rows) < e.size]
    /\ UNCHANGED <<now, free, call, cache, results, faults>>

(* The entry was evicted or has expired, and is dropped with the look.       *)
NotFound(c) ==
    /\ call[c].phase = "idle" /\ page[c].id # 0
    /\ ~ \E e \in cache : e.id = page[c].id /\ Live(e)
    /\ cache' = {e \in cache : e.id # page[c].id}
    /\ page' = [page EXCEPT ![c] = Nothing]
    /\ UNCHANGED <<now, free, call, results, faults>>

Query(c) ==
    \/ Acquire(c) \/ PoolTimeout(c) \/ Retry(c) \/ Lose(c) \/ Refuse(c)
    \/ \E size \in 0 .. MaxRows, preview \in 1 .. 2 : Answer(c, size, preview)

Next ==
    \/ Tick
    \/ \E c \in Clients :
          \/ Ask(c) \/ Query(c) \/ NotFound(c)
          \/ \E limit \in 1 .. 2 : GetRows(c, limit)

Spec == Init /\ [][Next]_vars

-----------------------------------------------------------------------------
(* Every connection is free or held by exactly one running query.            *)
NoConnectionLeaks ==
    free + Cardinality({c \in Clients : call[c].phase = "running"}) = PoolSize

(* What the server refuses is not run again: is_connection_lost.             *)
RefusedOnce == \A c \in Clients : call[c].refused <= 1

(* The cache stays within its limit, and a result lives in it until it       *)
(* expires or MaxEntries newer ones have come.                               *)
CacheKeepsRecent ==
    /\ Cardinality(cache) <= MaxEntries
    /\ \A k \in DOMAIN results : k + MaxEntries > stored /\ Live(results[k]) =>
           \E e \in cache : e.id = k

(* The pages of a client, put together, are the first rows of its result, and*)
(* all of them once no answer promises more.                                 *)
PagesInOrder ==
    \A c \in Clients : page[c].id # 0 =>
        /\ page[c].rows = [i \in 1 .. Len(page[c].rows) |-> i]
        /\ ~ page[c].more => Len(page[c].rows) = results[page[c].id].size
=============================================================================
