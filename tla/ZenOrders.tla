------------------------------ MODULE ZenOrders ------------------------------
(* Customer orders, labor costs and shipments of the AGH warehouse, assets   *)
(* that share no table.  The orders come in pages by ascending id.  A closed *)
(* order never changes, so an incremental run only fetches the pages on      *)
(* which the warehouse has open orders and, reckoning from two counts, those *)
(* with new ones.  Zenventory cancels orders and deletes none.  The report   *)
(* of shipments is one request, from a few days before the newest stored one *)
(* on, upserted in one transaction; a shipment may enter it days late.       *)
EXTENDS Naturals, FiniteSets, FiniteSetsExt

CONSTANTS
    PerPage,        \* perPage of the API
    MaxOrders,      \* bound: orders
    MaxFaults,      \* bound: requests that fail
    Shipments,      \* the shipments there will be
    Overlap,        \* 7 days
    MaxLate,        \* how late a shipment may enter the report
    MaxClock        \* bound: the days

VARIABLES
    open,           \* per order 1 .. n of the API: TRUE while it may change
    table,          \* customer_orders: what is stored of each, by id
    labor,          \* orders with a labor cost
    phase,          \* of the run over the orders
    total,          \* the table's count and largest id when the run began
    stale,          \* the orders open in the table when the run began
    pages,          \* pages still to fetch
    fetched,        \* what they held: order -> open
    begun,          \* history: the orders when the run began
    faults,
    now, shipped,   \* the day, and the day of each shipment in the report
    stored          \* the table shipments

orderVars == <<open, table, labor, phase, total, stale, pages, fetched, begun,
               faults>>
shipmentVars == <<now, shipped, stored>>
vars == <<orderVars, shipmentVars>>

Empty == [o \in {} |-> TRUE]
count == Cardinality(DOMAIN open)
Orders == 1 .. MaxOrders
Page(o) == (o + PerPage - 1) \div PerPage
TotalPages == IF count = 0 THEN 1 ELSE Page(count)
Merge(f, g) == [o \in DOMAIN f \cup DOMAIN g |->
                   IF o \in DOMAIN g THEN g[o] ELSE f[o]]

TypeOK ==
    /\ DOMAIN open = 1 .. count /\ count <= MaxOrders
    /\ \A f \in {open, table, fetched, begun} :
          /\ DOMAIN f \subseteq DOMAIN open
          /\ \A o \in DOMAIN f : f[o] \in BOOLEAN
    /\ labor \subseteq DOMAIN table /\ stale \subseteq DOMAIN table
    /\ phase \in {"idle", "ask", "fetch", "full"} /\ total \in 0 .. count
    /\ pages \subseteq 1 .. MaxOrders
    /\ faults \in 0 .. MaxFaults
    /\ now \in 0 .. MaxClock /\ DOMAIN shipped \subseteq Shipments
    /\ \A s \in DOMAIN shipped : shipped[s] \in 0 .. now
    /\ stored \subseteq DOMAIN shipped

Init ==
    /\ open = Empty /\ table = Empty /\ labor = {} /\ phase = "idle"
    /\ total = 0 /\ stale = {} /\ pages = {} /\ fetched = Empty
    /\ begun = Empty /\ faults = 0
    /\ now = 0 /\ shipped = [s \in {} |-> 0] /\ stored = {}

(* At Zenventory.                                                            *)
Place ==
    /\ count < MaxOrders
    /\ open' = Merge(open, [o \in {count + 1} |-> TRUE])
    /\ UNCHANGED <<table, labor, phase, total, stale, pages, fetched, begun,
                   faults>>

Close(o) ==
    /\ open[o] /\ open' = [open EXCEPT ![o] = FALSE]
    /\ UNCHANGED <<table, labor, phase, total, stale, pages, fetched, begun,
                   faults>>

-----------------------------------------------------------------------------
(* What the table holds decides between a full and an incremental run.       *)
Begin ==
    /\ phase = "idle" /\ begun' = open
    /\ total' = Cardinality(DOMAIN table)
    /\ stale' = {o \in DOMAIN table : table[o]}
    /\ fetched' = Empty
    /\ IF table = Empty THEN phase' = "full" /\ pages' = {1}
       ELSE phase' = "ask" /\ pages' = {}
    /\ UNCHANGED <<open, table, labor, faults>>

(* The pages with the new orders: from the count of the API, with a buffer.  *)
NewPagesExactly(new) ==
    {p \in 1 .. TotalPages : p + (new \div PerPage) > TotalPages}
NewPages(new) ==
    {p \in 1 .. TotalPages : p + (new \div PerPage) + 2 > TotalPages}

(* An open order is on the page of its rank in the table.                    *)
Rank(o) == Cardinality({x \in DOMAIN table : x <= o})
OpenPages == {Page(Rank(o)) : o \in stale}

Ask ==
    /\ phase = "ask" /\ phase' = "fetch"
    /\ pages' = NewPages(IF count > total THEN count - total ELSE 0)
                \cup OpenPages
    /\ UNCHANGED <<open, table, labor, total, stale, fetched, begun, faults>>

(* Ten threads fetch, in any order.                                          *)
Fetch(p) ==
    /\ phase = "fetch" /\ p \in pages /\ pages' = pages \ {p}
    /\ fetched' = Merge(fetched, [o \in {x \in DOMAIN open : Page(x) = p} |->
                                     open[o]])
    /\ UNCHANGED <<open, table, labor, phase, total, stale, begun, faults>>

Reset ==
    /\ phase' = "idle" /\ total' = 0 /\ stale' = {} /\ pages' = {}
    /\ fetched' = Empty /\ begun' = Empty

(* What is neither new nor was open is dropped; the rest is one transaction. *)
Upsert ==
    /\ phase = "fetch" /\ pages = {}
    /\ LET wanted == {o \in DOMAIN fetched :
                         o \in stale \/ \A x \in DOMAIN table : x < o}
       IN  table' = Merge(table, [o \in wanted |-> fetched[o]])
    /\ Reset
    /\ UNCHANGED <<open, labor, faults>>

(* The first run commits page after page.                                    *)
FullPage(p) ==
    /\ phase = "full" /\ pages = {p}
    /\ table' = Merge(table, [o \in {x \in DOMAIN open : Page(x) = p} |->
                                 open[o]])
    /\ IF p < TotalPages
       THEN pages' = {p + 1} /\ UNCHANGED <<phase, total, stale, fetched,
                                            begun>>
       ELSE Reset
    /\ UNCHANGED <<open, labor, faults>>

Fail ==
    /\ phase # "idle" /\ faults < MaxFaults /\ faults' = faults + 1
    /\ Reset
    /\ UNCHANGED <<open, table, labor>>

LaborCosts ==
    /\ labor' = DOMAIN table
    /\ UNCHANGED <<open, table, phase, total, stale, pages, fetched, begun,
                   faults>>

OrderNext ==
    \/ Place \/ Begin \/ Ask \/ Upsert \/ Fail \/ LaborCosts
    \/ \E o \in DOMAIN open : Close(o)
    \/ \E p \in pages : Fetch(p) \/ FullPage(p)

-----------------------------------------------------------------------------
(* The shipments.                                                            *)
Tick == now < MaxClock /\ now' = now + 1 /\ UNCHANGED <<shipped, stored>>

Ship(s, day) ==
    /\ s \notin DOMAIN shipped /\ day <= now /\ now <= day + MaxLate
    /\ shipped' = [x \in DOMAIN shipped \cup {s} |->
                      IF x = s THEN day ELSE shipped[x]]
    /\ UNCHANGED <<now, stored>>

From(day) == IF day > Overlap THEN day - Overlap ELSE 0

SyncShipments ==
    /\ LET first == IF stored = {} THEN 0
                    ELSE From(Max({shipped[s] : s \in stored}))
       IN  stored' = stored \cup {s \in DOMAIN shipped : shipped[s] >= first}
    /\ UNCHANGED <<now, shipped>>

ShipmentNext ==
    \/ Tick \/ SyncShipments
    \/ \E s \in Shipments, day \in 0 .. now : Ship(s, day)

Next ==
    \/ OrderNext /\ UNCHANGED shipmentVars
    \/ ShipmentNext /\ UNCHANGED orderVars

Spec == Init /\ [][Next]_vars

-----------------------------------------------------------------------------
(* Whatever was placed or closed while the pages were fetched, wherever an   *)
(* earlier run was cut: a run leaves every order there was when it began,    *)
(* and none of those closed by then stays open.                              *)
OrdersComplete ==
    [][(phase \in {"fetch", "full"} /\ phase' = "idle" /\ faults' = faults) =>
         \A o \in DOMAIN begun :
             o \in DOMAIN table' /\ (table'[o] => begun[o])]_vars

(* The stored orders are the first ones, without a hole that no later run    *)
(* would fill.                                                               *)
NoOrderSkipped == DOMAIN table = 1 .. Cardinality(DOMAIN table)

(* The first run after a shipment enters the report stores it, if it entered *)
(* no later than the overlap allows.                                         *)
NoShipmentMissed == [][SyncShipments => stored' = DOMAIN shipped]_vars
=============================================================================
