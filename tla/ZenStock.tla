------------------------------ MODULE ZenStock ------------------------------
(* What the AGH warehouse has of each SKU.  Inventory counts, open customer  *)
(* orders and purchase orders are mirrored from Zenventory by assets of      *)
(* their own, one transaction each; a later asset reads the three tables and *)
(* upserts a record per SKU to Airtable, batch by batch.                     *)
EXTENDS Integers, FiniteSets

CONSTANTS
    Skus,           \* the items
    Purchases,      \* purchase orders, of one unit each
    Of,             \* purchase order -> SKU
    Priced,         \* the purchase orders whose line has a cost
    Itemised,       \* the items with a cost of their own at Zenventory
    MaxChanges,     \* bound: changes at Zenventory
    MaxFaults       \* bound: runs that fail

Item == 0           \* the cost Zenventory shows for the item, no purchase

VARIABLES
    onHand,         \* at Zenventory: units of a SKU
    placed,         \* units that are ordered and not picked
    bought,         \* purchase order -> "none", "open", "done" or "deleted"
    inventory, orders, purchases,   \* the mirrors of the three
    todo,           \* the SKUs the running sync has still to upsert
    rows,           \* what it has read, per SKU
    records,        \* the Airtable records, per SKU
    changes, faults

vars == <<onHand, placed, bought, inventory, orders, purchases, todo, rows,
          records, changes, faults>>

Nothing == [stock |-> 0, inbound |-> 0, cost |-> {}]
Row == [stock : -MaxChanges .. MaxChanges,
        inbound : 0 .. Cardinality(Purchases),
        cost : SUBSET (Purchases \cup {Item})]
States == {"none", "open", "done", "deleted"}

TypeOK ==
    /\ {onHand, placed, inventory, orders}
          \subseteq [Skus -> 0 .. MaxChanges]
    /\ {bought, purchases} \subseteq [Purchases -> States]
    /\ todo \subseteq Skus /\ {rows, records} \subseteq [Skus -> Row]
    /\ changes \in 0 .. MaxChanges /\ faults \in 0 .. MaxFaults

Zero == [s \in Skus |-> 0]
Init ==
    /\ onHand = Zero /\ placed = Zero
    /\ bought = [p \in Purchases |-> "none"]
    /\ inventory = Zero /\ orders = Zero /\ purchases = bought
    /\ todo = {} /\ rows = [s \in Skus |-> Nothing] /\ records = rows
    /\ changes = 0 /\ faults = 0

-----------------------------------------------------------------------------
(* At Zenventory.  What arrives is in stock from then on; a placed order is  *)
(* picked as soon as there is stock for it.                                  *)
Change ==
    /\ changes < MaxChanges /\ changes' = changes + 1
    /\ UNCHANGED <<inventory, orders, purchases, todo, rows, records, faults>>

Buy(p) ==
    /\ Change /\ bought[p] = "none" /\ bought' = [bought EXCEPT ![p] = "open"]
    /\ UNCHANGED <<onHand, placed>>

Receive(p) ==
    /\ Change /\ bought[p] = "open" /\ bought' = [bought EXCEPT ![p] = "done"]
    /\ IF placed[Of[p]] > 0
       THEN placed' = [placed EXCEPT ![Of[p]] = @ - 1] /\ UNCHANGED onHand
       ELSE onHand' = [onHand EXCEPT ![Of[p]] = @ + 1] /\ UNCHANGED placed

Cancel(p) ==
    /\ Change /\ bought[p] = "open"
    /\ bought' = [bought EXCEPT ![p] = "deleted"]
    /\ UNCHANGED <<onHand, placed>>

Order(s) ==
    /\ Change
    /\ IF onHand[s] > 0
       THEN onHand' = [onHand EXCEPT ![s] = @ - 1] /\ UNCHANGED placed
       ELSE placed' = [placed EXCEPT ![s] = @ + 1] /\ UNCHANGED onHand
    /\ UNCHANGED bought

-----------------------------------------------------------------------------
(* The mirrors, in any order and any time apart.                             *)
Mirror(table, of) == table # of /\ table' = of

SyncInventory ==
    /\ Mirror(inventory, onHand)
    /\ UNCHANGED <<onHand, placed, bought, orders, purchases, todo, rows,
                   records, changes, faults>>

SyncOrders ==
    /\ Mirror(orders, placed)
    /\ UNCHANGED <<onHand, placed, bought, inventory, purchases, todo, rows,
                   records, changes, faults>>

SyncPurchases ==
    /\ Mirror(purchases, bought)
    /\ UNCHANGED <<onHand, placed, bought, inventory, orders, todo, rows,
                   records, changes, faults>>

-----------------------------------------------------------------------------
Bought(s, state) == {p \in Purchases : Of[p] = s /\ purchases[p] = state}

(* The average of the accepted purchase orders, else of those to come, else  *)
(* what Zenventory shows: as the set of what it is computed from.            *)
UnitCost(s) ==
    IF Bought(s, "done") \cap Priced # {} THEN Bought(s, "done") \cap Priced
    ELSE IF Bought(s, "open") \cap Priced # {}
    THEN Bought(s, "open") \cap Priced
    ELSE {Item : i \in Itemised \cap {s}}

(* The asset reads all tables, then logs in for the pictures.                *)
Read ==
    /\ todo = {} /\ todo' = Skus
    /\ rows' = [s \in Skus |->
                   [stock |-> inventory[s] - orders[s],
                    inbound |-> Cardinality(Bought(s, "open")),
                    cost |-> UnitCost(s)]]
    /\ UNCHANGED <<onHand, placed, bought, inventory, orders, purchases,
                   records, changes, faults>>

(* An unknown cost leaves the one at Airtable alone; an Inbound of 0 does    *)
(* not.                                                                      *)
WithInboundIfAny(old, new) ==
    [new EXCEPT !.cost = IF @ = {} THEN old.cost ELSE @,
                !.inbound = IF @ = 0 THEN old.inbound ELSE @]
With(old, new) == [new EXCEPT !.cost = IF @ = {} THEN old.cost ELSE @]

Upsert(s) ==
    /\ s \in todo /\ todo' = todo \ {s}
    /\ records' = [records EXCEPT ![s] = With(@, rows[s])]
    /\ UNCHANGED <<onHand, placed, bought, inventory, orders, purchases, rows,
                   changes, faults>>

(* A batch that Airtable refuses ends the run.                               *)
Fail ==
    /\ todo # {} /\ todo' = {} /\ faults < MaxFaults /\ faults' = faults + 1
    /\ UNCHANGED <<onHand, placed, bought, inventory, orders, purchases, rows,
                   records, changes>>

Run == Read \/ \E s \in Skus : Upsert(s)

Next ==
    \/ \E p \in Purchases : Buy(p) \/ Receive(p) \/ Cancel(p)
    \/ \E s \in Skus : Order(s)
    \/ SyncInventory \/ SyncOrders \/ SyncPurchases \/ Run \/ Fail

Fairness ==
    /\ WF_vars(SyncInventory) /\ WF_vars(SyncOrders) /\ WF_vars(SyncPurchases)
    /\ WF_vars(Run)

Spec == Init /\ [][Next]_vars /\ Fairness

-----------------------------------------------------------------------------
(* However the mirrors and the runs interleave and whichever batch fails:    *)
(* Airtable ends with the stock, the units to come and, where it is known,   *)
(* the cost that Zenventory has in the end.                                  *)
StockSettles ==
    <>[]\A s \in Skus :
          /\ records[s].stock = onHand[s] - placed[s]
          /\ LET open == {p \in Purchases : Of[p] = s /\ bought[p] = "open"}
             IN  records[s].inbound = Cardinality(open)
          /\ UnitCost(s) # {} => records[s].cost = UnitCost(s)
=============================================================================
