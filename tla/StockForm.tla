------------------------------- MODULE StockForm -------------------------------
(***************************************************************************)
(* The drawer in which a merchant corrects the stock of a SKU:             *)
(* inventory/composables/useInventoryManagement.ts and                     *)
(* InventoryAdjustmentDrawer.vue of apps/admin, over the two versioned     *)
(* writes of inventory/inventory.service.ts.  One save is up to two        *)
(* writes; either may be refused, or its answer lost.                      *)
(***************************************************************************)
EXTENDS Naturals

CONSTANTS
    Thresholds, \* low-stock thresholds
    NoItem,     \* nothing opened yet
    MaxVersion  \* bound: writes of the Inventory row

StockFormAssumption == MaxVersion \in Nat /\ NoItem \notin [version : Nat, threshold : Thresholds]

VARIABLES
    row,      \* the Inventory row: its version and its threshold
    listed,   \* the row as the list shows it
    selected, \* the row as the drawer shows it, or NoItem
    delta,    \* whether a correction is entered
    wanted,   \* the threshold that is entered
    save,     \* the write under way, what it goes by, and whether that is still entered
    applied   \* history: how often the correction that is entered was applied

vars == <<row, listed, selected, delta, wanted, save, applied>>

Idle == [step |-> "idle", current |-> NoItem, threshold |-> NoItem, mine |-> FALSE]
busy == save # Idle

\* The drawer shows item: its watcher clears what was entered.
Shows(item) ==
    /\ selected' = item
    /\ delta' = FALSE /\ wanted' = item.threshold
    /\ applied' = 0

-----------------------------------------------------------------------------
load ==
    /\ listed' = row
    /\ UNCHANGED <<row, selected, delta, wanted, save, applied>>

\* A save that is under way goes on, of what is not entered any more.
open ==
    /\ Shows(listed)
    /\ save' = [save EXCEPT !.mine = FALSE]
    /\ UNCHANGED <<row, listed>>

Edit(entered, threshold) ==
    /\ selected # NoItem
    /\ delta' = entered /\ wanted' = threshold
    /\ applied' = IF entered THEN applied ELSE 0
    /\ UNCHANGED <<row, listed, selected, save>>

submit ==
    /\ selected # NoItem /\ ~busy
    /\ delta \/ wanted # selected.threshold
    /\ save' = [step |-> IF delta THEN "adjust" ELSE "threshold", current |-> selected,
                threshold |-> wanted, mine |-> TRUE]
    /\ UNCHANGED <<row, listed, selected, delta, wanted, applied>>

\* Mutant: the row is corrected whatever its version.
anyVersion == TRUE

expectedVersion == save.current.version = row.version

\* The server's side of a write: the next version, or INVENTORY_VERSION_CHANGED.
Written(step, threshold, next) ==
    /\ save.step = step /\ expectedVersion
    /\ row.version < MaxVersion
    /\ row' = [version |-> row.version + 1, threshold |-> threshold]
    /\ save' = [save EXCEPT !.step = next, !.current = row']
    /\ UNCHANGED <<listed, selected, delta, wanted>>

adjust ==
    /\ Written("adjust", row.threshold, "adjusted")
    /\ applied' = IF save.mine /\ delta THEN applied + 1 ELSE applied

setLowStockThreshold == Written("threshold", save.threshold, "written") /\ UNCHANGED applied

\* The correction is answered: the threshold is written next, if it is to change.
Adjusted ==
    /\ save.step = "adjusted"
    /\ save' = [save EXCEPT !.step =
                  IF save.threshold # save.current.threshold THEN "threshold" ELSE "written"]
    /\ UNCHANGED <<row, listed, selected, delta, wanted, applied>>

\* Both are answered: the drawer shows the row, and the list is loaded.
Saved ==
    /\ save.step = "written"
    /\ Shows(save.current)
    /\ save' = Idle
    /\ listed' \in {listed, row}
    /\ UNCHANGED row

\* A write is refused, or its answer does not come: the drawer stays as it is.
Fails ==
    /\ busy
    /\ save' = Idle
    /\ UNCHANGED <<row, listed, selected, delta, wanted, applied>>

\* An order, or a colleague, writes the row.
Others ==
    /\ row.version < MaxVersion
    /\ \E threshold \in Thresholds : row' = [version |-> row.version + 1, threshold |-> threshold]
    /\ UNCHANGED <<listed, selected, delta, wanted, save, applied>>

-----------------------------------------------------------------------------
Init ==
    /\ row \in [version : {0}, threshold : Thresholds]
    /\ listed = row
    /\ selected = NoItem
    /\ delta = FALSE /\ wanted = row.threshold
    /\ save = Idle
    /\ applied = 0

Next ==
    \/ load \/ open \/ submit \/ adjust \/ setLowStockThreshold \/ Adjusted \/ Saved \/ Fails \/ Others
    \/ \E entered \in BOOLEAN, threshold \in Thresholds : Edit(entered, threshold)

Spec == Init /\ [][Next]_vars
-----------------------------------------------------------------------------
(* What a merchant enters once is applied once: not again when he saves    *)
(* again, after the threshold was refused or the answer lost.              *)
AppliedOnce == applied <= 1
=============================================================================
