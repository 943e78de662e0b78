--------------------------- MODULE InventoryDomain ---------------------------
(***************************************************************************)
(* The pure rules of apps/api/src/inventory/inventory-domain.ts: what one  *)
(* mutation does to a snapshot of an inventory row, and which results are  *)
(* refused.  Every writer of an inventory row goes through them.           *)
(***************************************************************************)
EXTENDS Integers

\* A row of the Inventory table as the program keeps it between writes.
InventorySnapshot == [onHand : Nat, reserved : Nat, version : Nat]

\* A manual adjustment may remove at most what is not reserved.
clampInventoryAdjustment(delta, available) ==
    LET floor == IF available > 0 THEN -available ELSE 0
    IN  IF delta < floor THEN floor ELSE delta

\* The snapshot after a mutation; the version counts every mutation.
applyInventoryDelta(snapshot, onHandDelta, reservedDelta) ==
    [onHand   |-> snapshot.onHand + onHandDelta,
     reserved |-> snapshot.reserved + reservedDelta,
     version  |-> snapshot.version + 1]

\* Mutant: reserving more than is available is let through.
InvalidInventoryMutationOversold(next) == next.onHand < 0 \/ next.reserved < 0

\* NEGATIVE_INVENTORY and INSUFFICIENT_AVAILABLE_STOCK.
InvalidInventoryMutation(next) ==
    \/ next.onHand < 0
    \/ next.reserved < 0
    \/ next.reserved > next.onHand
=============================================================================
