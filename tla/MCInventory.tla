----------------------------- MODULE MCInventory -----------------------------
(* A small warehouse: two requests in flight, two orders, one SKU with two *)
(* units.  Requests are interchangeable, and so are orders.                *)
EXTENDS Inventory, TLC

MCDeltas == {-3}
Symmetry == Permutations(Workers) \cup Permutations(References)
=============================================================================
