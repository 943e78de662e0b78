----------------------------- MODULE StockLedger -----------------------------
(***************************************************************************)
(* What the stock of one SKU promises its callers, whatever runs           *)
(* concurrently: units on hand, and holds that are taken once, settled     *)
(* once, and together never exceed what is on hand.  Nothing here knows of *)
(* transactions, versions or ledgers; module Inventory implements it.      *)
(***************************************************************************)
EXTENDS Integers, FiniteSets

CONSTANTS References, MaxQuantity

VARIABLES
    stock,   \* units on hand
    hold     \* hold[r] = [state, units] of the hold taken for reference r

stockVars == <<stock, hold>>

NoHold == [state |-> "none", units |-> 0]

\* The units under hold, one element each: unit k of the hold of r.
HeldUnits ==
    {u \in References \X (1..MaxQuantity) :
        hold[u[1]].state = "held" /\ u[2] <= hold[u[1]].units}

Init ==
    /\ stock \in Nat
    /\ hold = [r \in References |-> NoHold]

\* The merchant changes what is on hand, never below what is promised.
Recount ==
    /\ stock' \in Nat
    /\ stock' >= Cardinality(HeldUnits)
    /\ UNCHANGED hold

Take(r, q) ==
    /\ hold[r] = NoHold
    /\ stock >= Cardinality(HeldUnits) + q
    /\ hold' = [hold EXCEPT ![r] = [state |-> "held", units |-> q]]
    /\ UNCHANGED stock

\* Held goods leave the warehouse together with their hold.
Sell(r) ==
    /\ hold[r].state = "held"
    /\ hold' = [hold EXCEPT ![r].state = "sold"]
    /\ stock' = stock - hold[r].units

Return(r) ==
    /\ hold[r].state = "held"
    /\ hold' = [hold EXCEPT ![r].state = "returned"]
    /\ UNCHANGED stock

Next ==
    \/ Recount
    \/ \E r \in References :
        \/ \E q \in 1..MaxQuantity : Take(r, q)
        \/ Sell(r)
        \/ Return(r)

Spec == Init /\ [][Next]_stockVars
=============================================================================
