------------------------------- MODULE MCTrade -------------------------------
(***************************************************************************)
(* Instances of Trade: one order of two items whose payment two workers    *)
(* handle at once, and two orders of one buyer that compete for a SKU and  *)
(* for the buyer's only coupon.                                            *)
(***************************************************************************)
EXTENDS Trade, TLC

CONSTANTS o1, s1, s2

OneOrder == o1 :> (s1 :> 1 @@ s2 :> 2)
TwoOrders == [o \in Orders |-> [s \in Skus |-> 1]]
MCDeltas == {-1}

RequestSymmetry == Permutations(Workers) \cup Permutations(Events)
OrderSymmetry == RequestSymmetry \cup Permutations(Orders)
=============================================================================
