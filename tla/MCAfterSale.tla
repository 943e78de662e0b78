----------------------------- MODULE MCAfterSale -----------------------------
(***************************************************************************)
(* An instance of AfterSale: an order of two merchants, one item of each,  *)
(* and lines that repeat an item, ask for too much together, or name the   *)
(* other merchant's item.  The buyer asks for refunds, or for a return too. *)
(***************************************************************************)
EXTENDS AfterSale, TLC

CONSTANTS a, b, m1, m2

MCMerchantOf == a :> m1 @@ b :> m2
MCOrdered == a :> 2 @@ b :> 1
Refunds == [i \in Items |-> "REFUND_ONLY"]
Returns == [i \in Items |-> "RETURN_REFUND"]
MCChoices == {Refunds, [Refunds EXCEPT ![b] = "RETURN_REFUND"]}
MCReturns == {Returns}

Line(i) == [item |-> i, quantity |-> 1]
MCRequests == {<<Line(a)>>, <<Line(a), Line(a)>>, <<Line(b)>>}

Symmetry == Permutations(Workers) \cup Permutations(Parcels)
-----------------------------------------------------------------------------
(* The form of the ship panel by itself, over two items and two parcels,   *)
(* even if they hold more than was ordered.                                *)

ASSUME SendsWhatFits ==
    \A ordered \in [{1, 2} -> 1..2], parcels \in [{1, 2} -> [{1, 2} -> 0..2]],
       entered \in [{1, 2} -> 0..3] :
      AsksForWhatFits({1, 2}, ordered, parcels, entered)
=============================================================================
