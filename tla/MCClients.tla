------------------------------- MODULE MCClients -------------------------------
(***************************************************************************)
(* An instance of Clients.  As each behaviour is of one part, the states   *)
(* of the parts add up where they would multiply, and one symmetry serves  *)
(* them all.                                                               *)
(***************************************************************************)
EXTENDS Clients, TLC

Symmetry == Permutations(Addresses) \cup Permutations(Calls)
-----------------------------------------------------------------------------
\* CartPage: + is offered for what the server takes as it is asked.
ASSUME OffersWhatFits ==
    \A sku \in [open : BOOLEAN, available : 0..4, limit : 0..4], quantity \in 1..4 :
      CartPage!OffersWhatFits(sku, quantity)
=============================================================================
