----------------------------- MODULE MCCheckout -----------------------------
(***************************************************************************)
(* An instance of Checkout: two buyers want the last unit of x together    *)
(* with a y, at half price by the last coupon, while the merchant raises   *)
(* the price of x and lowers it again.                                     *)
(***************************************************************************)
EXTENDS Checkout, TLC

CONSTANTS x, y

MCSkuOrder == <<x, y>>
MCStock == x :> 1 @@ y :> 2
Ask(price) == [price |-> price, limit |-> 1, open |-> TRUE]
MCOffers == x :> {Ask(1), Ask(3)} @@ y :> {Ask(2)}
MCCarts == {x :> 1 @@ y :> 1}
MCCoupon == [type |-> "PERCENTAGE", value |-> 50, minimum |-> 2, scope |-> {x, y},
             totalLimit |-> 1, perUserLimit |-> 1]

Symmetry == Permutations(Buyers) \cup Permutations(Claims) \cup Permutations(Quotes)
            \cup Permutations(Workers)

-----------------------------------------------------------------------------
(* The split of a discount by itself, over all lines of up to three SKUs   *)
(* of up to 4 cents and all coupons that apply to two or three of them.    *)

Bills == UNION {[1..n -> 1..4] : n \in 1..3}
LinesOf(bill) == [k \in DOMAIN bill |-> [sku |-> k, amount |-> bill[k]]]
Rules == [type : {"FIXED", "PERCENTAGE"}, value : {1, 2, 5, 30, 100}, minimum : {0, 4},
          scope : {{1, 2}, {1, 2, 3}}]

Fair(lines, rule) ==
    LET share == Allocation(lines, rule)
        off   == Discount(lines, rule)
        whole == eligibleAmount(lines, rule)
    IN  /\ Total(share, DOMAIN share) = off
        /\ off \in 0..whole
        /\ \A k \in DOMAIN share :
             /\ share[k] >= 0
             /\ k \notin Eligible(lines, rule) => share[k] = 0
             /\ k \in Eligible(lines, rule) /\ off > 0 =>
                  share[k] * whole - off * lines[k].amount
                    \in (1 - whole)..(whole * (Len(lines) - 1))

\* Every split adds up, and no line is off by as many cents as there are lines.
ASSUME SplitIsFair == \A bill \in Bills, rule \in Rules : Fair(LinesOf(bill), rule)

\* The last of three lines may still be discounted below zero.
ASSUME SplitGoesBelowZero ==
    \E bill \in Bills, rule \in Rules :
      \E k \in DOMAIN bill : Allocation(LinesOf(bill), rule)[k] > bill[k]

\* What a buyer is told: a coupon takes something off, or a cart that is worth
\* what is missing more would have it, unless a share is less than a cent.
ASSUME TellsWhatIsMissing ==
    \A bill \in Bills, rule \in Rules :
      LET lines  == LinesOf(bill)
          richer == LinesOf([bill EXCEPT ![1] = @ + missing(lines, rule)])
      IN  /\ eligible(lines, rule) => missing(lines, rule) = 0
          /\ Applies(richer, rule)
          /\ eligible(richer, rule) <=>
               rule.type = "FIXED" \/ eligibleAmount(richer, rule) * rule.value >= 100
=============================================================================
