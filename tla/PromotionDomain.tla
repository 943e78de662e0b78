--------------------------- MODULE PromotionDomain ---------------------------
(***************************************************************************)
(* promotions/promotion-domain.ts: what a coupon takes off an order, and   *)
(* how much of it falls to each line.  Amounts are cents.                  *)
(*   lines   [sku, amount], amount = unit price * quantity, at places that *)
(*           are numbers, in their order                                   *)
(*   coupon  [type, value, minimum, scope]; scope holds the SKUs of its    *)
(*           store and products                                            *)
(* Lines are for money: with an eligible total of 0 the code divides by 0. *)
(***************************************************************************)
EXTENDS Integers, Sequences, Functions

\* What a merchant may create: of the rule [type, value, minimum, totalLimit,
\* perUserLimit].
create(coupon) ==
    /\ coupon.value > 0 /\ coupon.minimum >= 0
    /\ coupon.type = "PERCENTAGE" => coupon.value <= 100
    /\ coupon.perUserLimit <= coupon.totalLimit

Total(f, S) == FoldFunctionOnSet(LAMBDA x, y : x + y, 0, f, S)
Amounts(lines) == [k \in DOMAIN lines |-> lines[k].amount]

Eligible(lines, coupon) == {k \in DOMAIN lines : lines[k].sku \in coupon.scope}
eligibleAmount(lines, coupon) == Total(Amounts(lines), Eligible(lines, coupon))

\* Below the minimum the quote names no coupon at all.
Applies(lines, coupon) == eligibleAmount(lines, coupon) >= coupon.minimum

Discount(lines, coupon) ==
    LET eligible == eligibleAmount(lines, coupon)
        calculated == IF coupon.type = "FIXED" THEN coupon.value
                      ELSE (eligible * coupon.value) \div 100
    IN  IF ~Applies(lines, coupon) THEN 0
        ELSE IF calculated > eligible THEN eligible ELSE calculated

Proportion(lines, coupon, k) ==
    (Discount(lines, coupon) * lines[k].amount) \div eligibleAmount(lines, coupon)

\* The last eligible line takes what the others leave.
Allocation(lines, coupon) ==
    LET eligible == Eligible(lines, coupon)
        Last(k) == \A j \in eligible : j <= k
        Rounded == [k \in eligible |-> Proportion(lines, coupon, k)]
    IN  [k \in DOMAIN lines |->
            IF k \notin eligible \/ ~Applies(lines, coupon) THEN 0
            ELSE IF Last(k) THEN Discount(lines, coupon) - Total(Rounded, eligible \ {k})
            ELSE Rounded[k]]

-----------------------------------------------------------------------------
(* What a buyer is told of a coupon he has claimed: whether it takes       *)
(* anything off his cart, and what is missing until it does.               *)

eligible(lines, coupon) == Discount(lines, coupon) > 0

missing(lines, coupon) ==
    IF Applies(lines, coupon) THEN 0 ELSE coupon.minimum - eligibleAmount(lines, coupon)
=============================================================================
