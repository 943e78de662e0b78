------------------------------ MODULE CartDomain ------------------------------
(***************************************************************************)
(* cart/cart-domain.ts: how many units a line may hold, whether it may be  *)
(* ordered, and how a guest's lines are folded into a user's.              *)
(*   sku   [open, available, limit]; open: SKU, product, store and         *)
(*         merchant are all for sale; limit 0: no purchase limit           *)
(*   cart  a function from SKUs to [quantity, selected] or NoLine          *)
(***************************************************************************)
EXTENDS Integers, FiniteSets

CONSTANT MAX_CART_ITEM_QUANTITY
ASSUME MaxAssumption == MAX_CART_ITEM_QUANTITY \in Nat \ {0}

NoLine == [quantity |-> 0, selected |-> FALSE]

Least(S) == CHOOSE n \in S : \A m \in S : n <= m

\* Nothing is cut for want of stock when there is none at all.
clampCartQuantity(quantity, available, limit) ==
    Least({quantity, MAX_CART_ITEM_QUANTITY}
          \cup (IF limit > 0 THEN {limit} ELSE {})
          \cup (IF available > 0 THEN {available} ELSE {}))

evaluateCartItem(sku, quantity) ==
    IF ~sku.open THEN "NOT_FOR_SALE"
    ELSE IF sku.available <= 0 THEN "OUT_OF_STOCK"
    ELSE IF sku.limit > 0 /\ quantity > sku.limit THEN "PURCHASE_LIMIT_EXCEEDED"
    ELSE IF quantity > sku.available THEN "QUANTITY_EXCEEDS_STOCK"
    ELSE "VALID"

\* What may be put into a cart: too much of it is cut, the rest refused.
Addable(sku, quantity) ==
    evaluateCartItem(sku, quantity)
      \in {"VALID", "PURCHASE_LIMIT_EXCEEDED", "QUANTITY_EXCEEDS_STOCK"}

\* The lines of the user, with those of the guest; the SKUs of the guest
\* are cut to what sells.
mergeCartLines(user, guest, sellable) ==
    [s \in DOMAIN user |->
        IF guest[s] = NoLine THEN user[s]
        ELSE [quantity |-> clampCartQuantity(user[s].quantity + guest[s].quantity,
                                             sellable[s].available, sellable[s].limit),
              selected |-> user[s].selected \/ guest[s].selected]]

\* The lines that a guest's browser has kept, a sequence of [sku, quantity,
\* selected], those of one SKU together.  Only the first of them is cut.
normalizeGuestLines(lines) ==
    LET usable == {k \in DOMAIN lines : lines[k].quantity > 0}
        Of(s)  == {k \in usable : lines[k].sku = s}
        Whole(s) == UNION {{k} \X (1..lines[k].quantity) : k \in Of(s) \ {Least(Of(s))}}
    IN  [s \in {lines[k].sku : k \in usable} |->
            [quantity |-> Least({lines[Least(Of(s))].quantity, MAX_CART_ITEM_QUANTITY})
                            + Cardinality(Whole(s)),
             selected |-> \E k \in Of(s) : lines[k].selected]]
=============================================================================
