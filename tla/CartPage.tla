------------------------------- MODULE CartPage -------------------------------
(***************************************************************************)
(* The cart of the storefront: composables/useCart.ts, which every page    *)
(* shares, and pages/cart.vue, which shows it.  Nothing keeps a second     *)
(* request from being sent before the first is answered, and answers come  *)
(* in any order.  The cart is told by how often it was changed, here and   *)
(* elsewhere.                                                              *)
(***************************************************************************)
EXTENDS CartDomain

CONSTANTS
    Fetches,   \* requests under way at once
    MaxChanges \* bound: changes of the cart

CartPageAssumption == MaxChanges \in Nat

VARIABLES
    stored,    \* the cart, as the server has it
    cart,      \* as it is shown, or NoCart
    pending,
    lastError, \* whether one is set
    fetch,     \* fetch[r]: what is asked, and the answer once there is one
    mine,      \* history: the last change made for a request the page waited for
    swapped    \* history: an older cart was answered after a newer one

vars == <<stored, cart, pending, lastError, fetch, mine, swapped>>

NoCart == -1
Free == [op |-> "free", made |-> FALSE, answer |-> NoCart]
UnderWay == {r \in Fetches : fetch[r] # Free}

\* refresh, mergeGuest, and a change: add, update, remove, selectItems, clearInvalid.
Sends(r, op) ==
    /\ fetch[r] = Free
    /\ fetch' = [fetch EXCEPT ![r] = [Free EXCEPT !.op = op]]
    /\ pending' = TRUE /\ lastError' = FALSE
    /\ UNCHANGED <<stored, cart, mine, swapped>>

\* The server makes the change, and then reads the whole cart for its answer.
Change(r) ==
    /\ fetch[r].op \in {"change", "merge"} /\ ~fetch[r].made
    /\ stored < MaxChanges /\ stored' = stored + 1 /\ mine' = stored'
    /\ fetch' = [fetch EXCEPT ![r].made = TRUE]
    /\ UNCHANGED <<cart, pending, lastError, swapped>>

\* Another tab or device changes the cart, the payment of an order removes its
\* lines, or a change is made whose request this page has given up.
ChangedElsewhere ==
    /\ stored < MaxChanges /\ stored' = stored + 1
    /\ UNCHANGED <<cart, pending, lastError, fetch, mine, swapped>>

loadView(r) ==
    /\ fetch[r].op = "refresh" \/ fetch[r].made
    /\ fetch[r].answer = NoCart
    /\ fetch' = [fetch EXCEPT ![r].answer = stored]
    /\ UNCHANGED <<stored, cart, pending, lastError, mine, swapped>>

Answer(r) ==
    /\ r \in UnderWay /\ fetch[r].answer # NoCart
    /\ cart' = fetch[r].answer
    /\ swapped' = (swapped \/ fetch[r].answer < cart)
    /\ fetch' = [fetch EXCEPT ![r] = Free]
    /\ pending' = FALSE
    /\ UNCHANGED <<stored, lastError, mine>>

\* Mutant: what failed is not told.
FailQuietly(r) ==
    /\ r \in UnderWay
    /\ fetch' = [fetch EXCEPT ![r] = Free]
    /\ pending' = FALSE
    /\ UNCHANGED <<stored, cart, lastError, mine, swapped>>

\* Refused, or the answer is lost.  A merge that failed is followed by a
\* refresh, which clears the error and is not waited for.
Fail(r) ==
    /\ r \in UnderWay
    /\ LET again == fetch[r].op = "merge"
       IN  /\ fetch' = [fetch EXCEPT ![r] = IF again THEN [Free EXCEPT !.op = "refresh"] ELSE Free]
           /\ lastError' = ~again
    /\ pending' = FALSE
    /\ UNCHANGED <<stored, cart, mine, swapped>>

Init ==
    /\ stored = 0
    /\ cart = NoCart
    /\ pending = FALSE /\ lastError = FALSE
    /\ fetch = [r \in Fetches |-> Free]
    /\ mine = 0 /\ swapped = FALSE

Next ==
    \/ \E r \in Fetches :
         \/ \E op \in {"refresh", "change", "merge"} : Sends(r, op)
         \/ Change(r) \/ loadView(r) \/ Answer(r) \/ Fail(r)
    \/ ChangedElsewhere

Spec == Init /\ [][Next]_vars
-----------------------------------------------------------------------------
\* What the page shows: the first of these that applies.
Screen ==
    IF pending /\ cart = NoCart THEN "loading"
    ELSE IF lastError THEN "failed"
    ELSE IF cart = NoCart THEN "empty"
    ELSE "content"

(* Once all is answered, the lines on the screen show every change that    *)
(* this page's requests made, whatever failed before: an answer that was   *)
(* lost leaves an error in their place until a request brings the whole    *)
(* cart.  Excused are answers that overtake each other; and what was       *)
(* changed elsewhere since is not shown until something is asked.          *)
ShowsOwnChanges == UnderWay = {} /\ ~swapped /\ Screen = "content" => cart >= mine
-----------------------------------------------------------------------------
(* The buttons of a line, computed from the line as it is shown.           *)

\* Whether + can be pressed; - can as long as more than one is left.
MayAddOne(sku, quantity) ==
    quantity < Least({MAX_CART_ITEM_QUANTITY, sku.available}
                     \cup (IF sku.limit > 0 THEN {sku.limit} ELSE {}))

\* + is offered for what the server takes as it is asked: no less is stored,
\* and the line stays valid; and offered whenever that is so.
OffersWhatFits(sku, quantity) ==
    evaluateCartItem(sku, quantity) = "VALID" /\ quantity <= MAX_CART_ITEM_QUANTITY =>
      (MayAddOne(sku, quantity) <=>
         /\ clampCartQuantity(quantity + 1, sku.available, sku.limit) = quantity + 1
         /\ evaluateCartItem(sku, quantity + 1) = "VALID")
=============================================================================
