--------------------------------- MODULE Cart ---------------------------------
(***************************************************************************)
(* The cart of one user and the guest cart of the same browser, changed    *)
(* from several tabs and devices: cart/cart.service.ts.                    *)
(*                                                                         *)
(* Its transactions run at MySQL's default level: what they read is not    *)
(* locked, and their writes appear together when they commit.  What is for *)
(* sale, and for mergeGuest the guest cart as well, is read before the     *)
(* transaction begins.  A row that was read may be deleted before it is    *)
(* written, and one that was missing may be inserted: then the write fails *)
(* and the transaction with it.                                            *)
(***************************************************************************)
EXTENDS CartDomain

CONSTANTS
    Skus,
    Limit,      \* Limit[s]: its purchase limit, or 0; merchants keep it
    Stocks,     \* units of a SKU that may be available
    Quantities, \* what a request may ask for
    Workers     \* concurrent requests

ASSUME CartAssumption ==
    /\ Limit \in [Skus -> Nat]
    /\ Stocks \subseteq Nat /\ Quantities \subseteq Nat \ {0}

VARIABLES
    sku,      \* sku[s]: what the SKU is now
    exists,   \* exists[c]: the Cart row of user or guest
    line,     \* line[c][s]: the CartItem rows
    replayed, \* history: a guest cart was folded when it was gone
    request   \* request[w]: what worker w is in the middle of

vars == <<sku, exists, line, replayed, request>>

Carts == {"USER", "GUEST"}
Empty == [s \in Skus |-> NoLine]
Lines(cart) == {s \in Skus : cart[s] # NoLine}
Invalid(cart) ==
    {s \in Lines(cart) : evaluateCartItem(sku[s], cart[s].quantity) # "VALID"}

(* plan: the rows to be written; rows: the SKUs whose row was found;       *)
(* hasCart: whether the Cart row was; seen: the stock that was; lost: a    *)
(* row that was found is gone; gone: the guest cart that was read is.      *)
Idle == [at |-> "idle", cart |-> "USER", plan |-> Empty, rows |-> {},
         hasCart |-> FALSE, seen |-> 0, lost |-> FALSE, gone |-> FALSE]
Done(w) == [request EXCEPT ![w] = Idle]
One(s, quantity) == [Empty EXCEPT ![s] = [quantity |-> quantity, selected |-> TRUE]]

\* Rows of the SKUs S in cart c are deleted under the requests that found them.
Deleting(requests, c, S) ==
    [w \in Workers |->
        LET r == requests[w]
        IN  IF r.cart # c THEN r
            ELSE IF r.at = "clear" THEN [r EXCEPT !.rows = @ \ S]
            ELSE [r EXCEPT !.lost = @ \/ r.rows \cap S # {}]]

\* The guest cart is deleted, and its rows with it.
DeletingGuest(requests) ==
    [w \in Workers |->
        LET r == Deleting(requests, "GUEST", Skus)[w]
        IN  [r EXCEPT !.lost = @ \/ (r.cart = "GUEST" /\ r.hasCart),
                      !.gone = @ \/ r.at \in {"fold", "merge"}]]

\* Orders and merchants change what can be sold.
Sell(s, open, available) ==
    /\ sku' = [sku EXCEPT ![s].open = open, ![s].available = available]
    /\ UNCHANGED <<exists, line, replayed, request>>

-----------------------------------------------------------------------------
(* addItem looks up the SKU, then begins; the cart shows new lines         *)
(* selected, and leaves the others as they are.                            *)

AddRead(w, c, s, quantity) ==
    /\ request[w] = Idle
    /\ Addable(sku[s], quantity)
    /\ request' = [request EXCEPT ![w] =
         [Idle EXCEPT !.at = "find", !.cart = c, !.seen = sku[s].available,
            !.plan = One(s, clampCartQuantity(quantity, sku[s].available, Limit[s]))]]
    /\ UNCHANGED <<sku, exists, line, replayed>>

\* Mutant: what is added was cut, and the sum is not cut again.
heldAsAdded(r, s) ==
    Least({line[r.cart][s].quantity + r.plan[s].quantity, MAX_CART_ITEM_QUANTITY})

\* What the line holds with the units added to it.
heldTogether(r, s) ==
    clampCartQuantity(line[r.cart][s].quantity + r.plan[s].quantity, r.seen, Limit[s])

AddFind(w, s) ==
    LET r == request[w]
    IN  /\ r.at = "find" /\ Lines(r.plan) = {s}
        /\ request' = [request EXCEPT ![w] =
             [r EXCEPT !.at = "write", !.hasCart = exists[r.cart],
                !.rows = {s} \cap Lines(line[r.cart]), !.seen = 0,
                !.plan = IF line[r.cart][s] = NoLine THEN r.plan
                         ELSE One(s, heldTogether(r, s))]]
        /\ UNCHANGED <<sku, exists, line, replayed>>

-----------------------------------------------------------------------------
(* updateItem, selectItems, removeItem and clearInvalid find rows by id.   *)

UpdateFind(w, c, s, quantity) ==
    LET cut == clampCartQuantity(quantity, sku[s].available, Limit[s])
    IN  /\ request[w] = Idle
        /\ line[c][s] # NoLine
        /\ Addable(sku[s], cut)
        /\ request' = [request EXCEPT ![w] =
             [Idle EXCEPT !.at = "write", !.cart = c, !.plan = One(s, cut),
                          !.rows = {s}, !.hasCart = TRUE]]
        /\ UNCHANGED <<sku, exists, line, replayed>>

SelectItems(c, S, selected) ==
    /\ S # {} /\ S \subseteq Lines(line[c])
    /\ line' = [line EXCEPT ![c] =
                  [s \in Skus |-> IF s \in S THEN [@[s] EXCEPT !.selected = selected] ELSE @[s]]]
    /\ UNCHANGED <<sku, exists, replayed, request>>

RemoveItem(c, s) ==
    /\ line[c][s] # NoLine
    /\ line' = [line EXCEPT ![c][s] = NoLine]
    /\ request' = Deleting(request, c, {s})
    /\ UNCHANGED <<sku, exists, replayed>>

ClearRead(w, c) ==
    /\ request[w] = Idle
    /\ Invalid(line[c]) # {}
    /\ request' = [request EXCEPT ![w] =
         [Idle EXCEPT !.at = "clear", !.cart = c, !.rows = Invalid(line[c])]]
    /\ UNCHANGED <<sku, exists, line, replayed>>

\* Lines are deleted as they were found, whatever they have become.
ClearDelete(w) ==
    LET r == request[w]
    IN  /\ r.at = "clear"
        /\ line' = [line EXCEPT ![r.cart] =
                      [s \in Skus |-> IF s \in r.rows THEN NoLine ELSE @[s]]]
        /\ request' = Deleting(Done(w), r.cart, r.rows)
        /\ UNCHANGED <<sku, exists, replayed>>

\* Mutant: rows that are gone are written all the same.
WritableAnyhow(r) == r.hasCart = exists[r.cart] \/ r.hasCart

(* The keys that may refuse a write: the rows it found are gone, or those  *)
(* it is to insert are there.                                              *)
Writable(r) ==
    /\ ~r.lost
    /\ r.hasCart = exists[r.cart]
    /\ Lines(r.plan) \cap Lines(line[r.cart]) \subseteq r.rows

Write(w) ==
    LET r == request[w]
        c == r.cart
    IN  /\ r.at = "write"
        /\ Writable(r)
        /\ line' = [line EXCEPT ![c] =
             [s \in Skus |-> IF s \notin Lines(r.plan) THEN @[s]
                             ELSE IF s \in r.rows THEN [@[s] EXCEPT !.quantity = r.plan[s].quantity]
                             ELSE r.plan[s]]]
        /\ exists' = [exists EXCEPT ![c] = TRUE]
        /\ request' = Done(w)
        /\ UNCHANGED <<sku, replayed>>

-----------------------------------------------------------------------------
(* mergeGuest: the guest's lines, the user's, and both in one.             *)

MergeRead(w) ==
    /\ request[w] = Idle
    /\ Lines(line["GUEST"]) # {}
    /\ request' = [request EXCEPT ![w] =
         [Idle EXCEPT !.at = "fold", !.plan = line["GUEST"]]]
    /\ UNCHANGED <<sku, exists, line, replayed>>

MergeFind(w) ==
    LET r == request[w]
    IN  /\ r.at = "fold"
        /\ request' = [request EXCEPT ![w] =
             [r EXCEPT !.at = "merge", !.hasCart = exists["USER"],
                       !.rows = Lines(line["USER"]),
                       !.plan = mergeCartLines(line["USER"], r.plan, sku)]]
        /\ UNCHANGED <<sku, exists, line, replayed>>

\* The guest cart is deleted by its id, if it is still there, and its rows
\* with it.
guestRowsLeft(r) == IF r.gone THEN line["GUEST"] ELSE Empty

MergeWrite(w) ==
    LET r == request[w]
        merged == [s \in Skus |-> IF s \in Lines(r.plan) THEN r.plan[s] ELSE line["USER"][s]]
    IN  /\ r.at = "merge"
        /\ Writable(r)
        /\ line' = [USER |-> merged, GUEST |-> guestRowsLeft(r)]
        /\ exists' = [USER |-> TRUE, GUEST |-> r.gone /\ exists["GUEST"]]
        /\ request' = IF r.gone THEN Done(w) ELSE DeletingGuest(Done(w))
        /\ replayed' = (replayed \/ r.gone)
        /\ UNCHANGED sku

\* Refused by a check or a key, or the process dies: nothing is written.
Fail(w) ==
    /\ request[w] # Idle
    /\ request' = Done(w)
    /\ UNCHANGED <<sku, exists, line, replayed>>

-----------------------------------------------------------------------------
Init ==
    /\ \E available \in [Skus -> Stocks] :
         sku = [s \in Skus |-> [open |-> TRUE, available |-> available[s], limit |-> Limit[s]]]
    /\ exists = [c \in Carts |-> FALSE]
    /\ line = [c \in Carts |-> Empty]
    /\ replayed = FALSE
    /\ request = [w \in Workers |-> Idle]

Next ==
    \/ \E s \in Skus, open \in BOOLEAN, available \in Stocks : Sell(s, open, available)
    \/ \E c \in Carts, s \in Skus : RemoveItem(c, s)
    \/ \E c \in Carts, S \in SUBSET Skus, b \in BOOLEAN : SelectItems(c, S, b)
    \/ \E w \in Workers :
         \/ \E c \in Carts, s \in Skus, n \in Quantities : AddRead(w, c, s, n) \/ UpdateFind(w, c, s, n)
         \/ \E s \in Skus : AddFind(w, s)
         \/ \E c \in Carts : ClearRead(w, c)
         \/ ClearDelete(w) \/ Write(w)
         \/ MergeRead(w) \/ MergeFind(w) \/ MergeWrite(w)
         \/ Fail(w)

Spec == Init /\ [][Next]_vars
-----------------------------------------------------------------------------
TypeOK ==
    /\ sku \in [Skus -> [open : BOOLEAN, available : Stocks, limit : Nat]]
    /\ exists \in [Carts -> BOOLEAN]
    /\ \A c \in Carts : Lines(line[c]) # {} => exists[c]
    /\ replayed \in BOOLEAN
    /\ \A w \in Workers :
         request[w].at \in {"idle", "find", "write", "clear", "fold", "merge"}

(* However adds, updates and merges of several tabs overwrite each other:  *)
(* no cart holds more of a SKU than its purchase limit and the limit of a  *)
(* line allow, though each of them sees only what it read.                 *)
WithinLimits ==
    \A c \in Carts : \A s \in Lines(line[c]) :
      /\ line[c][s].quantity \in 1..MAX_CART_ITEM_QUANTITY
      /\ Limit[s] > 0 => line[c][s].quantity <= Limit[s]

\* A request writes now that looked for the row of s, and found none.
AskedFor(s) ==
    \E w \in Workers : /\ request'[w] = Idle
                      /\ s \in Lines(request[w].plan) \ request[w].rows
                      /\ ~request[w].lost

(* A line that was removed in one tab, cleared, or folded away with the    *)
(* guest cart does not come back because another tab was about to change   *)
(* it: it appears again only through a request that had looked for its row *)
(* and found none, before there was one or since it has gone; no request   *)
(* that had found the row writes it back.                                  *)
RemovedStaysRemoved ==
    [][\A c \in Carts, s \in Skus : line[c][s] = NoLine /\ line'[c][s] # NoLine => AskedFor(s)]_vars
-----------------------------------------------------------------------------
(* cart.service.ts, mergeGuest: the guest cart is removed so that the token *)
(* cannot be replayed.                                                     *)
FoldedOnce == ~replayed
=============================================================================
