------------------------------- MODULE Products -------------------------------
(***************************************************************************)
(* The life of a merchant's products, from draft through review to sale:   *)
(* products/product.service.ts and product-workflow.ts, with what the      *)
(* public sees of them (catalog/catalog.service.ts, files.service.ts).     *)
(*                                                                         *)
(* A handler reads the product, checks it, and writes in a transaction     *)
(* begun later: between the two anything may happen to the row.  The       *)
(* numbers of a product's stock are Inventory's; a saved text, with all    *)
(* the fields of the form, is one number, new at each save.                *)
(***************************************************************************)
EXTENDS Naturals

CONSTANTS
    Ids,       \* products there is room for
    MaxSaves,  \* bound: how often one product is saved
    Workers    \* concurrent requests

ProductsAssumption == MaxSaves \in Nat

VARIABLES
    product, \* product[p]: the row, or NoProduct
    shop,    \* the merchant and the store that the products belong to
    told,    \* told[p]: the status the latest ProductReviewEvent gives
    passed,  \* history: passed[p]: the text that was last approved, or 0
    request  \* request[w]: what worker w is in the middle of

vars == <<product, shop, told, passed, request>>

NoProduct == [status |-> "NONE"]
Exists(p) == product[p] # NoProduct

PRODUCT_TRANSITIONS ==
    [DRAFT |-> {"PENDING_REVIEW", "ARCHIVED"},
     PENDING_REVIEW |-> {"APPROVED", "REJECTED"},
     APPROVED |-> {"ACTIVE", "DRAFT", "ARCHIVED"},
     REJECTED |-> {"PENDING_REVIEW", "ARCHIVED"},
     ACTIVE |-> {"INACTIVE"},
     INACTIVE |-> {"ACTIVE", "DRAFT", "ARCHIVED"},
     ARCHIVED |-> {}]
Status == DOMAIN PRODUCT_TRANSITIONS
canTransitionProduct(from, to) == to \in PRODUCT_TRANSITIONS[from]

Editable == {"DRAFT", "REJECTED", "APPROVED", "INACTIVE"}

(* complete: submit finds no field missing; stocked: publish finds a unit. *)
Shop == [active : BOOLEAN, open : BOOLEAN]
Product == [status : Status, text : 1..MaxSaves, complete : BOOLEAN]

Idle == [at |-> "idle"]
Done(w) == [request EXCEPT ![w] = Idle]

-----------------------------------------------------------------------------
(* What belongs to the shop: setMerchantStatus and the profile of the store. *)

SetShop(active, open) ==
    /\ shop' = [active |-> active, open |-> open]
    /\ UNCHANGED <<product, told, passed, request>>

-----------------------------------------------------------------------------
(* Saving.                                                                 *)

create(p, complete) ==
    /\ shop.active /\ ~Exists(p)
    /\ product' = [product EXCEPT ![p] = [status |-> "DRAFT", text |-> 1, complete |-> complete]]
    /\ UNCHANGED <<shop, told, passed, request>>

\* A copy has the source's texts and no stock, and is a draft of its own.
copy(source, p) ==
    /\ Exists(source)
    /\ create(p, product[source].complete)

UpdateRead(w, p) ==
    /\ request[w] = Idle
    /\ shop.active /\ Exists(p)
    /\ product[p].status \in Editable
    /\ request' = [request EXCEPT ![w] = [at |-> "update", p |-> p, from |-> product[p].status]]
    /\ UNCHANGED <<product, shop, told, passed>>

\* Mutant: a product that is edited loses its approval, and nobody is told.
tellsNothing(p, from) == told[p]

\* The event of a product whose approval the edit takes away.
tellsReset(p, from) == IF from \in {"APPROVED", "INACTIVE"} THEN "DRAFT" ELSE told[p]

\* The row is written by its id, whatever its status has become.
UpdateWrite(w, complete) ==
    LET r == request[w]
        resetsReview == r.from \in {"APPROVED", "INACTIVE"}
    IN  /\ r.at = "update"
        /\ product[r.p].text < MaxSaves
        /\ product' = [product EXCEPT
             ![r.p] = [status |-> IF resetsReview THEN "DRAFT" ELSE @.status,
                       text |-> @.text + 1, complete |-> complete]]
        /\ told' = [told EXCEPT ![r.p] = tellsReset(r.p, r.from)]
        /\ request' = Done(w)
        /\ UNCHANGED <<shop, passed>>

-----------------------------------------------------------------------------
(* The moves: what each of them demands of the row it reads ...            *)

Begin(w, p, from, to) ==
    /\ request[w] = Idle
    /\ Exists(p)
    /\ product[p].status \in from
    /\ request' = [request EXCEPT ![w] =
         [at |-> "move", p |-> p, from |-> product[p].status, to |-> to]]
    /\ UNCHANGED <<product, shop, told, passed>>

archive(w, p) == shop.active /\ Begin(w, p, Editable, "ARCHIVED")
submit(w, p) ==
    /\ shop.active /\ Exists(p) /\ product[p].complete
    /\ Begin(w, p, {"DRAFT", "REJECTED"}, "PENDING_REVIEW")
publish(w, p) == shop.active /\ shop.open /\ Begin(w, p, {"APPROVED", "INACTIVE"}, "ACTIVE")
unpublish(w, p) == shop.active /\ Begin(w, p, {"ACTIVE"}, "INACTIVE")
decide(w, p, approved) ==
    Begin(w, p, {"PENDING_REVIEW"}, IF approved THEN "APPROVED" ELSE "REJECTED")

\* Mutant: the row is written by its id, as update writes it.
movesAnyhow(r) == TRUE

\* ... and of the row it writes: that it still has the status that was read.
stillThere(r) ==
    /\ canTransitionProduct(r.from, r.to)
    /\ product[r.p].status = r.from

transition(w) ==
    LET r == request[w]
    IN  /\ r.at = "move"
        /\ stillThere(r)
        /\ product' = [product EXCEPT ![r.p].status = r.to]
        /\ told' = [told EXCEPT ![r.p] = r.to]
        /\ passed' = [passed EXCEPT ![r.p] = IF r.to = "APPROVED" THEN product[r.p].text ELSE @]
        /\ request' = Done(w)
        /\ UNCHANGED shop

\* A check refuses, the row has moved on, or the process dies.
Fail(w) ==
    /\ request[w] # Idle
    /\ request' = Done(w)
    /\ UNCHANGED <<product, shop, told, passed>>

-----------------------------------------------------------------------------
(* What visitors find, and open.                                           *)

searchProducts == {p \in Ids : product[p].status = "ACTIVE" /\ shop.open /\ shop.active}
productDetail(p) == IF p \in searchProducts THEN product[p].text ELSE 0
-----------------------------------------------------------------------------
Init ==
    /\ product = [p \in Ids |-> NoProduct]
    /\ shop = [active |-> TRUE, open |-> TRUE]
    /\ told = [p \in Ids |-> "DRAFT"]
    /\ passed = [p \in Ids |-> 0]
    /\ request = [w \in Workers |-> Idle]

Next ==
    \/ \E active, open \in BOOLEAN : SetShop(active, open)
    \/ \E p \in Ids, complete \in BOOLEAN : create(p, complete)
    \/ \E source, p \in Ids : copy(source, p)
    \/ \E w \in Workers :
         \/ \E p \in Ids :
              \/ UpdateRead(w, p)
              \/ archive(w, p) \/ submit(w, p) \/ publish(w, p) \/ unpublish(w, p)
              \/ \E approved \in BOOLEAN : decide(w, p, approved)
         \/ \E complete \in BOOLEAN : UpdateWrite(w, complete)
         \/ transition(w)
         \/ Fail(w)

Spec == Init /\ [][Next]_vars
-----------------------------------------------------------------------------
TypeOK ==
    /\ product \in [Ids -> Product \cup {NoProduct}] /\ shop \in Shop
    /\ told \in [Ids -> Status]
    /\ passed \in [Ids -> 0..MaxSaves]

(* The review history that merchant and reviewer are shown ends with the   *)
(* status the product has, however saves, moves and decisions interleave.  *)
HistoryTellsStatus == \A p \in Ids : Exists(p) => product[p].status = told[p]

(* Two merchants' tabs and a reviewer at once: every product takes only    *)
(* the steps the table of product-workflow.ts allows, but that a save      *)
(* begun before may still put it back to draft.  No product gets on sale   *)
(* but from APPROVED or INACTIVE, and no decision is overturned by another. *)
StepsOfTheTable ==
    [][\A p \in Ids : Exists(p) /\ product'[p].status # product[p].status =>
         \/ canTransitionProduct(product[p].status, product'[p].status)
         \/ product'[p].status = "DRAFT"]_vars

(* HARNESS.md: a product whose fields are edited is reviewed again.  What  *)
(* visitors can open is a text that a reviewer has approved.               *)
OnSaleWasReviewed == \A p \in searchProducts : productDetail(p) = passed[p]
=============================================================================
