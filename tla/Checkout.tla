------------------------------ MODULE Checkout ------------------------------
(***************************************************************************)
(* From the cart to the order: claim and redeemForOrder of                 *)
(* promotions/promotion.service.ts, createQuote of                         *)
(* checkout/checkout.service.ts and create of orders/order.service.ts,     *)
(* with the payment of an order, its cancellation before and after it, and *)
(* the closing job.  Merchants change prices, limits and what is for sale  *)
(* at any time, and pause the one coupon of the model.                     *)
(*                                                                         *)
(* claim, create, cancel and the closing job are SERIALIZABLE: one step    *)
(* each.  createQuote opens no transaction: it reads the cart with its     *)
(* prices, and then lets promotions read the prices once more.  create     *)
(* looks for the key before its transaction begins.                        *)
(***************************************************************************)
EXTENDS PromotionDomain, OrderDomain, FiniteSets

CONSTANTS
    SkuOrder, \* the SKUs in the order in which the database returns them
    Stock,    \* Stock[s]: units of SKU s at the start
    Offers,   \* Offers[s]: what its merchant may ask: [price, limit, open]
    Carts,    \* the selected lines of a cart: units per SKU
    Coupon,   \* its rule, with totalLimit and perUserLimit
    Buyers, Claims, Quotes, Keys, Workers, None

Skus == {SkuOrder[k] : k \in DOMAIN SkuOrder}

Offer == [price : Nat \ {0}, limit : Nat \ {0}, open : BOOLEAN]
Rule == [type : {"FIXED", "PERCENTAGE"}, value : Nat, minimum : Nat,
         scope : SUBSET Skus, totalLimit : Nat, perUserLimit : Nat]

\* A row of quotes: the cart and the prices it shows, what a coupon takes off
\* the whole and off each line that can be ordered.
Quote == [buyer : Buyers, cart : Carts, asked : [Skus -> Nat], discount : Nat,
          coupon : BOOLEAN, share : [DOMAIN SkuOrder -> Int], valid : BOOLEAN,
          expired : BOOLEAN]

ASSUME CheckoutAssumption ==
    /\ SkuOrder \in Seq(Skus)
    /\ Stock \in [Skus -> Nat]
    /\ Carts \subseteq [Skus -> Nat]
    /\ \A s \in Skus : Offers[s] \subseteq Offer
    /\ Coupon \in Rule /\ create(Coupon)
    /\ None \notin Buyers \cup Claims \cup Quotes \cup Keys \cup Carts

VARIABLES
    offer,      \* offer[s]: price, purchase limit, and whether SKU, product,
                \* store and merchant are all for sale
    available,  \* onHand - reserved
    couponOpen, \* the coupon is ACTIVE, and in its period
    claimant,   \* claimant[c]: buyer of the CouponClaim row
    redemption, \* redemption[c]: order (by its quote) and discountAmount
    draft,      \* draft[b]: the cart and prices a createQuote of b has read
    quote,      \* the CheckoutQuote rows
    order,      \* order[q]: the Order with quoteId q: status, key, and whether
                \* its paidAt is set
    request     \* create: where it is, and for which quote and key

vars == <<offer, available, couponOpen, claimant, redemption, draft, quote,
          order, request>>

-----------------------------------------------------------------------------
(* Coupons                                                                 *)

ClaimsOf(b) == {c \in Claims : claimant[c] = b}
Unredeemed(b) == {c \in ClaimsOf(b) : redemption[c] = None}

\* What a store's visitors are offered: claims are left.
publicForStore == couponOpen /\ Cardinality({c \in Claims : claimant[c] # None}) < Coupon.totalLimit

\* Mutant: only claims that were used count.
mayClaimUnused(b) ==
    /\ couponOpen /\ Unredeemed(b) = {}
    /\ Cardinality({c \in Claims : redemption[c] # None}) < Coupon.totalLimit
    /\ Cardinality(ClaimsOf(b)) < Coupon.perUserLimit

\* claim asks the same; a claim that is not redeemed yet is answered again.
mayClaim(b) ==
    /\ Unredeemed(b) = {}
    /\ publicForStore
    /\ Cardinality(ClaimsOf(b)) < Coupon.perUserLimit

Claim(b) ==
    /\ mayClaim(b)
    /\ \E c \in {c \in Claims : claimant[c] = None} :
         claimant' = [claimant EXCEPT ![c] = b]
    /\ UNCHANGED <<offer, available, couponOpen, redemption, draft, quote, order, request>>

(* setStatus of a merchant, or the end of the coupon's period.             *)
SetStatus ==
    /\ couponOpen' = ~couponOpen
    /\ UNCHANGED <<offer, available, claimant, redemption, draft, quote, order, request>>

ChangeOffer(s, o) ==
    /\ offer' = [offer EXCEPT ![s] = o]
    /\ UNCHANGED <<available, couponOpen, claimant, redemption, draft, quote, order, request>>

\* The lines that promotions prices: the SKUs of S at the prices of asked, each
\* at its place in the order of the database.
LinesFor(S, cart, asked) ==
    [k \in {k \in DOMAIN SkuOrder : SkuOrder[k] \in S} |->
       [sku |-> SkuOrder[k], amount |-> asked[SkuOrder[k]] * cart[SkuOrder[k]]]]

Prices == [s \in Skus |-> offer[s].price]

\* quoteWithClient refuses what is not for sale, and a coupon that the
\* buyer cannot redeem.
mayPrice(b, S, coupon) ==
    /\ \A s \in S : offer[s].open
    /\ coupon => couponOpen /\ Unredeemed(b) # {}

-----------------------------------------------------------------------------
(* Quotes                                                                  *)

Ordered(cart) == {s \in Skus : cart[s] > 0}

\* Why a line is invalid does not matter, only whether it is.
invalidReason(s, quantity) ==
    \/ ~offer[s].open
    \/ available[s] <= 0
    \/ quantity > offer[s].limit
    \/ quantity > available[s]

NoDraft == [cart |-> None]
QuoteRead(b, cart) ==
    /\ draft[b] = NoDraft
    /\ Ordered(cart) # {}
    /\ draft' = [draft EXCEPT ![b] =
                   [cart |-> cart, asked |-> Prices,
                    valid |-> {s \in Ordered(cart) : ~invalidReason(s, cart[s])}]]
    /\ UNCHANGED <<offer, available, couponOpen, claimant, redemption, quote, order, request>>

quotedDiscount(d) == Discount(LinesFor(d.valid, d.cart, Prices), Coupon)

QuoteRow(b, coupon) ==
    LET d     == draft[b]
        lines == LinesFor(d.valid, d.cart, Prices)
        share == Allocation(lines, Coupon)
        off   == IF coupon THEN quotedDiscount(d) ELSE 0
        own   == Amounts(LinesFor(d.valid, d.cart, d.asked))
    IN  [buyer |-> b, cart |-> d.cart, asked |-> d.asked, discount |-> off,
         coupon |-> coupon /\ Applies(lines, Coupon),
         share |-> [k \in DOMAIN SkuOrder |->
                      IF coupon /\ k \in DOMAIN lines THEN share[k] ELSE 0],
         valid |-> d.valid = Ordered(d.cart) /\ Total(own, DOMAIN own) > off,
         expired |-> FALSE]

QuoteInsert(b, q, coupon) ==
    /\ draft[b] # NoDraft /\ quote[q] = None
    /\ LET priced == draft[b].valid # {} /\ coupon
       IN  IF draft[b].valid = {} \/ mayPrice(b, draft[b].valid, coupon)
           THEN quote' = [quote EXCEPT ![q] = QuoteRow(b, priced)]
           ELSE UNCHANGED quote
    /\ draft' = [draft EXCEPT ![b] = NoDraft]
    /\ UNCHANGED <<offer, available, couponOpen, claimant, redemption, order, request>>

ExpireQuote(q) ==
    /\ quote[q] # None
    /\ quote' = [quote EXCEPT ![q].expired = TRUE]
    /\ UNCHANGED <<offer, available, couponOpen, claimant, redemption, draft, order, request>>

-----------------------------------------------------------------------------
(* create                                                                  *)

Idle == [at |-> "idle", quote |-> None, key |-> None]
NoOrder == [status |-> "NONE", key |-> None, paid |-> FALSE]
Order == [status : {"PENDING_PAYMENT"}, key : Keys, paid : {FALSE}]
         \cup [status : {"PAID"}, key : Keys, paid : {TRUE}]
         \cup [status : {"CANCELLED", "CLOSED"}, key : Keys, paid : BOOLEAN]
Redemption == [order : Quotes, discount : Nat]

\* A missing row is no row.
ASSUME RowAssumption == None \notin Quote /\ None \notin Redemption

\* The order of buyer b under key k, if there is one.
OrderOf(b, k) == {q \in Quotes : order[q].key = k /\ quote[q].buyer = b}

(* create looks for the key first: if it has an order, the request is      *)
(* answered with it or refused, and nothing changes.                       *)
CreateLookup(w, q, k) ==
    /\ request[w] = Idle /\ quote[q] # None
    /\ OrderOf(quote[q].buyer, k) = {}
    /\ request' = [request EXCEPT ![w] = [at |-> "create", quote |-> q, key |-> k]]
    /\ UNCHANGED <<offer, available, couponOpen, claimant, redemption, draft, quote, order>>

stillSellable(s, item) ==
    /\ offer[s].open
    /\ available[s] >= item.cart[s]
    /\ item.cart[s] <= offer[s].limit
    /\ offer[s].price = item.asked[s]

\* Mutant: a coupon of the buyer is enough, whatever it takes off now.
redeemsAnything(row) ==
    row.coupon => mayPrice(row.buyer, Ordered(row.cart), TRUE)

\* redeemForOrder, and the comparison of its discount with the quote's.
redeemsAsQuoted(row) ==
    row.coupon =>
      LET now == Discount(LinesFor(Ordered(row.cart), row.cart, Prices), Coupon)
      IN  /\ mayPrice(row.buyer, Ordered(row.cart), TRUE)
          /\ now > 0
          /\ now = row.discount

(* Between the two, the quote may have become an order's.                  *)
CreateConsumed(w) ==
    /\ request[w].at = "create"
    /\ order[request[w].quote] # NoOrder
    /\ request' = [request EXCEPT ![w].at = "CHECKOUT_QUOTE_CONSUMED"]
    /\ UNCHANGED <<offer, available, couponOpen, claimant, redemption, draft, quote, order>>

CreateOrder(w) ==
    LET q == request[w].quote
        row == quote[q]
    IN  /\ request[w].at = "create"
        /\ order[q] = NoOrder
        /\ ~row.expired /\ row.valid
        /\ \A s \in Ordered(row.cart) : stillSellable(s, row)
        /\ OrderOf(row.buyer, request[w].key) = {}
        /\ redeemsAsQuoted(row)
        /\ IF row.coupon
           THEN \E c \in Unredeemed(row.buyer) :
                  redemption' = [redemption EXCEPT ![c] =
                                   [order |-> q, discount |-> row.discount]]
           ELSE UNCHANGED redemption
        /\ order' = [order EXCEPT ![q] =
                       [status |-> "PENDING_PAYMENT", key |-> request[w].key,
                        paid |-> FALSE]]
        /\ available' = [s \in Skus |-> available[s] - row.cart[s]]
        /\ request' = [request EXCEPT ![w] = Idle]
        /\ UNCHANGED <<offer, couponOpen, claimant, draft, quote>>

(* The request was answered with an error, refused for any other reason,   *)
(* aborted by the database, or died with its process.                      *)
Fail(w) ==
    /\ request[w] # Idle
    /\ request' = [request EXCEPT ![w] = Idle]
    /\ UNCHANGED <<offer, available, couponOpen, claimant, redemption, draft, quote, order>>

-----------------------------------------------------------------------------
(* The payment, cancel and closeExpiredOrder.  PAID stands for the later   *)
(* statuses too, and Trade and Fulfilment have their details.              *)

couponReleased(q) ==
    [c \in Claims |->
        IF redemption[c] # None /\ redemption[c].order = q THEN None ELSE redemption[c]]

unitsReleased(q) == [s \in Skus |-> available[s] + quote[q].cart[s]]

\* Mutant: the units come back, whether they are still reserved or were sold.
endsWithUnits(q, to) ==
    /\ order' = [order EXCEPT ![q].status = to]
    /\ redemption' = IF shouldReleaseCouponReservation(order[q].status, to)
                     THEN couponReleased(q) ELSE redemption
    /\ available' = unitsReleased(q)
    /\ UNCHANGED <<offer, couponOpen, claimant, draft, quote, request>>

\* Only reservations that are ACTIVE are released: the payment commits them.
ends(q, to) ==
    /\ order' = [order EXCEPT ![q].status = to]
    /\ redemption' = IF shouldReleaseCouponReservation(order[q].status, to)
                     THEN couponReleased(q) ELSE redemption
    /\ available' = IF order[q].status = "PENDING_PAYMENT"
                    THEN unitsReleased(q) ELSE available
    /\ UNCHANGED <<offer, couponOpen, claimant, draft, quote, request>>

(* The buyer cancels, before or after the payment.                         *)
cancel(q) ==
    /\ order[q] # NoOrder /\ canApplyOrderTransition(order[q].status, "CANCELLED")
    /\ ends(q, "CANCELLED")

closeExpiredOrder(q) ==
    /\ shouldCloseExpiredOrder(order[q].status, TRUE)
    /\ ends(q, "CLOSED")

Pay(q) ==
    /\ order[q].status = "PENDING_PAYMENT"
    /\ order' = [order EXCEPT ![q].status = "PAID", ![q].paid = TRUE]
    /\ UNCHANGED <<offer, available, couponOpen, claimant, redemption, draft, quote, request>>

-----------------------------------------------------------------------------
Init ==
    /\ offer \in {f \in [Skus -> UNION {Offers[s] : s \in Skus}] :
                   \A s \in Skus : f[s] \in Offers[s]}
    /\ available = Stock
    /\ couponOpen = TRUE
    /\ claimant = [c \in Claims |-> None]
    /\ redemption = [c \in Claims |-> None]
    /\ draft = [b \in Buyers |-> NoDraft]
    /\ quote = [q \in Quotes |-> None]
    /\ order = [q \in Quotes |-> NoOrder]
    /\ request = [w \in Workers |-> Idle]

Next ==
    \/ SetStatus
    \/ \E s \in Skus : \E o \in Offers[s] : ChangeOffer(s, o)
    \/ \E b \in Buyers : Claim(b) \/ \E cart \in Carts : QuoteRead(b, cart)
    \/ \E b \in Buyers, q \in Quotes, c \in BOOLEAN : QuoteInsert(b, q, c)
    \/ \E q \in Quotes : ExpireQuote(q) \/ Pay(q) \/ cancel(q) \/ closeExpiredOrder(q)
    \/ \E w \in Workers, q \in Quotes, k \in Keys : CreateLookup(w, q, k)
    \/ \E w \in Workers : CreateConsumed(w) \/ CreateOrder(w) \/ Fail(w)

Spec == Init /\ [][Next]_vars
-----------------------------------------------------------------------------
\* The orders that have a right to their units and their claim: those that
\* wait for their payment, and those that were ever paid, cancelled or not.
KeptOrders == {q \in Quotes : order[q].status = "PENDING_PAYMENT" \/ order[q].paid}

TypeOK ==
    /\ \A s \in Skus : offer[s] \in Offers[s]
    /\ available \in [Skus -> Nat]
    /\ couponOpen \in BOOLEAN
    /\ claimant \in [Claims -> Buyers \cup {None}]
    /\ redemption \in [Claims -> Redemption \cup {None}]
    /\ quote \in [Quotes -> Quote \cup {None}]
    /\ \A q \in Quotes : order[q] # NoOrder => quote[q] # None /\ order[q] \in Order
    /\ \A w \in Workers : request[w].at \in
         {"idle", "create", "CHECKOUT_QUOTE_CONSUMED"}

(* However claims, orders and cancellations of several buyers overlap, and *)
(* though an order that ends unpaid frees its claim again: the coupon is   *)
(* never claimed, and so never used, more often than its limits say; every *)
(* order that had a discount and waits for its payment, or was ever paid,  *)
(* holds exactly one claim, of its own buyer and with its own discount,    *)
(* even if it was cancelled after the payment; one that ended unpaid holds *)
(* none.                                                                   *)
CouponKept ==
    /\ Cardinality({c \in Claims : claimant[c] # None}) <= Coupon.totalLimit
    /\ \A b \in Buyers : Cardinality(ClaimsOf(b)) <= Coupon.perUserLimit
    /\ \A c \in Claims : redemption[c] # None =>
         LET q == redemption[c].order
         IN  q \in KeptOrders /\ claimant[c] = quote[q].buyer
             /\ redemption[c].discount = quote[q].discount
    /\ \A q \in KeptOrders :
         Cardinality({c \in Claims : redemption[c] # None /\ redemption[c].order = q})
           = IF quote[q].discount > 0 THEN 1 ELSE 0

(* The orders add up: the units of those that wait for their payment or    *)
(* were ever paid are no longer available, not even when the order is      *)
(* cancelled after the payment, and those of orders that ended unpaid are, *)
(* whichever quotes, retries and cancellations led here; and the parts of  *)
(* a discount make up the whole, so that the items of an order cost        *)
(* together what the order costs.                                          *)
OrdersAddUp ==
    /\ \A s \in Skus :
         available[s] + Total([q \in KeptOrders |-> quote[q].cart[s]], KeptOrders) = Stock[s]
    /\ \A q \in Quotes : quote[q] # None =>
         Total(quote[q].share, DOMAIN quote[q].share) = quote[q].discount

(* An order is placed on the terms in force at that moment, not on those   *)
(* of its quote, nor on a mix of the two moments at which the quote read   *)
(* prices: what it costs is what a fresh quote would say.                  *)
PlacedOnCurrentTerms ==
    [][\A q \in Quotes : order[q] = NoOrder /\ order'[q] # NoOrder =>
         LET row   == quote[q]
             lines == LinesFor(Ordered(row.cart), row.cart, Prices)
         IN  /\ Amounts(lines) = Amounts(LinesFor(Ordered(row.cart), row.cart, row.asked))
             /\ row.discount = IF row.coupon THEN Discount(lines, Coupon) ELSE 0
             /\ \A s \in Ordered(row.cart) : ~invalidReason(s, row.cart[s])]_vars
-----------------------------------------------------------------------------
(* What the documents say and the code does not do.                        *)

(* docs/testing/G21-G25-ACCEPTANCE.md: one key and one request are answered *)
(* with one order.                                                         *)
SameRequestSameOrder ==
    \A w \in Workers : request[w].at = "CHECKOUT_QUOTE_CONSUMED" =>
      order[request[w].quote].key # request[w].key
=============================================================================
