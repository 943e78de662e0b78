-------------------------------- MODULE Trade --------------------------------
(***************************************************************************)
(* An order from its placement to the decision about it: paid, cancelled   *)
(* or closed.  It joins orders/order.service.ts (create, cancel),          *)
(* payments/payment.service.ts (start, close, handleWebhook) and           *)
(* jobs/job.service.ts (closeExpiredOrder) over the rows they share: the   *)
(* order and its merchant orders, the payment intent, the reservations and *)
(* the stock behind them, the coupon redemption and the payment events.    *)
(*                                                                         *)
(* A SERIALIZABLE transaction is one step.  payment.service.ts also reads  *)
(* and writes outside any transaction: each of its statements is a step,   *)
(* and what it read may be stale when it writes.  The module ends where    *)
(* shipping begins: PAID is an order paid and not yet shipped or refunded. *)
(***************************************************************************)
EXTENDS InventoryDomain, OrderDomain, FiniteSets

CONSTANTS
    Orders,       \* signed quotes of one buyer, each placed at most once
    Skus,         \* SKUs the orders compete for
    Quantity,     \* Quantity[o][s]: units of SKU s in the quote of order o
    CouponOrders, \* orders whose quote uses the buyer's one coupon claim
    Events,       \* providerEventIds
    Workers,      \* concurrent requests of the API processes
    OpeningStock, \* units of each SKU on hand at the start
    Deltas,       \* stock adjustments a merchant asks for
    MaxQuantity,  \* largest quantity of an order item
    MaxStock,     \* bound: units on hand that are explored
    MayCrash,     \* whether processes die in the middle of a request
    NoOrder, NoEvent

ASSUME QuantityAssumption ==
    /\ MaxQuantity \in Nat
    /\ Quantity \in [Orders -> [Skus -> 0..MaxQuantity]]
    /\ \A o \in Orders : \E s \in Skus : Quantity[o][s] > 0
ASSUME CouponAssumption == CouponOrders \subseteq Orders
ASSUME StockAssumption == OpeningStock \in Nat /\ MaxStock \in Nat /\ Deltas \subseteq Int
ASSUME NullAssumption == NoOrder \notin Orders /\ NoEvent \notin Events

VARIABLES
    order,         \* status of each Order row
    merchantOrder, \* status of its MerchantOrder rows, written together here
    payment,       \* its PaymentIntent row
    inventory,     \* the Inventory row of each SKU
    reservation,   \* status of the InventoryReservation of each order item
    redeemed,      \* orders that hold a CouponRedemption row
    cart,          \* orders whose lines are still in the buyer's cart
    due,           \* orders whose expiresAt has passed
    issued,        \* payments the provider knows of
    archive,       \* archive[e]: the PaymentEvent row of providerEventId e
    request        \* request[w]: the request worker w is in the middle of

vars == <<order, merchantOrder, payment, inventory, reservation, redeemed,
          cart, due, issued, archive, request>>

-----------------------------------------------------------------------------
(* Tables *)

EventStatus == {"SUCCEEDED", "FAILED", "CANCELLED"}
ReservationStatus == {"ACTIVE", "COMMITTED", "RELEASED", "EXPIRED"}

PaymentIntent == [status : PaymentStatus \cup {"NONE"}, hasProviderId : BOOLEAN]
NoPayment == [status |-> "NONE", hasProviderId |-> FALSE]

(* agrees: amount and currency are those of the payment intent.  outcome:  *)
(* OPEN until processedAt is set, then how; UNKNOWN and MISMATCH are the   *)
(* error codes of a refused event, IGNORED its flag.                       *)
PaymentEvent ==
    [order : Orders, status : EventStatus, agrees : BOOLEAN,
     outcome : {"OPEN", "UNKNOWN", "MISMATCH", "IGNORED", "APPLIED"}]
NoRow == [order |-> NoOrder, status |-> "NONE", agrees |-> FALSE, outcome |-> "NONE"]

Request == [op : {"none", "start", "close", "webhook"},
            at : {"done", "find", "write"},
            order : Orders \cup {NoOrder}, event : Events \cup {NoEvent}]
Idle == [op |-> "none", at |-> "done", order |-> NoOrder, event |-> NoEvent]

Free(w) == request[w] = Idle
At(w, op, statement) == request[w].op = op /\ request[w].at = statement
Done(w) == request' = [request EXCEPT ![w] = Idle]

SkusOf(o) == {s \in Skus : Quantity[o][s] > 0}
available(s) == inventory[s].onHand - inventory[s].reserved

(* Mutant: every reservation of the order, finished or not.                *)
ActiveOrFinished(o) == {s \in SkusOf(o) : reservation[o][s] # "NONE"}

(* The items of order o whose reservation is ACTIVE are what cancel, pay   *)
(* and closeExpiredOrder look at; each ends them with a status of its own. *)
Active(o) == {s \in SkusOf(o) : reservation[o][s] = "ACTIVE"}

Settle(o, status) ==
    reservation' = [reservation EXCEPT ![o] =
                      [s \in Skus |-> IF s \in Active(o) THEN status ELSE @[s]]]

(* Mutant: released units are put on hand, as if they had been sold.       *)
ReleaseStockTwice(o) ==
    inventory' = [s \in Skus |->
                    IF s \in Active(o)
                    THEN [onHand   |-> inventory[s].onHand + Quantity[o][s],
                          reserved |-> inventory[s].reserved - Quantity[o][s]]
                    ELSE inventory[s]]

ReleaseStock(o) ==
    inventory' = [s \in Skus |->
                    IF s \in Active(o)
                    THEN [inventory[s] EXCEPT !.reserved = @ - Quantity[o][s]]
                    ELSE inventory[s]]

CommitStock(o) ==
    inventory' = [s \in Skus |->
                    IF s \in Active(o)
                    THEN [onHand   |-> inventory[s].onHand - Quantity[o][s],
                          reserved |-> inventory[s].reserved - Quantity[o][s]]
                    ELSE inventory[s]]

-----------------------------------------------------------------------------
(* order.service.ts *)

(* create: one SERIALIZABLE transaction that places a quote.  A quote is   *)
(* consumed once, and a replay of the same Idempotency-Key only reads.     *)
Create(o) ==
    /\ order[o] = "NONE"
    /\ \A s \in SkusOf(o) : available(s) >= Quantity[o][s]
    /\ o \in CouponOrders => redeemed = {}
    /\ order' = [order EXCEPT ![o] = "PENDING_PAYMENT"]
    /\ merchantOrder' = [merchantOrder EXCEPT ![o] = "PENDING_PAYMENT"]
    /\ payment' = [payment EXCEPT ![o] =
                     [status |-> "PENDING", hasProviderId |-> FALSE]]
    /\ inventory' = [s \in Skus |->
                       [inventory[s] EXCEPT !.reserved = @ + Quantity[o][s]]]
    /\ reservation' = [reservation EXCEPT ![o] =
                         [s \in Skus |-> IF s \in SkusOf(o) THEN "ACTIVE" ELSE @[s]]]
    /\ redeemed' = IF o \in CouponOrders THEN redeemed \cup {o} ELSE redeemed
    /\ UNCHANGED <<cart, due, issued, archive, request>>

(* cancel by the buyer; cancelling again only reads.                       *)
Cancel(o) ==
    /\ order[o] # "NONE"
    /\ canApplyOrderTransition(order[o], "CANCELLED")
    /\ ReleaseStock(o)
    /\ Settle(o, "RELEASED")
    /\ redeemed' = IF shouldReleaseCouponReservation(order[o], "CANCELLED")
                   THEN redeemed \ {o} ELSE redeemed
    /\ payment' = [payment EXCEPT ![o].status = "CANCELLED"]
    /\ merchantOrder' = [merchantOrder EXCEPT ![o] = "CANCELLED"]
    /\ order' = [order EXCEPT ![o] = "CANCELLED"]
    /\ UNCHANGED <<cart, due, issued, archive, request>>

(* job.service.ts, closeExpiredOrder.  The payment read before the         *)
(* transaction decides nothing here: closing it at the provider does not   *)
(* keep a late event from arriving.                                        *)
CloseExpiredOrder(o) ==
    /\ order[o] # "NONE"
    /\ shouldCloseExpiredOrder(order[o], o \in due)
    /\ ReleaseStock(o)
    /\ Settle(o, "EXPIRED")
    /\ redeemed' = IF shouldReleaseCouponReservation(order[o], "CLOSED")
                   THEN redeemed \ {o} ELSE redeemed
    /\ payment' = [payment EXCEPT ![o].status =
                     IF @ = "SUCCEEDED" THEN @ ELSE "CANCELLED"]
    /\ merchantOrder' = [merchantOrder EXCEPT ![o] =
                           IF @ = "PENDING_PAYMENT" THEN "CLOSED" ELSE @]
    /\ order' = [order EXCEPT ![o] = "CLOSED"]
    /\ UNCHANGED <<cart, due, issued, archive, request>>

-----------------------------------------------------------------------------
(* payment.service.ts *)

UnchangedByPayment ==
    UNCHANGED <<order, merchantOrder, inventory, reservation, redeemed, cart, due>>

(* start: reads the intent, and unless it is decided or already under way  *)
(* creates the payment at the provider ...                                 *)
StartRead(w, o) ==
    /\ Free(w)
    /\ payment[o].status \notin {"NONE", "SUCCEEDED", "CANCELLED", "REFUNDED"}
    /\ o \notin due
    /\ ~(payment[o].hasProviderId /\ payment[o].status = "PROCESSING")
    /\ issued' = issued \cup {o}
    /\ request' = [request EXCEPT ![w] =
                     [op |-> "start", at |-> "write", order |-> o, event |-> NoEvent]]
    /\ UnchangedByPayment
    /\ UNCHANGED <<payment, archive>>

(* ... and then writes the intent, whatever has become of it meanwhile.    *)
StartWrite(w) ==
    /\ At(w, "start", "write")
    /\ payment' = [payment EXCEPT ![request[w].order] =
                     [status |-> "PROCESSING", hasProviderId |-> TRUE]]
    /\ Done(w)
    /\ UnchangedByPayment
    /\ UNCHANGED <<issued, archive>>

(* close: reads, asks the provider, writes CANCELLED without a condition.  *)
CloseRead(w, o) ==
    /\ Free(w)
    /\ payment[o].status \notin {"NONE", "CANCELLED", "SUCCEEDED"}
    /\ request' = [request EXCEPT ![w] =
                     [op |-> "close", at |-> "write", order |-> o, event |-> NoEvent]]
    /\ UnchangedByPayment
    /\ UNCHANGED <<payment, issued, archive>>

CloseWrite(w) ==
    /\ At(w, "close", "write")
    /\ payment' = [payment EXCEPT ![request[w].order].status = "CANCELLED"]
    /\ Done(w)
    /\ UnchangedByPayment
    /\ UNCHANGED <<issued, archive>>

(* handleWebhook archives the event first.  The provider reports on a      *)
(* payment it knows, in any order, as often and as late as it likes; the   *)
(* unique providerEventId turns away every later delivery of an event,     *)
(* which changes nothing.                                                  *)
Fresh(e) == archive[e] = NoRow

Archive(w, e, o, status, agrees) ==
    /\ Free(w)
    /\ o \in issued
    /\ Fresh(e)
    /\ archive' = [archive EXCEPT ![e] =
                     [order |-> o, status |-> status, agrees |-> agrees,
                      outcome |-> "OPEN"]]
    /\ request' = [request EXCEPT ![w] =
                     [op |-> "webhook", at |-> "find", order |-> o, event |-> e]]
    /\ UnchangedByPayment
    /\ UNCHANGED <<payment, issued>>

\* Mutant: an error code is misspelt.
VerdictMisspelt(event) ==
    IF payment[event.order].hasProviderId THEN "IGNORED" ELSE "UNKNOWN_PAYMENT"

(* The intent is read outside the transaction, and the event judged by it. *)
Verdict(event) ==
    LET row == payment[event.order]
    IN  CASE ~row.hasProviderId -> "UNKNOWN"
          [] row.hasProviderId /\ ~event.agrees -> "MISMATCH"
          [] row.hasProviderId /\ event.agrees
               /\ ~canApplyPaymentEvent(row.status, event.status) -> "IGNORED"
          [] OTHER -> "OPEN"

FindPayment(w) ==
    LET e == request[w].event
        verdict == Verdict(archive[e])
    IN  /\ At(w, "webhook", "find")
        /\ archive' = [archive EXCEPT ![e].outcome = verdict]
        /\ IF verdict = "OPEN"
           THEN request' = [request EXCEPT ![w].at = "write"]
           ELSE Done(w)
        /\ UnchangedByPayment
        /\ UNCHANGED <<payment, issued>>

(* Mutant: an order that is paid already is paid again.                    *)
PayableAgain(o) == order[o] \in {"PENDING_PAYMENT", "PAID"}

Payable(o) == order[o] = "PENDING_PAYMENT" /\ Active(o) = SkusOf(o)

(* The transaction of a success reads the order again, not the payment:    *)
(* it commits the stock and marks intent, order, children and event.       *)
ApplySuccess(w) ==
    LET o == request[w].order
    IN  /\ At(w, "webhook", "write")
        /\ archive[request[w].event].status = "SUCCEEDED"
        /\ Payable(o)
        /\ CommitStock(o)
        /\ Settle(o, "COMMITTED")
        /\ payment' = [payment EXCEPT ![o].status = "SUCCEEDED"]
        /\ order' = [order EXCEPT ![o] = "PAID"]
        /\ merchantOrder' = [merchantOrder EXCEPT ![o] = "PAID"]
        /\ cart' = cart \ {o}
        /\ archive' = [archive EXCEPT ![request[w].event].outcome = "APPLIED"]
        /\ Done(w)
        /\ UNCHANGED <<redeemed, due, issued>>

(* PAYMENT_ORDER_NOT_PAYABLE, PAYMENT_RESERVATION_MISSING: the archived    *)
(* event stays as it is.                                                   *)
RefuseSuccess(w) ==
    /\ At(w, "webhook", "write")
    /\ archive[request[w].event].status = "SUCCEEDED"
    /\ ~Payable(request[w].order)
    /\ Done(w)
    /\ UnchangedByPayment
    /\ UNCHANGED <<payment, issued, archive>>

(* Any other event is written over the intent as it is now.                *)
ApplyFailure(w) ==
    LET event == archive[request[w].event]
    IN  /\ At(w, "webhook", "write")
        /\ event.status # "SUCCEEDED"
        /\ payment' = [payment EXCEPT ![event.order].status = event.status]
        /\ archive' = [archive EXCEPT ![request[w].event].outcome = "APPLIED"]
        /\ Done(w)
        /\ UnchangedByPayment
        /\ UNCHANGED issued

(* The process dies, or the database aborts the transaction.               *)
Crash(w) ==
    /\ MayCrash
    /\ ~Free(w)
    /\ Done(w)
    /\ UnchangedByPayment
    /\ UNCHANGED <<payment, issued, archive>>

-----------------------------------------------------------------------------
(* The world around *)

ExpiryPasses(o) ==
    /\ order[o] # "NONE" /\ o \notin due
    /\ due' = due \cup {o}
    /\ UNCHANGED <<order, merchantOrder, payment, inventory, reservation,
                   redeemed, cart, issued, archive, request>>

(* inventory.service.ts, adjust: module Inventory has its steps.           *)
Adjust(s, delta) ==
    LET onHand == inventory[s].onHand + clampInventoryAdjustment(delta, available(s))
    IN  /\ onHand <= MaxStock
        /\ onHand # inventory[s].onHand
        /\ inventory' = [inventory EXCEPT ![s].onHand = onHand]
        /\ UNCHANGED <<order, merchantOrder, payment, reservation, redeemed,
                       cart, due, issued, archive, request>>

-----------------------------------------------------------------------------
Init ==
    /\ order = [o \in Orders |-> "NONE"]
    /\ merchantOrder = order
    /\ payment = [o \in Orders |-> NoPayment]
    /\ inventory = [s \in Skus |-> [onHand |-> OpeningStock, reserved |-> 0]]
    /\ reservation = [o \in Orders |-> [s \in Skus |-> "NONE"]]
    /\ redeemed = {}
    /\ cart = Orders
    /\ due = {}
    /\ issued = {}
    /\ archive = [e \in Events |-> NoRow]
    /\ request = [w \in Workers |-> Idle]

Buying(o) == Create(o) \/ Cancel(o) \/ CloseExpiredOrder(o) \/ ExpiryPasses(o)

Paying(w) ==
    \/ \E o \in Orders : StartRead(w, o) \/ CloseRead(w, o)
    \/ StartWrite(w)
    \/ CloseWrite(w)

Webhook(w) ==
    \/ \E e \in Events, o \in Orders, status \in EventStatus, agrees \in BOOLEAN :
         Archive(w, e, o, status, agrees)
    \/ FindPayment(w)
    \/ ApplySuccess(w)
    \/ RefuseSuccess(w)
    \/ ApplyFailure(w)

Next ==
    \/ \E o \in Orders : Buying(o)
    \/ \E w \in Workers : Paying(w) \/ Webhook(w) \/ Crash(w)
    \/ \E s \in Skus, delta \in Deltas : Adjust(s, delta)

Spec == Init /\ [][Next]_vars
-----------------------------------------------------------------------------
(* Properties *)

(* Every row holds what its columns may hold (schema.prisma), at every     *)
(* step of every request.                                                  *)
TypeOK ==
    /\ order \in [Orders -> OrderStatus \cup {"NONE"}]
    /\ merchantOrder \in [Orders -> OrderStatus \cup {"NONE"}]
    /\ payment \in [Orders -> PaymentIntent]
    /\ inventory \in [Skus -> [onHand : Int, reserved : Int]]
    /\ reservation \in [Orders -> [Skus -> ReservationStatus \cup {"NONE"}]]
    /\ redeemed \subseteq Orders /\ cart \subseteq Orders
    /\ due \subseteq Orders /\ issued \subseteq Orders
    /\ archive \in [Events -> PaymentEvent \cup {NoRow}]
    /\ request \in [Workers -> Request]

(* What the requests in flight have in hand: an order that exists, and an  *)
(* archived event that is theirs alone until it is decided.                *)
RequestsOwnTheirEvents ==
    /\ \A w \in Workers : request[w].op # "none" =>
         request[w].order \in Orders /\ order[request[w].order] # "NONE"
    /\ \A w \in Workers : request[w].op = "webhook" =>
         LET e == request[w].event
         IN  /\ e \in Events
             /\ archive[e].outcome = "OPEN"
             /\ archive[e].order = request[w].order
             /\ request[w].at = "write" => archive[e].agrees
    /\ \A v, w \in Workers :
         /\ request[v].op = "webhook" /\ request[w].op = "webhook"
         /\ request[v].event = request[w].event
         => v = w

(* The status an order's reservations must have.  A cancelled order gave   *)
(* its goods back, or had paid for them first: those left the cart.        *)
ExpectedReservation(o) ==
    CASE order[o] = "NONE"            -> "NONE"
      [] order[o] = "PENDING_PAYMENT" -> "ACTIVE"
      [] order[o] = "PAID"            -> "COMMITTED"
      [] order[o] = "CLOSED"          -> "EXPIRED"
      [] OTHER -> IF o \in cart THEN "RELEASED" ELSE "COMMITTED"

(* All items of an order stand as the order does, whoever decided it:      *)
(* webhook, buyer or job.  No order is half released or half sold.         *)
ItemsFollowOrder ==
    \A o \in Orders : \A s \in SkusOf(o) :
        reservation[o][s] = ExpectedReservation(o)

(* The merchant orders stand where the order stands.                       *)
ChildrenFollowOrder == merchantOrder = order

(* The coupon claim is held by one order at most: an order that waits for  *)
(* its payment or was paid, never one that was given up unpaid.            *)
CouponHeldOnce ==
    /\ \A o, p \in redeemed : o = p
    /\ redeemed = {o \in CouponOrders :
                     \/ order[o] \in {"PENDING_PAYMENT", "PAID"}
                     \/ order[o] = "CANCELLED" /\ o \notin cart}

Successes(o) ==
    {e \in Events : /\ archive[e].outcome = "APPLIED"
                    /\ archive[e].order = o /\ archive[e].status = "SUCCEEDED"}

(* An order that was ever paid was paid by one event, with the right       *)
(* amount, however often and in whatever company it was delivered; and no  *)
(* success is marked processed without its order having been paid.         *)
PaidByOneEvent ==
    \A o \in Orders :
        IF o \in cart THEN Successes(o) = {}
        ELSE \E e \in Events : Successes(o) = {e} /\ archive[e].agrees

(* An intent that says SUCCEEDED has a paid order behind it.               *)
SucceededIsPaid ==
    \A o \in Orders : payment[o].status = "SUCCEEDED" => order[o] = "PAID"

(* The units of SKU s under active reservations, one element each.         *)
HeldUnits(s) ==
    {u \in Orders \X (1..MaxQuantity) :
        reservation[u[1]][s] = "ACTIVE" /\ u[2] <= Quantity[u[1]][s]}

(* Every path out of an order gives back or sells exactly the units the    *)
(* order took, of every SKU: the counter never drifts from the rows, and   *)
(* no two orders are promised the same unit.                               *)
ReservedIsHeld == \A s \in Skus : inventory[s].reserved = Cardinality(HeldUnits(s))

NeverOversold == \A s \in Skus : inventory[s].reserved <= inventory[s].onHand

(* An intent exists with its order, and the provider knows no other.       *)
IntentsExist ==
    \A o \in Orders :
        /\ payment[o].status = "NONE" <=> order[o] = "NONE"
        /\ o \in issued => order[o] # "NONE"

(* Only what was paid left the cart.                                       *)
CartFollowsPayment ==
    \A o \in Orders :
        /\ order[o] \in {"NONE", "PENDING_PAYMENT", "PAID", "CANCELLED", "CLOSED"}
        /\ order[o] \in {"NONE", "PENDING_PAYMENT", "CLOSED"} => o \in cart
        /\ order[o] = "PAID" => o \notin cart

(* The inductive invariant of the proofs.                                  *)
IInv ==
    /\ TypeOK
    /\ RequestsOwnTheirEvents
    /\ IntentsExist
    /\ CartFollowsPayment
    /\ ItemsFollowOrder
    /\ ChildrenFollowOrder
    /\ CouponHeldOnce
    /\ PaidByOneEvent
    /\ SucceededIsPaid
    /\ \A s \in Skus : IsFiniteSet(HeldUnits(s))
    /\ ReservedIsHeld
    /\ NeverOversold

(* An order that was paid is never unpaid or closed as unpaid, a cancelled *)
(* or closed one stays so: no late event, job or buyer revives it.         *)
OrderMoves ==
    [][\A o \in Orders :
         /\ order[o] \in {"CANCELLED", "CLOSED"} => order'[o] = order[o]
         /\ order[o] = "PAID" =>
              order'[o] \notin {"NONE", "PENDING_PAYMENT", "CLOSED"}]_vars

(* Reserved units are those of active reservations, and never more than    *)
(* are on hand: per SKU, orders, payments and merchants together behave as *)
(* the abstract stock of module StockLedger.                               *)
HoldOf(o, s) ==
    [state |-> CASE reservation[o][s] = "NONE"      -> "none"
                 [] reservation[o][s] = "ACTIVE"    -> "held"
                 [] reservation[o][s] = "COMMITTED" -> "sold"
                 [] OTHER                           -> "returned",
     units |-> IF reservation[o][s] = "NONE" THEN 0 ELSE Quantity[o][s]]

Stock(s) == INSTANCE StockLedger WITH
    References <- {o \in Orders : s \in SkusOf(o)},
    stock <- inventory[s].onHand,
    hold  <- [o \in {p \in Orders : s \in SkusOf(p)} |-> HoldOf(o, s)]

ImplementsStockLedger ==
    /\ \A s \in Skus : Stock(s)!Init
    /\ [][\A s \in Skus : Stock(s)!Next \/ UNCHANGED Stock(s)!stockVars]_vars
-----------------------------------------------------------------------------
(* What the documents say and the code does not do; README.md tells which  *)
(* instances refute it.                                                    *)

(* docs/testing/G21-G25-ACCEPTANCE.md, G23-03: a payment that succeeded is *)
(* not taken back by a FAILED event that arrives late.                     *)
LateFailureIsIgnored ==
    [][\A o \in Orders : payment[o].status = "SUCCEEDED"
                            => payment'[o].status # "FAILED"]_vars

(* G25-01 there: when the job closes an order, its payment is CANCELLED.   *)
ClosedIsCancelled ==
    \A o \in Orders : order[o] = "CLOSED" => payment[o].status = "CANCELLED"

(* Its section 1: a decided payment never goes back.                       *)
SucceededIsFinal ==
    [][\A o \in Orders : payment[o].status = "SUCCEEDED" =>
         payment'[o].status \in {"SUCCEEDED", "REFUNDED", "PARTIALLY_REFUNDED"}]_vars

(* The design of the transaction loop, error handling: an archived event   *)
(* keeps its failure reason.  One that no request works on any more was    *)
(* processed, ignored or refused for a reason.                             *)
NoEventWithoutOutcome ==
    \A e \in Events : archive[e].outcome = "OPEN" =>
        \E w \in Workers : request[w].op = "webhook" /\ request[w].event = e

(* G22-01: the cart lines are gone once the order is placed.               *)
OrderedLeavesCart == \A o \in Orders : order[o] # "NONE" => o \notin cart
=====================================================================
