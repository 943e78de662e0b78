----------------------------- MODULE Fulfilment -----------------------------
(***************************************************************************)
(* One paid order on its way to the buyer: ship, cancel and confirmReceipt *)
(* of orders/order.service.ts and autoConfirmReceipt of                    *)
(* jobs/job.service.ts, over the order, its merchant orders, their parcels *)
(* and the payment intent.  It goes on where Trade ends.                   *)
(*                                                                         *)
(* ship, cancel and autoConfirmReceipt are SERIALIZABLE: one step each.    *)
(* confirmReceipt runs at MySQL's default level, where its read locks      *)
(* nothing: its check and its writes are two steps.  A parcel that the     *)
(* carrier has delivered is marked so when somebody asks (withTracking);   *)
(* nothing but the views reads the mark, and it is left out.               *)
(***************************************************************************)
EXTENDS ShipmentDomain

CONSTANTS
    Merchants,  \* the merchants of the order, one merchant order each
    Items,      \* its order items
    MerchantOf, \* MerchantOf[i]: the merchant that sells item i
    Ordered,    \* Ordered[i]: units of item i
    Parcels,    \* carriers with tracking numbers
    Requests,   \* the sequences of lines that merchants submit
    Buyers      \* devices of the buyer that confirm a receipt

ASSUME ItemAssumption ==
    /\ IsFiniteSet(Items) /\ IsFiniteSet(Parcels) /\ Items # {}
    /\ MerchantOf \in [Items -> Merchants]
    /\ Ordered \in [Items -> Nat \ {0}]
    /\ \A m \in Merchants : \E i \in Items : MerchantOf[i] = m
ASSUME RequestAssumption ==
    Requests \subseteq Seq([item : Items, quantity : Nat])

VARIABLES
    order,      \* status of the Order row
    child,      \* status of each MerchantOrder row
    parcel,     \* parcel[m][p][i]: the ShipmentItem rows of its Shipments
    intent,     \* status of the PaymentIntent
    confirmJob, \* whether the AUTO_CONFIRM_RECEIPT job exists
    confirming  \* devices whose confirmReceipt has passed its check

fulfilmentVars == <<order, child, parcel, intent, confirmJob, confirming>>

-----------------------------------------------------------------------------
ItemsOf(m) == {i \in Items : MerchantOf[i] = m}
NoParcel == [i \in Items |-> 0]
Shipped(i) == shippedQuantities(parcel[MerchantOf[i]], i)

Shippable == {"PAID", "PARTIALLY_SHIPPED"}

\* The job's uniqueKey is that of the order: a second one would fail.
ScheduleConfirmation(next) ==
    IF next = "SHIPPED" /\ order # "SHIPPED"
    THEN ~confirmJob /\ confirmJob' = TRUE
    ELSE UNCHANGED confirmJob

(* A merchant sends a parcel.  A tracking number that is known already     *)
(* changes nothing: the request is answered with the order if the parcel   *)
(* is the same, and refused if it is not.                                  *)
Ship(m, p, lines) ==
    LET packed == [i \in Items |-> Planned(lines, i)]
        sent   == [parcel[m] EXCEPT ![p] = packed]
        status == resolveFulfillmentStatus(ItemsOf(m), Ordered, sent)
        next   == resolveOrderShipmentStatus(
                      {IF n = m THEN status ELSE child[n] : n \in Merchants})
    IN  /\ order \in Shippable /\ child[m] \in Shippable
        /\ intent = "SUCCEEDED"
        /\ planShipmentLines(ItemsOf(m), Ordered, parcel[m], lines)
        /\ parcel[m][p] = NoParcel
        /\ child[m] = status \/ canApplyOrderTransition(child[m], status)
        /\ order = next \/ canApplyOrderTransition(order, next)
        /\ parcel' = [parcel EXCEPT ![m] = sent]
        /\ child' = [child EXCEPT ![m] = status]
        /\ order' = next
        /\ ScheduleConfirmation(next)
        /\ UNCHANGED <<intent, confirming>>

(* cancel, of a paid order: its goods are sold, no reservation is active,  *)
(* and nothing is sent back to the buyer's account.                        *)
Cancel ==
    /\ canApplyOrderTransition(order, "CANCELLED")
    /\ intent' = "CANCELLED"
    /\ child' = [m \in Merchants |-> "CANCELLED"]
    /\ order' = "CANCELLED"
    /\ UNCHANGED <<parcel, confirmJob, confirming>>

(* confirmReceipt checks the order it has read ...                         *)
ConfirmRead(b) ==
    /\ b \notin confirming
    /\ order # "COMPLETED"
    /\ canApplyOrderTransition(order, "COMPLETED")
    /\ confirming' = confirming \cup {b}
    /\ UNCHANGED <<order, child, parcel, intent, confirmJob>>

(* ... and writes order and children whatever has become of them.          *)
ConfirmWrite(b) ==
    /\ b \in confirming
    /\ child' = [m \in Merchants |-> "COMPLETED"]
    /\ order' = "COMPLETED"
    /\ confirming' = confirming \ {b}
    /\ UNCHANGED <<parcel, intent, confirmJob>>

(* autoConfirmReceipt, some days after the order was shipped; the job may  *)
(* run more than once, and finds nothing to do then.                       *)
AutoConfirm ==
    /\ confirmJob
    /\ shouldAutoConfirmReceipt(order)
    /\ child' = [m \in Merchants |->
                   IF child[m] = "SHIPPED" THEN "COMPLETED" ELSE child[m]]
    /\ order' = "COMPLETED"
    /\ UNCHANGED <<parcel, intent, confirmJob, confirming>>

-----------------------------------------------------------------------------
FulfilmentInit ==
    /\ order = "PAID"
    /\ child = [m \in Merchants |-> "PAID"]
    /\ parcel = [m \in Merchants |-> [p \in Parcels |-> NoParcel]]
    /\ intent = "SUCCEEDED"
    /\ confirmJob = FALSE
    /\ confirming = {}

FulfilmentNext ==
    \/ \E m \in Merchants, p \in Parcels :
         \E lines \in Requests : Ship(m, p, lines)
    \/ \E b \in Buyers : ConfirmRead(b) \/ ConfirmWrite(b)
    \/ Cancel
    \/ AutoConfirm
-----------------------------------------------------------------------------
FulfilmentTypeOK ==
    /\ order \in OrderStatus
    /\ child \in [Merchants -> OrderStatus]
    /\ parcel \in [Merchants -> [Parcels -> [Items -> Nat]]]
    /\ intent \in PaymentStatus
    /\ confirmJob \in BOOLEAN
    /\ confirming \subseteq Buyers

Complete(m) == \A i \in ItemsOf(m) : Shipped(i) = Ordered[i]

(* Whatever merchants submit, in whatever parcels: nothing is sent beyond  *)
(* what was ordered, a merchant sends what is his to sell only, and a      *)
(* cancelled order sends nothing.                                          *)
NeverOvershipped ==
    /\ \A i \in Items : Shipped(i) <= Ordered[i]
    /\ \A m \in Merchants, p \in Parcels, i \in Items :
         MerchantOf[i] # m => parcel[m][p][i] = 0
    /\ order = "CANCELLED" => \A i \in Items : Shipped(i) = 0

(* The order tells of the parcels of all its merchants: its statuses,      *)
(* until the buyer or a refund takes over, of nothing sent, something, or  *)
(* everything; and its confirmation is scheduled once, when the last       *)
(* merchant has sent the last unit: never with something left to send, so  *)
(* that the next shipment never fails on the job's unique key.             *)
OrderTellsParcels ==
    /\ order = "PAID" => \A i \in Items : Shipped(i) = 0
    /\ order = "PARTIALLY_SHIPPED" =>
         /\ \E i \in Items : Shipped(i) > 0
         /\ \E m \in Merchants : ~Complete(m)
    /\ order = "SHIPPED" => \A m \in Merchants : Complete(m)
    /\ \A m \in Merchants : child[m] = "SHIPPED" => Complete(m)
    /\ confirmJob <=> \A m \in Merchants : Complete(m)
=============================================================================
