----------------------------- MODULE OrderDomain -----------------------------
(***************************************************************************)
(* The pure rules every handler of an order goes through: the statuses of  *)
(* packages/shared/src/statuses.ts, the transition table and the expiry    *)
(* and coupon rules of orders/order-domain.ts and jobs/job-domain.ts, and  *)
(* the rule for provider events of payments/payment-domain.ts.             *)
(***************************************************************************)
OrderStatus == {"PENDING_PAYMENT", "PAID", "PARTIALLY_SHIPPED", "SHIPPED",
                "COMPLETED", "CANCELLED", "AFTER_SALE", "CLOSED"}

PaymentStatus == {"PENDING", "PROCESSING", "SUCCEEDED", "FAILED", "CANCELLED",
                  "REFUNDED", "PARTIALLY_REFUNDED"}

transitions ==
    [PENDING_PAYMENT   |-> {"PAID", "CANCELLED", "CLOSED"},
     PAID              |-> {"PARTIALLY_SHIPPED", "SHIPPED", "AFTER_SALE", "CANCELLED"},
     PARTIALLY_SHIPPED |-> {"SHIPPED", "AFTER_SALE"},
     SHIPPED           |-> {"COMPLETED", "AFTER_SALE"},
     COMPLETED         |-> {"AFTER_SALE"},
     CANCELLED         |-> {},
     AFTER_SALE        |-> {"COMPLETED", "CLOSED"},
     CLOSED            |-> {}]

canApplyOrderTransition(from, to) == to \in transitions[from]

\* Mutant: only a cancellation gives the coupon back, the job forgets it.
shouldReleaseOnCancelOnly(from, to) == from = "PENDING_PAYMENT" /\ to = "CANCELLED"

\* The coupon of an order that is given up before it was paid is free again.
shouldReleaseCouponReservation(from, to) ==
    from = "PENDING_PAYMENT" /\ to \in {"CANCELLED", "CLOSED"}

\* Mutant: the job trusts the due time alone.
shouldCloseWheneverDue(status, isDue) == isDue

shouldCloseExpiredOrder(status, isDue) == status = "PENDING_PAYMENT" /\ isDue

\* Whether an event of the provider may change an intent in status current.
canApplyPaymentEvent(current, next) ==
    /\ current # next
    /\ current \notin {"SUCCEEDED", "REFUNDED"}
    /\ current # "CANCELLED" \/ next = "REFUNDED"
    /\ next \in {"PROCESSING", "SUCCEEDED", "FAILED", "CANCELLED", "REFUNDED"}
=============================================================================
