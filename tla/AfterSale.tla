------------------------------ MODULE AfterSale ------------------------------
(***************************************************************************)
(* After-sale cases of a paid order, while it is shipped and received:     *)
(* after-sales/after-sale.service.ts, with handleRefund of                 *)
(* payments/payment.service.ts, composed with Fulfilment.                  *)
(*                                                                         *)
(* No handler of this service opens a transaction.  Each reads a row,      *)
(* decides, and writes by id; a refund is six such statements, one of them *)
(* at the payment provider.  Every statement is a step, and a process may  *)
(* die between any two of them.                                            *)
(***************************************************************************)
EXTENDS Fulfilment

CONSTANTS
    Choices,    \* what the buyer may ask for: a type of case for each item
    Workers,    \* concurrent requests of the API processes
    MaxRefunds, \* bound: refunds of the payment at the provider
    NoItem

ASSUME CaseAssumption ==
    /\ Choices \subseteq [Items -> {"REFUND_ONLY", "RETURN_REFUND"}]
    /\ MaxRefunds \in Nat /\ NoItem \notin Items

VARIABLES
    type,     \* type[i]: the type of case the buyer asks for on item i
    case,     \* status of the AfterSale row of each item
    refunded, \* item whose RefundRecord the payment has, NoItem before
    paidBack, \* paidBack[i]: refunds the provider made for the case of i
    request   \* request[w]: what worker w is in the middle of

caseVars == <<type, case, refunded, paidBack, request>>
vars == <<fulfilmentVars, caseVars>>

-----------------------------------------------------------------------------
(* packages/shared/src/after-sales.ts, after-sales/after-sale-domain.ts    *)

AfterSaleStatus == {"REQUESTED", "APPROVED", "REJECTED", "AWAITING_RETURN",
                    "RETURNED", "REFUND_PROCESSING", "COMPLETED", "CANCELLED"}

AFTER_SALE_TRANSITIONS ==
    [REQUESTED         |-> {"APPROVED", "REJECTED", "CANCELLED"},
     APPROVED          |-> {"AWAITING_RETURN", "REFUND_PROCESSING", "CANCELLED"},
     REJECTED          |-> {},
     AWAITING_RETURN   |-> {"RETURNED", "CANCELLED"},
     RETURNED          |-> {"REFUND_PROCESSING", "CANCELLED"},
     REFUND_PROCESSING |-> {"COMPLETED", "CANCELLED"},
     COMPLETED         |-> {},
     CANCELLED         |-> {}]

canTransitionAfterSale(from, to) == to \in AFTER_SALE_TRANSITIONS[from]

AFTER_SALE_ELIGIBLE_ORDER_STATUSES == {"PAID", "PARTIALLY_SHIPPED", "SHIPPED", "COMPLETED"}

\* What the views of a case offer to its buyer and to its merchant.
buyerActions(status, kind) ==
    (IF status \in {"REQUESTED", "APPROVED", "AWAITING_RETURN"} THEN {"cancel"} ELSE {})
    \cup (IF status = "APPROVED" /\ kind = "RETURN_REFUND" THEN {"shipReturn"} ELSE {})

adminActions(status, kind) ==
    (IF status = "REQUESTED" THEN {"approve", "reject"} ELSE {})
    \cup (IF status = "AWAITING_RETURN" /\ kind = "RETURN_REFUND"
          THEN {"confirmReturned"} ELSE {})
    \cup (IF \/ status = "APPROVED" /\ kind = "REFUND_ONLY"
             \/ status = "RETURNED" /\ kind = "RETURN_REFUND"
          THEN {"refund"} ELSE {})

enrichView(status, kind, isBuyer) ==
    IF isBuyer THEN buyerActions(status, kind) ELSE adminActions(status, kind)

-----------------------------------------------------------------------------
(* The handlers that move a case: whether they go on, and where they move  *)
(* it to.  refund is executeRefundOp, which writes no status of its own.   *)

Ops == {"cancel", "shipReturn", "confirmReturned", "approve", "reject",
        "platformApprove", "platformReject", "refund"}

Target(op, kind) ==
    CASE op = "cancel" -> "CANCELLED"
      [] op = "shipReturn" -> "AWAITING_RETURN"
      [] op = "confirmReturned" -> "RETURNED"
      [] op \in {"reject", "platformReject"} -> "REJECTED"
      [] op = "refund" -> "REFUND_PROCESSING"
      [] OTHER -> IF kind = "REFUND_ONLY" THEN "REFUND_PROCESSING" ELSE "APPROVED"

\* platformReview looks at the row, not at its status.
Accepted(op, kind, status) ==
    CASE op = "cancel" -> canTransitionAfterSale(status, "CANCELLED")
      [] op = "shipReturn" -> kind = "RETURN_REFUND" /\ status = "APPROVED"
      [] op = "confirmReturned" -> kind = "RETURN_REFUND" /\ status = "AWAITING_RETURN"
      [] op \in {"approve", "reject"} ->
           status = "REQUESTED" /\ canTransitionAfterSale(status, Target(op, kind))
      [] op = "refund" -> status = "REFUND_PROCESSING"
      [] OTHER -> TRUE

Statements == {"insert", "write", "find", "provider", "record", "order", "intent", "complete"}
(* target: the status a handler has decided on and not yet written.        *)
Idle == [at |-> "done", item |-> NoItem, target |-> "NONE"]
At(w, statement) == request[w].at = statement
Goto(w, statement) ==
    request' = [request EXCEPT ![w].at = statement, ![w].target = "NONE"]
Done(w) == request' = [request EXCEPT ![w] = Idle]

(* create: the item, its order, the cases before and what they refunded    *)
(* are read ...                                                            *)
CreateRead(w, i) ==
    /\ request[w] = Idle
    /\ order \in AFTER_SALE_ELIGIBLE_ORDER_STATUSES
    /\ case[i] \in {"NONE", "CANCELLED"}
    /\ request' = [request EXCEPT ![w] =
                     [at |-> "insert", item |-> i, target |-> "NONE"]]
    /\ UNCHANGED <<fulfilmentVars, type, case, refunded, paidBack>>

(* ... and the case is inserted, if the buyer never had one for the item:  *)
(* the key (userId, orderItemId) refuses a second, whatever was checked.   *)
CreateInsert(w) ==
    LET i == request[w].item
    IN  /\ At(w, "insert")
        /\ case' = [case EXCEPT ![i] = IF @ = "NONE" THEN "REQUESTED" ELSE @]
        /\ Done(w)
        /\ UNCHANGED <<fulfilmentVars, type, refunded, paidBack>>

ReadCase(w, i, op) ==
    /\ request[w] = Idle
    /\ case[i] # "NONE"
    /\ Accepted(op, type[i], case[i])
    /\ request' = [request EXCEPT ![w] =
                     IF op = "refund"
                     THEN [at |-> "find", item |-> i, target |-> "NONE"]
                     ELSE [at |-> "write", item |-> i, target |-> Target(op, type[i])]]
    /\ UNCHANGED <<fulfilmentVars, type, case, refunded, paidBack>>

(* The status is written over whatever it has become.  An approval that    *)
(* refunds goes on to do so.                                               *)
WriteCase(w) ==
    LET target == request[w].target
    IN  /\ At(w, "write")
        /\ case' = [case EXCEPT ![request[w].item] = target]
        /\ IF target = "REFUND_PROCESSING" THEN Goto(w, "find") ELSE Done(w)
        /\ UNCHANGED <<fulfilmentVars, type, refunded, paidBack>>

-----------------------------------------------------------------------------
(* executeRefund and handleRefund.  The idempotency key is drawn afresh,   *)
(* so no earlier RefundRecord is ever found under it.                      *)

FindPayment(w) ==
    /\ At(w, "find")
    /\ IF intent \in {"SUCCEEDED", "PARTIALLY_REFUNDED"} THEN Goto(w, "provider") ELSE Done(w)
    /\ UNCHANGED <<fulfilmentVars, type, case, refunded, paidBack>>

AskProvider(w) ==
    /\ At(w, "provider")
    /\ Cardinality(UNION {{i} \X (1..paidBack[i]) : i \in Items}) < MaxRefunds
    /\ paidBack' = [paidBack EXCEPT ![request[w].item] = @ + 1]
    /\ Goto(w, "record")
    /\ UNCHANGED <<fulfilmentVars, type, case, refunded>>

\* Mutant: the providerRefundId of each refund is its own.
RecordAgain(w) ==
    /\ At(w, "record")
    /\ refunded' = request[w].item
    /\ Goto(w, "order")
    /\ UNCHANGED <<fulfilmentVars, type, case, paidBack>>

(* The provider names a refund after the payment, and providerRefundId is  *)
(* unique: the second record of one payment fails, with the case as it is. *)
RecordRefund(w) ==
    /\ At(w, "record")
    /\ IF refunded = NoItem
       THEN refunded' = request[w].item /\ Goto(w, "order")
       ELSE Done(w) /\ UNCHANGED refunded
    /\ UNCHANGED <<fulfilmentVars, type, case, paidBack>>

MarkOrder(w) ==
    /\ At(w, "order")
    /\ order' = "AFTER_SALE"
    /\ Goto(w, "intent")
    /\ UNCHANGED <<child, parcel, intent, confirmJob, confirming, type,
                   case, refunded, paidBack>>

(* The sandbox provider answers REFUNDED to any amount.                    *)
MarkIntent(w) ==
    /\ At(w, "intent")
    /\ intent' = "REFUNDED"
    /\ Goto(w, "complete")
    /\ UNCHANGED <<order, child, parcel, confirmJob, confirming, type,
                   case, refunded, paidBack>>

CompleteCase(w) ==
    /\ At(w, "complete")
    /\ case' = [case EXCEPT ![request[w].item] = "COMPLETED"]
    /\ Done(w)
    /\ UNCHANGED <<fulfilmentVars, type, refunded, paidBack>>

(* payment.service.ts, close: an intent neither SUCCEEDED nor CANCELLED.   *)
ClosePayment ==
    /\ intent \notin {"SUCCEEDED", "CANCELLED"}
    /\ intent' = "CANCELLED"
    /\ UNCHANGED <<order, child, parcel, confirmJob, confirming, caseVars>>

Crash(w) ==
    /\ request[w] # Idle
    /\ Done(w)
    /\ UNCHANGED <<fulfilmentVars, type, case, refunded, paidBack>>

-----------------------------------------------------------------------------
Init ==
    /\ FulfilmentInit
    /\ type \in Choices
    /\ case = [i \in Items |-> "NONE"]
    /\ refunded = NoItem
    /\ paidBack = [i \in Items |-> 0]
    /\ request = [w \in Workers |-> Idle]

Handling(w) ==
    \/ \E i \in Items : CreateRead(w, i) \/ \E op \in Ops : ReadCase(w, i, op)
    \/ CreateInsert(w)
    \/ WriteCase(w)
    \/ FindPayment(w)
    \/ AskProvider(w)
    \/ RecordRefund(w)
    \/ MarkOrder(w)
    \/ MarkIntent(w)
    \/ CompleteCase(w)

Fulfilling == FulfilmentNext /\ UNCHANGED caseVars

Next ==
    \/ Fulfilling
    \/ \E w \in Workers : Handling(w) \/ Crash(w)
    \/ ClosePayment

Spec == Init /\ [][Next]_vars
-----------------------------------------------------------------------------
TypeOK ==
    /\ FulfilmentTypeOK
    /\ type \in Choices
    /\ case \in [Items -> AfterSaleStatus \cup {"NONE"}]
    /\ refunded \in Items \cup {NoItem}
    /\ paidBack \in [Items -> 0..MaxRefunds]
    /\ request \in [Workers -> [at : Statements \cup {"done"},
                                item : Items \cup {NoItem},
                                target : AfterSaleStatus \cup {"NONE"}]]

(* However reviews, platform decisions, retries and refunds overlap, and   *)
(* wherever a process dies: a case that says COMPLETED was paid back by    *)
(* the provider and is the one on record, so that of all the cases of one  *)
(* payment at most one ends this way; a payment is taken for refunded, and *)
(* its order for an after-sale, only when the provider has paid back and a *)
(* record says so; and an order is received with every unit sent, or after *)
(* a refund, never because a check of the buyer's was overtaken.           *)
StatusTellsRefund ==
    /\ \A i \in Items : case[i] = "COMPLETED" => refunded = i
    /\ refunded # NoItem => paidBack[refunded] > 0
    /\ intent = "REFUNDED" \/ order = "AFTER_SALE" => refunded # NoItem
    /\ order = "COMPLETED" => refunded # NoItem \/ \A m \in Merchants : Complete(m)
-----------------------------------------------------------------------------
(* What the documents say and the code does not do.                        *)

(* docs/testing/G27-ACCEPTANCE.md: what the view of a case offers can be   *)
(* done: a merchant approves and refunds, and refunds what was returned.   *)
OfferedActionsAreAccepted ==
    \A i \in Items : case[i] # "NONE" =>
        \A isBuyer \in BOOLEAN : \A op \in enrichView(case[i], type[i], isBuyer) :
            Accepted(op, type[i], case[i])

(* docs/testing/G28-ACCEPTANCE.md: a repeated refund does not reach the    *)
(* provider again.                                                         *)
PaidBackOnce == \A i \in Items : paidBack[i] <= 1
=============================================================================
