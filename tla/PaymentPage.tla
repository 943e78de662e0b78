----------------------------- MODULE PaymentPage -----------------------------
(***************************************************************************)
(* The page on which a buyer waits for his payment,                        *)
(* pages/payments/[orderId].vue of apps/storefront: it starts the payment, *)
(* asks every two seconds how it stands without waiting for the answer,    *)
(* and stops when it has come to an end; over start, get and simulate of   *)
(* payments/payment.service.ts.  What the provider and others do to the    *)
(* payment is told by how often it changed.                                *)
(***************************************************************************)
EXTENDS OrderDomain, Naturals

CONSTANTS
    Polls,   \* requests of the page under way at once
    MaxMoves \* bound: changes of the payment

PaymentPageAssumption == MaxMoves \in Nat

VARIABLES
    intent,     \* the payment: its status, and how often it was changed
    payment,    \* as the page shows it, or NoPayment
    poll,       \* poll[r]: what is asked, and the answer once there is one
    timer,      \* none, set, cleared or gone with the page; leaked: set after that
    busy,       \* the buttons of the sandbox
    cartSynced, \* whether the cart was refreshed after the success
    overtaken   \* history: an older answer was shown after a newer one

vars == <<intent, payment, poll, timer, busy, cartSynced, overtaken>>

NoPayment == [status |-> "NONE", moves |-> 0]
Free == [op |-> "free", at |-> "none", answer |-> NoPayment]
UnderWay == {r \in Polls : poll[r] # Free}
Results == {"SUCCEEDED", "FAILED", "CANCELLED"}
page == <<payment, timer, busy, cartSynced, overtaken>>

\* Mutant: what failed may not be paid any more.
terminalToo == payment.status \in {"SUCCEEDED", "FAILED", "CANCELLED", "REFUNDED"}

terminal == payment.status \in {"SUCCEEDED", "CANCELLED", "REFUNDED"}

Sends(r, op) ==
    poll[r] = Free /\ poll' = [poll EXCEPT ![r] = [Free EXCEPT !.op = op, !.at = "asked"]]
-----------------------------------------------------------------------------
(* payment.service.ts.                                                     *)

Becomes(status) ==
    IF intent.status = status THEN UNCHANGED intent
    ELSE /\ intent.moves < MaxMoves
         /\ intent' = [status |-> status, moves |-> intent.moves + 1]

Answers(r, at) == poll' = [poll EXCEPT ![r].at = at, ![r].answer = intent']

get(r) ==
    /\ poll[r].op = "get" /\ poll[r].at = "asked"
    /\ UNCHANGED intent
    /\ Answers(r, "answered")
    /\ UNCHANGED page

\* An ended payment is shown; another is given to the provider, if it was not
\* (a read and a write, which Trade takes apart).
start(r) ==
    /\ poll[r].op \in {"start", "simulate"} /\ poll[r].at = "asked"
    /\ IF intent.status \in {"SUCCEEDED", "CANCELLED", "REFUNDED"} THEN UNCHANGED intent
       ELSE Becomes("PROCESSING")
    /\ Answers(r, IF poll[r].op = "start" THEN "answered" ELSE "started")
    /\ UNCHANGED page

\* The payment is started, and told the result if it takes it.
simulate(r, result) ==
    /\ poll[r].at = "started"
    /\ IF canApplyPaymentEvent(intent.status, result) THEN Becomes(result) ELSE UNCHANGED intent
    /\ Answers(r, "answered")
    /\ UNCHANGED page

\* A webhook, a cancellation, the expiry job, or a refund.  The failure that
\* comes late is left to Trade: here what has ended does not fail.
Others ==
    /\ \E status \in {"SUCCEEDED", "FAILED", "CANCELLED", "REFUNDED"} :
         /\ status \in {"SUCCEEDED", "FAILED"} => canApplyPaymentEvent(intent.status, status)
         /\ status = "REFUNDED" => intent.status = "SUCCEEDED"
         /\ Becomes(status)
    /\ UNCHANGED <<poll, page>>
-----------------------------------------------------------------------------
(* The page.                                                               *)

\* load and simulate end; the first load sets the timer, whatever it came to.
Ends(r, stop) ==
    /\ poll' = [poll EXCEPT ![r] = Free]
    /\ timer' = CASE poll[r].op = "start" -> IF timer = "gone" THEN "leaked" ELSE "set"
                  [] poll[r].op = "get" /\ stop /\ timer = "set" -> "cleared"
                  [] poll[r].op = "get" /\ stop /\ timer = "leaked" -> "gone"
                  [] OTHER -> timer
    /\ busy' = (busy /\ poll[r].op # "simulate")

\* The answer is shown; the first success waits for the cart.
Shows(r) ==
    /\ r \in UnderWay /\ poll[r].at = "answered"
    /\ payment' = poll[r].answer
    /\ overtaken' = (overtaken \/ poll[r].answer.moves < payment.moves)
    /\ IF payment'.status = "SUCCEEDED" /\ ~cartSynced
       THEN poll' = [poll EXCEPT ![r].at = "syncing"] /\ UNCHANGED <<timer, busy>>
       ELSE Ends(r, terminal')
    /\ UNCHANGED <<intent, cartSynced>>

\* Whether the cart could be refreshed is not looked at.  What the page shows
\* by now, which may be another request's answer, decides whether it stops.
syncPaidCart(r) ==
    /\ r \in UnderWay /\ poll[r].at = "syncing"
    /\ cartSynced' = TRUE
    /\ Ends(r, terminal)
    /\ UNCHANGED <<intent, payment, overtaken>>

\* The request is refused, or its answer lost.
Fails(r) ==
    /\ r \in UnderWay /\ poll[r].at # "syncing"
    /\ Ends(r, FALSE)
    /\ UNCHANGED <<intent, payment, cartSynced, overtaken>>

load(r) ==
    /\ timer \in {"set", "leaked"}
    /\ Sends(r, "get")
    /\ UNCHANGED <<intent, page>>

Press(r) ==
    /\ timer \in {"set", "cleared"} /\ ~busy /\ payment.status \in {"PROCESSING", "FAILED"}
    /\ Sends(r, "simulate")
    /\ busy' = TRUE
    /\ UNCHANGED <<intent, payment, timer, cartSynced, overtaken>>

\* onBeforeUnmount; a timer that is set later is nobody's.
Unmount ==
    /\ timer \in {"none", "set", "cleared"}
    /\ timer' = "gone"
    /\ UNCHANGED <<intent, poll, payment, busy, cartSynced, overtaken>>

-----------------------------------------------------------------------------
Init ==
    /\ intent \in [status : PaymentStatus \ {"PARTIALLY_REFUNDED"}, moves : {0}]
    /\ payment = NoPayment
    /\ \E r \in Polls : poll = [q \in Polls |->
         IF q = r THEN [Free EXCEPT !.op = "start", !.at = "asked"] ELSE Free]
    /\ timer = "none" /\ busy = FALSE /\ cartSynced = FALSE /\ overtaken = FALSE

Next ==
    \/ Others \/ Unmount
    \/ \E r \in Polls :
         \/ get(r) \/ start(r) \/ Shows(r) \/ syncPaidCart(r) \/ Fails(r) \/ load(r) \/ Press(r)
         \/ \E result \in Results : simulate(r, result)

Spec == Init /\ [][Next]_vars
-----------------------------------------------------------------------------
(* The page that has stopped asking shows an end of the payment, and the   *)
(* cart that goes with it, whatever was asked twice, failed or was pressed *)
(* meanwhile.  Only answers that overtake each other can leave it behind.  *)
StopsAtTheEnd ==
    timer = "cleared" /\ UnderWay = {} /\ ~overtaken =>
      terminal /\ (payment.status = "SUCCEEDED" => cartSynced)
=============================================================================
