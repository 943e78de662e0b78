----------------------------- MODULE TradeProofs -----------------------------
(***************************************************************************)
(* Theorems about module Trade, for any number of orders, items, events    *)
(* and concurrent requests, crashes included.                              *)
(***************************************************************************)
EXTENDS Trade, UnitCounting

-----------------------------------------------------------------------------
(* What the helpers do, item by item *)

LEMMA SettleItem ==
    ASSUME TypeOK, NEW o \in Orders, NEW status, Settle(o, status),
           NEW p \in Orders, NEW s \in Skus
    PROVE  reservation'[p][s] = IF p = o /\ s \in Active(o) THEN status
                                                          ELSE reservation[p][s]
BY DEF Settle, TypeOK

LEMMA CreateItem ==
    ASSUME TypeOK, NEW o \in Orders, Create(o), NEW p \in Orders, NEW s \in Skus
    PROVE  reservation'[p][s] = IF p = o /\ s \in SkusOf(o) THEN "ACTIVE"
                                                          ELSE reservation[p][s]
BY DEF Create, TypeOK

LEMMA SettleTyped ==
    ASSUME TypeOK, NEW o \in Orders, NEW status \in ReservationStatus, Settle(o, status)
    PROVE  reservation' \in [Orders -> [Skus -> ReservationStatus \cup {"NONE"}]]
BY DEF Settle, TypeOK

LEMMA QuantityTyped ==
    ASSUME NEW o \in Orders, NEW s \in Skus
    PROVE  Quantity[o][s] \in 0..MaxQuantity /\ Quantity[o][s] \in Nat
BY QuantityAssumption

LEMMA StockTyped ==
    ASSUME TypeOK, NEW o \in Orders, ReleaseStock(o) \/ CommitStock(o)
    PROVE  inventory' \in [Skus -> [onHand : Int, reserved : Int]]
<1>1. \A s \in Skus : /\ Quantity[o][s] \in Nat
                      /\ inventory[s] \in [onHand : Int, reserved : Int]
  BY QuantityTyped DEF TypeOK
<1>2. CASE ReleaseStock(o)
  BY <1>1, <1>2 DEF ReleaseStock
<1>3. CASE CommitStock(o)
  BY <1>1, <1>3 DEF CommitStock
<1> QED
  BY <1>2, <1>3

-----------------------------------------------------------------------------
(* Typing *)

LEMMA IdleTyped == Idle \in Request
BY DEF Idle, Request

LEMMA InitTyped == Init => TypeOK
<1> SUFFICES ASSUME Init PROVE TypeOK
  OBVIOUS
<1>1. NoPayment \in PaymentIntent
  BY DEF NoPayment, PaymentIntent
<1> QED
  BY <1>1, IdleTyped, StockAssumption DEF Init, TypeOK

(* The actions of the buyer and the job.                                   *)
LEMMA BuyingTyped == ASSUME TypeOK, NEW o \in Orders, Buying(o) PROVE TypeOK'
<1>1. CASE Create(o)
  <2>1. reservation' \in [Orders -> [Skus -> ReservationStatus \cup {"NONE"}]]
    BY <1>1 DEF Create, TypeOK, ReservationStatus
  <2>2. inventory' \in [Skus -> [onHand : Int, reserved : Int]]
    <3>1. \A s \in Skus : /\ Quantity[o][s] \in Nat
                          /\ inventory[s] \in [onHand : Int, reserved : Int]
      BY QuantityTyped DEF TypeOK
    <3> QED
      BY <1>1, <3>1 DEF Create
  <2>3. payment' \in [Orders -> PaymentIntent]
    BY <1>1 DEF Create, TypeOK, PaymentIntent, PaymentStatus
  <2>4. /\ order' \in [Orders -> OrderStatus \cup {"NONE"}]
        /\ merchantOrder' \in [Orders -> OrderStatus \cup {"NONE"}]
        /\ redeemed' \subseteq Orders
    BY <1>1 DEF Create, TypeOK, OrderStatus
  <2> QED
    BY <1>1, <2>1, <2>2, <2>3, <2>4 DEF Create, TypeOK
<1>2. CASE Cancel(o)
  <2>1. reservation' \in [Orders -> [Skus -> ReservationStatus \cup {"NONE"}]]
    BY <1>2, SettleTyped DEF Cancel, ReservationStatus
  <2>2. inventory' \in [Skus -> [onHand : Int, reserved : Int]]
    BY <1>2, StockTyped DEF Cancel
  <2>3. payment' \in [Orders -> PaymentIntent]
    BY <1>2 DEF Cancel, TypeOK, PaymentIntent, PaymentStatus
  <2>4. /\ order' \in [Orders -> OrderStatus \cup {"NONE"}]
        /\ merchantOrder' \in [Orders -> OrderStatus \cup {"NONE"}]
        /\ redeemed' \subseteq Orders
    BY <1>2 DEF Cancel, TypeOK, OrderStatus
  <2> QED
    BY <1>2, <2>1, <2>2, <2>3, <2>4 DEF Cancel, TypeOK
<1>3. CASE CloseExpiredOrder(o)
  <2>1. reservation' \in [Orders -> [Skus -> ReservationStatus \cup {"NONE"}]]
    BY <1>3, SettleTyped DEF CloseExpiredOrder, ReservationStatus
  <2>2. inventory' \in [Skus -> [onHand : Int, reserved : Int]]
    BY <1>3, StockTyped DEF CloseExpiredOrder
  <2>3. payment' \in [Orders -> PaymentIntent]
    BY <1>3 DEF CloseExpiredOrder, TypeOK, PaymentIntent, PaymentStatus
  <2>4. /\ order' \in [Orders -> OrderStatus \cup {"NONE"}]
        /\ merchantOrder' \in [Orders -> OrderStatus \cup {"NONE"}]
        /\ redeemed' \subseteq Orders
    BY <1>3 DEF CloseExpiredOrder, TypeOK, OrderStatus
  <2> QED
    BY <1>3, <2>1, <2>2, <2>3, <2>4 DEF CloseExpiredOrder, TypeOK
<1>4. CASE ExpiryPasses(o)
  BY <1>4 DEF ExpiryPasses, TypeOK
<1> QED
  BY <1>1, <1>2, <1>3, <1>4 DEF Buying

LEMMA DoneTyped ==
    ASSUME TypeOK, NEW w \in Workers, Done(w)
    PROVE  request' \in [Workers -> Request]
BY IdleTyped DEF Done, TypeOK

LEMMA PaymentTyped ==
    ASSUME TypeOK, NEW o \in Orders, NEW status \in PaymentStatus,
           payment' = [payment EXCEPT ![o].status = status]
    PROVE  payment' \in [Orders -> PaymentIntent]
BY DEF TypeOK, PaymentIntent

(* A row of the archive keeps its shape when its outcome is set.           *)
LEMMA OutcomeTyped ==
    ASSUME NEW event \in PaymentEvent,
           NEW outcome \in {"OPEN", "UNKNOWN", "MISMATCH", "IGNORED", "APPLIED"}
    PROVE  [event EXCEPT !.outcome = outcome] \in PaymentEvent
BY DEF PaymentEvent

LEMMA OwnEvent ==
    ASSUME TypeOK, RequestsOwnTheirEvents, NEW w \in Workers,
           request[w].op = "webhook"
    PROVE  /\ request[w].event \in Events
           /\ archive[request[w].event] \in PaymentEvent
           /\ archive[request[w].event].order = request[w].order
           /\ archive[request[w].event].order \in Orders
           /\ archive[request[w].event].outcome = "OPEN"
<1>1. /\ request[w].event \in Events
      /\ archive[request[w].event].outcome = "OPEN"
      /\ archive[request[w].event].order = request[w].order
  BY DEF RequestsOwnTheirEvents
<1>2. archive[request[w].event] \in PaymentEvent \cup {NoRow}
  BY <1>1 DEF TypeOK
<1>3. NoRow.outcome = "NONE"
  BY DEF NoRow
<1> QED
  BY <1>1, <1>2, <1>3 DEF PaymentEvent

LEMMA PayingTyped ==
    ASSUME TypeOK, RequestsOwnTheirEvents, NEW w \in Workers, Paying(w)
    PROVE  TypeOK'
<1>1. ASSUME NEW o \in Orders, StartRead(w, o) PROVE TypeOK'
  <2>1. [op |-> "start", at |-> "write", order |-> o, event |-> NoEvent] \in Request
    BY DEF Request
  <2> QED
    BY <1>1, <2>1 DEF StartRead, UnchangedByPayment, TypeOK
<1>2. ASSUME NEW o \in Orders, CloseRead(w, o) PROVE TypeOK'
  <2>1. [op |-> "close", at |-> "write", order |-> o, event |-> NoEvent] \in Request
    BY DEF Request
  <2> QED
    BY <1>2, <2>1 DEF CloseRead, UnchangedByPayment, TypeOK
<1>3. CASE StartWrite(w)
  <2>1. payment' \in [Orders -> PaymentIntent]
    BY <1>3 DEF StartWrite, TypeOK, PaymentIntent, PaymentStatus
  <2> QED
    BY <1>3, <2>1, DoneTyped DEF StartWrite, UnchangedByPayment, TypeOK
<1>4. CASE CloseWrite(w)
  <2>1. payment' \in [Orders -> PaymentIntent]
    BY <1>4 DEF CloseWrite, TypeOK, PaymentIntent, PaymentStatus
  <2> QED
    BY <1>4, <2>1, DoneTyped DEF CloseWrite, UnchangedByPayment, TypeOK
<1> QED
  BY <1>1, <1>2, <1>3, <1>4 DEF Paying

LEMMA WebhookTyped ==
    ASSUME TypeOK, RequestsOwnTheirEvents, NEW w \in Workers, Webhook(w)
    PROVE  TypeOK'
<1> DEFINE e == request[w].event
<1>1. ASSUME NEW f \in Events, NEW o \in Orders, NEW status \in EventStatus,
             NEW agrees \in BOOLEAN, Archive(w, f, o, status, agrees)
      PROVE  TypeOK'
  <2>1. [order |-> o, status |-> status, agrees |-> agrees, outcome |-> "OPEN"]
          \in PaymentEvent
    BY DEF PaymentEvent
  <2>2. [op |-> "webhook", at |-> "find", order |-> o, event |-> f] \in Request
    BY DEF Request
  <2> QED
    BY <1>1, <2>1, <2>2 DEF Archive, UnchangedByPayment, TypeOK
<1>2. CASE FindPayment(w)
  <2>1. Verdict(archive[e]) \in {"OPEN", "UNKNOWN", "MISMATCH", "IGNORED"}
    BY DEF Verdict
  <2>2. e \in Events /\ archive[e] \in PaymentEvent
    BY <1>2, OwnEvent DEF FindPayment, At
  <2>3. archive' \in [Events -> PaymentEvent \cup {NoRow}]
    <3>1. [archive[e] EXCEPT !.outcome = Verdict(archive[e])] \in PaymentEvent
      BY <2>1, <2>2, OutcomeTyped
    <3>2. archive' = [archive EXCEPT ![e] =
                        [archive[e] EXCEPT !.outcome = Verdict(archive[e])]]
      BY <1>2 DEF FindPayment, TypeOK
    <3> QED
      BY <3>1, <3>2 DEF TypeOK
  <2>4. request' \in [Workers -> Request]
    <3>1. [request[w] EXCEPT !.at = "write"] \in Request
      BY DEF TypeOK, Request
    <3>2. \/ request' = [request EXCEPT ![w] = [request[w] EXCEPT !.at = "write"]]
          \/ Done(w)
      BY <1>2 DEF FindPayment, TypeOK
    <3> QED
      BY <3>1, <3>2, DoneTyped DEF TypeOK
  <2> QED
    BY <1>2, <2>3, <2>4 DEF FindPayment, UnchangedByPayment, TypeOK
<1>3. ASSUME ApplySuccess(w) \/ ApplyFailure(w)
      PROVE  archive' \in [Events -> PaymentEvent \cup {NoRow}]
  <2>1. e \in Events /\ archive[e] \in PaymentEvent
    BY <1>3, OwnEvent DEF ApplySuccess, ApplyFailure, At
  <2>2. [archive[e] EXCEPT !.outcome = "APPLIED"] \in PaymentEvent
    BY <2>1, OutcomeTyped
  <2>3. archive' = [archive EXCEPT ![e] = [archive[e] EXCEPT !.outcome = "APPLIED"]]
    BY <1>3 DEF ApplySuccess, ApplyFailure, TypeOK
  <2> QED
    BY <2>2, <2>3 DEF TypeOK
<1>4. CASE ApplySuccess(w)
  <2> DEFINE o == request[w].order
  <2>0. o \in Orders
    BY <1>4, OwnEvent DEF ApplySuccess, At
  <2>1. reservation' \in [Orders -> [Skus -> ReservationStatus \cup {"NONE"}]]
    BY <1>4, <2>0, SettleTyped DEF ApplySuccess, ReservationStatus
  <2>2. inventory' \in [Skus -> [onHand : Int, reserved : Int]]
    BY <1>4, <2>0, StockTyped DEF ApplySuccess
  <2>3. payment' \in [Orders -> PaymentIntent]
    BY <1>4, <2>0, PaymentTyped DEF ApplySuccess, PaymentStatus
  <2>4. /\ order' \in [Orders -> OrderStatus \cup {"NONE"}]
        /\ merchantOrder' \in [Orders -> OrderStatus \cup {"NONE"}]
        /\ cart' \subseteq Orders
    BY <1>4, <2>0 DEF ApplySuccess, TypeOK, OrderStatus
  <2>5. request' \in [Workers -> Request]
    BY <1>4, DoneTyped DEF ApplySuccess
  <2> QED
    BY <1>3, <1>4, <2>1, <2>2, <2>3, <2>4, <2>5 DEF ApplySuccess, TypeOK
<1>5. CASE RefuseSuccess(w)
  BY <1>5, DoneTyped DEF RefuseSuccess, UnchangedByPayment, TypeOK
<1>6. CASE ApplyFailure(w)
  <2>1. archive[e] \in PaymentEvent
    BY <1>6, OwnEvent DEF ApplyFailure, At
  <2>2. payment' \in [Orders -> PaymentIntent]
    <3>1. archive[e].order \in Orders /\ archive[e].status \in PaymentStatus
      BY <2>1 DEF PaymentEvent, EventStatus, PaymentStatus
    <3> QED
      BY <1>6, <3>1, PaymentTyped DEF ApplyFailure
  <2> QED
    BY <1>3, <1>6, <2>2, DoneTyped DEF ApplyFailure, UnchangedByPayment, TypeOK
<1> QED
  BY <1>1, <1>2, <1>4, <1>5, <1>6 DEF Webhook

LEMMA StepTyped == TypeOK /\ RequestsOwnTheirEvents /\ [Next]_vars => TypeOK'
<1> SUFFICES ASSUME TypeOK, RequestsOwnTheirEvents, [Next]_vars PROVE TypeOK'
  OBVIOUS
<1>1. CASE UNCHANGED vars
  BY <1>1 DEF vars, TypeOK
<1>2. ASSUME NEW w \in Workers, Crash(w) PROVE TypeOK'
  BY <1>2, DoneTyped DEF Crash, UnchangedByPayment, TypeOK
<1>3. ASSUME NEW s \in Skus, NEW delta \in Deltas, Adjust(s, delta) PROVE TypeOK'
  <2>1. /\ inventory[s] \in [onHand : Int, reserved : Int]
        /\ delta \in Int
    BY StockAssumption DEF TypeOK
  <2>2. clampInventoryAdjustment(delta, available(s)) \in Int
    BY <2>1 DEF clampInventoryAdjustment, available
  <2> QED
    BY <1>3, <2>1, <2>2 DEF Adjust, TypeOK
<1> QED
  BY <1>1, <1>2, <1>3, BuyingTyped, PayingTyped, WebhookTyped DEF Next

-----------------------------------------------------------------------------
(* Requests in flight *)

LEMMA OrdersStay ==
    ASSUME TypeOK, [Next]_vars, NEW o \in Orders, order[o] # "NONE"
    PROVE  order'[o] # "NONE"
<1>1. ASSUME NEW p \in Orders, Buying(p) PROVE order'[o] # "NONE"
  BY <1>1 DEF Buying, Create, Cancel, CloseExpiredOrder, ExpiryPasses, TypeOK
<1>2. ASSUME NEW w \in Workers, Paying(w) \/ Webhook(w) \/ Crash(w)
      PROVE  order'[o] # "NONE"
  BY <1>2 DEF Paying, StartRead, StartWrite, CloseRead, CloseWrite, Webhook, Archive,
     FindPayment, ApplySuccess, RefuseSuccess, ApplyFailure, Crash,
     UnchangedByPayment, TypeOK
<1>3. ASSUME NEW s \in Skus, NEW delta \in Deltas, Adjust(s, delta)
      PROVE  order'[o] # "NONE"
  BY <1>3 DEF Adjust
<1> QED
  BY <1>1, <1>2, <1>3 DEF Next, vars

(* One worker moves; the others keep what they own.                        *)
LEMMA OneWorkerMoves ==
    ASSUME RequestsOwnTheirEvents, NEW w \in Workers,
           \A o \in Orders : order[o] # "NONE" => order'[o] # "NONE",
           \A v \in Workers \ {w} : request'[v] = request[v],
           \A v \in Workers \ {w} : request[v].op = "webhook" =>
             archive'[request[v].event] = archive[request[v].event],
           request'[w].op # "none" =>
             request'[w].order \in Orders /\ order'[request'[w].order] # "NONE",
           request'[w].op = "webhook" =>
             /\ request'[w].event \in Events
             /\ archive'[request'[w].event].outcome = "OPEN"
             /\ archive'[request'[w].event].order = request'[w].order
             /\ request'[w].at = "write" => archive'[request'[w].event].agrees
             /\ \A v \in Workers \ {w} :
                  request[v].op = "webhook" => request[v].event # request'[w].event
    PROVE  RequestsOwnTheirEvents'
<1>1. \A v \in Workers \ {w} : request'[v].op # "none" =>
        request'[v].order \in Orders /\ order'[request'[v].order] # "NONE"
  BY DEF RequestsOwnTheirEvents
<1>2. \A v \in Workers \ {w} : request'[v].op = "webhook" =>
        /\ request'[v].event \in Events
        /\ archive'[request'[v].event].outcome = "OPEN"
        /\ archive'[request'[v].event].order = request'[v].order
        /\ request'[v].at = "write" => archive'[request'[v].event].agrees
  BY DEF RequestsOwnTheirEvents
<1>3. \A u, v \in Workers :
        /\ request'[u].op = "webhook" /\ request'[v].op = "webhook"
        /\ request'[u].event = request'[v].event
        => u = v
  <2> SUFFICES ASSUME NEW u \in Workers, NEW v \in Workers, u # v,
                      request'[u].op = "webhook", request'[v].op = "webhook",
                      request'[u].event = request'[v].event
               PROVE  FALSE
    OBVIOUS
  <2>1. CASE u = w
    BY <2>1
  <2>2. CASE v = w
    BY <2>2
  <2>3. CASE u # w /\ v # w
    BY <2>3 DEF RequestsOwnTheirEvents
  <2> QED
    BY <2>1, <2>2, <2>3
<1> QED
  BY <1>1, <1>2, <1>3 DEF RequestsOwnTheirEvents

(* A request that ends: only its own event may have been decided.          *)
LEMMA RequestEnds ==
    ASSUME TypeOK, RequestsOwnTheirEvents, [Next]_vars, NEW w \in Workers, Done(w),
           \/ archive' = archive
           \/ /\ request[w].op = "webhook"
              /\ \A e \in Events : e # request[w].event => archive'[e] = archive[e]
    PROVE  RequestsOwnTheirEvents'
<1>1. request'[w] = Idle /\ \A v \in Workers \ {w} : request'[v] = request[v]
  BY DEF Done, TypeOK
<1>2. \A v \in Workers \ {w} : request[v].op = "webhook" =>
        archive'[request[v].event] = archive[request[v].event]
  BY DEF RequestsOwnTheirEvents
<1>3. request'[w].op = "none"
  BY <1>1 DEF Idle
<1> QED
  BY <1>1, <1>2, <1>3, OrdersStay, OneWorkerMoves

LEMMA StepRequests ==
    ASSUME TypeOK, RequestsOwnTheirEvents, IntentsExist, [Next]_vars
    PROVE  RequestsOwnTheirEvents'
<1>0. \A o \in Orders : order[o] # "NONE" => order'[o] # "NONE"
  BY OrdersStay
<1>1. ASSUME UNCHANGED <<request, archive>> PROVE RequestsOwnTheirEvents'
  BY <1>0, <1>1 DEF RequestsOwnTheirEvents
<1>2. ASSUME NEW o \in Orders, Buying(o) PROVE UNCHANGED <<request, archive>>
  BY <1>2 DEF Buying, Create, Cancel, CloseExpiredOrder, ExpiryPasses
<1>3. ASSUME NEW s \in Skus, NEW delta \in Deltas, Adjust(s, delta)
      PROVE  UNCHANGED <<request, archive>>
  BY <1>3 DEF Adjust
<1>4. ASSUME NEW w \in Workers, Paying(w) PROVE RequestsOwnTheirEvents'
  <2>1. ASSUME NEW o \in Orders, StartRead(w, o) \/ CloseRead(w, o)
        PROVE  RequestsOwnTheirEvents'
    <3>1. /\ request'[w].op \in {"start", "close"} /\ request'[w].order = o
          /\ \A v \in Workers \ {w} : request'[v] = request[v]
          /\ archive' = archive /\ order' = order
      BY <2>1 DEF StartRead, CloseRead, UnchangedByPayment, TypeOK
    <3>2. order[o] # "NONE"
      BY <2>1 DEF StartRead, CloseRead, IntentsExist
    <3> QED
      BY <3>1, <3>2, OneWorkerMoves
  <2>2. CASE StartWrite(w) \/ CloseWrite(w)
    BY <2>2, RequestEnds DEF StartWrite, CloseWrite
  <2> QED
    BY <1>4, <2>1, <2>2 DEF Paying
<1>5. ASSUME NEW w \in Workers, Webhook(w) PROVE RequestsOwnTheirEvents'
  <2>1. ASSUME NEW e \in Events, NEW o \in Orders, NEW status \in EventStatus,
               NEW agrees \in BOOLEAN, Archive(w, e, o, status, agrees)
        PROVE  RequestsOwnTheirEvents'
    <3>1. /\ request'[w] = [op |-> "webhook", at |-> "find", order |-> o, event |-> e]
          /\ \A v \in Workers \ {w} : request'[v] = request[v]
          /\ archive'[e] = [order |-> o, status |-> status, agrees |-> agrees,
                            outcome |-> "OPEN"]
          /\ \A f \in Events : f # e => archive'[f] = archive[f]
          /\ order' = order
      BY <2>1 DEF Archive, UnchangedByPayment, TypeOK
    <3>2. order[o] # "NONE"
      BY <2>1 DEF Archive, IntentsExist
    <3>3. \A v \in Workers : request[v].op = "webhook" =>
            request[v].event \in Events /\ request[v].event # e
      <4>1. archive[e].outcome = "NONE"
        BY <2>1 DEF Archive, Fresh, NoRow
      <4> QED
        BY <4>1 DEF RequestsOwnTheirEvents
    <3> QED
      BY <3>1, <3>2, <3>3, OneWorkerMoves
  <2>2. CASE FindPayment(w)
    <3> DEFINE e == request[w].event
    <3>1. /\ request[w].op = "webhook"
          /\ e \in Events /\ archive[e] \in PaymentEvent
          /\ archive[e].order = request[w].order
      BY <2>2, OwnEvent DEF FindPayment, At
    <3>2. /\ archive'[e].outcome = Verdict(archive[e])
          /\ archive'[e].order = archive[e].order
          /\ archive'[e].agrees = archive[e].agrees
          /\ \A f \in Events : f # e => archive'[f] = archive[f]
          /\ order' = order
      BY <2>2, <3>1 DEF FindPayment, UnchangedByPayment, TypeOK, PaymentEvent
    <3>3. CASE Verdict(archive[e]) = "OPEN"
      <4>1. archive[e].agrees
        BY <3>1, <3>3 DEF Verdict, PaymentEvent
      <4>2. /\ request'[w] = [request[w] EXCEPT !.at = "write"]
            /\ \A v \in Workers \ {w} : request'[v] = request[v]
        BY <2>2, <3>3 DEF FindPayment, TypeOK
      <4>3. /\ request'[w].op = "webhook" /\ request'[w].event = e
            /\ request'[w].order = request[w].order
        BY <3>1, <4>2 DEF TypeOK, Request
      <4>4. \A v \in Workers \ {w} : request[v].op = "webhook" =>
              request[v].event \in Events /\ request[v].event # e
        BY <3>1 DEF RequestsOwnTheirEvents
      <4>5. request[w].order \in Orders /\ order[request[w].order] # "NONE"
        BY <3>1 DEF RequestsOwnTheirEvents
      <4>6. \A v \in Workers \ {w} : request[v].op = "webhook" =>
              archive'[request[v].event] = archive[request[v].event]
        BY <3>2, <4>4
      <4>7. /\ archive'[request'[w].event].outcome = "OPEN"
            /\ archive'[request'[w].event].order = request'[w].order
            /\ archive'[request'[w].event].agrees
        BY <3>1, <3>2, <3>3, <4>1, <4>3
      <4>8. /\ request'[w].order \in Orders /\ order'[request'[w].order] # "NONE"
            /\ request'[w].event \in Events
        BY <3>1, <3>2, <4>3, <4>5
      <4>9. \A v \in Workers \ {w} :
              request[v].op = "webhook" => request[v].event # request'[w].event
        BY <4>3, <4>4
      <4> QED
        BY <1>0, <4>2, <4>6, <4>7, <4>8, <4>9, OneWorkerMoves
    <3>4. CASE Verdict(archive[e]) # "OPEN"
      BY <2>2, <3>1, <3>2, <3>4, RequestEnds DEF FindPayment
    <3> QED
      BY <3>3, <3>4
  <2>3. CASE ApplySuccess(w) \/ ApplyFailure(w)
    <3>1. /\ request[w].op = "webhook"
          /\ \A f \in Events : f # request[w].event => archive'[f] = archive[f]
          /\ Done(w)
      BY <2>3 DEF ApplySuccess, ApplyFailure, At, TypeOK
    <3> QED
      BY <3>1, RequestEnds
  <2>4. CASE RefuseSuccess(w)
    BY <2>4, RequestEnds DEF RefuseSuccess
  <2> QED
    BY <1>5, <2>1, <2>2, <2>3, <2>4 DEF Webhook
<1>6. ASSUME NEW w \in Workers, Crash(w) PROVE RequestsOwnTheirEvents'
  BY <1>6, RequestEnds DEF Crash
<1> QED
  BY <1>1, <1>2, <1>3, <1>4, <1>5, <1>6 DEF Next, vars

-----------------------------------------------------------------------------
(* The rows of an order agree *)

Agreement ==
    /\ IntentsExist
    /\ CartFollowsPayment
    /\ ItemsFollowOrder
    /\ ChildrenFollowOrder
    /\ CouponHeldOnce
    /\ SucceededIsPaid

LEMMA CancelFrom ==
    ASSUME NEW from \in {"PENDING_PAYMENT", "PAID", "CANCELLED", "CLOSED"},
           canApplyOrderTransition(from, "CANCELLED")
    PROVE  from \in {"PENDING_PAYMENT", "PAID"}
<1>1. from # "CANCELLED" /\ from # "CLOSED"
  BY DEF canApplyOrderTransition, transitions
<1> QED
  BY <1>1

LEMMA InitAgreement == Init => Agreement
<1> SUFFICES ASSUME Init PROVE Agreement
  OBVIOUS
<1>1. CouponHeldOnce
  BY CouponAssumption DEF Init, CouponHeldOnce
<1>2. ItemsFollowOrder
  BY DEF Init, ItemsFollowOrder, ExpectedReservation, SkusOf
<1> QED
  BY <1>1, <1>2 DEF Init, Agreement, IntentsExist, CartFollowsPayment,
     ChildrenFollowOrder, SucceededIsPaid, NoPayment

LEMMA CreateAgreement ==
    ASSUME TypeOK, Agreement, NEW o \in Orders, Create(o)
    PROVE  Agreement'
<1>1. /\ order[o] = "NONE" /\ order'[o] = "PENDING_PAYMENT"
      /\ \A p \in Orders \ {o} : order'[p] = order[p]
      /\ merchantOrder'[o] = "PENDING_PAYMENT"
      /\ \A p \in Orders \ {o} : merchantOrder'[p] = merchantOrder[p]
      /\ payment'[o].status = "PENDING"
      /\ \A p \in Orders \ {o} : payment'[p] = payment[p]
      /\ cart' = cart /\ issued' = issued
      /\ o \in CouponOrders => redeemed = {}
      /\ redeemed' = IF o \in CouponOrders THEN redeemed \cup {o} ELSE redeemed
  BY DEF Create, TypeOK
<1>2. IntentsExist'
  BY <1>1 DEF Agreement, IntentsExist
<1>3. CartFollowsPayment'
  BY <1>1 DEF Agreement, CartFollowsPayment
<1>4. ItemsFollowOrder'
  <2> SUFFICES ASSUME NEW p \in Orders, NEW s \in SkusOf(p)
               PROVE  reservation'[p][s] = ExpectedReservation(p)'
    BY DEF ItemsFollowOrder, SkusOf
  <2>1. s \in Skus
    BY DEF SkusOf
  <2>2. CASE p = o
    BY <1>1, <2>1, <2>2, CreateItem DEF ExpectedReservation
  <2>3. CASE p # o
    BY <1>1, <2>1, <2>3, CreateItem DEF Agreement, ItemsFollowOrder, ExpectedReservation
  <2> QED
    BY <2>2, <2>3
<1>5. ChildrenFollowOrder'
  BY DEF Create, Agreement, ChildrenFollowOrder
<1>6. CouponHeldOnce'
  BY <1>1, CouponAssumption DEF Agreement, CouponHeldOnce
<1>7. SucceededIsPaid'
  BY <1>1 DEF Agreement, SucceededIsPaid
<1> QED
  BY <1>2, <1>3, <1>4, <1>5, <1>6, <1>7 DEF Agreement

(* An order is decided: cancelled, closed or paid.  What the deciding      *)
(* transaction wrote is what the new status asks for.                      *)
LEMMA DecisionAgreement ==
    ASSUME TypeOK, Agreement, NEW o \in Orders, NEW status \in OrderStatus,
           NEW final \in ReservationStatus, Settle(o, final),
           order' = [order EXCEPT ![o] = status],
           merchantOrder' = [merchantOrder EXCEPT ![o] = status],
           \A p \in Orders \ {o} : payment'[p] = payment[p],
           payment'[o].status # "NONE",
           payment'[o].status = "SUCCEEDED" => status = "PAID",
           order[o] # "NONE", issued' = issued,
           \A p \in Orders \ {o} : p \in cart' <=> p \in cart,
           \/ /\ order[o] = "PENDING_PAYMENT" /\ status = "CANCELLED"
              /\ final = "RELEASED" /\ o \in cart' /\ redeemed' = redeemed \ {o}
           \/ /\ order[o] = "PENDING_PAYMENT" /\ status = "CLOSED"
              /\ final = "EXPIRED" /\ o \in cart' /\ redeemed' = redeemed \ {o}
           \/ /\ order[o] = "PENDING_PAYMENT" /\ status = "PAID"
              /\ final = "COMMITTED" /\ o \notin cart' /\ redeemed' = redeemed
           \/ /\ order[o] = "PAID" /\ status = "CANCELLED"
              /\ o \notin cart' /\ redeemed' = redeemed
    PROVE  Agreement'
<1>1. /\ order'[o] = status
      /\ \A p \in Orders \ {o} : order'[p] = order[p]
  BY DEF TypeOK
<1>2. status # "NONE" /\ status \in {"PAID", "CANCELLED", "CLOSED"}
  OBVIOUS
<1>3. IntentsExist'
  BY <1>1, <1>2 DEF Agreement, IntentsExist
<1>4. CartFollowsPayment'
  BY <1>1, <1>2 DEF Agreement, CartFollowsPayment
<1>5. ItemsFollowOrder'
  <2> SUFFICES ASSUME NEW p \in Orders, NEW s \in SkusOf(p)
               PROVE  reservation'[p][s] = ExpectedReservation(p)'
    BY DEF ItemsFollowOrder, SkusOf
  <2>1. s \in Skus
    BY DEF SkusOf
  <2>2. reservation[p][s] = ExpectedReservation(p)
    BY DEF Agreement, ItemsFollowOrder
  <2>3. reservation'[p][s] = IF p = o /\ s \in Active(o) THEN final
                                                         ELSE reservation[p][s]
    BY <2>1, SettleItem
  <2>4. CASE p # o
    BY <1>1, <2>2, <2>3, <2>4 DEF ExpectedReservation
  <2>5. CASE p = o /\ order[o] = "PENDING_PAYMENT"
    <3>1. s \in Active(o)
      BY <2>2, <2>5 DEF ExpectedReservation, Active
    <3> QED
      BY <1>1, <2>3, <2>5, <3>1 DEF ExpectedReservation
  <2>6. CASE p = o /\ order[o] = "PAID"
    <3>1. s \notin Active(o)
      BY <2>2, <2>6 DEF ExpectedReservation, Active
    <3> QED
      BY <1>1, <2>2, <2>3, <2>6, <3>1 DEF ExpectedReservation
  <2> QED
    BY <2>4, <2>5, <2>6
<1>6. ChildrenFollowOrder'
  BY DEF Agreement, ChildrenFollowOrder
<1>7. CouponHeldOnce'
  <2>1. redeemed' \subseteq redeemed
    OBVIOUS
  <2>2. \A p \in CouponOrders :
          p \in redeemed' <=>
            \/ order'[p] \in {"PENDING_PAYMENT", "PAID"}
            \/ order'[p] = "CANCELLED" /\ p \notin cart'
    <3> SUFFICES ASSUME NEW p \in CouponOrders
                 PROVE  p \in redeemed' <=>
                          \/ order'[p] \in {"PENDING_PAYMENT", "PAID"}
                          \/ order'[p] = "CANCELLED" /\ p \notin cart'
      OBVIOUS
    <3>1. p \in Orders
      BY CouponAssumption
    <3>2. /\ p \in redeemed <=> \/ order[p] \in {"PENDING_PAYMENT", "PAID"}
                                \/ order[p] = "CANCELLED" /\ p \notin cart
          /\ order[p] = "PAID" => p \notin cart
      BY <3>1 DEF Agreement, CouponHeldOnce, CartFollowsPayment
    <3>3. CASE p # o
      <4>1. p \in redeemed' <=> p \in redeemed
        BY <3>3
      <4> QED
        BY <1>1, <3>1, <3>2, <3>3, <4>1
    <3>4. CASE p = o
      <4>1. CASE order[o] = "PENDING_PAYMENT"
        BY <1>1, <3>2, <3>4, <4>1
      <4>2. CASE order[o] = "PAID"
        BY <1>1, <3>2, <3>4, <4>2
      <4> QED
        BY <4>1, <4>2
    <3> QED
      BY <3>3, <3>4
  <2>3. redeemed' \subseteq CouponOrders
    BY <2>1 DEF Agreement, CouponHeldOnce
  <2>4. redeemed' = {p \in CouponOrders :
                       \/ order'[p] \in {"PENDING_PAYMENT", "PAID"}
                       \/ order'[p] = "CANCELLED" /\ p \notin cart'}
    BY <2>2, <2>3
  <2>5. \A p, q \in redeemed' : p = q
    BY <2>1 DEF Agreement, CouponHeldOnce
  <2> QED
    BY <2>4, <2>5 DEF CouponHeldOnce
<1>8. SucceededIsPaid'
  BY <1>1 DEF Agreement, SucceededIsPaid
<1> QED
  BY <1>3, <1>4, <1>5, <1>6, <1>7, <1>8 DEF Agreement

LEMMA CancelAgreement ==
    ASSUME TypeOK, Agreement, NEW o \in Orders, Cancel(o)
    PROVE  Agreement'
<1>1. /\ Settle(o, "RELEASED") /\ "RELEASED" \in ReservationStatus
      /\ order' = [order EXCEPT ![o] = "CANCELLED"] /\ "CANCELLED" \in OrderStatus
      /\ merchantOrder' = [merchantOrder EXCEPT ![o] = "CANCELLED"]
      /\ \A p \in Orders \ {o} : payment'[p] = payment[p]
      /\ payment'[o].status = "CANCELLED"
      /\ order[o] # "NONE" /\ issued' = issued /\ cart' = cart
  BY DEF Cancel, TypeOK, ReservationStatus, OrderStatus, PaymentIntent
<1>2. order[o] \in {"PENDING_PAYMENT", "PAID"}
  <2>1. order[o] \in {"PENDING_PAYMENT", "PAID", "CANCELLED", "CLOSED"}
    BY <1>1 DEF Agreement, CartFollowsPayment
  <2> QED
    BY <2>1, CancelFrom DEF Cancel
<1>3. CASE order[o] = "PENDING_PAYMENT"
  <2>1. redeemed' = redeemed \ {o} /\ o \in cart
    BY <1>3 DEF Cancel, shouldReleaseCouponReservation, Agreement, CartFollowsPayment
  <2> QED
    BY <1>1, <1>3, <2>1, DecisionAgreement
<1>4. CASE order[o] = "PAID"
  <2>1. redeemed' = redeemed /\ o \notin cart
    BY <1>4 DEF Cancel, shouldReleaseCouponReservation, Agreement, CartFollowsPayment
  <2> QED
    BY <1>1, <1>4, <2>1, DecisionAgreement
<1> QED
  BY <1>2, <1>3, <1>4

LEMMA CloseAgreement ==
    ASSUME TypeOK, Agreement, NEW o \in Orders, CloseExpiredOrder(o)
    PROVE  Agreement'
<1>1. /\ Settle(o, "EXPIRED") /\ "EXPIRED" \in ReservationStatus
      /\ order' = [order EXCEPT ![o] = "CLOSED"] /\ "CLOSED" \in OrderStatus
      /\ order[o] = "PENDING_PAYMENT"
      /\ \A p \in Orders \ {o} : payment'[p] = payment[p]
      /\ issued' = issued /\ cart' = cart
  BY DEF CloseExpiredOrder, shouldCloseExpiredOrder, TypeOK, ReservationStatus, OrderStatus
<1>2. payment[o].status # "SUCCEEDED"
  BY <1>1 DEF Agreement, SucceededIsPaid
<1>3. payment'[o].status = "CANCELLED"
  BY <1>2 DEF CloseExpiredOrder, TypeOK, PaymentIntent
<1>4. merchantOrder' = [merchantOrder EXCEPT ![o] = "CLOSED"]
  BY <1>1 DEF CloseExpiredOrder, Agreement, ChildrenFollowOrder
<1>5. redeemed' = redeemed \ {o} /\ o \in cart
  BY <1>1 DEF CloseExpiredOrder, shouldReleaseCouponReservation, Agreement,
     CartFollowsPayment
<1> QED
  BY <1>1, <1>3, <1>4, <1>5, DecisionAgreement

LEMMA SuccessAgreement ==
    ASSUME TypeOK, RequestsOwnTheirEvents, Agreement, NEW w \in Workers, ApplySuccess(w)
    PROVE  Agreement'
<1> DEFINE o == request[w].order
<1>0. o \in Orders
  BY OwnEvent DEF ApplySuccess, At
<1>1. /\ Settle(o, "COMMITTED") /\ "COMMITTED" \in ReservationStatus
      /\ order' = [order EXCEPT ![o] = "PAID"] /\ "PAID" \in OrderStatus
      /\ merchantOrder' = [merchantOrder EXCEPT ![o] = "PAID"]
      /\ order[o] = "PENDING_PAYMENT"
      /\ \A p \in Orders \ {o} : payment'[p] = payment[p]
      /\ issued' = issued /\ cart' = cart \ {o} /\ redeemed' = redeemed
  BY <1>0 DEF ApplySuccess, Payable, TypeOK, ReservationStatus, OrderStatus
<1>2. payment'[o].status = "SUCCEEDED"
  BY <1>0 DEF ApplySuccess, TypeOK, PaymentIntent
<1> QED
  BY <1>0, <1>1, <1>2, DecisionAgreement

(* A step that decides no order may still write its intent: as anything    *)
(* but SUCCEEDED, and only of an order that exists.                        *)
LEMMA IntentAgreement ==
    ASSUME Agreement, UnchangedByPayment, NEW o \in Orders, order[o] # "NONE",
           \A p \in Orders : p \in issued' => p \in issued \/ p = o,
           \A p \in Orders : payment'[p] = payment[p]
             \/ (p = o /\ payment'[p].status \notin {"NONE", "SUCCEEDED"})
    PROVE  Agreement'
<1>1. UNCHANGED <<order, merchantOrder, reservation, redeemed, cart>>
  BY DEF UnchangedByPayment
<1>2. IntentsExist'
  BY <1>1 DEF Agreement, IntentsExist
<1>3. SucceededIsPaid'
  BY <1>1 DEF Agreement, SucceededIsPaid
<1>4. CartFollowsPayment'
  BY <1>1 DEF Agreement, CartFollowsPayment
<1>5. ItemsFollowOrder'
  BY <1>1 DEF Agreement, ItemsFollowOrder, ExpectedReservation
<1>6. ChildrenFollowOrder' /\ CouponHeldOnce'
  BY <1>1 DEF Agreement, ChildrenFollowOrder, CouponHeldOnce
<1> QED
  BY <1>2, <1>3, <1>4, <1>5, <1>6 DEF Agreement

LEMMA StatusWritten ==
    ASSUME TypeOK, NEW o \in Orders, NEW status,
           payment' = [payment EXCEPT ![o].status = status]
    PROVE  /\ \A p \in Orders \ {o} : payment'[p] = payment[p]
           /\ payment'[o].status = status
<1>1. payment \in [Orders -> PaymentIntent]
  BY DEF TypeOK
<1>2. payment[o] \in PaymentIntent
  BY <1>1
<1>3. payment'[o] = [payment[o] EXCEPT !.status = status]
  BY <1>1
<1> QED
  BY <1>1, <1>2, <1>3 DEF PaymentIntent

LEMMA UnmovedAgreement ==
    ASSUME Agreement,
           UNCHANGED <<order, merchantOrder, reservation, redeemed, cart, payment, issued>>
    PROVE  Agreement'
BY DEF Agreement, IntentsExist, SucceededIsPaid, CartFollowsPayment, ItemsFollowOrder,
   ExpectedReservation, ChildrenFollowOrder, CouponHeldOnce

LEMMA StepAgreement ==
    ASSUME TypeOK, RequestsOwnTheirEvents, Agreement, [Next]_vars
    PROVE  Agreement'
<1>1. ASSUME NEW o \in Orders, Buying(o) PROVE Agreement'
  <2>1. CASE ExpiryPasses(o)
    BY <2>1, UnmovedAgreement DEF ExpiryPasses
  <2> QED
    BY <1>1, <2>1, CreateAgreement, CancelAgreement, CloseAgreement DEF Buying
<1>2. ASSUME NEW s \in Skus, NEW delta \in Deltas, Adjust(s, delta) PROVE Agreement'
  BY <1>2, UnmovedAgreement DEF Adjust
<1>3. ASSUME NEW w \in Workers, Paying(w) PROVE Agreement'
  <2>1. ASSUME NEW o \in Orders, StartRead(w, o) PROVE Agreement'
    <3>1. order[o] # "NONE"
      BY <2>1 DEF StartRead, Agreement, IntentsExist
    <3>2. /\ payment' = payment /\ UnchangedByPayment
          /\ \A p \in Orders : p \in issued' => p \in issued \/ p = o
      BY <2>1 DEF StartRead
    <3> QED
      BY <3>1, <3>2, IntentAgreement
  <2>2. ASSUME NEW o \in Orders, CloseRead(w, o) PROVE Agreement'
    BY <2>2, UnmovedAgreement DEF CloseRead, UnchangedByPayment
  <2>3. CASE StartWrite(w) \/ CloseWrite(w)
    <3> DEFINE o == request[w].order
    <3>1. o \in Orders /\ order[o] # "NONE"
      BY <2>3 DEF StartWrite, CloseWrite, At, RequestsOwnTheirEvents
    <3>2. /\ issued' = issued /\ UnchangedByPayment
          /\ \A p \in Orders \ {o} : payment'[p] = payment[p]
      BY <2>3, <3>1 DEF StartWrite, CloseWrite, TypeOK
    <3>3. payment'[o].status \notin {"NONE", "SUCCEEDED"}
      <4>1. CASE StartWrite(w)
        BY <3>1, <4>1 DEF StartWrite, TypeOK
      <4>2. CASE CloseWrite(w)
        BY <3>1, <4>2 DEF CloseWrite, TypeOK, PaymentIntent
      <4> QED
        BY <2>3, <4>1, <4>2
    <3> QED
      BY <3>1, <3>2, <3>3, IntentAgreement
  <2> QED
    BY <1>3, <2>1, <2>2, <2>3 DEF Paying
<1>4. ASSUME NEW w \in Workers, Webhook(w) PROVE Agreement'
  <2>1. ASSUME NEW e \in Events, NEW o \in Orders, NEW status \in EventStatus,
               NEW agrees \in BOOLEAN, Archive(w, e, o, status, agrees)
        PROVE  Agreement'
    BY <2>1, UnmovedAgreement DEF Archive, UnchangedByPayment
  <2>2. CASE FindPayment(w) \/ RefuseSuccess(w)
    BY <2>2, UnmovedAgreement DEF FindPayment, RefuseSuccess, UnchangedByPayment
  <2>3. CASE ApplyFailure(w)
    <3> DEFINE event == archive[request[w].event]
    <3>1. /\ event \in PaymentEvent /\ event.order = request[w].order
          /\ request[w].op = "webhook"
      BY <2>3, OwnEvent DEF ApplyFailure, At
    <3>2. event.order \in Orders /\ order[event.order] # "NONE"
      BY <3>1 DEF RequestsOwnTheirEvents
    <3>3. event.status \in {"FAILED", "CANCELLED"}
      BY <2>3, <3>1 DEF ApplyFailure, PaymentEvent, EventStatus
    <3>4. /\ issued' = issued /\ UnchangedByPayment
          /\ payment' = [payment EXCEPT ![event.order].status = event.status]
      BY <2>3 DEF ApplyFailure
    <3>5. /\ \A p \in Orders \ {event.order} : payment'[p] = payment[p]
          /\ payment'[event.order].status = event.status
      <4> HIDE DEF event
      <4> QED
        BY <3>2, <3>4, StatusWritten
    <3> QED
      BY <3>2, <3>3, <3>4, <3>5, IntentAgreement
  <2> QED
    BY <1>4, <2>1, <2>2, <2>3, SuccessAgreement DEF Webhook
<1>5. ASSUME NEW w \in Workers, Crash(w) PROVE Agreement'
  BY <1>5, UnmovedAgreement DEF Crash, UnchangedByPayment
<1>6. CASE UNCHANGED vars
  BY <1>6, UnmovedAgreement DEF vars
<1> QED
  BY <1>1, <1>2, <1>3, <1>4, <1>5, <1>6 DEF Next

-----------------------------------------------------------------------------
(* Paid once, by one event *)

IsSuccess(row, o) ==
    row.outcome = "APPLIED" /\ row.order = o /\ row.status = "SUCCEEDED"

LEMMA SuccessesKept ==
    ASSUME NEW o \in Orders,
           \A e \in Events : IsSuccess(archive'[e], o) <=> IsSuccess(archive[e], o)
    PROVE  Successes(o)' = Successes(o)
BY DEF Successes, IsSuccess

(* Nothing new is applied: every order is paid by the event that paid it.  *)
LEMMA NoNewSuccess ==
    ASSUME PaidByOneEvent, cart' = cart,
           \A o \in Orders, e \in Events :
             /\ IsSuccess(archive'[e], o) <=> IsSuccess(archive[e], o)
             /\ IsSuccess(archive[e], o) => archive'[e].agrees = archive[e].agrees
    PROVE  PaidByOneEvent'
<1> SUFFICES ASSUME NEW o \in Orders
             PROVE  IF o \in cart THEN Successes(o)' = {}
                    ELSE \E e \in Events : Successes(o)' = {e} /\ archive'[e].agrees
  BY DEF PaidByOneEvent
<1>1. Successes(o)' = Successes(o)
  BY SuccessesKept
<1>2. CASE o \in cart
  BY <1>1, <1>2 DEF PaidByOneEvent
<1>3. CASE o \notin cart
  <2> PICK e \in Events : Successes(o) = {e} /\ archive[e].agrees
    BY <1>3 DEF PaidByOneEvent
  <2>1. IsSuccess(archive[e], o)
    BY DEF Successes, IsSuccess
  <2>2. archive'[e].agrees
    BY <2>1
  <2> QED
    BY <1>1, <1>3, <2>2
<1> QED
  BY <1>2, <1>3

LEMMA SuccessPays ==
    ASSUME TypeOK, RequestsOwnTheirEvents, Agreement, PaidByOneEvent,
           NEW w \in Workers, ApplySuccess(w)
    PROVE  PaidByOneEvent'
<1> DEFINE e == request[w].event
           o == request[w].order
<1>1. /\ e \in Events /\ archive[e] \in PaymentEvent
      /\ o \in Orders /\ archive[e].order = o
      /\ archive[e].outcome = "OPEN" /\ archive[e].agrees
  <2>1. request[w].op = "webhook" /\ request[w].at = "write"
    BY DEF ApplySuccess, At
  <2> QED
    BY <2>1, OwnEvent DEF RequestsOwnTheirEvents
<1>2. /\ archive'[e].outcome = "APPLIED" /\ archive'[e].order = o
      /\ archive'[e].status = "SUCCEEDED" /\ archive'[e].agrees
      /\ \A f \in Events \ {e} : archive'[f] = archive[f]
      /\ cart' = cart \ {o}
  BY <1>1 DEF ApplySuccess, TypeOK, PaymentEvent
<1>3. o \in cart
  BY <1>1 DEF ApplySuccess, Payable, Agreement, CartFollowsPayment
<1> HIDE DEF e, o
<1> SUFFICES ASSUME NEW p \in Orders
             PROVE  IF p \in cart' THEN Successes(p)' = {}
                    ELSE \E f \in Events : Successes(p)' = {f} /\ archive'[f].agrees
  BY DEF PaidByOneEvent
<1>4. CASE p = o
  <2>1. Successes(p) = {}
    BY <1>3, <1>4 DEF PaidByOneEvent
  <2>2. \A f \in Events : ~IsSuccess(archive[f], p)
    BY <2>1 DEF Successes, IsSuccess
  <2>3. \A f \in Events : IsSuccess(archive'[f], p) <=> f = e
    <3>1. IsSuccess(archive'[e], p)
      BY <1>2, <1>4 DEF IsSuccess
    <3>2. \A f \in Events \ {e} : ~IsSuccess(archive'[f], p)
      BY <1>2, <2>2
    <3> QED
      BY <3>1, <3>2
  <2>4. Successes(p)' = {e}
    BY <1>1, <2>3 DEF Successes, IsSuccess
  <2>5. p \notin cart'
    BY <1>2, <1>4
  <2>6. archive'[e].agrees
    BY <1>2
  <2> QED
    BY <1>1, <2>4, <2>5, <2>6
<1>5. CASE p # o
  <2>1. Successes(p)' = Successes(p)
    <3>1. \A f \in Events : IsSuccess(archive'[f], p) <=> IsSuccess(archive[f], p)
      BY <1>1, <1>2, <1>5 DEF IsSuccess
    <3> QED
      BY <3>1, SuccessesKept
  <2>2. p \in cart' <=> p \in cart
    BY <1>2, <1>5
  <2>3. CASE p \in cart
    BY <2>1, <2>2, <2>3 DEF PaidByOneEvent
  <2>4. CASE p \notin cart
    <3> PICK f \in Events : Successes(p) = {f} /\ archive[f].agrees
      BY <2>4 DEF PaidByOneEvent
    <3>1. f # e
      BY <1>1 DEF Successes
    <3> QED
      BY <1>2, <2>1, <2>2, <2>4, <3>1
  <2> QED
    BY <2>3, <2>4
<1> QED
  BY <1>4, <1>5

LEMMA StepPaid ==
    ASSUME TypeOK, RequestsOwnTheirEvents, Agreement, PaidByOneEvent, [Next]_vars
    PROVE  PaidByOneEvent'
<1>1. ASSUME UNCHANGED <<archive, cart>> PROVE PaidByOneEvent'
  BY <1>1, NoNewSuccess
<1>2. ASSUME NEW o \in Orders, Buying(o) PROVE UNCHANGED <<archive, cart>>
  BY <1>2 DEF Buying, Create, Cancel, CloseExpiredOrder, ExpiryPasses
<1>3. ASSUME NEW w \in Workers, Paying(w) \/ Crash(w) PROVE UNCHANGED <<archive, cart>>
  BY <1>3 DEF Paying, StartRead, StartWrite, CloseRead, CloseWrite, Crash,
     UnchangedByPayment
<1>4. ASSUME NEW s \in Skus, NEW delta \in Deltas, Adjust(s, delta)
      PROVE  UNCHANGED <<archive, cart>>
  BY <1>4 DEF Adjust
<1>5. ASSUME NEW w \in Workers, Webhook(w) PROVE PaidByOneEvent'
  <2> DEFINE e == request[w].event
  <2>1. ASSUME NEW f \in Events, NEW o \in Orders, NEW status \in EventStatus,
               NEW agrees \in BOOLEAN, Archive(w, f, o, status, agrees)
        PROVE  PaidByOneEvent'
    <3>1. /\ archive[f].outcome = "NONE" /\ archive'[f].outcome = "OPEN"
          /\ \A g \in Events \ {f} : archive'[g] = archive[g]
          /\ cart' = cart
      BY <2>1 DEF Archive, Fresh, NoRow, UnchangedByPayment, TypeOK
    <3> QED
      BY <3>1, NoNewSuccess DEF IsSuccess
  <2>2. CASE FindPayment(w)
    <3>1. e \in Events /\ archive[e] \in PaymentEvent /\ archive[e].outcome = "OPEN"
      BY <2>2, OwnEvent DEF FindPayment, At
    <3>2. Verdict(archive[e]) # "APPLIED"
      BY DEF Verdict
    <3>3. /\ archive'[e].outcome # "APPLIED"
          /\ \A g \in Events \ {e} : archive'[g] = archive[g]
          /\ cart' = cart
      BY <2>2, <3>1, <3>2 DEF FindPayment, UnchangedByPayment, TypeOK, PaymentEvent
    <3> QED
      BY <3>1, <3>3, NoNewSuccess DEF IsSuccess
  <2>3. CASE RefuseSuccess(w)
    BY <1>1, <2>3 DEF RefuseSuccess, UnchangedByPayment
  <2>4. CASE ApplyFailure(w)
    <3>1. e \in Events /\ archive[e] \in PaymentEvent /\ archive[e].outcome = "OPEN"
      BY <2>4, OwnEvent DEF ApplyFailure, At
    <3>2. /\ archive'[e].status # "SUCCEEDED"
          /\ \A g \in Events \ {e} : archive'[g] = archive[g]
          /\ cart' = cart
      BY <2>4, <3>1 DEF ApplyFailure, UnchangedByPayment, TypeOK, PaymentEvent
    <3> QED
      BY <3>1, <3>2, NoNewSuccess DEF IsSuccess
  <2> QED
    BY <1>5, <2>1, <2>2, <2>3, <2>4, SuccessPays DEF Webhook
<1> QED
  BY <1>1, <1>2, <1>3, <1>4, <1>5 DEF Next, vars

-----------------------------------------------------------------------------
(* The counter of reserved units, SKU by SKU *)

Counted(s) ==
    /\ IsFiniteSet(HeldUnits(s))
    /\ inventory[s].reserved = Cardinality(HeldUnits(s))
    /\ inventory[s].reserved <= inventory[s].onHand

IsActive(p, s) == reservation[p][s] = "ACTIVE"

LEMMA HeldSame ==
    ASSUME NEW s \in Skus, Counted(s), inventory'[s].reserved = inventory[s].reserved,
           inventory'[s].reserved <= inventory'[s].onHand,
           \A p \in Orders : IsActive(p, s)' <=> IsActive(p, s)
    PROVE  Counted(s)'
<1>1. HeldUnits(s)' = HeldUnits(s)
  BY DEF HeldUnits, IsActive
<1> QED
  BY <1>1 DEF Counted

(* An order takes its units of a SKU: the counter grows by their number.   *)
LEMMA HeldTaken ==
    ASSUME NEW s \in Skus, NEW o \in Orders, Counted(s),
           ~IsActive(o, s), IsActive(o, s)',
           \A p \in Orders \ {o} : IsActive(p, s)' <=> IsActive(p, s),
           inventory'[s].reserved = inventory[s].reserved + Quantity[o][s],
           inventory'[s].reserved <= inventory'[s].onHand
    PROVE  Counted(s)'
<1> DEFINE q == Quantity[o][s]
<1>1. q \in Nat /\ q <= MaxQuantity /\ MaxQuantity \in Nat
  BY QuantityTyped, QuantityAssumption
<1>2. HeldUnits(s)' = HeldUnits(s) \cup UnitsOf(o, q)
  <2>1. \A p \in Orders, k \in 1..MaxQuantity :
          <<p, k>> \in HeldUnits(s)' <=> <<p, k>> \in HeldUnits(s) \cup UnitsOf(o, q)
    BY <1>1 DEF HeldUnits, IsActive, UnitsOf
  <2>2. HeldUnits(s)' \subseteq Orders \X (1..MaxQuantity)
    BY DEF HeldUnits
  <2>3. HeldUnits(s) \cup UnitsOf(o, q) \subseteq Orders \X (1..MaxQuantity)
    BY <1>1 DEF HeldUnits, UnitsOf
  <2> QED
    BY <2>1, <2>2, <2>3
<1>3. \A k \in 1..q : <<o, k>> \notin HeldUnits(s)
  BY DEF HeldUnits, IsActive
<1>4. /\ IsFiniteSet(HeldUnits(s)')
      /\ Cardinality(HeldUnits(s)') = Cardinality(HeldUnits(s)) + q
  BY <1>1, <1>2, <1>3, UnitsJoin DEF Counted
<1> QED
  BY <1>4 DEF Counted

(* It gives them back or sells them: the counter shrinks by their number.  *)
LEMMA HeldGiven ==
    ASSUME NEW s \in Skus, NEW o \in Orders, Counted(s),
           IsActive(o, s), ~IsActive(o, s)',
           \A p \in Orders \ {o} : IsActive(p, s)' <=> IsActive(p, s),
           inventory'[s].reserved = inventory[s].reserved - Quantity[o][s],
           inventory'[s].reserved <= inventory'[s].onHand
    PROVE  Counted(s)'
<1> DEFINE q == Quantity[o][s]
<1>1. q \in Nat /\ q <= MaxQuantity /\ MaxQuantity \in Nat
  BY QuantityTyped, QuantityAssumption
<1>2. HeldUnits(s) = HeldUnits(s)' \cup UnitsOf(o, q)
  <2>1. \A p \in Orders, k \in 1..MaxQuantity :
          <<p, k>> \in HeldUnits(s) <=> <<p, k>> \in HeldUnits(s)' \cup UnitsOf(o, q)
    BY <1>1 DEF HeldUnits, IsActive, UnitsOf
  <2>2. HeldUnits(s) \subseteq Orders \X (1..MaxQuantity)
    BY DEF HeldUnits
  <2>3. HeldUnits(s)' \cup UnitsOf(o, q) \subseteq Orders \X (1..MaxQuantity)
    BY <1>1 DEF HeldUnits, UnitsOf
  <2> QED
    BY <2>1, <2>2, <2>3
<1>3. \A k \in 1..q : <<o, k>> \notin HeldUnits(s)'
  BY DEF HeldUnits, IsActive
<1>4. /\ IsFiniteSet(HeldUnits(s)')
      /\ Cardinality(HeldUnits(s)') = Cardinality(HeldUnits(s)) - q
  BY <1>1, <1>2, <1>3, UnitsLeave DEF Counted
<1> QED
  BY <1>4 DEF Counted

LEMMA CreateCounted ==
    ASSUME TypeOK, Agreement, NEW o \in Orders, Create(o), NEW s \in Skus, Counted(s)
    PROVE  Counted(s)'
<1>1. /\ inventory[s] \in [onHand : Int, reserved : Int]
      /\ Quantity[o][s] \in Nat
      /\ inventory'[s] = [inventory[s] EXCEPT !.reserved = @ + Quantity[o][s]]
  BY QuantityTyped DEF Create, TypeOK
<1>2. \A p \in Orders \ {o} : IsActive(p, s)' <=> IsActive(p, s)
  BY CreateItem DEF IsActive
<1>3. CASE s \in SkusOf(o)
  <2>1. ~IsActive(o, s)
    BY <1>3 DEF Create, Agreement, ItemsFollowOrder, ExpectedReservation, IsActive
  <2>2. IsActive(o, s)'
    BY <1>3, CreateItem DEF IsActive
  <2>3. inventory[s].onHand - inventory[s].reserved >= Quantity[o][s]
    BY <1>3 DEF Create, available
  <2> QED
    BY <1>1, <1>2, <2>1, <2>2, <2>3, HeldTaken
<1>4. CASE s \notin SkusOf(o)
  <2>1. Quantity[o][s] = 0
    BY <1>1, <1>4 DEF SkusOf
  <2>2. IsActive(o, s)' <=> IsActive(o, s)
    BY <1>4, CreateItem DEF IsActive
  <2>3. \A p \in Orders : IsActive(p, s)' <=> IsActive(p, s)
    BY <1>2, <2>2
  <2> QED
    BY <1>1, <2>1, <2>3, HeldSame DEF Counted
<1> QED
  BY <1>3, <1>4

(* The three ways out of an order: cancelled, closed, paid.                *)
LEMMA SettleCounted ==
    ASSUME TypeOK, NEW o \in Orders, NEW status, status # "ACTIVE", Settle(o, status),
           ReleaseStock(o) \/ CommitStock(o), NEW s \in Skus, Counted(s)
    PROVE  Counted(s)'
<1>1. /\ inventory[s] \in [onHand : Int, reserved : Int]
      /\ Quantity[o][s] \in Nat
  BY QuantityTyped DEF TypeOK
<1>2. \A p \in Orders \ {o} : IsActive(p, s)' <=> IsActive(p, s)
  BY SettleItem DEF IsActive
<1>3. CASE s \in Active(o)
  <2>1. IsActive(o, s) /\ ~IsActive(o, s)'
    BY <1>3, SettleItem DEF Active, IsActive
  <2>2. /\ inventory'[s].reserved = inventory[s].reserved - Quantity[o][s]
        /\ \/ inventory'[s].onHand = inventory[s].onHand
           \/ inventory'[s].onHand = inventory[s].onHand - Quantity[o][s]
    BY <1>1, <1>3 DEF ReleaseStock, CommitStock
  <2>3. inventory'[s].reserved <= inventory'[s].onHand
    BY <1>1, <2>2 DEF Counted
  <2> QED
    BY <1>2, <2>1, <2>2, <2>3, HeldGiven
<1>4. CASE s \notin Active(o)
  <2>1. inventory'[s] = inventory[s]
    BY <1>4 DEF ReleaseStock, CommitStock
  <2>2. \A p \in Orders : IsActive(p, s)' <=> IsActive(p, s)
    BY <1>4, SettleItem DEF IsActive
  <2> QED
    BY <2>1, <2>2, HeldSame DEF Counted
<1> QED
  BY <1>3, <1>4

(* A merchant may take away what no order holds, and no more.              *)
LEMMA AdjustCounted ==
    ASSUME TypeOK, NEW t \in Skus, NEW delta \in Deltas, Adjust(t, delta),
           NEW s \in Skus, Counted(s)
    PROVE  Counted(s)'
<1>1. \A p \in Orders : IsActive(p, s)' <=> IsActive(p, s)
  BY DEF Adjust, IsActive
<1>2. inventory[s] \in [onHand : Int, reserved : Int] /\ delta \in Int
  BY StockAssumption DEF TypeOK
<1>3. CASE s = t
  <2> DEFINE change == clampInventoryAdjustment(delta, available(s))
  <2>1. inventory'[s] = [inventory[s] EXCEPT !.onHand = inventory[s].onHand + change]
    BY <1>3 DEF Adjust, TypeOK
  <2>2. change \in Int /\ change >= -available(s)
    BY <1>2 DEF clampInventoryAdjustment, available, Counted
  <2> HIDE DEF change
  <2>3. inventory'[s].reserved = inventory[s].reserved
        /\ inventory'[s].reserved <= inventory'[s].onHand
    BY <1>2, <2>1, <2>2 DEF available
  <2> QED
    BY <1>1, <2>3, HeldSame
<1>4. CASE s # t
  <2>1. inventory'[s] = inventory[s]
    BY <1>4 DEF Adjust, TypeOK
  <2> QED
    BY <1>1, <2>1, HeldSame DEF Counted
<1> QED
  BY <1>3, <1>4

LEMMA StepCounted ==
    ASSUME TypeOK, Agreement, RequestsOwnTheirEvents, [Next]_vars,
           NEW s \in Skus, Counted(s)
    PROVE  Counted(s)'
<1>1. ASSUME UNCHANGED <<inventory, reservation>> PROVE Counted(s)'
  BY <1>1, HeldSame DEF Counted, IsActive
<1>2. ASSUME NEW o \in Orders, Buying(o) PROVE Counted(s)'
  <2>1. CASE Create(o)
    BY <2>1, CreateCounted
  <2>2. CASE Cancel(o)
    BY <2>2, SettleCounted DEF Cancel
  <2>3. CASE CloseExpiredOrder(o)
    BY <2>3, SettleCounted DEF CloseExpiredOrder
  <2>4. CASE ExpiryPasses(o)
    BY <1>1, <2>4 DEF ExpiryPasses
  <2> QED
    BY <1>2, <2>1, <2>2, <2>3, <2>4 DEF Buying
<1>3. ASSUME NEW w \in Workers, Paying(w) \/ Crash(w) PROVE Counted(s)'
  BY <1>1, <1>3 DEF Paying, StartRead, StartWrite, CloseRead, CloseWrite, Crash,
     UnchangedByPayment
<1>4. ASSUME NEW w \in Workers, Webhook(w) PROVE Counted(s)'
  <2>1. CASE ApplySuccess(w)
    <3>1. request[w].order \in Orders
      BY <2>1, OwnEvent DEF ApplySuccess, At
    <3> QED
      BY <2>1, <3>1, SettleCounted DEF ApplySuccess
  <2>2. CASE ~ApplySuccess(w)
    BY <1>1, <1>4, <2>2 DEF Webhook, Archive, FindPayment, RefuseSuccess, ApplyFailure,
       UnchangedByPayment
  <2> QED
    BY <2>1, <2>2
<1>5. ASSUME NEW t \in Skus, NEW delta \in Deltas, Adjust(t, delta) PROVE Counted(s)'
  BY <1>5, AdjustCounted
<1>6. CASE UNCHANGED vars
  BY <1>1, <1>6 DEF vars
<1> QED
  BY <1>2, <1>3, <1>4, <1>5, <1>6 DEF Next

-----------------------------------------------------------------------------
(* The theorems *)

LEMMA InitIInv == Init => IInv
<1> SUFFICES ASSUME Init PROVE IInv
  OBVIOUS
<1>1. RequestsOwnTheirEvents
  BY DEF Init, RequestsOwnTheirEvents, Idle
<1>2. PaidByOneEvent
  <2>1. \A o \in Orders : o \in cart /\ Successes(o) = {}
    BY DEF Init, Successes, NoRow
  <2> QED
    BY <2>1 DEF PaidByOneEvent
<1>3. ASSUME NEW s \in Skus PROVE Counted(s)
  <2>1. HeldUnits(s) = {}
    BY DEF Init, HeldUnits
  <2> QED
    BY <2>1, FS_EmptySet, StockAssumption DEF Init, Counted
<1> QED
  BY <1>1, <1>2, <1>3, InitTyped, InitAgreement
     DEF IInv, Agreement, Counted, ReservedIsHeld, NeverOversold

LEMMA StepIInv == IInv /\ [Next]_vars => IInv'
<1> SUFFICES ASSUME IInv, [Next]_vars PROVE IInv'
  OBVIOUS
<1>1. /\ TypeOK /\ RequestsOwnTheirEvents /\ Agreement /\ PaidByOneEvent
      /\ \A s \in Skus : Counted(s)
  BY DEF IInv, Agreement, Counted, ReservedIsHeld, NeverOversold
<1>2. TypeOK'
  BY <1>1, StepTyped
<1>3. RequestsOwnTheirEvents'
  BY <1>1, StepRequests DEF Agreement
<1>4. Agreement'
  BY <1>1, StepAgreement
<1>5. PaidByOneEvent'
  BY <1>1, StepPaid
<1>6. \A s \in Skus : Counted(s)'
  BY <1>1, StepCounted
<1> QED
  BY <1>2, <1>3, <1>4, <1>5, <1>6
     DEF IInv, Agreement, Counted, ReservedIsHeld, NeverOversold

(* Everything the run of MCTrade checks on one and on two orders holds in  *)
(* every reachable state, for any number of orders, items, events,         *)
(* duplicates and requests that die half way.                              *)
THEOREM Invariant == Spec => []IInv
BY InitIInv, StepIInv, PTL DEF Spec

(* Every row and every request in flight stays well typed.                 *)
THEOREM TypeCorrect == Spec => []TypeOK
<1>1. IInv => TypeOK
  BY DEF IInv
<1> QED
  BY <1>1, Invariant, PTL

(* No order is half released or half sold, whichever of cancel,            *)
(* closeExpiredOrder and handleWebhook decides it.                         *)
THEOREM WholeOrders == Spec => []ItemsFollowOrder
<1>1. IInv => ItemsFollowOrder
  BY DEF IInv
<1> QED
  BY <1>1, Invariant, PTL

(* The merchant orders of an order have its status.                        *)
THEOREM ChildrenAgree == Spec => []ChildrenFollowOrder
<1>1. IInv => ChildrenFollowOrder
  BY DEF IInv
<1> QED
  BY <1>1, Invariant, PTL

(* The coupon claim serves one order, and is free again when that order is *)
(* given up unpaid.                                                        *)
THEOREM OneCoupon == Spec => []CouponHeldOnce
<1>1. IInv => CouponHeldOnce
  BY DEF IInv
<1> QED
  BY <1>1, Invariant, PTL

(* However often the provider repeats itself, an order is paid once, by an *)
(* event that carries its amount.                                          *)
THEOREM PaidOnce == Spec => []PaidByOneEvent
<1>1. IInv => PaidByOneEvent
  BY DEF IInv
<1> QED
  BY <1>1, Invariant, PTL

(* A payment that says SUCCEEDED belongs to a paid order.                  *)
THEOREM SuccessMeansPaid == Spec => []SucceededIsPaid
<1>1. IInv => SucceededIsPaid
  BY DEF IInv
<1> QED
  BY <1>1, Invariant, PTL

(* The reserved counter of every SKU is the sum of the active              *)
(* reservations, along every path into and out of an order.                *)
THEOREM ReservedCounter == Spec => []ReservedIsHeld
<1>1. IInv => ReservedIsHeld
  BY DEF IInv
<1> QED
  BY <1>1, Invariant, PTL

(* Orders are never promised more units than are on hand.                  *)
THEOREM NoOverselling == Spec => []NeverOversold
<1>1. IInv => NeverOversold
  BY DEF IInv
<1> QED
  BY <1>1, Invariant, PTL

(* A decided order stays decided.                                          *)
LEMMA StepMoves ==
    ASSUME IInv, [Next]_vars, NEW o \in Orders
    PROVE  /\ order[o] \in {"CANCELLED", "CLOSED"} => order'[o] = order[o]
           /\ order[o] = "PAID" =>
                order'[o] \notin {"NONE", "PENDING_PAYMENT", "CLOSED"}
<1>0. /\ TypeOK /\ RequestsOwnTheirEvents
      /\ order[o] \in {"NONE", "PENDING_PAYMENT", "PAID", "CANCELLED", "CLOSED"}
  BY DEF IInv, CartFollowsPayment
<1>1. CASE order' = order
  BY <1>1
<1>2. ASSUME NEW p \in Orders, Create(p) \/ CloseExpiredOrder(p)
      PROVE  order'[o] = order[o] \/ order[o] \in {"NONE", "PENDING_PAYMENT"}
  BY <1>0, <1>2 DEF Create, CloseExpiredOrder, shouldCloseExpiredOrder, TypeOK
<1>3. ASSUME NEW p \in Orders, Cancel(p)
      PROVE  order'[o] = order[o]
               \/ (order[o] \in {"PENDING_PAYMENT", "PAID"} /\ order'[o] = "CANCELLED")
  <2>1. CASE p # o
    BY <1>0, <1>3, <2>1 DEF Cancel, TypeOK
  <2>2. CASE p = o
    BY <1>0, <1>3, <2>2, CancelFrom DEF Cancel, TypeOK
  <2> QED
    BY <2>1, <2>2
<1>4. ASSUME NEW w \in Workers, ApplySuccess(w)
      PROVE  order'[o] = order[o] \/ order[o] = "PENDING_PAYMENT"
  BY <1>0, <1>4 DEF ApplySuccess, Payable, TypeOK
<1>5. \/ \E p \in Orders : Create(p) \/ CloseExpiredOrder(p) \/ Cancel(p)
      \/ \E w \in Workers : ApplySuccess(w)
      \/ order' = order
  BY DEF Next, vars, Buying, ExpiryPasses, Paying, StartRead, StartWrite, CloseRead,
     CloseWrite, Webhook, Archive, FindPayment, RefuseSuccess, ApplyFailure, Crash, Adjust,
     UnchangedByPayment
<1> QED
  BY <1>1, <1>2, <1>3, <1>4, <1>5

(* No late event, job or buyer revives a decided order or takes a paid one *)
(* back to an unpaid state.                                                *)
THEOREM DecidedForGood == Spec => OrderMoves
<1>1. IInv /\ [Next]_vars =>
        [\A o \in Orders :
           /\ order[o] \in {"CANCELLED", "CLOSED"} => order'[o] = order[o]
           /\ order[o] = "PAID" =>
                order'[o] \notin {"NONE", "PENDING_PAYMENT", "CLOSED"}]_vars
  BY StepMoves
<1> QED
  BY <1>1, Invariant, PTL DEF Spec, OrderMoves
-----------------------------------------------------------------------------
(* The abstract stock *)

(* Module StockLedger sees the units of the SKU that the orders hold ...   *)
LEMMA SameHeldUnits ==
    ASSUME NEW s \in Skus PROVE Stock(s)!HeldUnits = HeldUnits(s)
<1>1. ASSUME NEW o \in Orders, reservation[o][s] = "ACTIVE", NEW k \in 1..MaxQuantity, k <= Quantity[o][s]
      PROVE s \in SkusOf(o)
  BY <1>1, QuantityAssumption DEF SkusOf
<1> QED
  BY <1>1 DEF Stock!HeldUnits, HeldUnits, HoldOf

(* ... and counts them with the same Cardinality.                          *)
LEMMA SameCardinality ==
    ASSUME NEW s \in Skus
    PROVE  Stock(s)!Cardinality(Stock(s)!HeldUnits) = Cardinality(HeldUnits(s))
BY SameHeldUnits, Zenon DEF Stock!Cardinality, Cardinality, Stock!IsFiniteSet, IsFiniteSet

LEMMA InitStock == Init => \A s \in Skus : Stock(s)!Init
<1> SUFFICES ASSUME Init, NEW s \in Skus PROVE Stock(s)!Init
  OBVIOUS
<1>1. inventory[s].onHand \in Nat
  BY StockAssumption DEF Init
<1> DEFINE Items == {o \in Orders : s \in SkusOf(o)}
<1>2. [o \in Items |-> HoldOf(o, s)] = [o \in Items |-> Stock(s)!NoHold]
  BY DEF Init, HoldOf, Stock!NoHold
<1> QED
  BY <1>1, <1>2 DEF Stock!Init

(* A step that moves neither the goods of a SKU nor the reservations of    *)
(* its items is a stutter of its stock.                                    *)
LEMMA StockStays ==
    ASSUME NEW s \in Skus, inventory'[s].onHand = inventory[s].onHand,
           \A p \in Orders : reservation'[p][s] = reservation[p][s]
    PROVE  UNCHANGED Stock(s)!stockVars
<1> DEFINE Items == {o \in Orders : s \in SkusOf(o)}
           hold == [o \in Items |-> HoldOf(o, s)]
<1>1. \A o \in Items : HoldOf(o, s)' = HoldOf(o, s)
  BY DEF HoldOf
<1>2. Items' = Items
  BY DEF SkusOf
<1>3. hold' = hold
  BY <1>1, <1>2
<1> QED
  BY <1>3 DEF Stock!stockVars

(* The abstract hold of every item but that of order o is as it was.       *)
LEMMA HoldMoves ==
    ASSUME NEW s \in Skus, NEW o \in Orders, s \in SkusOf(o), NEW new,
           HoldOf(o, s)' = new,
           \A p \in Orders \ {o} : reservation'[p][s] = reservation[p][s]
    PROVE  [p \in {p \in Orders : s \in SkusOf(p)} |-> HoldOf(p, s)]'
             = [[p \in {p \in Orders : s \in SkusOf(p)} |-> HoldOf(p, s)]
                  EXCEPT ![o] = new]
<1> DEFINE Items == {p \in Orders : s \in SkusOf(p)}
<1>1. \A p \in Items \ {o} : HoldOf(p, s)' = HoldOf(p, s)
  BY DEF HoldOf
<1>2. Items' = Items
  BY DEF SkusOf
<1> QED
  BY <1>1, <1>2

(* Settling a hold changes its state and nothing else of it.               *)
LEMMA StateMoves ==
    ASSUME NEW f, NEW o \in DOMAIN f, NEW q, NEW state, NEW g,
           f[o] = [state |-> "held", units |-> q],
           g = [f EXCEPT ![o] = [state |-> state, units |-> q]]
    PROVE  g = [f EXCEPT ![o].state = state]
<1>1. [f[o] EXCEPT !.state = state] = [state |-> state, units |-> q]
  OBVIOUS
<1> QED
  BY <1>1

(* Placing an order takes a hold of each of its items.                     *)
LEMMA CreateTakes ==
    ASSUME TypeOK, Agreement, NEW o \in Orders, Create(o), NEW s \in Skus, Counted(s)
    PROVE  Stock(s)!Next \/ UNCHANGED Stock(s)!stockVars
<1> DEFINE Items == {p \in Orders : s \in SkusOf(p)}
           hold == [p \in Items |-> HoldOf(p, s)]
           q == Quantity[o][s]
<1>1. /\ inventory[s] \in [onHand : Int, reserved : Int]
      /\ q \in 0..MaxQuantity /\ q \in Nat
      /\ inventory'[s] = [inventory[s] EXCEPT !.reserved = @ + Quantity[o][s]]
  BY QuantityTyped DEF Create, TypeOK
<1>2. inventory'[s].onHand = inventory[s].onHand
  BY <1>1
<1>3. \A p \in Orders \ {o} : reservation'[p][s] = reservation[p][s]
  BY CreateItem
<1>4. CASE s \notin SkusOf(o)
  <2>1. reservation'[o][s] = reservation[o][s]
    BY <1>4, CreateItem
  <2> QED
    BY <1>2, <1>3, <2>1, StockStays
<1>5. CASE s \in SkusOf(o)
  <2>1. reservation[o][s] = "NONE" /\ reservation'[o][s] = "ACTIVE"
    <3>1. order[o] = "NONE"
      BY DEF Create
    <3>2. reservation[o][s] = ExpectedReservation(o)
      BY <1>5 DEF Agreement, ItemsFollowOrder
    <3>3. reservation'[o][s] = "ACTIVE"
      BY <1>5, CreateItem
    <3> QED
      BY <3>1, <3>2, <3>3 DEF ExpectedReservation
  <2>2. hold[o] = Stock(s)!NoHold
    BY <1>5, <2>1 DEF HoldOf, Stock!NoHold
  <2>3. HoldOf(o, s)' = [state |-> "held", units |-> q]
    BY <2>1 DEF HoldOf
  <2>4. hold' = [hold EXCEPT ![o] = [state |-> "held", units |-> q]]
    BY <1>3, <1>5, <2>3, HoldMoves
  <2>5. inventory[s].onHand >= Stock(s)!Cardinality(Stock(s)!HeldUnits) + q
    <3>1. inventory[s].onHand - inventory[s].reserved >= q
      BY <1>5 DEF Create, available
    <3>2. Stock(s)!Cardinality(Stock(s)!HeldUnits) = inventory[s].reserved
      BY SameCardinality DEF Counted
    <3> QED
      BY <1>1, <3>1, <3>2
  <2>6. q \in 1..MaxQuantity
    BY <1>1, <1>5 DEF SkusOf
  <2> HIDE DEF q
  <2>7. Stock(s)!Take(o, q)
    BY <1>2, <2>2, <2>4, <2>5 DEF Stock!Take
  <2> QED
    BY <1>5, <2>6, <2>7 DEF Stock!Next
<1> QED
  BY <1>4, <1>5

(* Deciding an order settles the hold of each of its items: sold when its  *)
(* stock is committed, given back when it is released.                     *)
LEMMA DecisionSettles ==
    ASSUME TypeOK, NEW o \in Orders, NEW status,
           \/ status \in {"RELEASED", "EXPIRED"} /\ ReleaseStock(o)
           \/ status = "COMMITTED" /\ CommitStock(o),
           Settle(o, status), NEW s \in Skus, Counted(s)
    PROVE  Stock(s)!Next \/ UNCHANGED Stock(s)!stockVars
<1> DEFINE Items == {p \in Orders : s \in SkusOf(p)}
           hold == [p \in Items |-> HoldOf(p, s)]
           q == Quantity[o][s]
<1>1. inventory[s] \in [onHand : Int, reserved : Int] /\ q \in Nat
  BY QuantityTyped DEF TypeOK
<1>2. \A p \in Orders \ {o} : reservation'[p][s] = reservation[p][s]
  BY SettleItem
<1>3. CASE s \notin Active(o)
  <2>1. inventory'[s] = inventory[s] /\ reservation'[o][s] = reservation[o][s]
    BY <1>3, SettleItem DEF ReleaseStock, CommitStock
  <2> QED
    BY <1>2, <2>1, StockStays
<1>4. CASE s \in Active(o)
  <2>1. /\ s \in SkusOf(o)
        /\ reservation[o][s] = "ACTIVE" /\ reservation'[o][s] = status
    BY <1>4, SettleItem DEF Active
  <2>2. hold[o] = [state |-> "held", units |-> q]
    BY <2>1 DEF HoldOf
  <2>3. CASE status = "COMMITTED"
    <3>1. HoldOf(o, s)' = [state |-> "sold", units |-> q]
      BY <2>1, <2>3 DEF HoldOf
    <3>2. hold' = [hold EXCEPT ![o] = [state |-> "sold", units |-> q]]
      BY <1>2, <2>1, <3>1, HoldMoves
    <3>3. hold' = [hold EXCEPT ![o].state = "sold"]
      <4>1. PICK new : new = hold'
        OBVIOUS
      <4>2. o \in DOMAIN hold
        BY <2>1
      <4>3. new = [hold EXCEPT ![o] = [state |-> "sold", units |-> q]]
        BY <3>2, <4>1
      <4> HIDE DEF hold, q
      <4>4. new = [hold EXCEPT ![o].state = "sold"]
        BY <2>2, <4>2, <4>3, StateMoves
      <4> QED
        BY <4>1, <4>4
    <3>4. inventory'[s].onHand = inventory[s].onHand - q
      BY <1>1, <1>4, <2>3 DEF CommitStock
    <3> HIDE DEF q
    <3>5. Stock(s)!Sell(o)
      BY <2>2, <3>3, <3>4 DEF Stock!Sell
    <3> QED
      BY <2>1, <3>5 DEF Stock!Next
  <2>4. CASE status \in {"RELEASED", "EXPIRED"}
    <3>1. HoldOf(o, s)' = [state |-> "returned", units |-> q]
      BY <2>1, <2>4 DEF HoldOf
    <3>2. hold' = [hold EXCEPT ![o] = [state |-> "returned", units |-> q]]
      BY <1>2, <2>1, <3>1, HoldMoves
    <3>3. hold' = [hold EXCEPT ![o].state = "returned"]
      <4>1. PICK new : new = hold'
        OBVIOUS
      <4>2. o \in DOMAIN hold
        BY <2>1
      <4>3. new = [hold EXCEPT ![o] = [state |-> "returned", units |-> q]]
        BY <3>2, <4>1
      <4> HIDE DEF hold, q
      <4>4. new = [hold EXCEPT ![o].state = "returned"]
        BY <2>2, <4>2, <4>3, StateMoves
      <4> QED
        BY <4>1, <4>4
    <3>4. inventory'[s].onHand = inventory[s].onHand
      BY <1>1, <1>4, <2>4 DEF ReleaseStock
    <3> HIDE DEF q
    <3>5. Stock(s)!Return(o)
      BY <2>2, <3>3, <3>4 DEF Stock!Return
    <3> QED
      BY <2>1, <3>5 DEF Stock!Next
  <2> QED
    BY <2>3, <2>4
<1> QED
  BY <1>3, <1>4

(* A merchant's correction recounts the goods, never below what is held.   *)
LEMMA AdjustRecounts ==
    ASSUME TypeOK, NEW t \in Skus, NEW delta \in Deltas, Adjust(t, delta),
           NEW s \in Skus, Counted(s), Counted(s)', TypeOK'
    PROVE  Stock(s)!Next \/ UNCHANGED Stock(s)!stockVars
<1> DEFINE Items == {p \in Orders : s \in SkusOf(p)}
           hold == [p \in Items |-> HoldOf(p, s)]
<1>1. reservation' = reservation
  BY DEF Adjust
<1>2. CASE s # t
  <2>1. inventory'[s] = inventory[s]
    BY <1>2 DEF Adjust, TypeOK
  <2> QED
    BY <1>1, <2>1, StockStays
<1>3. CASE s = t
  <2>1. inventory'[s].reserved = inventory[s].reserved
    BY <1>3 DEF Adjust, TypeOK
  <2>2. /\ inventory'[s].onHand \in Int /\ inventory'[s].reserved \in Int
        /\ inventory'[s].reserved <= inventory'[s].onHand
    BY DEF TypeOK, Counted
  <2>3. Stock(s)!Cardinality(Stock(s)!HeldUnits) = inventory[s].reserved
    BY SameCardinality DEF Counted
  <2>4. inventory[s].reserved \in Nat
    BY FS_CardinalityType DEF Counted
  <2>5. hold' = hold
    <3>1. \A p \in Items : HoldOf(p, s)' = HoldOf(p, s)
      BY <1>1 DEF HoldOf
    <3>2. Items' = Items
      BY DEF SkusOf
    <3> QED
      BY <3>1, <3>2
  <2>6. inventory'[s].onHand \in Nat
    BY <2>1, <2>2, <2>4
  <2>7. inventory'[s].onHand >= Stock(s)!Cardinality(Stock(s)!HeldUnits)
    BY <2>1, <2>2, <2>3
  <2>8. Stock(s)!Recount
    BY <2>5, <2>6, <2>7 DEF Stock!Recount
  <2> QED
    BY <2>8 DEF Stock!Next
<1> QED
  BY <1>2, <1>3

LEMMA StepStock ==
    ASSUME IInv, IInv', [Next]_vars, NEW s \in Skus
    PROVE  Stock(s)!Next \/ UNCHANGED Stock(s)!stockVars
<1> DEFINE Implements == Stock(s)!Next \/ UNCHANGED Stock(s)!stockVars
<1>1. /\ TypeOK /\ TypeOK' /\ RequestsOwnTheirEvents /\ Agreement
      /\ Counted(s) /\ Counted(s)'
  BY DEF IInv, Agreement, Counted, ReservedIsHeld, NeverOversold
<1>2. ASSUME UNCHANGED <<inventory, reservation>> PROVE Implements
  BY <1>2, StockStays
<1> HIDE DEF Implements
<1>3. ASSUME NEW o \in Orders, Buying(o) PROVE Implements
  <2>1. CASE Create(o)
    BY <1>1, <2>1, CreateTakes DEF Implements
  <2>2. CASE Cancel(o)
    BY <1>1, <2>2, DecisionSettles DEF Cancel, Implements
  <2>3. CASE CloseExpiredOrder(o)
    BY <1>1, <2>3, DecisionSettles DEF CloseExpiredOrder, Implements
  <2>4. CASE ExpiryPasses(o)
    BY <1>2, <2>4 DEF ExpiryPasses
  <2> QED
    BY <1>3, <2>1, <2>2, <2>3, <2>4 DEF Buying
<1>4. ASSUME NEW w \in Workers, Paying(w) \/ Crash(w) PROVE Implements
  BY <1>2, <1>4 DEF Paying, StartRead, StartWrite, CloseRead, CloseWrite, Crash,
     UnchangedByPayment
<1>5. ASSUME NEW w \in Workers, Webhook(w) PROVE Implements
  <2>1. CASE ApplySuccess(w)
    <3>1. request[w].order \in Orders
      BY <1>1, <2>1, OwnEvent DEF ApplySuccess, At
    <3> QED
      BY <1>1, <2>1, <3>1, DecisionSettles DEF ApplySuccess, Implements
  <2>2. CASE ~ApplySuccess(w)
    BY <1>2, <1>5, <2>2 DEF Webhook, Archive, FindPayment, RefuseSuccess, ApplyFailure,
       UnchangedByPayment
  <2> QED
    BY <2>1, <2>2
<1>6. ASSUME NEW t \in Skus, NEW delta \in Deltas, Adjust(t, delta) PROVE Implements
  BY <1>1, <1>6, AdjustRecounts DEF Implements
<1>7. ASSUME UNCHANGED vars PROVE Implements
  BY <1>2, <1>7 DEF vars
<1>8. Implements
  BY <1>3, <1>4, <1>5, <1>6, <1>7 DEF Next
<1> QED
  BY <1>8 DEF Implements

(* Orders, payments, the expiry job and the merchants together implement   *)
(* the abstract stock of every SKU: a decision is a sale or a return of    *)
(* each item, and everything a request or an event does besides it is a    *)
(* stutter.                                                                *)
THEOREM Implementation == Spec => ImplementsStockLedger
<1>1. IInv /\ IInv' /\ [Next]_vars =>
        [\A s \in Skus : Stock(s)!Next \/ UNCHANGED Stock(s)!stockVars]_vars
  BY StepStock
<1> QED
  BY <1>1, InitStock, Invariant, PTL DEF Spec, ImplementsStockLedger
=============================================================================
