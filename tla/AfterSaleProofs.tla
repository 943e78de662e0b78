--------------------------- MODULE AfterSaleProofs ---------------------------
(***************************************************************************)
(* Proofs about AfterSale: what is shipped, received and paid back of an   *)
(* order, for any merchants, items, parcels and requests.                  *)
(***************************************************************************)
EXTENDS AfterSale, UnitCounting

-----------------------------------------------------------------------------
Underway == {"insert", "write", "find", "provider", "record"}
Recorded == {"order", "intent", "complete"}
AllComplete == \A m \in Merchants : Complete(m)

\* A handler never decides on COMPLETED: that is written by a refund only.
Calls == [at : Statements \cup {"done"}, item : Items \cup {NoItem},
          target : (AfterSaleStatus \ {"COMPLETED"}) \cup {"NONE"}]

Typed ==
    /\ order \in {"PAID", "PARTIALLY_SHIPPED", "SHIPPED", "COMPLETED", "CANCELLED", "AFTER_SALE"}
    /\ child \in [Merchants -> {"PAID", "PARTIALLY_SHIPPED", "SHIPPED", "COMPLETED", "CANCELLED"}]
    /\ parcel \in [Merchants -> [Parcels -> [Items -> Nat]]]
    /\ intent \in PaymentStatus /\ confirmJob \in BOOLEAN /\ confirming \subseteq Buyers
    /\ case \in [Items -> AfterSaleStatus \cup {"NONE"}]
    /\ refunded \in Items \cup {NoItem}
    /\ paidBack \in [Items -> Nat]
    /\ request \in [Workers -> Calls]

(* As long as something may still be sent, the merchant orders say which   *)
(* merchants have sent everything; and a device that has passed the check  *)
(* of confirmReceipt found everything sent, or a refund.                   *)
ChildrenTell ==
    order \in Shippable => \A m \in Merchants :
      /\ child[m] \in {"PAID", "PARTIALLY_SHIPPED", "SHIPPED"}
      /\ child[m] = "SHIPPED" <=> Complete(m)
ConfirmedRightly == confirming # {} => refunded # NoItem \/ AllComplete
ParcelsInv == NeverOvershipped /\ OrderTellsParcels /\ ChildrenTell /\ ConfirmedRightly

(* A request between the provider's refund and the end of its case is      *)
(* about the case on record.                                               *)
RequestTells(w) ==
    /\ request[w].at \in Recorded => request[w].item = refunded /\ refunded # NoItem
    /\ request[w].at \in Underway => request[w].item \in Items
    /\ request[w].at = "record" => paidBack[request[w].item] > 0
RequestsTell == \A w \in Workers : RequestTells(w)

IInv == Typed /\ ParcelsInv /\ RequestsTell /\ StatusTellsRefund
-----------------------------------------------------------------------------
(* The sums of ShipmentDomain.                                             *)

\* What a request plans of an item is the sum of its lines for it.
LEMMA PlannedCounts ==
    ASSUME NEW lines \in Requests, NEW i \in Items
    PROVE  /\ Planned(lines, i) \in Nat
           /\ \A k \in LinesOf(lines, i) : lines[k].quantity <= Planned(lines, i)
           /\ LinesOf(lines, i) = {} => Planned(lines, i) = 0
<1> DEFINE S == LinesOf(lines, i)
           f == [k \in DOMAIN lines |-> lines[k].quantity]
<1>1. lines \in Seq([item : Items, quantity : Nat])
  BY RequestAssumption
<1>2. IsFiniteSet(1..Len(lines)) /\ DOMAIN lines = 1..Len(lines)
  BY <1>1, FS_Interval
<1>3. S \in SUBSET DOMAIN lines /\ \A k \in S : f[k] \in Nat /\ f[k] = lines[k].quantity
  <2> DEFINE Line == [item : Items, quantity : Nat]
  <2>1. \A k \in DOMAIN lines : lines[k] \in Line
    <3> HIDE DEF Line
    <3>1. lines \in Seq(Line)
      BY <1>1 DEF Line
    <3> QED
      BY <1>2, <3>1
  <2> QED
    BY <2>1 DEF LinesOf
<1>4. IsFiniteSet(S)
  BY <1>2, <1>3, FS_Subset
<1>5. Planned(lines, i) = Cardinality(UnitsOver(S, f))
  BY <1>3 DEF Planned, UnitsOver, UnitsOf
<1> HIDE DEF S, f
<1>6. Cardinality(UnitsOver(S, f)) \in Nat /\ (S = {} => Cardinality(UnitsOver(S, f)) = 0)
  BY <1>3, <1>4, UnitsAreFinite, NoUnits
<1>7. \A k \in S : f[k] <= Cardinality(UnitsOver(S, f))
  BY <1>3, <1>4, UnitsCounted
<1> QED
  BY <1>3, <1>5, <1>6, <1>7 DEF S

Holds(m, i) == [p \in Parcels |-> parcel[m][p][i]]

\* What a merchant has sent of an item is the sum over his parcels.
LEMMA ShippedCounts ==
    ASSUME Typed, NEW i \in Items
    PROVE  /\ Shipped(i) = Cardinality(UnitsOver(Parcels, Holds(MerchantOf[i], i)))
           /\ Shipped(i) \in Nat
           /\ \A p \in Parcels : parcel[MerchantOf[i]][p][i] <= Shipped(i)
<1> DEFINE m == MerchantOf[i]
           f == Holds(m, i)
<1>1. m \in Merchants /\ DOMAIN parcel[m] = Parcels /\ \A p \in Parcels : f[p] = parcel[m][p][i] /\ f[p] \in Nat
  BY ItemAssumption DEF Typed, Holds
<1>2. Shipped(i) = Cardinality(UnitsOver(Parcels, f))
  BY <1>1 DEF Shipped, shippedQuantities, UnitsOver, UnitsOf
<1> HIDE DEF f
<1>3. Cardinality(UnitsOver(Parcels, f)) \in Nat /\ \A p \in Parcels : f[p] <= Cardinality(UnitsOver(Parcels, f))
  BY <1>1, ItemAssumption, UnitsAreFinite, UnitsCounted
<1> QED
  BY <1>1, <1>2, <1>3 DEF f
-----------------------------------------------------------------------------
(* Fulfilment.                                                             *)

\* What a parcel adds to what was sent before.
LEMMA ShipGrows ==
    ASSUME Typed, NEW m \in Merchants, NEW p \in Parcels, NEW lines \in Requests, Ship(m, p, lines)
    PROVE  /\ parcel' \in [Merchants -> [Parcels -> [Items -> Nat]]]
           /\ \A n \in Merchants \ {m} : parcel'[n] = parcel[n]
           /\ \A q \in Parcels \ {p}, i \in Items : parcel'[m][q][i] = parcel[m][q][i]
           /\ \A i \in Items : parcel'[m][p][i] = Planned(lines, i)
           /\ \A i \in ItemsOf(m) : Shipped(i)' = Shipped(i) + Planned(lines, i)
           /\ \A i \in Items : MerchantOf[i] # m => Shipped(i)' = Shipped(i)
<1> DEFINE packed == [i \in Items |-> Planned(lines, i)]
           sent == [parcel[m] EXCEPT ![p] = packed]
<1>1. packed \in [Items -> Nat] /\ \A i \in Items : packed[i] = Planned(lines, i)
  BY PlannedCounts
<1>2. parcel \in [Merchants -> [Parcels -> [Items -> Nat]]] /\ parcel' = [parcel EXCEPT ![m] = sent]
  BY DEF Typed, Ship
<1>3. parcel[m][p] = NoParcel
  BY DEF Ship
<1> HIDE DEF packed
<1>4. sent \in [Parcels -> [Items -> Nat]] /\ sent[p] = packed /\ \A q \in Parcels \ {p} : sent[q] = parcel[m][q]
  BY <1>1, <1>2
<1> HIDE DEF sent
<1>5. /\ parcel' \in [Merchants -> [Parcels -> [Items -> Nat]]]
      /\ parcel'[m] = sent /\ \A n \in Merchants \ {m} : parcel'[n] = parcel[n]
  BY <1>2, <1>4
<1>6. ASSUME NEW i \in ItemsOf(m) PROVE Shipped(i)' = Shipped(i) + Planned(lines, i)
  <2> DEFINE f == Holds(m, i)
             g == [q \in Parcels |-> sent[q][i]]
  <2>1. i \in Items /\ MerchantOf[i] = m
    BY DEF ItemsOf
  <2>2. Shipped(i) = Cardinality(UnitsOver(Parcels, f))
    BY <2>1, ShippedCounts
  <2>3. DOMAIN parcel'[m] = Parcels
    BY <1>4, <1>5
  <2>4. Shipped(i)' = Cardinality(UnitsOver(Parcels, g))
    <3>1. Shipped(i)' = shippedQuantities(sent, i) /\ DOMAIN sent = Parcels
      BY <1>4, <1>5, <2>1 DEF Shipped
    <3>2. \A q \in Parcels : UnitsOf(q, g[q]) = {q} \X (1..sent[q][i])
      BY DEF UnitsOf
    <3>3. shippedQuantities(sent, i) = Cardinality(UNION {{q} \X (1..sent[q][i]) : q \in Parcels})
      BY <3>1 DEF shippedQuantities
    <3>4. UNION {{q} \X (1..sent[q][i]) : q \in Parcels} = UNION {UnitsOf(q, g[q]) : q \in Parcels}
      BY <3>2
    <3> HIDE DEF g
    <3> QED
      BY <3>1, <3>3, <3>4 DEF UnitsOver
  <2>5. /\ \A q \in Parcels : f[q] \in Nat
        /\ f[p] = 0 /\ g[p] = Planned(lines, i) /\ g[p] \in Nat
        /\ \A q \in Parcels \ {p} : g[q] = f[q]
    BY <1>1, <1>2, <1>3, <1>4, <2>1 DEF Holds, NoParcel
  <2> HIDE DEF f, g
  <2>6. Cardinality(UnitsOver(Parcels, g)) = Cardinality(UnitsOver(Parcels, f)) + g[p]
    BY <2>5, ItemAssumption, UnitsGrow
  <2> QED
    BY <2>2, <2>4, <2>5, <2>6
<1>7. ASSUME NEW i \in Items, MerchantOf[i] # m PROVE Shipped(i)' = Shipped(i)
  <2>1. parcel'[MerchantOf[i]] = parcel[MerchantOf[i]]
    BY <1>5, <1>7, ItemAssumption
  <2> QED
    BY <2>1 DEF Shipped
<1> QED
  BY <1>1, <1>4, <1>5, <1>6, <1>7

\* A merchant has sent everything when the domain's rule says so.
LEMMA ShipCompletes ==
    ASSUME IInv, NEW m \in Merchants, NEW p \in Parcels, NEW lines \in Requests, Ship(m, p, lines)
    PROVE  /\ NeverOvershipped'
           /\ \A n \in Merchants \ {m} : Complete(n)' <=> Complete(n)
           /\ child' = [child EXCEPT ![m] = child'[m]]
           /\ child'[m] = IF Complete(m)' THEN "SHIPPED" ELSE "PARTIALLY_SHIPPED"
           /\ \E i \in Items : Shipped(i)' > 0
<1> DEFINE packed == [i \in Items |-> Planned(lines, i)]
           sent == [parcel[m] EXCEPT ![p] = packed]
<1>0. /\ Typed /\ NeverOvershipped /\ order # "CANCELLED" /\ order' # "CANCELLED"
      /\ \A i \in Items : Ordered[i] \in Nat
  BY ItemAssumption DEF IInv, ParcelsInv, Ship, Shippable, resolveOrderShipmentStatus
<1>1. /\ \A i \in ItemsOf(m) : Shipped(i)' = Shipped(i) + Planned(lines, i)
      /\ \A i \in Items : MerchantOf[i] # m => Shipped(i)' = Shipped(i)
      /\ \A i \in Items : Shipped(i) \in Nat /\ Planned(lines, i) \in Nat
  BY <1>0, ShipGrows, ShippedCounts, PlannedCounts
<1>2. planShipmentLines(ItemsOf(m), Ordered, parcel[m], lines) /\ lines \in Seq([item : Items, quantity : Nat])
  BY RequestAssumption DEF Ship
<1>3. ASSUME NEW i \in ItemsOf(m) PROVE Shipped(i)' <= Ordered[i]
  <2>1. i \in Items /\ MerchantOf[i] = m /\ Shipped(i) <= Ordered[i]
    BY <1>0 DEF ItemsOf, NeverOvershipped
  <2>2. CASE \E k \in DOMAIN lines : lines[k].item = i
    <3>1. Planned(lines, i) <= Ordered[i] - shippedQuantities(parcel[m], i)
      BY <1>2, <2>2 DEF planShipmentLines
    <3> QED
      BY <1>0, <1>1, <2>1, <3>1 DEF Shipped
  <2>3. CASE ~\E k \in DOMAIN lines : lines[k].item = i
    <3>1. LinesOf(lines, i) = {}
      BY <2>3 DEF LinesOf
    <3>2. Planned(lines, i) = 0
      BY <2>1, <3>1, PlannedCounts
    <3> QED
      BY <1>1, <2>1, <3>2
  <2> QED
    BY <2>2, <2>3
<1>4. \A i \in Items : Shipped(i)' <= Ordered[i]
  BY <1>0, <1>1, <1>3 DEF ItemsOf, NeverOvershipped
<1>5. ASSUME NEW n \in Merchants, NEW q \in Parcels, NEW i \in Items, MerchantOf[i] # n PROVE parcel'[n][q][i] = 0
  <2>1. parcel[n][q][i] = 0
    BY <1>0, <1>5 DEF NeverOvershipped
  <2>2. CASE n = m /\ q = p
    <3>1. LinesOf(lines, i) = {}
      BY <1>2, <1>5, <2>2 DEF LinesOf, planShipmentLines, ItemsOf
    <3>2. Planned(lines, i) = 0
      BY <3>1, PlannedCounts
    <3> QED
      BY <1>0, <2>2, <3>2, ShipGrows
  <2>3. CASE n = m /\ q # p
    BY <1>0, <2>1, <2>3, ShipGrows
  <2>4. CASE n # m
    BY <1>0, <2>1, <2>4, ShipGrows
  <2> QED
    BY <2>2, <2>3, <2>4
<1>6. NeverOvershipped'
  BY <1>0, <1>4, <1>5 DEF NeverOvershipped
<1>7. \A n \in Merchants \ {m} : Complete(n)' <=> Complete(n)
  BY <1>1 DEF Complete, ItemsOf
<1>8. /\ child' = [child EXCEPT ![m] = resolveFulfillmentStatus(ItemsOf(m), Ordered, parcel'[m])]
      /\ child \in [Merchants -> {"PAID", "PARTIALLY_SHIPPED", "SHIPPED", "COMPLETED", "CANCELLED"}]
  BY <1>0 DEF Typed, Ship
<1>9. Complete(m)' <=> \A i \in ItemsOf(m) : shippedQuantities(parcel'[m], i) >= Ordered[i]
  <2>1. \A i \in ItemsOf(m) : i \in Items /\ Shipped(i)' = shippedQuantities(parcel'[m], i) /\ Shipped(i)' \in Nat
    BY <1>1 DEF Shipped, ItemsOf
  <2> QED
    BY <1>0, <1>4, <2>1 DEF Complete
<1>10. \E i \in Items : Shipped(i)' > 0
  <2>1. 1 \in DOMAIN lines
    BY <1>2 DEF planShipmentLines
  <2>2. lines[1].item \in ItemsOf(m) /\ lines[1].quantity >= 1 /\ lines[1].quantity \in Nat
    <3> DEFINE Line == [item : Items, quantity : Nat]
    <3>1. lines[1] \in Line
      <4> HIDE DEF Line
      <4>1. lines \in Seq(Line)
        BY <1>2 DEF Line
      <4> QED
        BY <2>1, <4>1
    <3> QED
      BY <1>2, <2>1, <3>1 DEF planShipmentLines
  <2>3. Planned(lines, lines[1].item) >= lines[1].quantity
    BY <2>1, <2>2, PlannedCounts DEF LinesOf, ItemsOf
  <2> QED
    BY <1>1, <2>2, <2>3 DEF ItemsOf
<1> QED
  BY <1>6, <1>7, <1>8, <1>9, <1>10 DEF resolveFulfillmentStatus

\* A shipment keeps the invariant: the last merchant's last parcel, and no
\* other, makes the order SHIPPED and schedules its confirmation.
LEMMA ShipKeeps ==
    ASSUME IInv, NEW m \in Merchants, NEW p \in Parcels, NEW lines \in Requests,
           Ship(m, p, lines), UNCHANGED caseVars
    PROVE  IInv'
<1>1. /\ Typed /\ RequestsTell /\ StatusTellsRefund
      /\ NeverOvershipped /\ OrderTellsParcels /\ ChildrenTell /\ ConfirmedRightly
  BY DEF IInv, ParcelsInv
<1>2. /\ order \in Shippable /\ child[m] \in Shippable /\ UNCHANGED <<intent, confirming>>
      /\ UNCHANGED <<type, case, refunded, paidBack, request>>
  BY DEF Ship, caseVars
<1>3. /\ NeverOvershipped'
      /\ \A n \in Merchants \ {m} : Complete(n)' <=> Complete(n)
      /\ child' = [child EXCEPT ![m] = child'[m]]
      /\ child'[m] = IF Complete(m)' THEN "SHIPPED" ELSE "PARTIALLY_SHIPPED"
      /\ \E i \in Items : Shipped(i)' > 0
  BY ShipCompletes
<1>4. parcel' \in [Merchants -> [Parcels -> [Items -> Nat]]]
  BY <1>1, ShipGrows
<1>5. child' \in [Merchants -> {"PAID", "PARTIALLY_SHIPPED", "SHIPPED", "COMPLETED", "CANCELLED"}]
  BY <1>1, <1>3 DEF Typed
<1>6. \A n \in Merchants : /\ child'[n] \in {"PAID", "PARTIALLY_SHIPPED", "SHIPPED"}
                           /\ child'[n] = "SHIPPED" <=> Complete(n)'
  <2>1. \A n \in Merchants \ {m} : child'[n] = child[n]
    BY <1>1, <1>3 DEF Typed
  <2> QED
    BY <1>1, <1>2, <1>3, <2>1 DEF ChildrenTell
<1>7. order' = IF AllComplete' THEN "SHIPPED" ELSE "PARTIALLY_SHIPPED"
  <2> DEFINE status == resolveFulfillmentStatus(ItemsOf(m), Ordered,
                           [parcel[m] EXCEPT ![p] = [i \in Items |-> Planned(lines, i)]])
             statuses == {IF n = m THEN status ELSE child[n] : n \in Merchants}
  <2>1. order' = resolveOrderShipmentStatus(statuses) /\ child' = [child EXCEPT ![m] = status]
    BY DEF Ship
  <2>2. statuses = {child'[n] : n \in Merchants}
    BY <1>1, <2>1 DEF Typed
  <2> HIDE DEF statuses
  <2> QED
    BY <1>6, <2>1, <2>2 DEF resolveOrderShipmentStatus, AllComplete
<1>8. ~AllComplete /\ confirmJob = FALSE
  <2>1. child[m] # "SHIPPED"
    BY <1>2 DEF Shippable
  <2>2. ~Complete(m)
    BY <1>1, <1>2, <2>1 DEF ChildrenTell
  <2>3. confirmJob \in BOOLEAN /\ (confirmJob <=> AllComplete)
    BY <1>1 DEF Typed, OrderTellsParcels, AllComplete
  <2> QED
    BY <2>2, <2>3 DEF AllComplete
<1>9. confirmJob' = IF AllComplete' THEN TRUE ELSE FALSE
  <2>1. order # "SHIPPED"
    BY <1>2 DEF Shippable
  <2>2. ScheduleConfirmation(order')
    BY DEF Ship
  <2> QED
    BY <1>7, <1>8, <2>1, <2>2 DEF ScheduleConfirmation
<1>10. OrderTellsParcels'
  BY <1>3, <1>6, <1>7, <1>9 DEF OrderTellsParcels, AllComplete
<1>11. ChildrenTell' /\ ConfirmedRightly'
  BY <1>1, <1>2, <1>6, <1>8 DEF ChildrenTell, ConfirmedRightly
<1>12. StatusTellsRefund'
  <2>1. order' # "AFTER_SALE" /\ order' # "COMPLETED" /\ intent' = "SUCCEEDED"
    BY <1>7 DEF Ship
  <2> QED
    BY <1>1, <1>2, <2>1 DEF StatusTellsRefund
<1>13. Typed'
  <2>1. order' \in {"PAID", "PARTIALLY_SHIPPED", "SHIPPED", "COMPLETED", "CANCELLED", "AFTER_SALE"}
    BY <1>7
  <2>2. confirmJob' \in BOOLEAN
    BY <1>9
  <2> QED
    BY <1>1, <1>2, <1>4, <1>5, <2>1, <2>2 DEF Typed
<1> QED
  BY <1>1, <1>2, <1>3, <1>10, <1>11, <1>12, <1>13 DEF IInv, ParcelsInv, RequestsTell, RequestTells

\* What every other handler leaves of the parcels.
LEMMA ParcelsStay ==
    ASSUME IInv, UNCHANGED <<parcel, confirmJob>>,
           order' \in Shippable => order' = order /\ child' = child,
           order' = "SHIPPED" => order = "SHIPPED",
           order' = "CANCELLED" => order \in {"PAID", "CANCELLED"},
           \A m \in Merchants : child'[m] = "SHIPPED" => child[m] = "SHIPPED",
           confirming' # {} => refunded' # NoItem \/ AllComplete
    PROVE  ParcelsInv' /\ (AllComplete' <=> AllComplete)
<1>1. NeverOvershipped /\ OrderTellsParcels /\ ChildrenTell
  BY DEF IInv, ParcelsInv
<1>2. \A i \in Items : Shipped(i)' = Shipped(i)
  BY DEF Shipped
<1>3. \A m \in Merchants : Complete(m)' <=> Complete(m)
  BY <1>2 DEF Complete, ItemsOf
<1>4. AllComplete' <=> AllComplete
  BY <1>3 DEF AllComplete
<1>5. NeverOvershipped'
  <2>1. order' = "CANCELLED" => \A i \in Items : Shipped(i) = 0
    BY <1>1 DEF NeverOvershipped, OrderTellsParcels
  <2> QED
    BY <1>1, <1>2, <2>1 DEF NeverOvershipped
<1>6. OrderTellsParcels'
  BY <1>1, <1>2, <1>3 DEF OrderTellsParcels, Shippable
<1>7. ChildrenTell'
  BY <1>1, <1>3 DEF ChildrenTell
<1>8. ConfirmedRightly'
  BY <1>4 DEF ConfirmedRightly
<1> QED
  BY <1>4, <1>5, <1>6, <1>7, <1>8 DEF ParcelsInv

\* Which paid orders may be cancelled, and which received.
LEMMA PaidOrderMoves ==
    ASSUME Typed
    PROVE  /\ canApplyOrderTransition(order, "CANCELLED") => order = "PAID"
           /\ order # "COMPLETED" /\ canApplyOrderTransition(order, "COMPLETED")
                => order \in {"SHIPPED", "AFTER_SALE"}
<1> USE DEF canApplyOrderTransition, transitions
<1>1. CASE order = "PAID"
  BY <1>1
<1>2. CASE order = "PARTIALLY_SHIPPED"
  BY <1>2
<1>3. CASE order = "SHIPPED"
  BY <1>3
<1>4. CASE order = "COMPLETED"
  BY <1>4
<1>5. CASE order = "CANCELLED"
  BY <1>5
<1>6. CASE order = "AFTER_SALE"
  BY <1>6
<1> HIDE DEF canApplyOrderTransition, transitions
<1> QED
  BY <1>1, <1>2, <1>3, <1>4, <1>5, <1>6 DEF Typed

\* The buyer, the job and a cancellation keep it too.
LEMMA OrderMovesKeep ==
    ASSUME IInv, UNCHANGED caseVars,
           Cancel \/ AutoConfirm \/ \E b \in Buyers : ConfirmRead(b) \/ ConfirmWrite(b)
    PROVE  IInv'
<1>1. /\ Typed /\ RequestsTell /\ StatusTellsRefund
      /\ NeverOvershipped /\ OrderTellsParcels /\ ChildrenTell /\ ConfirmedRightly
  BY DEF IInv, ParcelsInv
<1>2. UNCHANGED <<type, case, refunded, paidBack, request>> /\ RequestsTell'
  BY <1>1 DEF caseVars, RequestsTell, RequestTells
<1>3. order = "SHIPPED" => AllComplete
  BY <1>1 DEF OrderTellsParcels, AllComplete
<1>4. order = "AFTER_SALE" => refunded # NoItem
  BY <1>1 DEF StatusTellsRefund
<1>5. CASE Cancel
  <2>1. order = "PAID"
    BY <1>1, <1>5, PaidOrderMoves DEF Cancel
  <2>2. /\ order' = "CANCELLED" /\ child' = [m \in Merchants |-> "CANCELLED"]
        /\ intent' = "CANCELLED" /\ UNCHANGED <<parcel, confirmJob, confirming>>
    BY <1>5 DEF Cancel
  <2>3. ParcelsInv'
    BY <1>1, <1>2, <2>1, <2>2, ParcelsStay DEF ConfirmedRightly, Shippable
  <2>4. StatusTellsRefund'
    BY <1>1, <1>2, <2>2 DEF StatusTellsRefund
  <2>5. Typed'
    BY <1>1, <1>2, <2>2 DEF Typed, PaymentStatus
  <2> QED
    BY <1>2, <2>3, <2>4, <2>5 DEF IInv
<1>6. CASE AutoConfirm
  <2>1. order = "SHIPPED"
    BY <1>6 DEF AutoConfirm, shouldAutoConfirmReceipt
  <2>2. /\ order' = "COMPLETED" /\ UNCHANGED <<parcel, intent, confirmJob, confirming>>
        /\ child' = [m \in Merchants |-> IF child[m] = "SHIPPED" THEN "COMPLETED" ELSE child[m]]
    BY <1>6 DEF AutoConfirm
  <2>3. ParcelsInv' /\ (AllComplete' <=> AllComplete)
    BY <1>1, <1>2, <2>1, <2>2, ParcelsStay DEF ConfirmedRightly, Shippable
  <2>4. StatusTellsRefund'
    BY <1>1, <1>2, <1>3, <2>1, <2>2, <2>3 DEF StatusTellsRefund, AllComplete
  <2>5. Typed'
    BY <1>1, <1>2, <2>2 DEF Typed
  <2> QED
    BY <1>2, <2>3, <2>4, <2>5 DEF IInv
<1>7. ASSUME NEW b \in Buyers, ConfirmRead(b) PROVE IInv'
  <2>1. order \in {"SHIPPED", "AFTER_SALE"}
    BY <1>1, <1>7, PaidOrderMoves DEF ConfirmRead
  <2>2. UNCHANGED <<order, child, parcel, intent, confirmJob>> /\ confirming' = confirming \cup {b}
    BY <1>7 DEF ConfirmRead
  <2>3. ParcelsInv' /\ (AllComplete' <=> AllComplete)
    BY <1>2, <1>3, <1>4, <2>1, <2>2, ParcelsStay
  <2>4. StatusTellsRefund'
    BY <1>1, <1>2, <2>2, <2>3 DEF StatusTellsRefund, AllComplete
  <2>5. Typed'
    BY <1>1, <1>2, <2>2 DEF Typed
  <2> QED
    BY <1>2, <2>3, <2>4, <2>5 DEF IInv
<1>8. ASSUME NEW b \in Buyers, ConfirmWrite(b) PROVE IInv'
  <2>1. refunded # NoItem \/ AllComplete
    BY <1>1, <1>8 DEF ConfirmWrite, ConfirmedRightly
  <2>2. /\ order' = "COMPLETED" /\ child' = [m \in Merchants |-> "COMPLETED"]
        /\ UNCHANGED <<parcel, intent, confirmJob>> /\ confirming' = confirming \ {b}
    BY <1>8 DEF ConfirmWrite
  <2>3. ParcelsInv' /\ (AllComplete' <=> AllComplete)
    BY <1>2, <2>1, <2>2, ParcelsStay DEF Shippable
  <2>4. StatusTellsRefund'
    BY <1>1, <1>2, <2>1, <2>2, <2>3 DEF StatusTellsRefund, AllComplete
  <2>5. Typed'
    BY <1>1, <1>2, <2>2 DEF Typed
  <2> QED
    BY <1>2, <2>3, <2>4, <2>5 DEF IInv
<1> QED
  BY <1>5, <1>6, <1>7, <1>8
-----------------------------------------------------------------------------
(* After-sales.                                                            *)

\* The requests of the others are not disturbed by one that goes on.
LEMMA RequestsStay ==
    ASSUME Typed, RequestsTell, NEW w \in Workers, NEW next \in Calls,
           request' = [request EXCEPT ![w] = next],
           refunded # NoItem => refunded' = refunded,
           \A i \in Items : paidBack[i] > 0 => paidBack'[i] > 0,
           next.at \in Recorded => next.item = refunded' /\ refunded' # NoItem,
           next.at \in Underway => next.item \in Items,
           next.at = "record" => paidBack'[next.item] > 0
    PROVE  request' \in [Workers -> Calls] /\ RequestsTell'
<1>1. request' \in [Workers -> Calls] /\ request'[w] = next
      /\ \A v \in Workers \ {w} : request'[v] = request[v]
  BY DEF Typed
<1>2. RequestTells(w)'
  BY <1>1 DEF RequestTells
<1>3. ASSUME NEW v \in Workers \ {w} PROVE RequestTells(v)'
  <2>1. RequestTells(v) /\ request'[v] = request[v]
    BY <1>1 DEF RequestsTell
  <2> QED
    BY <2>1 DEF RequestTells, Underway
<1> QED
  BY <1>1, <1>2, <1>3 DEF RequestsTell

LEMMA CallsTyped ==
    /\ Idle \in Calls /\ Idle.at = "done"
    /\ \A r \in Calls, at \in Statements :
         LET next == [r EXCEPT !.at = at, !.target = "NONE"]
         IN  next \in Calls /\ next.at = at /\ next.item = r.item
BY DEF Calls, Idle, Statements

\* Each of the handlers' statements keeps the invariant.
LEMMA HandlingKeeps ==
    ASSUME IInv, NEW w \in Workers, Handling(w) \/ Crash(w)
    PROVE  IInv'
<1> DEFINE r == request[w]
<1>1. /\ Typed /\ RequestsTell /\ StatusTellsRefund
      /\ NeverOvershipped /\ OrderTellsParcels /\ ChildrenTell /\ ConfirmedRightly
  BY DEF IInv, ParcelsInv
<1>2. /\ r \in Calls /\ RequestTells(w) /\ refunded \in Items \cup {NoItem}
      /\ case \in [Items -> AfterSaleStatus \cup {"NONE"}] /\ paidBack \in [Items -> Nat]
      /\ r.item \in Items \cup {NoItem} /\ NoItem \notin Items
      /\ r.target \in (AfterSaleStatus \ {"COMPLETED"}) \cup {"NONE"}
      /\ Idle \in Calls /\ Idle.at = "done" /\ \A i \in Items : paidBack[i] \in Nat
  BY <1>1, CallsTyped, CaseAssumption DEF Typed, RequestsTell, Calls
\* The handlers that leave the order alone, by what they do to the case.
<1>3. ASSUME UNCHANGED fulfilmentVars, refunded # NoItem => refunded' = refunded
      PROVE  ParcelsInv' /\ (AllComplete' <=> AllComplete)
  BY <1>1, <1>3, ParcelsStay DEF fulfilmentVars, ConfirmedRightly, OrderTellsParcels, Shippable
<1>4. ASSUME UNCHANGED <<fulfilmentVars, refunded, paidBack>>,
             case' \in [Items -> AfterSaleStatus \cup {"NONE"}],
             \A i \in Items : case'[i] = "COMPLETED" => refunded = i,
             NEW next \in Calls, request' = [request EXCEPT ![w] = next],
             next.at \in Recorded => next.item = refunded /\ refunded # NoItem,
             next.at \in Underway => next.item \in Items,
             next.at # "record"
      PROVE  IInv'
  <2>1. request' \in [Workers -> Calls] /\ RequestsTell'
    BY <1>1, <1>4, RequestsStay
  <2>2. ParcelsInv' /\ (AllComplete' <=> AllComplete)
    BY <1>3, <1>4
  <2>3. StatusTellsRefund'
    BY <1>1, <1>4, <2>2 DEF StatusTellsRefund, AllComplete, fulfilmentVars
  <2>4. Typed'
    BY <1>1, <1>4, <2>1 DEF Typed, fulfilmentVars
  <2> QED
    BY <2>1, <2>2, <2>3, <2>4 DEF IInv
<1>5. ASSUME UNCHANGED <<fulfilmentVars, case, refunded, paidBack>>,
             NEW next \in Calls, request' = [request EXCEPT ![w] = next],
             next.at \in Recorded => next.item = refunded /\ refunded # NoItem,
             next.at \in Underway => next.item \in Items,
             next.at # "record"
      PROVE  IInv'
  BY <1>1, <1>2, <1>4, <1>5 DEF StatusTellsRefund
<1>6. ASSUME Crash(w) PROVE IInv'
  BY <1>2, <1>5, <1>6 DEF Crash, Done, Recorded, Underway
<1>7. ASSUME NEW i \in Items, CreateRead(w, i) PROVE IInv'
  <2> DEFINE next == [at |-> "insert", item |-> i, target |-> "NONE"]
  <2>1. next \in Calls /\ next.at = "insert" /\ next.item = i
    BY DEF Calls, Statements
  <2>2. request' = [request EXCEPT ![w] = next] /\ UNCHANGED <<fulfilmentVars, case, refunded, paidBack>>
    BY <1>7 DEF CreateRead
  <2> HIDE DEF next
  <2> QED
    BY <1>5, <2>1, <2>2 DEF Recorded
<1>8. ASSUME NEW i \in Items, NEW op \in Ops, ReadCase(w, i, op) PROVE IInv'
  <2> DEFINE next == IF op = "refund" THEN [at |-> "find", item |-> i, target |-> "NONE"]
                     ELSE [at |-> "write", item |-> i, target |-> Target(op, type[i])]
  <2>1. Target(op, type[i]) \in AfterSaleStatus \ {"COMPLETED"}
    BY DEF Target, Ops, AfterSaleStatus
  <2>2. next \in Calls /\ next.at \in {"find", "write"} /\ next.item = i
    BY <2>1 DEF Calls, Statements
  <2>3. request' = [request EXCEPT ![w] = next] /\ UNCHANGED <<fulfilmentVars, case, refunded, paidBack>>
    BY <1>8 DEF ReadCase
  <2> HIDE DEF next
  <2> QED
    BY <1>5, <2>2, <2>3 DEF Recorded
<1>9. ASSUME CreateInsert(w) PROVE IInv'
  <2>1. /\ r.item \in Items /\ UNCHANGED <<fulfilmentVars, refunded, paidBack>>
        /\ case' = [case EXCEPT ![r.item] = IF @ = "NONE" THEN "REQUESTED" ELSE @]
        /\ request' = [request EXCEPT ![w] = Idle]
    BY <1>2, <1>9 DEF CreateInsert, At, Done, RequestTells, Underway
  <2>2. case' \in [Items -> AfterSaleStatus \cup {"NONE"}]
    BY <1>2, <2>1 DEF AfterSaleStatus
  <2>3. \A i \in Items : case'[i] = "COMPLETED" => case[i] = "COMPLETED"
    BY <1>2, <2>1
  <2> QED
    BY <1>1, <1>2, <1>4, <2>1, <2>2, <2>3 DEF StatusTellsRefund, Recorded, Underway
<1>10. ASSUME WriteCase(w) PROVE IInv'
  <2>1. /\ r.item \in Items /\ UNCHANGED <<fulfilmentVars, refunded, paidBack>>
        /\ case' = [case EXCEPT ![r.item] = r.target]
    BY <1>2, <1>10 DEF WriteCase, At, RequestTells, Underway
  <2>2. /\ case' \in [Items -> AfterSaleStatus \cup {"NONE"}]
        /\ \A i \in Items : case'[i] = "COMPLETED" => case[i] = "COMPLETED"
    BY <1>2, <2>1
  <2>3. \A i \in Items : case'[i] = "COMPLETED" => refunded = i
    BY <1>1, <2>2 DEF StatusTellsRefund
  <2>4. CASE r.target = "REFUND_PROCESSING"
    <3> DEFINE next == [r EXCEPT !.at = "find", !.target = "NONE"]
    <3>1. next \in Calls /\ next.at = "find" /\ next.item = r.item
      BY <1>2, CallsTyped DEF Statements
    <3>2. request' = [request EXCEPT ![w] = next]
      BY <1>1, <1>10, <2>4 DEF WriteCase, Goto, Typed
    <3> HIDE DEF next
    <3> QED
      BY <1>4, <2>1, <2>2, <2>3, <3>1, <3>2 DEF Recorded
  <2>5. CASE r.target # "REFUND_PROCESSING"
    BY <1>2, <1>4, <1>10, <2>1, <2>2, <2>3, <2>5 DEF WriteCase, Done, Recorded, Underway
  <2> QED
    BY <2>4, <2>5
<1>11. ASSUME FindPayment(w) PROVE IInv'
  <2> DEFINE next == [r EXCEPT !.at = "provider", !.target = "NONE"]
  <2>1. r.item \in Items /\ UNCHANGED <<fulfilmentVars, case, refunded, paidBack>>
    BY <1>2, <1>11 DEF FindPayment, At, RequestTells, Underway
  <2>2. next \in Calls /\ next.at = "provider" /\ next.item = r.item
    BY <1>2, CallsTyped DEF Statements
  <2>3. request' = [request EXCEPT ![w] = next] \/ request' = [request EXCEPT ![w] = Idle]
    BY <1>1, <1>11 DEF FindPayment, Goto, Done, Typed
  <2> HIDE DEF next
  <2> QED
    BY <1>2, <1>5, <2>1, <2>2, <2>3 DEF Recorded, Underway
<1>12. ASSUME AskProvider(w) PROVE IInv'
  <2> DEFINE next == [r EXCEPT !.at = "record", !.target = "NONE"]
  <2>1. /\ r.item \in Items /\ UNCHANGED <<fulfilmentVars, case, refunded>>
        /\ paidBack' = [paidBack EXCEPT ![r.item] = @ + 1]
    BY <1>2, <1>12 DEF AskProvider, At, RequestTells, Underway
  <2>2. next \in Calls /\ next.at = "record" /\ next.item = r.item
    BY <1>2, CallsTyped DEF Statements
  <2>3. request' = [request EXCEPT ![w] = next]
    BY <1>1, <1>12 DEF AskProvider, Goto, Typed
  <2> HIDE DEF next
  <2>4. /\ paidBack' \in [Items -> Nat] /\ paidBack'[r.item] > 0
        /\ \A i \in Items : paidBack[i] > 0 => paidBack'[i] > 0
    BY <1>2, <2>1
  <2>5. request' \in [Workers -> Calls] /\ RequestsTell'
    BY <1>1, <2>1, <2>2, <2>3, <2>4, RequestsStay DEF Recorded
  <2>6. ParcelsInv' /\ (AllComplete' <=> AllComplete)
    BY <1>3, <2>1
  <2>7. StatusTellsRefund'
    BY <1>1, <1>2, <2>1, <2>4, <2>6 DEF StatusTellsRefund, AllComplete, fulfilmentVars
  <2>8. Typed'
    BY <1>1, <2>1, <2>4, <2>5 DEF Typed, fulfilmentVars
  <2> QED
    BY <2>5, <2>6, <2>7, <2>8 DEF IInv
<1>13. ASSUME RecordRefund(w) PROVE IInv'
  <2>1. r.item \in Items /\ paidBack[r.item] > 0 /\ UNCHANGED <<fulfilmentVars, case, paidBack>>
    BY <1>2, <1>13 DEF RecordRefund, At, RequestTells, Underway
  <2>2. CASE refunded # NoItem
    BY <1>2, <1>5, <1>13, <2>1, <2>2 DEF RecordRefund, Done, Recorded, Underway
  <2>3. CASE refunded = NoItem
    <3> DEFINE next == [r EXCEPT !.at = "order", !.target = "NONE"]
    <3>1. next \in Calls /\ next.at = "order" /\ next.item = r.item
      BY <1>2, CallsTyped DEF Statements
    <3>2. request' = [request EXCEPT ![w] = next] /\ refunded' = r.item
      BY <1>1, <1>13, <2>3 DEF RecordRefund, Goto, Typed
    <3> HIDE DEF next
    <3>3. request' \in [Workers -> Calls] /\ RequestsTell'
      BY <1>1, <1>2, <2>1, <2>3, <3>1, <3>2, RequestsStay DEF Underway
    <3>4. ParcelsInv' /\ (AllComplete' <=> AllComplete)
      BY <1>3, <2>1, <2>3
    <3>5. \A i \in Items : case[i] # "COMPLETED"
      BY <1>1, <1>2, <2>3 DEF StatusTellsRefund
    <3>6. StatusTellsRefund'
      BY <1>1, <1>2, <2>1, <3>2, <3>4, <3>5 DEF StatusTellsRefund, AllComplete, fulfilmentVars
    <3>7. Typed'
      BY <1>1, <2>1, <3>2, <3>3 DEF Typed, fulfilmentVars
    <3> QED
      BY <3>3, <3>4, <3>6, <3>7 DEF IInv
  <2> QED
    BY <2>2, <2>3
<1>14. ASSUME MarkOrder(w) \/ MarkIntent(w) PROVE IInv'
  <2>1. r.at \in {"order", "intent"} /\ r.item = refunded /\ refunded # NoItem
    BY <1>2, <1>14 DEF MarkOrder, MarkIntent, At, RequestTells, Recorded
  <2>2. /\ UNCHANGED <<child, parcel, confirmJob, confirming, case, refunded, paidBack>>
        /\ order' = order \/ order' = "AFTER_SALE"
        /\ intent' = intent \/ intent' = "REFUNDED"
    BY <1>14 DEF MarkOrder, MarkIntent
  <2>3. PICK at \in {"intent", "complete"} : request' = [request EXCEPT ![w] = [r EXCEPT !.at = at, !.target = "NONE"]]
    BY <1>1, <1>14 DEF MarkOrder, MarkIntent, Goto, Typed
  <2> DEFINE next == [r EXCEPT !.at = at, !.target = "NONE"]
  <2>4. next \in Calls /\ next.at = at /\ next.item = r.item
    <3>1. at \in Statements
      BY DEF Statements
    <3> QED
      BY <1>2, <3>1, CallsTyped
  <2>5. request' = [request EXCEPT ![w] = next]
    BY <2>3
  <2> HIDE DEF next
  <2>6. request' \in [Workers -> Calls] /\ RequestsTell'
    BY <1>1, <2>1, <2>2, <2>4, <2>5, RequestsStay DEF Underway
  <2>7. ParcelsInv' /\ (AllComplete' <=> AllComplete)
    BY <1>1, <2>1, <2>2, ParcelsStay DEF Shippable
  <2>8. StatusTellsRefund'
    BY <1>1, <2>1, <2>2, <2>7 DEF StatusTellsRefund, AllComplete
  <2>9. Typed'
    BY <1>1, <2>2, <2>6 DEF Typed, PaymentStatus
  <2> QED
    BY <2>6, <2>7, <2>8, <2>9 DEF IInv
<1>15. ASSUME CompleteCase(w) PROVE IInv'
  <2>1. r.item = refunded /\ refunded # NoItem /\ r.item \in Items
    BY <1>2, <1>15 DEF CompleteCase, At, RequestTells, Recorded
  <2>2. /\ UNCHANGED <<fulfilmentVars, refunded, paidBack>> /\ request' = [request EXCEPT ![w] = Idle]
        /\ case' = [case EXCEPT ![r.item] = "COMPLETED"]
    BY <1>15 DEF CompleteCase, Done
  <2>3. /\ case' \in [Items -> AfterSaleStatus \cup {"NONE"}]
        /\ \A i \in Items \ {r.item} : case'[i] = case[i]
    BY <1>2, <2>2 DEF AfterSaleStatus
  <2>4. \A i \in Items : case'[i] = "COMPLETED" => refunded = i
    BY <1>1, <2>1, <2>3 DEF StatusTellsRefund
  <2> QED
    BY <1>2, <1>4, <2>2, <2>3, <2>4 DEF Recorded, Underway
<1> QED
  BY <1>6, <1>7, <1>8, <1>9, <1>10, <1>11, <1>12, <1>13, <1>14, <1>15 DEF Handling
-----------------------------------------------------------------------------
(* The specification.                                                      *)

LEMMA InitHolds ==
    ASSUME Init
    PROVE  IInv
<1>1. /\ order = "PAID" /\ child = [m \in Merchants |-> "PAID"]
      /\ parcel = [m \in Merchants |-> [p \in Parcels |-> NoParcel]]
      /\ intent = "SUCCEEDED" /\ confirmJob = FALSE /\ confirming = {}
      /\ case = [i \in Items |-> "NONE"] /\ refunded = NoItem
      /\ paidBack = [i \in Items |-> 0] /\ request = [w \in Workers |-> Idle]
  BY DEF Init, FulfilmentInit
<1>2. \A m \in Merchants, p \in Parcels, i \in Items : parcel[m][p][i] = 0
  BY <1>1 DEF NoParcel
<1>3. Typed
  <2>1. confirmJob \in BOOLEAN
    BY <1>1
  <2>2. parcel \in [Merchants -> [Parcels -> [Items -> Nat]]]
    BY <1>1 DEF NoParcel
  <2> QED
    BY <1>1, <2>1, <2>2, CallsTyped DEF Typed, PaymentStatus
<1>4. ASSUME NEW i \in Items PROVE Shipped(i) = 0 /\ Ordered[i] \in Nat /\ Ordered[i] > 0
  <2> DEFINE f == Holds(MerchantOf[i], i)
  <2>1. \A p \in Parcels : f[p] = 0
    BY <1>2, ItemAssumption DEF Holds
  <2>2. Shipped(i) = Cardinality(UnitsOver(Parcels, f))
    BY <1>3, ShippedCounts
  <2> HIDE DEF f
  <2> QED
    BY <2>1, <2>2, NoUnits, ItemAssumption
<1>5. \A m \in Merchants : ~Complete(m)
  <2> SUFFICES ASSUME NEW m \in Merchants PROVE ~Complete(m)
    OBVIOUS
  <2>1. PICK i \in Items : MerchantOf[i] = m
    BY ItemAssumption
  <2> QED
    BY <1>4, <2>1 DEF Complete, ItemsOf
<1>6. \E m \in Merchants : TRUE
  BY ItemAssumption
<1>7. NeverOvershipped
  BY <1>1, <1>2, <1>4 DEF NeverOvershipped
<1>8. OrderTellsParcels /\ ChildrenTell /\ ConfirmedRightly
  BY <1>1, <1>4, <1>5, <1>6 DEF OrderTellsParcels, ChildrenTell, ConfirmedRightly
<1>9. StatusTellsRefund
  BY <1>1 DEF StatusTellsRefund
<1>10. RequestsTell
  BY <1>1, CallsTyped DEF RequestsTell, RequestTells, Recorded, Underway
<1> QED
  BY <1>3, <1>7, <1>8, <1>9, <1>10 DEF IInv, ParcelsInv

LEMMA NextKeeps ==
    ASSUME IInv, [Next]_vars
    PROVE  IInv'
<1>1. ASSUME Fulfilling PROVE IInv'
  BY <1>1, ShipKeeps, OrderMovesKeep DEF Fulfilling, FulfilmentNext
<1>2. ASSUME NEW w \in Workers, Handling(w) \/ Crash(w) PROVE IInv'
  BY <1>2, HandlingKeeps
<1>3. ASSUME UNCHANGED <<order, child, parcel, confirmJob, confirming, case, refunded, paidBack, request>>,
             intent' = intent \/ intent' = "CANCELLED"
      PROVE  IInv'
  <2>1. /\ Typed /\ RequestsTell /\ StatusTellsRefund
        /\ NeverOvershipped /\ OrderTellsParcels /\ ChildrenTell /\ ConfirmedRightly
    BY DEF IInv, ParcelsInv
  <2>2. ParcelsInv' /\ (AllComplete' <=> AllComplete)
    BY <1>3, <2>1, ParcelsStay DEF ConfirmedRightly, OrderTellsParcels, Shippable
  <2>3. StatusTellsRefund'
    BY <1>3, <2>1, <2>2 DEF StatusTellsRefund, AllComplete
  <2>4. Typed' /\ RequestsTell'
    BY <1>3, <2>1 DEF Typed, PaymentStatus, RequestsTell, RequestTells
  <2> QED
    BY <2>2, <2>3, <2>4 DEF IInv
<1>4. CASE ClosePayment
  BY <1>3, <1>4 DEF ClosePayment, caseVars
<1>5. CASE UNCHANGED vars
  BY <1>3, <1>5 DEF vars, fulfilmentVars, caseVars
<1> QED
  BY <1>1, <1>2, <1>4, <1>5 DEF Next

(* The invariant of an order on its way, its cases and its refund, for any *)
(* merchants, items, parcels and numbers of requests at once.              *)
THEOREM AfterSaleCorrect == Spec => []IInv
<1>1. Init => IInv
  BY InitHolds
<1>2. IInv /\ [Next]_vars => IInv'
  BY NextKeeps
<1> QED
  BY <1>1, <1>2, PTL DEF Spec

\* What the runs bound: refunds of one payment, and the types of its cases.
Bounded == type \in Choices /\ \A i \in Items : paidBack[i] <= MaxRefunds

LEMMA NextBounded ==
    ASSUME IInv, Bounded, [Next]_vars
    PROVE  Bounded'
<1>1. type' = type
  BY DEF Next, vars, caseVars, Fulfilling, Handling, Crash, ClosePayment, CreateRead, ReadCase, CreateInsert,
         WriteCase, FindPayment, AskProvider, RecordRefund, MarkOrder, MarkIntent, CompleteCase
<1>2. CASE paidBack' = paidBack
  BY <1>1, <1>2 DEF Bounded
<1>3. ASSUME NEW w \in Workers, AskProvider(w) PROVE Bounded'
  <2>1. /\ paidBack \in [Items -> Nat] /\ MaxRefunds \in Nat /\ IsFiniteSet(Items)
        /\ request[w].item \in Items
        /\ paidBack' = [paidBack EXCEPT ![request[w].item] = @ + 1]
    BY <1>3, CaseAssumption, ItemAssumption
       DEF IInv, Typed, RequestsTell, RequestTells, AskProvider, At, Underway
  <2>2. Cardinality(UnitsOver(Items, paidBack)) < MaxRefunds
    BY <1>3 DEF AskProvider, UnitsOver, UnitsOf
  <2>3. /\ Cardinality(UnitsOver(Items, paidBack)) \in Nat
        /\ \A i \in Items : paidBack[i] <= Cardinality(UnitsOver(Items, paidBack))
    BY <2>1, UnitsAreFinite, UnitsCounted
  <2> QED
    BY <1>1, <2>1, <2>2, <2>3 DEF Bounded
<1>4. CASE paidBack' # paidBack
  <2>1. \E w \in Workers : AskProvider(w)
    BY <1>4 DEF Next, vars, caseVars, Fulfilling, Handling, Crash, ClosePayment, CreateRead, ReadCase,
         CreateInsert, WriteCase, FindPayment, RecordRefund, MarkOrder, MarkIntent, CompleteCase
  <2> QED
    BY <1>3, <2>1
<1> QED
  BY <1>2, <1>4

(* Every variable keeps its type; the bound on refunds is kept as well.    *)
THEOREM AfterSaleTyped == Spec => []TypeOK
<1>1. Init => Bounded
  BY CaseAssumption DEF Init, Bounded
<1>2. IInv /\ Bounded /\ [Next]_vars => Bounded'
  BY NextBounded
<1>3. IInv /\ Bounded => TypeOK
  <2> SUFFICES ASSUME IInv, Bounded PROVE TypeOK
    OBVIOUS
  <2>1. FulfilmentTypeOK
    BY DEF IInv, Typed, FulfilmentTypeOK, OrderStatus
  <2>2. paidBack \in [Items -> 0..MaxRefunds]
    BY CaseAssumption DEF IInv, Typed, Bounded
  <2>3. request \in [Workers -> [at : Statements \cup {"done"}, item : Items \cup {NoItem},
                                 target : AfterSaleStatus \cup {"NONE"}]]
    BY DEF IInv, Typed, Calls
  <2> QED
    BY <2>1, <2>2, <2>3 DEF IInv, Typed, Bounded, TypeOK
<1> QED
  BY <1>1, <1>2, <1>3, AfterSaleCorrect, PTL DEF Spec

(* Nothing is sent beyond what was ordered, by whom it is not, or of an    *)
(* order that was cancelled.                                               *)
THEOREM NothingOversent == Spec => []NeverOvershipped
<1>1. IInv => NeverOvershipped
  BY DEF IInv, ParcelsInv
<1> QED
  BY <1>1, AfterSaleCorrect, PTL

(* The order's statuses and its confirmation job tell of the parcels of    *)
(* all its merchants.                                                      *)
THEOREM OrderIsTold == Spec => []OrderTellsParcels
<1>1. IInv => OrderTellsParcels
  BY DEF IInv, ParcelsInv
<1> QED
  BY <1>1, AfterSaleCorrect, PTL

(* However requests overlap and die: at most one case of a payment ends    *)
(* COMPLETED, the one on record and paid back; nothing says refunded       *)
(* without a refund, nor received with something left to send.             *)
THEOREM RefundIsTold == Spec => []StatusTellsRefund
<1>1. IInv => StatusTellsRefund
  BY DEF IInv
<1> QED
  BY <1>1, AfterSaleCorrect, PTL
====
