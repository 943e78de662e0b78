--------------------------- MODULE ShipmentDomain ---------------------------
(***************************************************************************)
(* The pure rules of orders/shipment-domain.ts.  A quantity summed over    *)
(* lines or parcels is the cardinality of a set with one element per unit. *)
(*   lines     a request: a sequence of [item, quantity]                   *)
(*   parcels   a function from the parcels of one merchant order to what   *)
(*             each of them holds, a number of units per item              *)
(***************************************************************************)
EXTENDS OrderDomain, Integers, Sequences, FiniteSets

LinesOf(lines, i) == {k \in DOMAIN lines : lines[k].item = i}

\* planned: lines that name the same item are merged.
Planned(lines, i) ==
    Cardinality(UNION {{k} \X (1..lines[k].quantity) : k \in LinesOf(lines, i)})

\* Units of item i sent so far.
shippedQuantities(parcels, i) ==
    Cardinality(UNION {{p} \X (1..parcels[p][i]) : p \in DOMAIN parcels})

\* Mutant: every line is held against what remains, not their sum.
planLineByLine(items, ordered, parcels, lines) ==
    /\ lines # <<>>
    /\ \A k \in DOMAIN lines :
         /\ lines[k].item \in items
         /\ lines[k].quantity \in
              1..(ordered[lines[k].item] - shippedQuantities(parcels, lines[k].item))

\* Whether a request may be sent: lines of this merchant order only, and
\* with what was sent before no more than was ordered.
planShipmentLines(items, ordered, parcels, lines) ==
    /\ lines # <<>>
    /\ \A k \in DOMAIN lines : lines[k].item \in items /\ lines[k].quantity >= 1
    /\ \A i \in {lines[k].item : k \in DOMAIN lines} :
         Planned(lines, i) <= ordered[i] - shippedQuantities(parcels, i)

resolveFulfillmentStatus(items, ordered, parcels) ==
    IF \A i \in items : shippedQuantities(parcels, i) >= ordered[i]
    THEN "SHIPPED" ELSE "PARTIALLY_SHIPPED"

\* Mutant: the order is shipped as soon as one merchant has sent everything.
resolveByFirstChild(statuses) ==
    IF \E s \in statuses : s = "SHIPPED" THEN "SHIPPED" ELSE "PARTIALLY_SHIPPED"

resolveOrderShipmentStatus(statuses) ==
    IF \A s \in statuses : s = "SHIPPED" THEN "SHIPPED" ELSE "PARTIALLY_SHIPPED"

shouldAutoConfirmReceipt(status) == status = "SHIPPED"

-----------------------------------------------------------------------------
(* The form of ShipmentPanel.vue in apps/admin, which fills in what is     *)
(* left of each item and asks for no more of it.                           *)

remaining(ordered, parcels, i) ==
    LET left == ordered[i] - shippedQuantities(parcels, i)
    IN  IF left > 0 THEN left ELSE 0

\* The lines that are asked for, from the quantities that were entered.
submit(items, ordered, parcels, entered) ==
    LET Asked(i) == IF entered[i] <= remaining(ordered, parcels, i) THEN entered[i]
                    ELSE remaining(ordered, parcels, i)
    IN  {[item |-> i, quantity |-> Asked(i)] : i \in {j \in items : Asked(j) > 0}}

\* What the form asks for may be sent, as long as it shows what was sent.
AsksForWhatFits(items, ordered, parcels, entered) ==
    LET asked == submit(items, ordered, parcels, entered)
    IN  \A lines \in [1..Cardinality(asked) -> asked] :
          asked # {} /\ {lines[k] : k \in DOMAIN lines} = asked =>
            planShipmentLines(items, ordered, parcels, lines)
=============================================================================
