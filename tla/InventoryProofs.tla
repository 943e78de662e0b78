--------------------------- MODULE InventoryProofs ---------------------------
(***************************************************************************)
(* Theorems about module Inventory, for any number of concurrent requests, *)
(* any set of orders and any quantities.                                   *)
(***************************************************************************)
EXTENDS Inventory, UnitCounting, SequenceTheorems

-----------------------------------------------------------------------------
(* Typing *)

(* A write leaves a legal row and a legal ledger entry behind.             *)
LEMMA MutateTyped ==
    ASSUME TypeOK, NEW w \in Workers, mutate(tx[w])
    PROVE  /\ inventory' \in InventorySnapshot
           /\ ledger' \in Seq(LedgerEntry)
           /\ inventory'.reserved <= inventory'.onHand
           /\ inventory'.version = inventory.version + 1
           /\ inventory'.onHand = tx[w].row.onHand + OnHandDelta(tx[w])
           /\ inventory'.reserved = tx[w].row.reserved + ReservedDelta(tx[w])
<1> DEFINE t == tx[w]
<1> DEFINE next == NextSnapshot(t)
<1>1. /\ t \in Request /\ t.row \in InventorySnapshot /\ t.amount \in Int
      /\ inventory \in InventorySnapshot
  BY DEF TypeOK, Request
<1>2. OnHandDelta(t) \in Int /\ ReservedDelta(t) \in Int
  BY <1>1 DEF OnHandDelta, ReservedDelta
<1>3. /\ ~InvalidInventoryMutation(next)
      /\ Matches(t)
      /\ inventory' = next
  BY DEF mutate
<1>4. inventory.version = t.row.version
  BY <1>3 DEF Matches
<1>5. /\ next \in InventorySnapshot
      /\ next.reserved <= next.onHand
      /\ next.version = t.row.version + 1
      /\ next.onHand = t.row.onHand + OnHandDelta(t)
      /\ next.reserved = t.row.reserved + ReservedDelta(t)
  BY <1>1, <1>2, <1>3
     DEF NextSnapshot, applyInventoryDelta, InvalidInventoryMutation, InventorySnapshot
<1>6. Entry(EntryType(t), t.reference, OnHandDelta(t), ReservedDelta(t), next)
        \in LedgerEntry
  <2>1. EntryType(t) \in LedgerType
    BY DEF EntryType, LedgerType
  <2>2. t.reference \in References \cup {NoReference}
    BY <1>1 DEF Request
  <2> QED
    BY <1>2, <1>5, <2>1, <2>2 DEF Entry, LedgerEntry, InventorySnapshot
<1>7. ledger' = Append(ledger, Entry(EntryType(t), t.reference,
                          OnHandDelta(t), ReservedDelta(t), next))
  BY DEF mutate
<1>8. ledger' \in Seq(LedgerEntry)
  BY <1>6, <1>7, AppendProperties DEF TypeOK
<1> QED
  BY <1>3, <1>4, <1>5, <1>8

LEMMA AnswerTyped ==
    ASSUME TypeOK, NEW w \in Workers,
           NEW reply \in {"ok", "badRequest", "conflict"}, Answer(w, reply)
    PROVE  /\ tx' \in [Workers -> Request]
           /\ expired' \in [Workers -> SUBSET References]
<1>1. EmptyRow \in InventorySnapshot
  BY DEF EmptyRow, InventorySnapshot
<1>2. [tx[w] EXCEPT !.at = "done", !.row = EmptyRow, !.reply = reply] \in Request
  <2>1. tx[w] \in Request
    BY DEF TypeOK
  <2> QED
    BY <1>1, <2>1 DEF Request
<1>3. tx' = [tx EXCEPT ![w] =
               [tx[w] EXCEPT !.at = "done", !.row = EmptyRow, !.reply = reply]]
  BY DEF Answer, TypeOK
<1>4. expired' \in [Workers -> SUBSET References]
  BY DEF Answer, TypeOK
<1> QED
  BY <1>2, <1>3, <1>4 DEF TypeOK

LEMMA OpenedTyped ==
    ASSUME NEW op \in {"none", "adjust", "save", "threshold", "reserve"} \cup Finish,
           NEW at \in {"done", "findReservation", "findInventory", "write"},
           NEW r \in References \cup {NoReference}, NEW amount \in Int,
           NEW row \in InventorySnapshot
    PROVE  Opened(op, at, r, amount, row) \in Request
BY DEF Opened, Request

LEMMA NoRequestTyped == NoRequest \in Request
BY DEF NoRequest, Request, EmptyRow, InventorySnapshot

LEMMA InitTyped == Init => TypeOK
<1> SUFFICES ASSUME Init PROVE TypeOK
  OBVIOUS
<1> PICK stock \in InitialStocks :
      /\ inventory = [onHand |-> stock, reserved |-> 0, version |-> 0]
      /\ ledger = <<Entry("INITIAL_STOCK", NoReference, stock, 0, inventory)>>
  BY DEF Init
<1>1. inventory \in InventorySnapshot
  BY StocksAssumption DEF InventorySnapshot
<1>2. Entry("INITIAL_STOCK", NoReference, stock, 0, inventory) \in LedgerEntry
  BY <1>1, StocksAssumption DEF Entry, LedgerEntry, LedgerType, InventorySnapshot
<1>3. ledger \in Seq(LedgerEntry)
  BY <1>2
<1>4. NoReservation \in Reservation
  BY DEF NoReservation, Reservation, ReservationStatus
<1> QED
  BY <1>1, <1>3, <1>4, NoRequestTyped DEF Init, TypeOK

LEMMA StepTyped == TypeOK /\ RequestsAreCurrent /\ [Next]_vars => TypeOK'
<1> SUFFICES ASSUME TypeOK, RequestsAreCurrent, [Next]_vars PROVE TypeOK'
  OBVIOUS
<1>1. CASE UNCHANGED vars
  BY <1>1 DEF vars, TypeOK
<1>2. ASSUME NEW r \in References, Expire(r) PROVE TypeOK'
  BY <1>2 DEF Expire, TypeOK
<1>3. ASSUME NEW w \in Workers, Merchant(w) PROVE TypeOK'
  <2>1. ASSUME NEW delta \in Deltas, AdjustRead(w, delta) PROVE TypeOK'
    <3> DEFINE clamped == clampInventoryAdjustment(delta,
                            inventory.onHand - inventory.reserved)
    <3>1. clamped \in Int
      BY DeltasAssumption DEF clampInventoryAdjustment, TypeOK, InventorySnapshot
    <3>2. Opened("adjust", "write", NoReference, clamped, inventory) \in Request
      BY <3>1, OpenedTyped DEF TypeOK
    <3> QED
      BY <2>1, <3>2 DEF AdjustRead, TypeOK
  <2>2. ASSUME NEW stock \in InitialStocks, SaveDraftRead(w, stock) PROVE TypeOK'
    <3>1. stock - inventory.onHand \in Int
      BY StocksAssumption DEF TypeOK, InventorySnapshot
    <3>2. Opened("save", "write", NoReference, stock - inventory.onHand, inventory)
            \in Request
      BY <3>1, OpenedTyped DEF TypeOK
    <3> QED
      BY <2>2, <3>2 DEF SaveDraftRead, TypeOK
  <2>3. ASSUME StockWrite(w) PROVE TypeOK'
    BY <2>3, MutateTyped, AnswerTyped DEF StockWrite, TypeOK
  <2>4. ASSUME ThresholdRead(w) PROVE TypeOK'
    <3>1. 0 \in Int /\ inventory \in InventorySnapshot
      BY DEF TypeOK
    <3>2. Opened("threshold", "write", NoReference, 0, inventory) \in Request
      BY <3>1, OpenedTyped
    <3> QED
      BY <2>4, <3>2 DEF ThresholdRead, TypeOK
  <2>5. ASSUME ThresholdWrite(w) PROVE TypeOK'
    <3>1. inventory' \in InventorySnapshot
      BY <2>5 DEF ThresholdWrite, TypeOK, InventorySnapshot
    <3> QED
      BY <2>5, <3>1, AnswerTyped DEF ThresholdWrite, TypeOK
  <2> QED
    BY <1>3, <2>1, <2>2, <2>3, <2>4, <2>5 DEF Merchant
<1>4. ASSUME NEW w \in Workers, Reserving(w) PROVE TypeOK'
  <2>1. ASSUME NEW r \in References, NEW q \in 1..MaxQuantity, ReserveRead(w, r, q)
        PROVE  TypeOK'
    <3>1. Opened("reserve", "findReservation", r, q, inventory) \in Request
      BY OpenedTyped DEF TypeOK
    <3> QED
      BY <2>1, <3>1 DEF ReserveRead, TypeOK
  <2>2. ASSUME ReserveAgain(w) PROVE TypeOK'
    BY <2>2, AnswerTyped DEF ReserveAgain, Fail, TypeOK
  <2>3. ASSUME ReserveFind(w) PROVE TypeOK'
    BY <2>3 DEF ReserveFind, TypeOK, Request
  <2>4. ASSUME ReserveWrite(w) PROVE TypeOK'
    <3>1. tx[w].reference \in References /\ tx[w].amount \in Nat
      BY <2>4, BoundsAssumption DEF ReserveWrite, At, RequestsAreCurrent
    <3>2. reservation' \in [References -> Reservation]
      BY <2>4, <3>1 DEF ReserveWrite, TypeOK, Reservation, ReservationStatus
    <3> QED
      BY <2>4, <3>2, MutateTyped, AnswerTyped DEF ReserveWrite, TypeOK
  <2> QED
    BY <1>4, <2>1, <2>2, <2>3, <2>4 DEF Reserving
<1>5. ASSUME NEW w \in Workers, Finishing(w) PROVE TypeOK'
  <2>1. ASSUME NEW r \in References, NEW target \in Finish, FinishRead(w, r, target)
        PROVE  TypeOK'
    <3>1. reservation[r].quantity \in Int
      BY DEF TypeOK, Reservation
    <3>2. Opened(target, "findInventory", r, reservation[r].quantity, EmptyRow)
            \in Request
      BY <3>1, OpenedTyped DEF EmptyRow, InventorySnapshot
    <3> QED
      BY <2>1, <3>2 DEF FinishRead, TypeOK
  <2>2. ASSUME NEW r \in References, NEW target \in Finish, FinishAgain(w, r, target)
        PROVE  TypeOK'
    <3>1. reservation[r].quantity \in Int
      BY DEF TypeOK, Reservation
    <3>2. Opened(target, "done", r, reservation[r].quantity, EmptyRow) \in Request
      BY <3>1, OpenedTyped DEF EmptyRow, InventorySnapshot
    <3> QED
      BY <2>2, <3>2 DEF FinishAgain, TypeOK, Request
  <2>3. ASSUME FinishLoad(w) PROVE TypeOK'
    <3>1. [tx[w] EXCEPT !.at = "write", !.row = inventory] \in Request
      BY DEF TypeOK, Request
    <3>2. tx' = [tx EXCEPT ![w] = [tx[w] EXCEPT !.at = "write", !.row = inventory]]
      BY <2>3 DEF FinishLoad, TypeOK
    <3> QED
      BY <2>3, <3>1, <3>2 DEF FinishLoad, TypeOK
  <2>4. ASSUME FinishWrite(w) PROVE TypeOK'
    <3>1. reservation' \in [References -> Reservation]
      BY <2>4 DEF FinishWrite, TypeOK, Reservation, ReservationStatus
    <3> QED
      BY <2>4, <3>1, MutateTyped, AnswerTyped DEF FinishWrite, TypeOK
  <2>5. ASSUME FinishLost(w) PROVE TypeOK'
    BY <2>5, AnswerTyped DEF FinishLost, Fail, TypeOK
  <2>6. ASSUME ReleaseExpired(w) PROVE TypeOK'
    BY <2>6, NoRequestTyped DEF ReleaseExpired, TypeOK
  <2> QED
    BY <1>5, <2>1, <2>2, <2>3, <2>4, <2>5, <2>6 DEF Finishing
<1>6. ASSUME NEW w \in Workers, MutationRefused(w) PROVE TypeOK'
  BY <1>6, AnswerTyped DEF MutationRefused, Fail, TypeOK
<1>7. ASSUME NEW w \in Workers, VersionChanged(w) PROVE TypeOK'
  BY <1>7, AnswerTyped DEF VersionChanged, Fail, TypeOK
<1>8. ASSUME NEW w \in Workers, Abort(w) PROVE TypeOK'
  BY <1>8, NoRequestTyped DEF Abort, TypeOK
<1> QED
  BY <1>1, <1>2, <1>3, <1>4, <1>5, <1>6, <1>7, <1>8 DEF Next

-----------------------------------------------------------------------------
(* What a step may do to the row and to the reservations *)

(* The only four things a step does to the stored data.                    *)
LEMMA StoredData ==
    ASSUME TypeOK, RequestsAreCurrent, [Next]_vars
    PROVE  \/ inventory' = inventory /\ reservation' = reservation
           \/ /\ reservation' = reservation
              /\ inventory'.version = inventory.version + 1
              /\ inventory'.reserved = inventory.reserved
              /\ NeverOversold => inventory'.reserved <= inventory'.onHand
           \/ \E w \in Workers : ReserveWrite(w) \/ FinishWrite(w)
<1>1. ASSUME NEW w \in Workers, StockWrite(w)
      PROVE  /\ reservation' = reservation
             /\ inventory'.version = inventory.version + 1
             /\ inventory'.reserved = inventory.reserved
             /\ inventory'.reserved <= inventory'.onHand
  <2>1. mutate(tx[w]) /\ reservation' = reservation
    BY <1>1 DEF StockWrite
  <2>2. ReservedDelta(tx[w]) = 0 /\ inventory = tx[w].row
    BY <1>1 DEF StockWrite, mutate, Matches, ReservedDelta, Finish
  <2>3. inventory.reserved \in Nat
    BY DEF TypeOK, InventorySnapshot
  <2> QED
    BY <2>1, <2>2, <2>3, MutateTyped
<1>2. ASSUME NEW w \in Workers, ThresholdWrite(w)
      PROVE  /\ reservation' = reservation
             /\ inventory'.version = inventory.version + 1
             /\ inventory'.reserved = inventory.reserved
             /\ inventory'.onHand = inventory.onHand
  BY <1>2 DEF ThresholdWrite, TypeOK, InventorySnapshot
<1>3. CASE UNCHANGED vars
  BY <1>3 DEF vars
<1>4. CASE \E r \in References : Expire(r)
  BY <1>4 DEF Expire
<1>5. ASSUME NEW w \in Workers, Merchant(w)
      PROVE  \/ inventory' = inventory /\ reservation' = reservation
             \/ StockWrite(w) \/ ThresholdWrite(w)
  BY <1>5 DEF Merchant, AdjustRead, SaveDraftRead, ThresholdRead
<1>6. ASSUME NEW w \in Workers, Reserving(w)
      PROVE  \/ inventory' = inventory /\ reservation' = reservation
             \/ ReserveWrite(w)
  BY <1>6 DEF Reserving, ReserveRead, ReserveAgain, ReserveFind, Fail
<1>7. ASSUME NEW w \in Workers, Finishing(w)
      PROVE  \/ inventory' = inventory /\ reservation' = reservation
             \/ FinishWrite(w)
  BY <1>7 DEF Finishing, FinishRead, FinishAgain, FinishLoad, FinishLost,
              ReleaseExpired, Fail
<1>8. ASSUME NEW w \in Workers, MutationRefused(w) \/ VersionChanged(w) \/ Abort(w)
      PROVE  inventory' = inventory /\ reservation' = reservation
  BY <1>8 DEF MutationRefused, VersionChanged, Abort, Fail
<1>9. CASE Next
  <2>1. CASE \E w \in Workers : Merchant(w)
    BY <1>1, <1>2, <1>5, <2>1 DEF NeverOversold
  <2>2. CASE \E w \in Workers : Reserving(w)
    BY <1>6, <2>2
  <2>3. CASE \E w \in Workers : Finishing(w)
    BY <1>7, <2>3
  <2>4. CASE \E w \in Workers :
               MutationRefused(w) \/ VersionChanged(w) \/ Abort(w)
    BY <1>8, <2>4
  <2> QED
    BY <1>4, <1>9, <2>1, <2>2, <2>3, <2>4 DEF Next
<1> QED
  BY <1>3, <1>9

(* What reserve writes: a hold where there was none, as large as its       *)
(* increase of the counter.                                                *)
LEMMA ReserveWriteEffect ==
    ASSUME TypeOK, RequestsAreCurrent, ReserveNeverCollides,
           NEW w \in Workers, ReserveWrite(w)
    PROVE  /\ tx[w].reference \in References
           /\ tx[w].amount \in 1..MaxQuantity
           /\ reservation[tx[w].reference] = NoReservation
           /\ reservation' = [reservation EXCEPT ![tx[w].reference] =
                                [status |-> "ACTIVE", quantity |-> tx[w].amount]]
           /\ inventory'.version = inventory.version + 1
           /\ inventory'.onHand = inventory.onHand
           /\ inventory'.reserved = inventory.reserved + tx[w].amount
           /\ inventory'.reserved <= inventory'.onHand
<1>1. mutate(tx[w]) /\ At(w, "reserve", "write")
  BY DEF ReserveWrite
<1>2. inventory = tx[w].row /\ Matches(tx[w])
  BY <1>1 DEF mutate, Matches, At
<1>3. OnHandDelta(tx[w]) = 0 /\ ReservedDelta(tx[w]) = tx[w].amount
  BY <1>1 DEF At, OnHandDelta, ReservedDelta, Finish
<1>4. reservation[tx[w].reference] = NoReservation
  BY <1>1, <1>2 DEF ReserveNeverCollides
<1>5. inventory.onHand \in Nat
  BY DEF TypeOK, InventorySnapshot
<1> QED
  BY <1>1, <1>2, <1>3, <1>4, <1>5, MutateTyped
     DEF ReserveWrite, RequestsAreCurrent, At

(* What a finish writes: the status of an active hold, with the decrease   *)
(* of the counter the hold stands for.                                     *)
LEMMA FinishWriteEffect ==
    ASSUME TypeOK, RequestsAreCurrent, NEW w \in Workers, FinishWrite(w)
    PROVE  /\ tx[w].reference \in References
           /\ tx[w].op \in Finish
           /\ reservation[tx[w].reference].status = "ACTIVE"
           /\ reservation[tx[w].reference].quantity = tx[w].amount
           /\ tx[w].amount \in 1..MaxQuantity
           /\ reservation' = [reservation EXCEPT ![tx[w].reference].status = tx[w].op]
           /\ inventory'.version = inventory.version + 1
           /\ inventory'.reserved = inventory.reserved - tx[w].amount
           /\ inventory'.onHand = IF tx[w].op = "COMMITTED"
                                  THEN inventory.onHand - tx[w].amount
                                  ELSE inventory.onHand
           /\ inventory'.reserved <= inventory'.onHand
<1>1. mutate(tx[w]) /\ tx[w].op \in Finish /\ StillActive(tx[w].reference)
  BY DEF FinishWrite
<1>2. inventory = tx[w].row
  BY <1>1 DEF mutate, Matches, Finish
<1>3. /\ ReservedDelta(tx[w]) = -tx[w].amount
      /\ OnHandDelta(tx[w]) = IF tx[w].op = "COMMITTED" THEN -tx[w].amount ELSE 0
  BY <1>1 DEF ReservedDelta, OnHandDelta, Finish
<1>4. /\ tx[w].reference \in References
      /\ tx[w].amount \in 1..MaxQuantity
      /\ reservation[tx[w].reference].quantity = tx[w].amount
  BY <1>1 DEF RequestsAreCurrent
<1>5. inventory.onHand \in Nat /\ inventory.reserved \in Nat /\ tx[w].amount \in Int
  BY DEF TypeOK, InventorySnapshot, Request
<1>6. inventory'.reserved = inventory.reserved - tx[w].amount
  BY <1>1, <1>2, <1>3, <1>5, MutateTyped
<1>7. inventory'.onHand = IF tx[w].op = "COMMITTED"
                          THEN inventory.onHand - tx[w].amount
                          ELSE inventory.onHand
  BY <1>1, <1>2, <1>3, <1>5, MutateTyped
<1> QED
  BY <1>1, <1>4, <1>6, <1>7, MutateTyped DEF FinishWrite, StillActive

-----------------------------------------------------------------------------
(* Counting held units *)

(* Taking a hold adds exactly its units; finishing one removes them.       *)
LEMMA HeldUnitsTaken ==
    ASSUME TypeOK, NEW r \in References, NEW q \in 1..MaxQuantity,
           reservation[r] = NoReservation,
           reservation' = [reservation EXCEPT ![r] =
                             [status |-> "ACTIVE", quantity |-> q]],
           IsFiniteSet(HeldUnits)
    PROVE  /\ IsFiniteSet(HeldUnits')
           /\ Cardinality(HeldUnits') = Cardinality(HeldUnits) + q
<1>1. q \in Nat
  BY BoundsAssumption
<1>2. HeldUnits' = HeldUnits \cup UnitsOf(r, q)
  <2>1. ASSUME NEW x \in References, NEW k \in 1..MaxQuantity
        PROVE  <<x, k>> \in HeldUnits' <=> <<x, k>> \in HeldUnits \cup UnitsOf(r, q)
    <3>1. CASE x = r
      BY <3>1, BoundsAssumption
         DEF HeldUnits, UnitsOf, NoReservation, TypeOK, Reservation
    <3>2. CASE x # r
      BY <3>2 DEF HeldUnits, UnitsOf, TypeOK
    <3> QED
      BY <3>1, <3>2
  <2>2. HeldUnits' \subseteq References \X (1..MaxQuantity)
    BY DEF HeldUnits
  <2>3. HeldUnits \cup UnitsOf(r, q) \subseteq References \X (1..MaxQuantity)
    BY BoundsAssumption DEF HeldUnits, UnitsOf
  <2> QED
    BY <2>1, <2>2, <2>3
<1>3. HeldUnits \cap UnitsOf(r, q) = {}
  BY DEF HeldUnits, UnitsOf, NoReservation
<1>4. IsFiniteSet(UnitsOf(r, q)) /\ Cardinality(UnitsOf(r, q)) = q
  BY <1>1, UnitsCount
<1> QED
  BY <1>2, <1>3, <1>4, DisjointCount

LEMMA HeldUnitsFinished ==
    ASSUME TypeOK, NEW r \in References, NEW q \in 1..MaxQuantity,
           NEW status \in Finish,
           reservation[r].status = "ACTIVE", reservation[r].quantity = q,
           reservation' = [reservation EXCEPT ![r].status = status],
           IsFiniteSet(HeldUnits)
    PROVE  /\ IsFiniteSet(HeldUnits')
           /\ Cardinality(HeldUnits') = Cardinality(HeldUnits) - q
<1>1. q \in Nat
  BY BoundsAssumption
<1>2. HeldUnits = HeldUnits' \cup UnitsOf(r, q)
  <2>1. ASSUME NEW x \in References, NEW k \in 1..MaxQuantity
        PROVE  <<x, k>> \in HeldUnits <=> <<x, k>> \in HeldUnits' \cup UnitsOf(r, q)
    <3>1. CASE x = r
      BY <3>1, BoundsAssumption DEF HeldUnits, UnitsOf, TypeOK, Reservation, Finish
    <3>2. CASE x # r
      BY <3>2 DEF HeldUnits, UnitsOf, TypeOK
    <3> QED
      BY <3>1, <3>2
  <2>2. HeldUnits \subseteq References \X (1..MaxQuantity)
    BY DEF HeldUnits
  <2>3. HeldUnits' \cup UnitsOf(r, q) \subseteq References \X (1..MaxQuantity)
    BY BoundsAssumption DEF HeldUnits, UnitsOf
  <2> QED
    BY <2>1, <2>2, <2>3
<1>3. HeldUnits' \cap UnitsOf(r, q) = {}
  BY DEF HeldUnits, UnitsOf, Finish, TypeOK, Reservation
<1>4. IsFiniteSet(UnitsOf(r, q)) /\ Cardinality(UnitsOf(r, q)) = q
  BY <1>1, UnitsCount
<1>5. IsFiniteSet(HeldUnits')
  BY <1>2, FS_Subset
<1>6. Cardinality(HeldUnits') \in Nat
  BY <1>5, FS_CardinalityType
<1>7. Cardinality(HeldUnits) = Cardinality(HeldUnits') + q
  BY <1>2, <1>3, <1>4, <1>5, DisjointCount
<1> QED
  BY <1>1, <1>5, <1>6, <1>7

-----------------------------------------------------------------------------
(* The stored data stays coherent *)

StoredInv ==
    /\ ReservationsAreLegal
    /\ IsFiniteSet(HeldUnits)
    /\ ReservedIsHeld
    /\ NeverOversold

LEMMA InitStored == Init => StoredInv
<1> SUFFICES ASSUME Init PROVE StoredInv
  OBVIOUS
<1>1. HeldUnits = {}
  BY DEF Init, HeldUnits, NoReservation
<1>2. inventory.reserved = 0 /\ inventory.onHand \in Nat
  BY StocksAssumption DEF Init
<1> QED
  BY <1>1, <1>2, FS_EmptySet
     DEF Init, StoredInv, ReservationsAreLegal, ReservedIsHeld, NeverOversold

LEMMA StepStored ==
    TypeOK /\ RequestsAreCurrent /\ ReserveNeverCollides /\ StoredInv /\ [Next]_vars
        => StoredInv'
<1> SUFFICES ASSUME TypeOK, RequestsAreCurrent, ReserveNeverCollides, StoredInv,
                    [Next]_vars
             PROVE  StoredInv'
  OBVIOUS
<1>1. ASSUME reservation' = reservation
      PROVE  /\ HeldUnits' = HeldUnits
             /\ ReservationsAreLegal'
  BY <1>1 DEF HeldUnits, ReservationsAreLegal, StoredInv
<1>2. CASE inventory' = inventory /\ reservation' = reservation
  BY <1>1, <1>2 DEF StoredInv, ReservedIsHeld, NeverOversold
<1>3. CASE /\ reservation' = reservation
           /\ inventory'.reserved = inventory.reserved
           /\ NeverOversold => inventory'.reserved <= inventory'.onHand
  BY <1>1, <1>3 DEF StoredInv, ReservedIsHeld, NeverOversold
<1>4. ASSUME NEW w \in Workers, ReserveWrite(w) PROVE StoredInv'
  <2> DEFINE r == tx[w].reference
             q == tx[w].amount
  <2>1. /\ r \in References /\ q \in 1..MaxQuantity
        /\ reservation[r] = NoReservation
        /\ reservation' = [reservation EXCEPT ![r] =
                             [status |-> "ACTIVE", quantity |-> q]]
        /\ inventory'.reserved = inventory.reserved + q
        /\ inventory'.reserved <= inventory'.onHand
    BY <1>4, ReserveWriteEffect
  <2>2. IsFiniteSet(HeldUnits') /\ Cardinality(HeldUnits') = Cardinality(HeldUnits) + q
    BY <2>1, HeldUnitsTaken DEF StoredInv
  <2>3. ReservationsAreLegal'
    BY <2>1 DEF ReservationsAreLegal, StoredInv, TypeOK
  <2> QED
    BY <2>1, <2>2, <2>3 DEF StoredInv, ReservedIsHeld, NeverOversold
<1>5. ASSUME NEW w \in Workers, FinishWrite(w) PROVE StoredInv'
  <2> DEFINE r == tx[w].reference
             q == tx[w].amount
  <2>1. /\ r \in References /\ q \in 1..MaxQuantity /\ tx[w].op \in Finish
        /\ reservation[r].status = "ACTIVE" /\ reservation[r].quantity = q
        /\ reservation' = [reservation EXCEPT ![r].status = tx[w].op]
        /\ inventory'.reserved = inventory.reserved - q
        /\ inventory'.reserved <= inventory'.onHand
    BY <1>5, FinishWriteEffect
  <2>2. IsFiniteSet(HeldUnits') /\ Cardinality(HeldUnits') = Cardinality(HeldUnits) - q
    BY <2>1, HeldUnitsFinished DEF StoredInv
  <2>3. ReservationsAreLegal'
    BY <2>1 DEF ReservationsAreLegal, StoredInv, TypeOK, Reservation, Finish
  <2> QED
    BY <2>1, <2>2, <2>3 DEF StoredInv, ReservedIsHeld, NeverOversold
<1> QED
  BY <1>2, <1>3, <1>4, <1>5, StoredData

-----------------------------------------------------------------------------
(* The requests in flight stay coherent *)

(* What one request t may rely on when the row is `row` and the            *)
(* reservations are `res`: the request part of the inductive invariant,    *)
(* with the stored data as parameters so that both ends of a step are      *)
(* instances of it.                                                        *)
RequestOK(t, row, res) ==
    /\ t.op = "none" => t.at = "done"
    /\ t.at = "findReservation" => t.op = "reserve"
    /\ t.at = "findInventory" => t.op \in Finish
    /\ t.op \in {"reserve"} \cup Finish =>
         t.reference \in References /\ t.amount \in 1..MaxQuantity
    /\ t.op \in Finish =>
         /\ res[t.reference].status # "NONE"
         /\ res[t.reference].quantity = t.amount
    /\ t.op # "none" /\ t.at \in {"findReservation", "write"} =>
         /\ t.row.version <= row.version
         /\ t.row.version = row.version => t.row = row
    /\ t.op = "reserve" /\ t.at = "write" /\ row = t.row =>
         res[t.reference] = NoReservation
    /\ t.at = "done" /\ t.reply = "ok" =>
         /\ t.op = "reserve" =>
              /\ res[t.reference].status # "NONE"
              /\ res[t.reference].quantity = t.amount
         /\ t.op \in {"COMMITTED", "EXPIRED"} => res[t.reference].status = t.op
         /\ t.op = "RELEASED" => res[t.reference].status \in {"RELEASED", "EXPIRED"}

RequestInv == \A w \in Workers : RequestOK(tx[w], inventory, reservation)

LEMMA RequestInvIs ==
    RequestInv <=> /\ RequestsAreCurrent
                   /\ VersionNamesContent
                   /\ ReserveNeverCollides
                   /\ AnswersAreTrue
<1>1. ASSUME RequestInv
      PROVE  RequestsAreCurrent /\ VersionNamesContent /\ ReserveNeverCollides
  BY <1>1 DEF RequestInv, RequestOK, RequestsAreCurrent, VersionNamesContent,
              ReserveNeverCollides, At, Matches, Finish
<1>2. ASSUME RequestInv PROVE AnswersAreTrue
  BY <1>2 DEF RequestInv, RequestOK, AnswersAreTrue
<1>3. ASSUME RequestsAreCurrent, VersionNamesContent, ReserveNeverCollides,
             AnswersAreTrue
      PROVE  RequestInv
  BY <1>3 DEF RequestInv, RequestOK, RequestsAreCurrent, VersionNamesContent,
              ReserveNeverCollides, AnswersAreTrue, At, Matches, Finish
<1> QED
  BY <1>1, <1>2, <1>3

(* How the stored data may change under a request that does not move.      *)
Advances(row, res, row2, res2) ==
    /\ \/ row2 = row /\ res2 = res
       \/ row2.version = row.version + 1
    /\ \A r \in References :
         /\ res[r].status # "NONE" =>
              res2[r].status # "NONE" /\ res2[r].quantity = res[r].quantity
         /\ res[r].status \in Finish => res2[r] = res[r]

LEMMA StepAdvances ==
    ASSUME TypeOK, RequestsAreCurrent, ReserveNeverCollides, [Next]_vars
    PROVE  Advances(inventory, reservation, inventory', reservation')
<1>1. ASSUME reservation' = reservation,
             inventory' = inventory \/ inventory'.version = inventory.version + 1
      PROVE  Advances(inventory, reservation, inventory', reservation')
  BY <1>1 DEF Advances
<1>2. ASSUME NEW w \in Workers, ReserveWrite(w)
      PROVE  Advances(inventory, reservation, inventory', reservation')
  <2> DEFINE r == tx[w].reference
             row == [status |-> "ACTIVE", quantity |-> tx[w].amount]
  <2>1. /\ r \in References
        /\ reservation[r].status = "NONE"
        /\ reservation' = [reservation EXCEPT ![r] = row]
        /\ inventory'.version = inventory.version + 1
    BY <1>2, ReserveWriteEffect DEF NoReservation
  <2>2. \A x \in References : x # r => reservation'[x] = reservation[x]
    BY <2>1 DEF TypeOK
  <2> QED
    BY <2>1, <2>2 DEF Advances, Finish
<1>3. ASSUME NEW w \in Workers, FinishWrite(w)
      PROVE  Advances(inventory, reservation, inventory', reservation')
  <2> DEFINE r == tx[w].reference
  <2>1. /\ r \in References
        /\ reservation[r].status = "ACTIVE"
        /\ tx[w].op \in Finish
        /\ reservation' = [reservation EXCEPT ![r].status = tx[w].op]
        /\ inventory'.version = inventory.version + 1
    BY <1>3, FinishWriteEffect
  <2>2. /\ \A x \in References : x # r => reservation'[x] = reservation[x]
        /\ reservation'[r].status = tx[w].op
        /\ reservation'[r].quantity = reservation[r].quantity
    BY <2>1 DEF TypeOK, Reservation
  <2> QED
    BY <2>1, <2>2 DEF Advances, Finish
<1> QED
  BY <1>1, <1>2, <1>3, StoredData

(* A request that does not move keeps what it relies on.                   *)
LEMMA UnmovedOK ==
    ASSUME NEW t \in Request,
           NEW row \in InventorySnapshot, NEW row2 \in InventorySnapshot,
           NEW res, NEW res2,
           RequestOK(t, row, res), Advances(row, res, row2, res2)
    PROVE  RequestOK(t, row2, res2)
<1> USE DEF Finish
<1>1. t.op \in {"reserve"} \cup Finish => t.reference \in References
  BY DEF RequestOK
<1>2. t.op # "none" /\ t.at \in {"findReservation", "write"} =>
         /\ t.row.version <= row2.version
         /\ t.row.version = row2.version => t.row = row2 /\ row2 = row /\ res2 = res
  BY DEF RequestOK, Advances, Request, InventorySnapshot
<1>3. t.op = "reserve" /\ t.at = "write" /\ row2 = t.row =>
         res2[t.reference] = NoReservation
  BY <1>2 DEF RequestOK
<1>4. t.op \in Finish =>
         /\ res2[t.reference].status # "NONE"
         /\ res2[t.reference].quantity = t.amount
  BY <1>1 DEF RequestOK, Advances
<1>5. t.at = "done" /\ t.reply = "ok" =>
         /\ t.op = "reserve" =>
              /\ res2[t.reference].status # "NONE"
              /\ res2[t.reference].quantity = t.amount
         /\ t.op \in {"COMMITTED", "EXPIRED"} => res2[t.reference].status = t.op
         /\ t.op = "RELEASED" => res2[t.reference].status \in {"RELEASED", "EXPIRED"}
  BY <1>1 DEF RequestOK, Advances
<1> QED
  BY <1>2, <1>3, <1>4, <1>5 DEF RequestOK

(* A request that moves: one step per action.                              *)
Moved(w) == RequestOK(tx'[w], inventory', reservation')

LEMMA AnswerMoves ==
    ASSUME TypeOK, NEW w \in Workers, NEW reply, Answer(w, reply)
    PROVE  /\ tx'[w].at = "done" /\ tx'[w].reply = reply
           /\ tx'[w].op = tx[w].op /\ tx'[w].reference = tx[w].reference
           /\ tx'[w].amount = tx[w].amount
<1>1. tx'[w] = [tx[w] EXCEPT !.at = "done", !.row = EmptyRow, !.reply = reply]
  BY DEF Answer, TypeOK
<1>2. tx[w] \in Request
  BY DEF TypeOK
<1> QED
  BY <1>1, <1>2 DEF Request

LEMMA FailOK ==
    ASSUME TypeOK, RequestInv, NEW w \in Workers,
           NEW reply \in {"badRequest", "conflict"}, Fail(w, reply)
    PROVE  Moved(w)
<1>1. /\ tx'[w].op = tx[w].op /\ tx'[w].at = "done" /\ tx'[w].reply # "ok"
      /\ tx'[w].reference = tx[w].reference /\ tx'[w].amount = tx[w].amount
      /\ inventory' = inventory /\ reservation' = reservation
  BY AnswerMoves DEF Fail
<1>2. RequestOK(tx[w], inventory, reservation)
  BY DEF RequestInv
<1> QED
  BY <1>1, <1>2 DEF Moved, RequestOK

LEMMA MerchantOK ==
    ASSUME TypeOK, RequestInv, NEW w \in Workers, Merchant(w)
    PROVE  Moved(w)
<1>1. inventory \in InventorySnapshot
  BY DEF TypeOK
<1>2. ASSUME NEW op \in {"adjust", "save", "threshold"}, NEW amount,
             tx' = [tx EXCEPT ![w] =
                      Opened(op, "write", NoReference, amount, inventory)],
             inventory' = inventory
      PROVE  Moved(w)
  <2>1. tx'[w] = Opened(op, "write", NoReference, amount, inventory)
    BY <1>2 DEF TypeOK
  <2> QED
    BY <1>1, <1>2, <2>1 DEF Opened, Moved, RequestOK, Finish, InventorySnapshot
<1>3. ASSUME tx[w].op \in {"adjust", "save", "threshold"}, Answer(w, "ok")
      PROVE  Moved(w)
  <2>1. tx'[w].op = tx[w].op /\ tx'[w].at = "done"
    BY <1>3, AnswerMoves
  <2> QED
    BY <1>3, <2>1 DEF Moved, RequestOK, Finish
<1> QED
  BY <1>2, <1>3 DEF Merchant, AdjustRead, SaveDraftRead, ThresholdRead,
                    StockWrite, ThresholdWrite, At

LEMMA ReservingOK ==
    ASSUME TypeOK, RequestInv, ReservationsAreLegal, NEW w \in Workers, Reserving(w)
    PROVE  Moved(w)
<1>1. /\ inventory \in InventorySnapshot
      /\ tx[w] \in Request
      /\ RequestOK(tx[w], inventory, reservation)
  BY DEF TypeOK, RequestInv
<1>2. ASSUME NEW r \in References, NEW q \in 1..MaxQuantity, ReserveRead(w, r, q)
      PROVE  Moved(w)
  <2>1. /\ tx'[w] = Opened("reserve", "findReservation", r, q, inventory)
        /\ inventory' = inventory
    BY <1>2 DEF ReserveRead, TypeOK
  <2> QED
    BY <1>1, <2>1 DEF Opened, Moved, RequestOK, Finish, InventorySnapshot
<1>3. ASSUME ReserveAgain(w) PROVE Moved(w)
  <2> DEFINE reply == IF reservation[tx[w].reference].quantity = tx[w].amount
                      THEN "ok" ELSE "conflict"
  <2>1. /\ Fail(w, reply) /\ At(w, "reserve", "findReservation")
        /\ reservation[tx[w].reference] # NoReservation
    BY <1>3 DEF ReserveAgain
  <2>2. CASE reply # "ok"
    BY <2>1, <2>2, FailOK
  <2>3. CASE reply = "ok"
    <3>1. /\ tx'[w].op = "reserve" /\ tx'[w].at = "done" /\ tx'[w].reply = "ok"
          /\ tx'[w].reference = tx[w].reference /\ tx'[w].amount = tx[w].amount
          /\ inventory' = inventory /\ reservation' = reservation
      BY <2>1, <2>3, AnswerMoves DEF Fail, At
    <3>2. /\ tx[w].reference \in References /\ tx[w].amount \in 1..MaxQuantity
      BY <1>1, <2>1 DEF RequestOK, At
    <3>3. /\ reservation[tx[w].reference].status # "NONE"
          /\ reservation[tx[w].reference].quantity = tx[w].amount
      BY <2>1, <2>3, <3>2 DEF ReservationsAreLegal
    <3> QED
      BY <3>1, <3>2, <3>3 DEF Moved, RequestOK, Finish
  <2> QED
    BY <2>2, <2>3
<1>4. ASSUME ReserveFind(w) PROVE Moved(w)
  <2>1. /\ tx'[w] = [tx[w] EXCEPT !.at = "write"]
        /\ tx[w].op = "reserve" /\ tx[w].at = "findReservation"
        /\ reservation[tx[w].reference] = NoReservation
        /\ inventory' = inventory /\ reservation' = reservation
    BY <1>4 DEF ReserveFind, At, TypeOK
  <2>2. /\ tx'[w].op = "reserve" /\ tx'[w].at = "write"
        /\ tx'[w].reference = tx[w].reference /\ tx'[w].amount = tx[w].amount
        /\ tx'[w].row = tx[w].row
    BY <1>1, <2>1 DEF Request
  <2> QED
    BY <1>1, <2>1, <2>2 DEF Moved, RequestOK, Finish
<1>5. ASSUME ReserveWrite(w) PROVE Moved(w)
  <2>1. ReserveNeverCollides /\ RequestsAreCurrent
    BY RequestInvIs
  <2>2. /\ tx[w].reference \in References /\ tx[w].amount \in 1..MaxQuantity
        /\ reservation' = [reservation EXCEPT ![tx[w].reference] =
                             [status |-> "ACTIVE", quantity |-> tx[w].amount]]
    BY <1>5, <2>1, ReserveWriteEffect
  <2>3. /\ tx'[w].op = "reserve" /\ tx'[w].at = "done"
        /\ tx'[w].reference = tx[w].reference /\ tx'[w].amount = tx[w].amount
    BY <1>1, <1>5, AnswerMoves DEF ReserveWrite, At
  <2>4. /\ reservation'[tx[w].reference].status = "ACTIVE"
        /\ reservation'[tx[w].reference].quantity = tx[w].amount
    BY <2>2 DEF TypeOK
  <2> QED
    BY <2>2, <2>3, <2>4 DEF Moved, RequestOK, Finish
<1> QED
  BY <1>2, <1>3, <1>4, <1>5 DEF Reserving

LEMMA FinishingOK ==
    ASSUME TypeOK, RequestInv, ReservationsAreLegal, NEW w \in Workers, Finishing(w)
    PROVE  Moved(w)
<1>1. /\ inventory \in InventorySnapshot
      /\ tx[w] \in Request
      /\ RequestOK(tx[w], inventory, reservation)
  BY DEF TypeOK, RequestInv
<1>2. ASSUME NEW r \in References, NEW target \in Finish, FinishRead(w, r, target)
      PROVE  Moved(w)
  <2>1. /\ tx'[w] = Opened(target, "findInventory", r, reservation[r].quantity, EmptyRow)
        /\ inventory' = inventory /\ reservation' = reservation
        /\ reservation[r].status = "ACTIVE"
    BY <1>2 DEF FinishRead, TypeOK
  <2>2. reservation[r].quantity \in 1..MaxQuantity
    BY <2>1 DEF ReservationsAreLegal, NoReservation
  <2> QED
    BY <2>1, <2>2 DEF Opened, Moved, RequestOK, Finish
<1>3. ASSUME NEW r \in References, NEW target \in Finish, FinishAgain(w, r, target)
      PROVE  Moved(w)
  <2> DEFINE status == reservation[r].status
             reply == IF Settled(status, target) THEN "ok" ELSE "conflict"
  <2>1. /\ tx'[w].op = target /\ tx'[w].at = "done"
        /\ tx'[w].reference = r /\ tx'[w].amount = reservation[r].quantity
        /\ tx'[w].reply = reply
        /\ inventory' = inventory /\ reservation' = reservation
        /\ status \in Finish
    BY <1>3 DEF FinishAgain, TypeOK, Opened
  <2>2. reservation[r].quantity \in 1..MaxQuantity
    BY <2>1 DEF ReservationsAreLegal, NoReservation, Finish
  <2>3. tx'[w].reply = "ok" => Settled(status, target)
    BY <2>1
  <2> QED
    BY <2>1, <2>2, <2>3 DEF Settled, Moved, RequestOK, Finish
<1>4. ASSUME FinishLoad(w) PROVE Moved(w)
  <2>1. /\ tx'[w] = [tx[w] EXCEPT !.at = "write", !.row = inventory]
        /\ tx[w].op \in Finish
        /\ inventory' = inventory /\ reservation' = reservation
    BY <1>4 DEF FinishLoad, TypeOK
  <2>2. /\ tx'[w].op = tx[w].op /\ tx'[w].at = "write"
        /\ tx'[w].reference = tx[w].reference /\ tx'[w].amount = tx[w].amount
        /\ tx'[w].row = inventory
    BY <1>1, <2>1 DEF Request
  <2> QED
    BY <1>1, <2>1, <2>2 DEF Moved, RequestOK, Finish, InventorySnapshot
<1>5. ASSUME FinishWrite(w) PROVE Moved(w)
  <2>1. RequestsAreCurrent
    BY RequestInvIs
  <2>2. /\ tx[w].reference \in References /\ tx[w].amount \in 1..MaxQuantity
        /\ tx[w].op \in Finish
        /\ reservation[tx[w].reference].quantity = tx[w].amount
        /\ reservation' = [reservation EXCEPT ![tx[w].reference].status = tx[w].op]
    BY <1>5, <2>1, FinishWriteEffect
  <2>3. /\ tx'[w].op = tx[w].op /\ tx'[w].at = "done"
        /\ tx'[w].reference = tx[w].reference /\ tx'[w].amount = tx[w].amount
    BY <1>1, <1>5, AnswerMoves DEF FinishWrite
  <2>4. /\ reservation'[tx[w].reference].status = tx[w].op
        /\ reservation'[tx[w].reference].quantity = tx[w].amount
    BY <2>2 DEF TypeOK, Reservation
  <2> QED
    BY <2>2, <2>3, <2>4 DEF Moved, RequestOK, Finish
<1>6. ASSUME FinishLost(w) PROVE Moved(w)
  BY <1>6, FailOK DEF FinishLost
<1>7. ASSUME ReleaseExpired(w) PROVE Moved(w)
  <2>1. tx'[w] = NoRequest
    BY <1>7 DEF ReleaseExpired, TypeOK
  <2> QED
    BY <2>1 DEF NoRequest, Moved, RequestOK, Finish
<1> QED
  BY <1>2, <1>3, <1>4, <1>5, <1>6, <1>7 DEF Finishing

(* Every other request waits while one moves.                              *)
LEMMA OneMoves ==
    ASSUME TypeOK, [Next]_vars
    PROVE  \/ tx' = tx
           \/ \E w \in Workers :
                /\ Merchant(w) \/ Reserving(w) \/ Finishing(w)
                     \/ MutationRefused(w) \/ VersionChanged(w) \/ Abort(w)
                /\ \A v \in Workers \ {w} : tx'[v] = tx[v]
<1> DEFINE OthersWait(w) == \A v \in Workers \ {w} : tx'[v] = tx[v]
<1>1. ASSUME NEW w \in Workers, NEW t, tx' = [tx EXCEPT ![w] = t]
      PROVE  OthersWait(w)
  BY <1>1 DEF TypeOK
<1>2. ASSUME NEW w \in Workers, NEW reply, Answer(w, reply)
      PROVE  OthersWait(w)
  BY <1>2 DEF Answer, TypeOK
<1>3. ASSUME NEW w \in Workers, Merchant(w) PROVE OthersWait(w)
  BY <1>1, <1>2, <1>3 DEF Merchant, AdjustRead, SaveDraftRead, StockWrite,
                          ThresholdRead, ThresholdWrite
<1>4. ASSUME NEW w \in Workers, Reserving(w) PROVE OthersWait(w)
  <2>1. CASE ReserveFind(w)
    BY <2>1 DEF ReserveFind, TypeOK
  <2> QED
    BY <1>1, <1>2, <1>4, <2>1 DEF Reserving, ReserveRead, ReserveAgain, ReserveWrite, Fail
<1>5. ASSUME NEW w \in Workers, Finishing(w) PROVE OthersWait(w)
  <2>1. CASE FinishLoad(w)
    BY <2>1 DEF FinishLoad, TypeOK
  <2>2. ASSUME NEW r \in References, NEW target \in Finish, FinishAgain(w, r, target)
        PROVE  OthersWait(w)
    BY <2>2 DEF FinishAgain, TypeOK
  <2>3. ASSUME NEW r \in References, NEW target \in Finish, FinishRead(w, r, target)
        PROVE  OthersWait(w)
    BY <2>3 DEF FinishRead, TypeOK
  <2> QED
    BY <1>1, <1>2, <1>5, <2>1, <2>2, <2>3
       DEF Finishing, FinishWrite, FinishLost, ReleaseExpired, Fail
<1>6. ASSUME NEW w \in Workers, MutationRefused(w) \/ VersionChanged(w) \/ Abort(w)
      PROVE  OthersWait(w)
  BY <1>1, <1>2, <1>6 DEF MutationRefused, VersionChanged, Abort, Fail
<1>7. CASE UNCHANGED vars
  BY <1>7 DEF vars
<1>8. CASE \E r \in References : Expire(r)
  BY <1>8 DEF Expire
<1> QED
  BY <1>3, <1>4, <1>5, <1>6, <1>7, <1>8 DEF Next

LEMMA StepRequests ==
    TypeOK /\ TypeOK' /\ RequestInv /\ ReservationsAreLegal /\ [Next]_vars => RequestInv'
<1> SUFFICES ASSUME TypeOK, TypeOK', RequestInv, ReservationsAreLegal, [Next]_vars
             PROVE  RequestInv'
  OBVIOUS
<1>1. RequestsAreCurrent /\ ReserveNeverCollides
  BY RequestInvIs
<1>2. Advances(inventory, reservation, inventory', reservation')
  BY <1>1, StepAdvances
<1>3. ASSUME NEW v \in Workers, tx'[v] = tx[v]
      PROVE  RequestOK(tx'[v], inventory', reservation')
  <2>1. /\ tx[v] \in Request /\ inventory \in InventorySnapshot
        /\ inventory' \in InventorySnapshot
        /\ RequestOK(tx[v], inventory, reservation)
    BY DEF TypeOK, RequestInv
  <2> QED
    BY <1>2, <1>3, <2>1, UnmovedOK
<1>4. ASSUME NEW w \in Workers,
             Merchant(w) \/ Reserving(w) \/ Finishing(w)
               \/ MutationRefused(w) \/ VersionChanged(w) \/ Abort(w)
      PROVE  Moved(w)
  <2>1. CASE MutationRefused(w) \/ VersionChanged(w)
    BY <2>1, FailOK DEF MutationRefused, VersionChanged
  <2>2. CASE Abort(w)
    <3>1. tx'[w] = NoRequest
      BY <2>2 DEF Abort, TypeOK
    <3> QED
      BY <3>1 DEF NoRequest, Moved, RequestOK, Finish
  <2> QED
    BY <1>4, <2>1, <2>2, MerchantOK, ReservingOK, FinishingOK
<1>5. CASE tx' = tx
  BY <1>3, <1>5 DEF RequestInv
<1>6. ASSUME NEW w \in Workers, Moved(w), \A v \in Workers \ {w} : tx'[v] = tx[v]
      PROVE  RequestInv'
  <2>1. \A v \in Workers \ {w} : RequestOK(tx'[v], inventory', reservation')
    BY <1>3, <1>6
  <2> QED
    BY <1>6, <2>1 DEF Moved, RequestInv
<1> QED
  BY <1>4, <1>5, <1>6, OneMoves

-----------------------------------------------------------------------------
(* The invariant *)

LEMMA IInvIs == IInv <=> TypeOK /\ StoredInv /\ RequestInv
BY RequestInvIs DEF IInv, StoredInv

LEMMA InitIInv == Init => IInv
<1> SUFFICES ASSUME Init PROVE IInv
  OBVIOUS
<1>1. RequestInv
  BY DEF Init, RequestInv, RequestOK, NoRequest, Finish
<1> QED
  BY <1>1, InitTyped, InitStored, IInvIs

LEMMA StepIInv == IInv /\ [Next]_vars => IInv'
<1> SUFFICES ASSUME IInv, [Next]_vars PROVE IInv'
  OBVIOUS
<1>1. TypeOK /\ StoredInv /\ RequestInv /\ RequestsAreCurrent
        /\ ReserveNeverCollides /\ ReservationsAreLegal
  BY IInvIs DEF IInv
<1>2. TypeOK'
  BY <1>1, StepTyped
<1>3. StoredInv'
  BY <1>1, StepStored
<1>4. RequestInv'
  BY <1>1, <1>2, StepRequests
<1>5. ReservationsAreLegal' /\ IsFiniteSet(HeldUnits') /\ ReservedIsHeld' /\ NeverOversold'
  BY <1>3 DEF StoredInv
<1>6. RequestsAreCurrent' /\ VersionNamesContent' /\ ReserveNeverCollides' /\ AnswersAreTrue'
  BY <1>4, RequestInvIs, PTL
<1> QED
  BY <1>2, <1>5, <1>6 DEF IInv

(* The inductive invariant of the inventory service.                       *)
THEOREM Invariant == Spec => []IInv
BY InitIInv, StepIInv, PTL DEF Spec

(* Every table and every request in flight stays well typed.               *)
THEOREM TypeCorrect == Spec => []TypeOK
<1>1. IInv => TypeOK
  BY DEF IInv
<1> QED
  BY <1>1, Invariant, PTL

(* reserve, finishReservation and mutate keep the reserved counter equal   *)
(* to the units under active reservations.                                 *)
THEOREM ReservedCounter == Spec => []ReservedIsHeld
<1>1. IInv => ReservedIsHeld
  BY DEF IInv
<1> QED
  BY <1>1, Invariant, PTL

(* The service never promises a unit it does not have.                     *)
THEOREM NoOverselling == Spec => []NeverOversold
<1>1. IInv => NeverOversold
  BY DEF IInv
<1> QED
  BY <1>1, Invariant, PTL

(* The P2002 branch of reserve is dead: the optimistic version check of    *)
(* mutate already excludes a second reservation of the same order.         *)
THEOREM NoCollision == Spec => []ReserveNeverCollides
<1>1. IInv => ReserveNeverCollides
  BY DEF IInv
<1> QED
  BY <1>1, Invariant, PTL

(* What a caller was told stays true.                                      *)
THEOREM TrueAnswers == Spec => []AnswersAreTrue
<1>1. IInv => AnswersAreTrue
  BY DEF IInv
<1> QED
  BY <1>1, Invariant, PTL

(* A reservation is finished once: no step changes a finished one.         *)
THEOREM FinishedOnce == Spec => FinishedForever
<1>1. IInv /\ [Next]_vars =>
        [\A r \in References :
           /\ reservation[r].status \in Finish => reservation'[r] = reservation[r]
           /\ reservation[r].status = "ACTIVE" =>
                /\ reservation'[r].quantity = reservation[r].quantity
                /\ reservation'[r].status # "NONE"]_reservation
  BY StepAdvances DEF IInv, Advances
<1> QED
  BY <1>1, Invariant, PTL DEF Spec, FinishedForever

-----------------------------------------------------------------------------
(* The ledger *)

(* Appending the entry of a write to a ledger that replays to the row      *)
(* gives a ledger that replays to the written row.                         *)
LEMMA WriteReplays ==
    ASSUME TypeOK, LedgerReplays, Len(ledger) > 0, NEW w \in Workers, mutate(tx[w]),
           tx[w].op # "threshold"
    PROVE  LedgerReplays' /\ Len(ledger') > 0
<1> DEFINE t == tx[w]
           e == Entry(EntryType(t), t.reference, OnHandDelta(t), ReservedDelta(t),
                      NextSnapshot(t))
           n == Len(ledger)
<1>1. inventory = t.row /\ inventory' = NextSnapshot(t) /\ ledger' = Append(ledger, e)
  BY DEF mutate, Matches
<1>2. ledger \in Seq(LedgerEntry) /\ n \in Nat
  BY DEF TypeOK
<1>3. /\ Len(ledger') = n + 1
      /\ \A i \in 1..n : ledger'[i] = ledger[i]
      /\ ledger'[n + 1] = e
  BY <1>1, <1>2
<1>4. /\ e.onHandAfter = inventory'.onHand
      /\ e.reservedAfter = inventory'.reserved
      /\ e.onHandDelta = OnHandDelta(t)
      /\ e.reservedDelta = ReservedDelta(t)
      /\ inventory'.onHand = inventory.onHand + OnHandDelta(t)
      /\ inventory'.reserved = inventory.reserved + ReservedDelta(t)
  BY <1>1, MutateTyped DEF Entry
<1>5. ASSUME NEW i \in 2..Len(ledger')
      PROVE  /\ ledger'[i].onHandAfter = ledger'[i-1].onHandAfter + ledger'[i].onHandDelta
             /\ ledger'[i].reservedAfter
                  = ledger'[i-1].reservedAfter + ledger'[i].reservedDelta
  <2>1. CASE i <= n
    <3>1. i \in 2..n /\ i \in 1..n /\ i - 1 \in 1..n
      BY <1>2, <2>1
    <3> QED
      BY <1>3, <3>1 DEF LedgerReplays
  <2>2. CASE i = n + 1
    <3>1. n \in 1..n /\ i - 1 = n
      BY <1>2, <2>2
    <3> QED
      BY <1>3, <1>4, <2>2, <3>1 DEF LedgerReplays
  <2> QED
    BY <1>2, <1>3, <2>1, <2>2
<1> QED
  BY <1>2, <1>3, <1>4, <1>5 DEF LedgerReplays

(* Who writes the ledger: exactly the writes of the stock.                 *)
LEMMA LedgerWriters ==
    ASSUME TypeOK, [Next]_vars
    PROVE  \/ /\ ledger' = ledger
              /\ inventory'.onHand = inventory.onHand
              /\ inventory'.reserved = inventory.reserved
           \/ \E w \in Workers : mutate(tx[w]) /\ tx[w].op # "threshold"
<1> DEFINE Kept == /\ ledger' = ledger
                   /\ inventory'.onHand = inventory.onHand
                   /\ inventory'.reserved = inventory.reserved
           Wrote(w) == mutate(tx[w]) /\ tx[w].op # "threshold"
<1>1. CASE UNCHANGED vars
  BY <1>1 DEF vars
<1>2. CASE \E r \in References : Expire(r)
  BY <1>2 DEF Expire
<1>3. ASSUME NEW w \in Workers, Merchant(w) PROVE Kept \/ Wrote(w)
  <2>1. CASE ThresholdWrite(w)
    BY <2>1 DEF ThresholdWrite, TypeOK, InventorySnapshot
  <2>2. CASE StockWrite(w)
    BY <2>2 DEF StockWrite
  <2> QED
    BY <1>3, <2>1, <2>2 DEF Merchant, AdjustRead, SaveDraftRead, ThresholdRead
<1>4. ASSUME NEW w \in Workers, Reserving(w) PROVE Kept \/ Wrote(w)
  BY <1>4 DEF Reserving, ReserveRead, ReserveAgain, ReserveFind, ReserveWrite, Fail, At
<1>5. ASSUME NEW w \in Workers, Finishing(w) PROVE Kept \/ Wrote(w)
  BY <1>5 DEF Finishing, FinishRead, FinishAgain, FinishLoad, FinishWrite, FinishLost,
              ReleaseExpired, Fail, Finish
<1>6. ASSUME NEW w \in Workers, MutationRefused(w) \/ VersionChanged(w) \/ Abort(w)
      PROVE  Kept
  BY <1>6 DEF MutationRefused, VersionChanged, Abort, Fail
<1> QED
  BY <1>1, <1>2, <1>3, <1>4, <1>5, <1>6 DEF Next

(* The ledger alone reproduces the row, entry by entry, whatever the       *)
(* interleaving of the writers that append to it.                          *)
THEOREM LedgerReplay == Spec => []LedgerReplays
<1> DEFINE Replay == LedgerReplays /\ Len(ledger) > 0
<1>1. Init => Replay
  <2> SUFFICES ASSUME Init PROVE Replay
    OBVIOUS
  <2>1. PICK stock \in InitialStocks :
          /\ inventory = [onHand |-> stock, reserved |-> 0, version |-> 0]
          /\ ledger = <<Entry("INITIAL_STOCK", NoReference, stock, 0, inventory)>>
    BY DEF Init
  <2>2. Len(ledger) = 1 /\ ledger[1] = Entry("INITIAL_STOCK", NoReference, stock, 0, inventory)
    BY <2>1
  <2> QED
    BY <2>2 DEF LedgerReplays, Entry
<1>2. TypeOK /\ Replay /\ [Next]_vars => Replay'
  <2> SUFFICES ASSUME TypeOK, Replay, [Next]_vars PROVE Replay'
    OBVIOUS
  <2>1. CASE /\ ledger' = ledger
             /\ inventory'.onHand = inventory.onHand
             /\ inventory'.reserved = inventory.reserved
    BY <2>1 DEF LedgerReplays
  <2>2. CASE \E w \in Workers : mutate(tx[w]) /\ tx[w].op # "threshold"
    BY <2>2, WriteReplays
  <2> QED
    BY <2>1, <2>2, LedgerWriters
<1> QED
  BY <1>1, <1>2, TypeCorrect, PTL DEF Spec

(* Requests that correct the stock name no reservation.                    *)
NamesNone == \A w \in Workers : tx[w].op \in {"adjust", "save"} =>
                                    tx[w].reference = NoReference

LEMMA StepNames == TypeOK /\ NamesNone /\ [Next]_vars => NamesNone'
<1> SUFFICES ASSUME TypeOK, NamesNone, [Next]_vars, NEW v \in Workers,
                    tx'[v].op \in {"adjust", "save"}
             PROVE  tx'[v].reference = NoReference
  BY DEF NamesNone
<1> DEFINE Kept(w) == \/ tx'[w].op = tx[w].op /\ tx'[w].reference = tx[w].reference
                      \/ tx'[w].op \notin {"adjust", "save"}
                      \/ tx'[w].reference = NoReference
<1>0. \A w \in Workers : tx[w] \in Request
  BY DEF TypeOK
<1>1. ASSUME NEW w \in Workers, NEW reply, Answer(w, reply) PROVE Kept(v)
  BY <1>0, <1>1 DEF Answer, TypeOK, Request
<1>2. CASE tx' = tx
  BY <1>2 DEF NamesNone
<1>3. ASSUME NEW w \in Workers, Merchant(w) PROVE Kept(v)
  BY <1>1, <1>3 DEF Merchant, AdjustRead, SaveDraftRead, StockWrite, ThresholdRead,
     ThresholdWrite, Opened, TypeOK
<1>4. ASSUME NEW w \in Workers, Reserving(w) PROVE Kept(v)
  <2>1. CASE ReserveFind(w)
    BY <1>0, <2>1 DEF ReserveFind, TypeOK, Request
  <2> QED
    BY <1>1, <1>4, <2>1 DEF Reserving, ReserveRead, ReserveAgain, ReserveWrite, Fail,
       Opened, TypeOK
<1>5. ASSUME NEW w \in Workers, Finishing(w) PROVE Kept(v)
  <2>1. CASE FinishLoad(w)
    BY <1>0, <2>1 DEF FinishLoad, TypeOK, Request
  <2>2. CASE FinishWrite(w) \/ FinishLost(w)
    BY <1>1, <2>2 DEF FinishWrite, FinishLost, Fail
  <2>3. CASE ReleaseExpired(w)
    BY <2>3 DEF ReleaseExpired, NoRequest, TypeOK
  <2>4. ASSUME NEW r \in References, NEW target \in Finish,
               FinishRead(w, r, target) \/ FinishAgain(w, r, target)
        PROVE  Kept(v)
    BY <2>4 DEF FinishRead, FinishAgain, Opened, TypeOK, Finish
  <2> QED
    BY <1>5, <2>1, <2>2, <2>3, <2>4 DEF Finishing
<1>6. ASSUME NEW w \in Workers, MutationRefused(w) \/ VersionChanged(w) \/ Abort(w)
      PROVE  Kept(v)
  <2>1. CASE Abort(w)
    BY <2>1 DEF Abort, NoRequest, TypeOK
  <2> QED
    BY <1>1, <1>6, <2>1 DEF MutationRefused, VersionChanged, Fail
<1>7. CASE \E r \in References : Expire(r)
  BY <1>2, <1>7 DEF Expire
<1>8. CASE UNCHANGED vars
  BY <1>2, <1>8 DEF vars
<1>9. ASSUME Kept(v) PROVE tx'[v].reference = NoReference
  BY <1>9 DEF NamesNone
<1> QED
  BY <1>3, <1>4, <1>5, <1>6, <1>7, <1>8, <1>9 DEF Next

(* An appended entry belongs to the reference it names, and moves no other.*)
LEMMA Appended ==
    ASSUME TypeOK, NEW e, ledger' = Append(ledger, e)
    PROVE  /\ DOMAIN ledger = 1..Len(ledger) /\ Len(ledger) \in Nat
           /\ DOMAIN ledger' = 1..(Len(ledger) + 1)
           /\ \A i \in DOMAIN ledger : ledger'[i] = ledger[i]
           /\ ledger'[Len(ledger) + 1] = e
           /\ EntriesOf(e.reference)' = EntriesOf(e.reference) \cup {Len(ledger) + 1}
           /\ \A r : r # e.reference => EntriesOf(r)' = EntriesOf(r)
<1> DEFINE n == Len(ledger)
<1>1. ledger \in Seq(LedgerEntry) /\ n \in Nat
  BY DEF TypeOK
<1>2. /\ DOMAIN ledger = 1..n /\ DOMAIN ledger' = 1..(n + 1)
      /\ \A i \in 1..n : ledger'[i] = ledger[i]
      /\ ledger'[n + 1] = e
  BY <1>1
<1> QED
  BY <1>1, <1>2 DEF EntriesOf

(* The same for the reference r of the entry, and the entry's place j.     *)
LEMMA AppendedFor ==
    ASSUME TypeOK, NEW e, ledger' = Append(ledger, e), NEW r, r = e.reference,
           NEW j, j = Len(ledger) + 1
    PROVE  /\ EntriesOf(r)' = EntriesOf(r) \cup {j}
           /\ j \in DOMAIN ledger' /\ ledger'[j] = e
           /\ \A i \in DOMAIN ledger : /\ i \in DOMAIN ledger' /\ i < j
                                      /\ ledger'[i] = ledger[i]
<1>1. EntriesOf(r)' = EntriesOf(r) \cup {j}
  <2>1. EntriesOf(e.reference)' = EntriesOf(e.reference) \cup {Len(ledger) + 1}
    BY Appended
  <2> QED
    BY <2>1
<1>2. /\ DOMAIN ledger = 1..Len(ledger) /\ Len(ledger) \in Nat
      /\ DOMAIN ledger' = 1..(Len(ledger) + 1)
      /\ ledger'[Len(ledger) + 1] = e
      /\ \A i \in DOMAIN ledger : ledger'[i] = ledger[i]
  BY Appended
<1>3. j \in DOMAIN ledger' /\ ledger'[j] = e
  BY <1>2
<1>4. \A i \in DOMAIN ledger : i \in DOMAIN ledger' /\ i < j /\ ledger'[i] = ledger[i]
  BY <1>2
<1> QED
  BY <1>1, <1>3, <1>4

(* Whoever leaves a reservation and its entries alone leaves its story.    *)
LEMMA StoryKept ==
    ASSUME NEW r, LedgerTells(r), reservation'[r] = reservation[r],
           EntriesOf(r)' = EntriesOf(r), DOMAIN ledger \subseteq DOMAIN ledger',
           \A i \in DOMAIN ledger : ledger'[i] = ledger[i]
    PROVE  LedgerTells(r)'
BY DEF LedgerTells, TellsTaken, TellsFinished, Says

(* Appending for another reference, or for none, leaves it as well.        *)
LEMMA OtherStory ==
    ASSUME TypeOK, NEW e, ledger' = Append(ledger, e), NEW r, r # e.reference,
           LedgerTells(r), reservation'[r] = reservation[r]
    PROVE  LedgerTells(r)'
BY Appended, StoryKept

(* The entry a write appends.                                              *)
LEMMA EntryWritten ==
    ASSUME NEW t, mutate(t)
    PROVE  \E e : /\ ledger' = Append(ledger, e)
                  /\ e.reference = t.reference
                  /\ e.type = EntryType(t)
                  /\ e.onHandDelta = OnHandDelta(t)
                  /\ e.reservedDelta = ReservedDelta(t)
<1> DEFINE e == Entry(EntryType(t), t.reference, OnHandDelta(t), ReservedDelta(t),
                      NextSnapshot(t))
<1>1. ledger' = Append(ledger, e)
  BY DEF mutate
<1>2. /\ e.reference = t.reference /\ e.type = EntryType(t)
      /\ e.onHandDelta = OnHandDelta(t) /\ e.reservedDelta = ReservedDelta(t)
  BY DEF Entry
<1> QED
  BY <1>1, <1>2

LEMMA ReserveTold ==
    ASSUME TypeOK, RequestsAreCurrent, ReserveNeverCollides,
           LedgerTellsEachReservation, NEW w \in Workers, ReserveWrite(w)
    PROVE  LedgerTellsEachReservation'
<1>1. PICK r \in References, q \in 1..MaxQuantity :
        /\ r = tx[w].reference /\ q = tx[w].amount
        /\ reservation[r] = NoReservation
        /\ reservation' = [reservation EXCEPT ![r] = [status |-> "ACTIVE", quantity |-> q]]
  BY ReserveWriteEffect
<1>2. /\ EntryType(tx[w]) = "RESERVATION_CREATED"
      /\ OnHandDelta(tx[w]) = 0 /\ ReservedDelta(tx[w]) = q
  BY <1>1 DEF ReserveWrite, At, EntryType, OnHandDelta, ReservedDelta, Finish
<1>3. PICK e : /\ ledger' = Append(ledger, e)
               /\ e.reference = r /\ e.type = "RESERVATION_CREATED"
               /\ e.onHandDelta = 0 /\ e.reservedDelta = q
  BY <1>1, <1>2, EntryWritten DEF ReserveWrite
<1>4. ASSUME NEW p \in References, p # r PROVE LedgerTells(p)'
  <2>1. LedgerTells(p) /\ reservation'[p] = reservation[p]
    BY <1>1, <1>4 DEF LedgerTellsEachReservation
  <2> QED
    BY <1>3, <1>4, <2>1, OtherStory
<1>5. LedgerTells(r)'
  <2>1. EntriesOf(r) = {}
    BY <1>1 DEF LedgerTellsEachReservation, LedgerTells, NoReservation
  <2>2. PICK i : i = Len(ledger) + 1
    OBVIOUS
  <2>3. EntriesOf(r)' = {i} /\ i \in DOMAIN ledger' /\ ledger'[i] = e
    <3>1. /\ EntriesOf(r)' = EntriesOf(r) \cup {i}
          /\ i \in DOMAIN ledger' /\ ledger'[i] = e
      BY <1>3, <2>2, AppendedFor
    <3> QED
      BY <2>1, <3>1
  <2>4. reservation'[r].status = "ACTIVE" /\ reservation'[r].quantity = q
    BY <1>1 DEF TypeOK
  <2>5. TellsTaken(i, q)'
    BY <1>3, <2>3 DEF TellsTaken, Says
  <2> QED
    BY <2>3, <2>4, <2>5 DEF LedgerTells, Finish
<1> QED
  BY <1>4, <1>5 DEF LedgerTellsEachReservation

(* The reservation was active, so its one entry says that it was taken;    *)
(* the finish adds the second, and leaves a status that allows no third.   *)
LEMMA FinishTold ==
    ASSUME TypeOK, RequestsAreCurrent, LedgerTellsEachReservation,
           NEW w \in Workers, FinishWrite(w)
    PROVE  LedgerTellsEachReservation'
<1>1. PICK r \in References, q \in 1..MaxQuantity, status \in Finish :
        /\ r = tx[w].reference /\ q = tx[w].amount /\ status = tx[w].op
        /\ reservation[r].status = "ACTIVE" /\ reservation[r].quantity = q
        /\ reservation' = [reservation EXCEPT ![r].status = status]
  <2> DEFINE r == tx[w].reference
             q == tx[w].amount
             status == tx[w].op
  <2>1. /\ r \in References /\ q \in 1..MaxQuantity /\ status \in Finish
        /\ reservation[r].status = "ACTIVE" /\ reservation[r].quantity = q
        /\ reservation' = [reservation EXCEPT ![r].status = status]
    BY FinishWriteEffect
  <2> QED
    BY <2>1, Zenon
<1>2. /\ EntryType(tx[w]) = IF status = "COMMITTED" THEN "RESERVATION_COMMITTED"
                                                    ELSE "RESERVATION_RELEASED"
      /\ OnHandDelta(tx[w]) = IF status = "COMMITTED" THEN -q ELSE 0
      /\ ReservedDelta(tx[w]) = -q
  BY <1>1 DEF EntryType, OnHandDelta, ReservedDelta, Finish
<1>3. PICK e : /\ ledger' = Append(ledger, e)
               /\ e.reference = r
               /\ e.type = EntryType(tx[w])
               /\ e.onHandDelta = OnHandDelta(tx[w])
               /\ e.reservedDelta = ReservedDelta(tx[w])
  BY <1>1, EntryWritten DEF FinishWrite
<1>4. ASSUME NEW p \in References, p # r PROVE LedgerTells(p)'
  <2>1. LedgerTells(p) /\ reservation'[p] = reservation[p]
    BY <1>1, <1>4 DEF LedgerTellsEachReservation
  <2> QED
    BY <1>3, <1>4, <2>1, OtherStory
<1>5. LedgerTells(r)'
  <2>1. PICK i \in DOMAIN ledger : EntriesOf(r) = {i} /\ TellsTaken(i, q)
    BY <1>1 DEF LedgerTellsEachReservation, LedgerTells
  <2>2. PICK j : j = Len(ledger) + 1
    OBVIOUS
  <2>3. /\ EntriesOf(r)' = {i, j} /\ i < j
        /\ i \in DOMAIN ledger' /\ j \in DOMAIN ledger'
        /\ ledger'[i] = ledger[i] /\ ledger'[j] = e
    <3>1. /\ EntriesOf(r)' = EntriesOf(r) \cup {j}
          /\ j \in DOMAIN ledger' /\ ledger'[j] = e
          /\ \A k \in DOMAIN ledger : /\ k \in DOMAIN ledger' /\ k < j
                                     /\ ledger'[k] = ledger[k]
      BY <1>3, <2>2, AppendedFor
    <3>2. i \in DOMAIN ledger' /\ i < j /\ ledger'[i] = ledger[i]
      BY <2>1, <3>1
    <3>3. EntriesOf(r)' = {i, j}
      BY <2>1, <3>1
    <3> QED
      BY <3>1, <3>2, <3>3
  <2>4. reservation'[r].status = status /\ reservation'[r].quantity = q
    BY <1>1 DEF TypeOK, Reservation
  <2>5. TellsTaken(i, q)'
    BY <2>1, <2>3 DEF TellsTaken, Says
  <2>6. TellsFinished(j, r, q)'
    BY <1>2, <1>3, <2>3, <2>4 DEF TellsFinished, Says
  <2> QED
    BY <1>1, <2>3, <2>4, <2>5, <2>6 DEF LedgerTells, Finish
<1> QED
  BY <1>4, <1>5 DEF LedgerTellsEachReservation

(* A correction of the stock tells of no reservation.                      *)
LEMMA CorrectionTold ==
    ASSUME TypeOK, NamesNone, LedgerTellsEachReservation,
           NEW w \in Workers, StockWrite(w)
    PROVE  LedgerTellsEachReservation'
<1>1. PICK e : ledger' = Append(ledger, e) /\ e.reference = NoReference
  BY EntryWritten DEF StockWrite, NamesNone
<1>2. ASSUME NEW p \in References PROVE LedgerTells(p)'
  <2>1. LedgerTells(p) /\ reservation'[p] = reservation[p] /\ p # e.reference
    BY <1>1, NoReferenceAssumption DEF StockWrite, LedgerTellsEachReservation
  <2> QED
    BY <1>1, <2>1, OtherStory
<1> QED
  BY <1>2 DEF LedgerTellsEachReservation

LEMMA StepTold ==
    ASSUME TypeOK, RequestsAreCurrent, ReserveNeverCollides, NamesNone,
           LedgerTellsEachReservation, [Next]_vars
    PROVE  LedgerTellsEachReservation'
<1> DEFINE Told == LedgerTellsEachReservation'
<1>1. ASSUME UNCHANGED <<ledger, reservation>> PROVE Told
  BY <1>1, StoryKept DEF LedgerTellsEachReservation, EntriesOf
<1> HIDE DEF Told
<1>2. ASSUME NEW w \in Workers, Merchant(w) PROVE Told
  <2>1. CASE StockWrite(w)
    BY <2>1, CorrectionTold DEF Told
  <2> QED
    BY <1>1, <1>2, <2>1
       DEF Merchant, AdjustRead, SaveDraftRead, ThresholdRead, ThresholdWrite
<1>3. ASSUME NEW w \in Workers, Reserving(w) PROVE Told
  <2>1. CASE ReserveWrite(w)
    BY <2>1, ReserveTold DEF Told
  <2> QED
    BY <1>1, <1>3, <2>1 DEF Reserving, ReserveRead, ReserveAgain, ReserveFind, Fail
<1>4. ASSUME NEW w \in Workers, Finishing(w) PROVE Told
  <2>1. CASE FinishWrite(w)
    BY <2>1, FinishTold DEF Told
  <2> QED
    BY <1>1, <1>4, <2>1
       DEF Finishing, FinishRead, FinishAgain, FinishLoad, FinishLost, ReleaseExpired, Fail
<1>5. ASSUME NEW w \in Workers, MutationRefused(w) \/ VersionChanged(w) \/ Abort(w)
      PROVE  Told
  BY <1>1, <1>5 DEF MutationRefused, VersionChanged, Abort, Fail
<1>6. ASSUME NEW r \in References, Expire(r) PROVE Told
  BY <1>1, <1>6 DEF Expire
<1>7. ASSUME UNCHANGED vars PROVE Told
  BY <1>1, <1>7 DEF vars
<1>8. Told
  BY <1>2, <1>3, <1>4, <1>5, <1>6, <1>7 DEF Next
<1> QED
  BY <1>8 DEF Told

(* The ledger tells of every reservation that it was taken, then how it    *)
(* was finished, each once and with its quantity, for any number of        *)
(* requests, retries and sweeps that race for it.                          *)
THEOREM LedgerStory == Spec => []LedgerTellsEachReservation
<1> DEFINE Story == NamesNone /\ LedgerTellsEachReservation
<1>1. Init => Story
  <2> SUFFICES ASSUME Init PROVE Story
    OBVIOUS
  <2>1. NamesNone
    BY DEF Init, NamesNone, NoRequest
  <2>2. PICK stock, e : /\ ledger = <<e>> /\ e.reference = NoReference
    BY DEF Init, Entry
  <2>3. ASSUME NEW r \in References PROVE LedgerTells(r)
    <3>1. EntriesOf(r) = {}
      BY <2>2, NoReferenceAssumption DEF EntriesOf
    <3> QED
      BY <3>1 DEF Init, LedgerTells, NoReservation, Finish
  <2> QED
    BY <2>1, <2>3 DEF LedgerTellsEachReservation
<1>2. IInv /\ Story /\ [Next]_vars => Story'
  BY StepNames, StepTold DEF IInv
<1> QED
  BY <1>1, <1>2, Invariant, PTL DEF Spec

-----------------------------------------------------------------------------
(* The abstract stock *)

LEMMA SameHeldUnits == Stock!HeldUnits = HeldUnits
BY DEF Stock!HeldUnits, HeldUnits, HoldOf

(* Module StockLedger counts with the same Cardinality.                    *)
LEMMA SameCardinality == Stock!Cardinality(Stock!HeldUnits) = Cardinality(HeldUnits)
BY SameHeldUnits, Zenon DEF Stock!Cardinality, Cardinality, Stock!IsFiniteSet, IsFiniteSet

LEMMA InitStock == Init => Stock!Init
<1> SUFFICES ASSUME Init PROVE Stock!Init
  OBVIOUS
<1>1. inventory.onHand \in Nat
  BY StocksAssumption DEF Init
<1>2. [r \in References |-> HoldOf(r)] = [r \in References |-> Stock!NoHold]
  BY DEF Init, HoldOf, NoReservation, Stock!NoHold
<1> QED
  BY <1>1, <1>2 DEF Stock!Init

LEMMA StepStock ==
    ASSUME IInv, IInv', [Next]_vars
    PROVE  [Stock!Next]_(Stock!stockVars)
<1> DEFINE hold == [r \in References |-> HoldOf(r)]
<1>1. /\ TypeOK /\ RequestsAreCurrent /\ ReserveNeverCollides /\ NeverOversold
      /\ ReservedIsHeld /\ ReservationsAreLegal
      /\ inventory.onHand \in Nat /\ inventory.reserved \in Nat
      /\ inventory'.onHand \in Nat
  BY DEF IInv, TypeOK, InventorySnapshot
<1>2. Stock!Cardinality(Stock!HeldUnits) = inventory.reserved
  BY <1>1, SameCardinality DEF ReservedIsHeld
<1>3. reservation' = reservation => hold' = hold
  BY DEF HoldOf
<1>4. CASE inventory' = inventory /\ reservation' = reservation
  BY <1>3, <1>4 DEF Stock!stockVars
<1>5. CASE /\ reservation' = reservation
           /\ inventory'.reserved = inventory.reserved
           /\ NeverOversold => inventory'.reserved <= inventory'.onHand
  <2>1. inventory'.onHand >= Stock!Cardinality(Stock!HeldUnits)
    BY <1>1, <1>2, <1>5
  <2> QED
    BY <1>1, <1>3, <1>5, <2>1 DEF Stock!Next, Stock!Recount
<1>6. ASSUME NEW w \in Workers, ReserveWrite(w) PROVE Stock!Next
  <2> DEFINE r == tx[w].reference
             q == tx[w].amount
  <2>1. /\ r \in References /\ q \in 1..MaxQuantity
        /\ reservation[r] = NoReservation
        /\ reservation' = [reservation EXCEPT ![r] =
                             [status |-> "ACTIVE", quantity |-> q]]
        /\ inventory'.onHand = inventory.onHand
        /\ inventory'.reserved = inventory.reserved + q
        /\ inventory'.reserved <= inventory'.onHand
    BY <1>1, <1>6, ReserveWriteEffect
  <2>2. hold[r] = Stock!NoHold
    BY <2>1 DEF HoldOf, NoReservation, Stock!NoHold
  <2>3. hold' = [hold EXCEPT ![r] = [state |-> "held", units |-> q]]
    BY <1>1, <2>1 DEF HoldOf, TypeOK
  <2>4. inventory.onHand >= Stock!Cardinality(Stock!HeldUnits) + q
    BY <1>1, <1>2, <2>1
  <2>5. Stock!Take(r, q)
    BY <2>1, <2>2, <2>3, <2>4 DEF Stock!Take
  <2> QED
    BY <2>1, <2>5 DEF Stock!Next
<1>7. ASSUME NEW w \in Workers, FinishWrite(w) PROVE Stock!Next
  <2> DEFINE r == tx[w].reference
             q == tx[w].amount
  <2>1. /\ r \in References /\ tx[w].op \in Finish
        /\ reservation[r].status = "ACTIVE" /\ reservation[r].quantity = q
        /\ reservation' = [reservation EXCEPT ![r].status = tx[w].op]
        /\ inventory'.onHand = IF tx[w].op = "COMMITTED"
                               THEN inventory.onHand - q ELSE inventory.onHand
    BY <1>1, <1>7, FinishWriteEffect
  <2>2. hold[r].state = "held" /\ hold[r].units = q
    BY <2>1 DEF HoldOf
  <2>3. CASE tx[w].op = "COMMITTED"
    <3>1. hold' = [hold EXCEPT ![r].state = "sold"]
      BY <1>1, <2>1, <2>3 DEF HoldOf, TypeOK, Reservation
    <3>2. Stock!Sell(r)
      BY <2>1, <2>2, <2>3, <3>1 DEF Stock!Sell
    <3> QED
      BY <2>1, <3>2 DEF Stock!Next
  <2>4. CASE tx[w].op \in {"RELEASED", "EXPIRED"}
    <3>1. hold' = [hold EXCEPT ![r].state = "returned"]
      BY <1>1, <2>1, <2>4 DEF HoldOf, TypeOK, Reservation
    <3>2. Stock!Return(r)
      BY <2>1, <2>2, <2>4, <3>1 DEF Stock!Return
    <3> QED
      BY <2>1, <3>2 DEF Stock!Next
  <2> QED
    BY <2>1, <2>3, <2>4 DEF Finish
<1> QED
  BY <1>1, <1>4, <1>5, <1>6, <1>7, StoredData

(* The service implements the abstract stock: its reads, conflicts, lost   *)
(* races and sweeps are stutters, its writes are steps of the stock.       *)
THEOREM Implementation == Spec => ImplementsStockLedger
<1>1. IInv /\ IInv' /\ [Next]_vars => [Stock!Next]_(Stock!stockVars)
  BY StepStock
<1> QED
  BY <1>1, InitStock, Invariant, PTL DEF Spec, ImplementsStockLedger, Stock!Spec
=============================================================================
