------------------------------ MODULE Inventory ------------------------------
(***************************************************************************)
(* One inventory row, its ledger and its reservations under concurrent     *)
(* requests: apps/api/src/inventory/inventory.service.ts, and the two      *)
(* writers of the same row in products/product.service.ts (create, update).*)
(*                                                                         *)
(* The service runs its transactions at READ COMMITTED: every SELECT sees  *)
(* what is committed at that moment, so a request is a sequence of reads,  *)
(* each of them a step, and one write step.  The write step is atomic: the *)
(* conditional UPDATE of the inventory row locks it until commit, and no   *)
(* transaction writes the ledger or a reservation without that lock.       *)
(***************************************************************************)
EXTENDS InventoryDomain, FiniteSets, Sequences

CONSTANTS
    Workers,       \* concurrent requests and jobs of the API processes
    References,    \* reservation references (order ids)
    Deltas,        \* adjustments a merchant asks for
    InitialStocks, \* opening stock, and what a saved product draft may ask for
    MaxQuantity,   \* largest quantity of a reservation
    MaxVersion,    \* bound: writes of the row that are explored
    NoReference

ASSUME DeltasAssumption == Deltas \subseteq Int
ASSUME StocksAssumption == InitialStocks \subseteq Nat
ASSUME BoundsAssumption == MaxQuantity \in Nat /\ MaxVersion \in Nat
ASSUME NoReferenceAssumption == NoReference \notin References

VARIABLES
    inventory,   \* the Inventory row
    ledger,      \* its InventoryLedgerEntry rows, oldest first
    reservation, \* its InventoryReservation rows, by reference
    due,         \* references whose expiresAt has passed
    tx,          \* tx[w]: the request worker w is running or last answered
    expired      \* expired[w]: what is left of the list releaseExpired read

vars == <<inventory, ledger, reservation, due, tx, expired>>

-----------------------------------------------------------------------------
(* Tables and requests *)

Finish == {"COMMITTED", "RELEASED", "EXPIRED"}
ReservationStatus == {"NONE", "ACTIVE"} \cup Finish  \* NONE: no such row
Reservation == [status : ReservationStatus, quantity : Nat]
NoReservation == [status |-> "NONE", quantity |-> 0]

LedgerType == {"INITIAL_STOCK", "ADJUSTMENT", "RESERVATION_CREATED",
               "RESERVATION_COMMITTED", "RESERVATION_RELEASED"}
LedgerEntry == [type : LedgerType, reference : References \cup {NoReference},
                onHandDelta : Int, reservedDelta : Int,
                onHandAfter : Nat, reservedAfter : Nat]

EmptyRow == [onHand |-> 0, reserved |-> 0, version |-> 0]

(* at: the next statement of the transaction, "done" between requests.     *)
(* amount: the quantity of a reservation or the delta of an adjustment.    *)
Request == [op : {"none", "adjust", "save", "threshold", "reserve"} \cup Finish,
            at : {"done", "findReservation", "findInventory", "write"},
            reference : References \cup {NoReference},
            amount : Int, row : InventorySnapshot,
            reply : {"none", "ok", "badRequest", "conflict"}]
NoRequest == [op |-> "none", at |-> "done", reference |-> NoReference,
              amount |-> 0, row |-> EmptyRow, reply |-> "none"]

Opened(op, at, r, amount, row) ==
    [op |-> op, at |-> at, reference |-> r, amount |-> amount, row |-> row,
     reply |-> "none"]

At(w, op, statement) == tx[w].op = op /\ tx[w].at = statement
Free(w) == tx[w].at = "done" /\ expired[w] = {}

(* The answer ends the transaction.  releaseExpired goes on to its next    *)
(* row after an answer or a ConflictException, and stops on any other.     *)
Answer(w, reply) ==
    /\ tx' = [tx EXCEPT ![w].at = "done", ![w].row = EmptyRow, ![w].reply = reply]
    /\ expired' = [expired EXCEPT ![w] =
                     IF reply = "badRequest" THEN {} ELSE @ \ {tx[w].reference}]

-----------------------------------------------------------------------------
(* The shared write *)

(* Mutant: committed goods stay on hand.                                   *)
OnHandDeltaKeepsSold(t) == IF t.op \in {"adjust", "save"} THEN t.amount ELSE 0

OnHandDelta(t) ==
    CASE t.op \in {"adjust", "save"} -> t.amount
      [] t.op = "COMMITTED"          -> -t.amount
      [] OTHER                       -> 0

(* Mutant: an expired reservation keeps its units reserved.                *)
ReservedDeltaForgetsExpired(t) ==
    CASE t.op = "reserve"                    -> t.amount
      [] t.op \in {"COMMITTED", "RELEASED"}  -> -t.amount
      [] OTHER                               -> 0

ReservedDelta(t) ==
    CASE t.op = "reserve"  -> t.amount
      [] t.op \in Finish   -> -t.amount
      [] OTHER             -> 0

(* Mutant: a type the ledger's enum does not have.                         *)
EntryTypeExpired(t) ==
    CASE t.op = "reserve"   -> "RESERVATION_CREATED"
      [] t.op \in Finish    -> "RESERVATION_" \o t.op
      [] OTHER              -> "ADJUSTMENT"

EntryType(t) ==
    CASE t.op = "reserve"                  -> "RESERVATION_CREATED"
      [] t.op = "COMMITTED"                -> "RESERVATION_COMMITTED"
      [] t.op \in {"RELEASED", "EXPIRED"}  -> "RESERVATION_RELEASED"
      [] OTHER                             -> "ADJUSTMENT"

NextSnapshot(t) == applyInventoryDelta(t.row, OnHandDelta(t), ReservedDelta(t))

\* Mutant: an update by id alone.
MatchesAlways(t) == TRUE
(* What the update's WHERE clause asks: the row exactly as it was read, or *)
(* for the threshold its version alone.                                    *)
Matches(t) ==
    IF t.op = "threshold" THEN inventory.version = t.row.version
                          ELSE inventory = t.row

Entry(type, r, onHandDelta, reservedDelta, next) ==
    [type |-> type, reference |-> r,
     onHandDelta |-> onHandDelta, reservedDelta |-> reservedDelta,
     onHandAfter |-> next.onHand, reservedAfter |-> next.reserved]

(* mutate: the rules of the domain, the conditional update of exactly the  *)
(* row that was read, then the ledger entry.                               *)
mutate(t) ==
    LET next == NextSnapshot(t)
    IN  /\ ~InvalidInventoryMutation(next)
        /\ Matches(t)
        /\ inventory.version < MaxVersion
        /\ inventory' = next
        /\ ledger' = Append(ledger, Entry(EntryType(t), t.reference,
                                OnHandDelta(t), ReservedDelta(t), next))

(* The end of a transaction that has written nothing.                      *)
Fail(w, reply) ==
    /\ Answer(w, reply)
    /\ UNCHANGED <<inventory, ledger, reservation, due>>

-----------------------------------------------------------------------------
(* adjust: the merchant corrects the stock by delta.  A request that names *)
(* a stale expectedVersion is refused here and changes nothing.            *)

AdjustRead(w, delta) ==
    LET clamped == clampInventoryAdjustment(delta,
                       inventory.onHand - inventory.reserved)
    IN  /\ Free(w)
        /\ clamped # 0
        /\ tx' = [tx EXCEPT ![w] =
                    Opened("adjust", "write", NoReference, clamped, inventory)]
        /\ UNCHANGED <<inventory, ledger, reservation, due, expired>>

(* A saved product draft carries an absolute stock for each SKU; the delta *)
(* is taken against the row as it is now.  An unchanged stock writes none. *)
SaveDraftRead(w, initialStock) ==
    LET delta == initialStock - inventory.onHand
    IN  /\ Free(w)
        /\ delta # 0
        /\ initialStock >= inventory.reserved
        /\ tx' = [tx EXCEPT ![w] =
                    Opened("save", "write", NoReference, delta, inventory)]
        /\ UNCHANGED <<inventory, ledger, reservation, due, expired>>

StockWrite(w) ==
    /\ tx[w].op \in {"adjust", "save"} /\ tx[w].at = "write"
    /\ mutate(tx[w])
    /\ Answer(w, "ok")
    /\ UNCHANGED <<reservation, due>>

(* setLowStockThreshold writes the threshold (abstracted) and the version, *)
(* guarded by the version alone, and no ledger entry.                      *)
ThresholdRead(w) ==
    /\ Free(w)
    /\ tx' = [tx EXCEPT ![w] =
                Opened("threshold", "write", NoReference, 0, inventory)]
    /\ UNCHANGED <<inventory, ledger, reservation, due, expired>>

ThresholdWrite(w) ==
    /\ At(w, "threshold", "write")
    /\ Matches(tx[w])
    /\ inventory.version < MaxVersion
    /\ inventory' = [inventory EXCEPT !.version = @ + 1]
    /\ Answer(w, "ok")
    /\ UNCHANGED <<ledger, reservation, due>>

-----------------------------------------------------------------------------
(* reserve: the row first, then the reservation that may already exist.    *)

ReserveRead(w, r, quantity) ==
    /\ Free(w)
    /\ quantity > 0
    /\ tx' = [tx EXCEPT ![w] =
                Opened("reserve", "findReservation", r, quantity, inventory)]
    /\ UNCHANGED <<inventory, ledger, reservation, due, expired>>

(* An existing row answers the retry of the same order.                    *)
ReserveAgain(w) ==
    LET existing == reservation[tx[w].reference]
    IN  /\ At(w, "reserve", "findReservation")
        /\ existing # NoReservation
        /\ Fail(w, IF existing.quantity = tx[w].amount THEN "ok" ELSE "conflict")

ReserveFind(w) ==
    /\ At(w, "reserve", "findReservation")
    /\ reservation[tx[w].reference] = NoReservation
    /\ tx' = [tx EXCEPT ![w].at = "write"]
    /\ UNCHANGED <<inventory, ledger, reservation, due, expired>>

ReserveWrite(w) ==
    /\ At(w, "reserve", "write")
    /\ mutate(tx[w])
    /\ reservation' = [reservation EXCEPT ![tx[w].reference] =
                         [status |-> "ACTIVE", quantity |-> tx[w].amount]]
    /\ Answer(w, "ok")
    /\ UNCHANGED due

-----------------------------------------------------------------------------
(* finishReservation: commit, release or expire.  The reservation is read  *)
(* first and its inventory row by a second statement.                      *)

(* Mutant: any finished reservation answers any finish.                    *)
SettledAnyhow(status, target) == status \in Finish

Settled(status, target) ==
    status = target \/ (target = "RELEASED" /\ status = "EXPIRED")

Starts(w, r, target) ==
    IF target = "EXPIRED"
    THEN tx[w].at = "done" /\ r \in expired[w]
    ELSE Free(w)

FinishRead(w, r, target) ==
    /\ Starts(w, r, target)
    /\ reservation[r].status = "ACTIVE"
    /\ tx' = [tx EXCEPT ![w] = Opened(target, "findInventory", r,
                                      reservation[r].quantity, EmptyRow)]
    /\ UNCHANGED <<inventory, ledger, reservation, due, expired>>

(* Already finished: the same finish again is an answer, another one a     *)
(* conflict.                                                               *)
FinishAgain(w, r, target) ==
    LET status == reservation[r].status
    IN  /\ Starts(w, r, target)
        /\ status \in Finish
        /\ tx' = [tx EXCEPT ![w] =
                    [Opened(target, "done", r, reservation[r].quantity, EmptyRow)
                       EXCEPT !.reply = IF Settled(status, target)
                                        THEN "ok" ELSE "conflict"]]
        /\ expired' = [expired EXCEPT ![w] = @ \ {r}]
        /\ UNCHANGED <<inventory, ledger, reservation, due>>

FinishLoad(w) ==
    /\ tx[w].op \in Finish /\ tx[w].at = "findInventory"
    /\ tx' = [tx EXCEPT ![w].at = "write", ![w].row = inventory]
    /\ UNCHANGED <<inventory, ledger, reservation, due, expired>>

(* Mutant: the update of the reservation does not ask for its status.      *)
StillThere(r) == reservation[r] # NoReservation

StillActive(r) == reservation[r].status = "ACTIVE"

FinishWrite(w) ==
    /\ tx[w].op \in Finish /\ tx[w].at = "write"
    /\ mutate(tx[w])
    /\ StillActive(tx[w].reference)
    /\ reservation' = [reservation EXCEPT ![tx[w].reference].status = tx[w].op]
    /\ Answer(w, "ok")
    /\ UNCHANGED due

(* The row was read as it is, but the reservation was finished between the *)
(* two reads: the update of the reservation matches no row.                *)
FinishLost(w) ==
    /\ tx[w].op \in Finish /\ tx[w].at = "write"
    /\ ~InvalidInventoryMutation(NextSnapshot(tx[w]))
    /\ Matches(tx[w])
    /\ ~StillActive(tx[w].reference)
    /\ Fail(w, "conflict")

-----------------------------------------------------------------------------
(* NEGATIVE_INVENTORY, INSUFFICIENT_AVAILABLE_STOCK *)
MutationRefused(w) ==
    /\ tx[w].at = "write"
    /\ InvalidInventoryMutation(NextSnapshot(tx[w]))
    /\ Fail(w, "badRequest")

(* INVENTORY_VERSION_CHANGED: another write came between read and write.   *)
VersionChanged(w) ==
    /\ tx[w].at = "write"
    /\ ~InvalidInventoryMutation(NextSnapshot(tx[w]))
    /\ ~Matches(tx[w])
    /\ Fail(w, "conflict")

(* A process that dies, or a transaction the database aborts.              *)
Abort(w) ==
    /\ ~Free(w)
    /\ tx' = [tx EXCEPT ![w] = NoRequest]
    /\ expired' = [expired EXCEPT ![w] = {}]
    /\ UNCHANGED <<inventory, ledger, reservation, due>>

(* expiresAt of an active reservation passes.                              *)
Expire(r) ==
    /\ r \notin due
    /\ reservation[r] # NoReservation
    /\ due' = due \cup {r}
    /\ UNCHANGED <<inventory, ledger, reservation, tx, expired>>

(* releaseExpired lists what is due, then finishes it row by row.          *)
ReleaseExpired(w) ==
    LET found == {r \in due : StillActive(r)}
    IN  /\ Free(w)
        /\ found # {}
        /\ tx' = [tx EXCEPT ![w] = NoRequest]
        /\ expired' = [expired EXCEPT ![w] = found]
        /\ UNCHANGED <<inventory, ledger, reservation, due>>

-----------------------------------------------------------------------------
Init ==
    /\ \E stock \in InitialStocks :
         /\ inventory = [onHand |-> stock, reserved |-> 0, version |-> 0]
         /\ ledger = <<Entry("INITIAL_STOCK", NoReference, stock, 0, inventory)>>
    /\ reservation = [r \in References |-> NoReservation]
    /\ due = {}
    /\ tx = [w \in Workers |-> NoRequest]
    /\ expired = [w \in Workers |-> {}]

Merchant(w) ==
    \/ \E delta \in Deltas : AdjustRead(w, delta)
    \/ \E stock \in InitialStocks : SaveDraftRead(w, stock)
    \/ StockWrite(w)
    \/ ThresholdRead(w)
    \/ ThresholdWrite(w)

Reserving(w) ==
    \/ \E r \in References, q \in 1..MaxQuantity : ReserveRead(w, r, q)
    \/ ReserveAgain(w)
    \/ ReserveFind(w)
    \/ ReserveWrite(w)

Finishing(w) ==
    \/ \E r \in References, target \in Finish :
         FinishRead(w, r, target) \/ FinishAgain(w, r, target)
    \/ FinishLoad(w)
    \/ FinishWrite(w)
    \/ FinishLost(w)
    \/ ReleaseExpired(w)

Next ==
    \/ \E w \in Workers :
         \/ Merchant(w) \/ Reserving(w) \/ Finishing(w)
         \/ MutationRefused(w) \/ VersionChanged(w) \/ Abort(w)
    \/ \E r \in References : Expire(r)

Spec == Init /\ [][Next]_vars
-----------------------------------------------------------------------------
(* Properties *)

(* Every row holds what its columns may hold, at every step of every       *)
(* request (schema.prisma models Inventory, InventoryLedgerEntry and       *)
(* InventoryReservation).                                                  *)
TypeOK ==
    /\ inventory \in InventorySnapshot
    /\ ledger \in Seq(LedgerEntry)
    /\ reservation \in [References -> Reservation]
    /\ due \subseteq References
    /\ tx \in [Workers -> Request]
    /\ expired \in [Workers -> SUBSET References]

(* The units reserved by active reservations, one element each.            *)
HeldUnits ==
    {u \in References \X (1..MaxQuantity) :
        /\ reservation[u[1]].status = "ACTIVE"
        /\ u[2] <= reservation[u[1]].quantity}

(* The counter the storefront sells from is exactly what the active        *)
(* reservations hold: no request, race or rollback leaks or frees a unit   *)
(* (reserve, finishReservation and mutate agree).                          *)
ReservedIsHeld == inventory.reserved = Cardinality(HeldUnits)

(* No unit is promised twice: the CHECK constraint of the Inventory table  *)
(* is never what stops a write.                                            *)
NeverOversold == inventory.reserved <= inventory.onHand

(* The immutable ledger replays to the row: each entry's balance is the    *)
(* previous balance plus its delta, and the last balance is the row.       *)
LedgerReplays ==
    /\ \A i \in 2..Len(ledger) :
         /\ ledger[i].onHandAfter = ledger[i-1].onHandAfter + ledger[i].onHandDelta
         /\ ledger[i].reservedAfter
              = ledger[i-1].reservedAfter + ledger[i].reservedDelta
    /\ ledger[Len(ledger)].onHandAfter = inventory.onHand
    /\ ledger[Len(ledger)].reservedAfter = inventory.reserved

(* The ledger entries of reference r, by their positions.                  *)
EntriesOf(r) == {i \in DOMAIN ledger : ledger[i].reference = r}

Says(i, type, onHandDelta, reservedDelta) ==
    /\ ledger[i].type = type
    /\ ledger[i].onHandDelta = onHandDelta
    /\ ledger[i].reservedDelta = reservedDelta

TellsTaken(i, q) == Says(i, "RESERVATION_CREATED", 0, q)

TellsFinished(i, r, q) ==
    IF reservation[r].status = "COMMITTED"
    THEN Says(i, "RESERVATION_COMMITTED", -q, -q)
    ELSE Says(i, "RESERVATION_RELEASED", 0, -q)

(* What the ledger tells of reference r: nothing before it is reserved,    *)
(* then that it was, then how it was finished, and nothing after that.     *)
LedgerTells(r) ==
    LET q == reservation[r].quantity
    IN  /\ reservation[r].status = "NONE" => EntriesOf(r) = {}
        /\ reservation[r].status = "ACTIVE" =>
             \E i \in DOMAIN ledger : EntriesOf(r) = {i} /\ TellsTaken(i, q)
        /\ reservation[r].status \in Finish =>
             \E i, j \in DOMAIN ledger :
                 /\ i < j /\ EntriesOf(r) = {i, j}
                 /\ TellsTaken(i, q) /\ TellsFinished(j, r, q)

(* The ledger tells the story of each reservation, once: taken once,       *)
(* finished at most once, with its own quantity, whatever retries, sweeps  *)
(* and concurrent finishes did.                                            *)
LedgerTellsEachReservation == \A r \in References : LedgerTells(r)

(* A caller that was told "ok" can rely on it, now and later: the          *)
(* reservation it asked for exists with its quantity, the finish it asked  *)
(* for is the one that happened.                                           *)
AnswersAreTrue ==
    \A w \in Workers : tx[w].at = "done" /\ tx[w].reply = "ok" =>
        LET row == reservation[tx[w].reference]
        IN  /\ tx[w].op = "reserve" =>
                 row.status # "NONE" /\ row.quantity = tx[w].amount
            /\ tx[w].op \in {"COMMITTED", "EXPIRED"} => row.status = tx[w].op
            /\ tx[w].op = "RELEASED" => row.status \in {"RELEASED", "EXPIRED"}

(* The unique key (inventoryId, referenceId) is never what stops reserve:  *)
(* whoever still holds the current row has seen every reservation made     *)
(* from it, because each bumps the version.  The P2002 branch is dead.     *)
ReserveNeverCollides ==
    \A w \in Workers :
        At(w, "reserve", "write") /\ Matches(tx[w]) =>
            reservation[tx[w].reference] = NoReservation

(* A version names one content of the row, so no request can mistake a     *)
(* row that changed and changed back for the one it read: the optimistic   *)
(* checks of mutate and setLowStockThreshold have no ABA.                  *)
VersionNamesContent ==
    \A w \in Workers :
        tx[w].op # "none" /\ tx[w].at \in {"findReservation", "write"} =>
            /\ tx[w].row.version <= inventory.version
            /\ tx[w].row.version = inventory.version => tx[w].row = inventory

(* What a request in flight carries: what it reserves is a legal quantity, *)
(* and what it finishes exists, with the quantity it carries.              *)
RequestsAreCurrent ==
    \A w \in Workers :
        LET t == tx[w]
        IN  /\ t.op = "none" => t.at = "done"
            /\ t.at = "findReservation" => t.op = "reserve"
            /\ t.at = "findInventory" => t.op \in Finish
            /\ t.op \in {"reserve"} \cup Finish =>
                 t.reference \in References /\ t.amount \in 1..MaxQuantity
            /\ t.op \in Finish =>
                 /\ reservation[t.reference].status # "NONE"
                 /\ reservation[t.reference].quantity = t.amount

(* No row, or a row with a legal quantity.                                 *)
ReservationsAreLegal ==
    \A r \in References :
        \/ reservation[r] = NoReservation
        \/ reservation[r].status # "NONE" /\ reservation[r].quantity \in 1..MaxQuantity

(* The inductive invariant: what every step of the service relies on and   *)
(* keeps, whatever the number of requests and orders.                      *)
IInv ==
    /\ TypeOK
    /\ ReservationsAreLegal
    /\ RequestsAreCurrent
    /\ VersionNamesContent
    /\ ReserveNeverCollides
    /\ IsFiniteSet(HeldUnits)
    /\ ReservedIsHeld
    /\ NeverOversold
    /\ AnswersAreTrue

(* A finished reservation stays as it is; an active one keeps its quantity.*)
FinishedForever ==
    [][\A r \in References :
         /\ reservation[r].status \in Finish => reservation'[r] = reservation[r]
         /\ reservation[r].status = "ACTIVE" =>
              /\ reservation'[r].quantity = reservation[r].quantity
              /\ reservation'[r].status # "NONE"]_reservation

(* What the service promises: the abstract stock of module StockLedger.    *)
HoldOf(r) ==
    [state |-> CASE reservation[r].status = "NONE"      -> "none"
                 [] reservation[r].status = "ACTIVE"    -> "held"
                 [] reservation[r].status = "COMMITTED" -> "sold"
                 [] OTHER                               -> "returned",
     units |-> reservation[r].quantity]

Stock == INSTANCE StockLedger WITH
            stock <- inventory.onHand,
            hold  <- [r \in References |-> HoldOf(r)]

(* Every run of the service, its reads, conflicts, retries and sweeps      *)
(* included, is a run of the abstract stock.                               *)
ImplementsStockLedger == Stock!Spec
=============================================================================
