------------------------------ MODULE ShopProofs ------------------------------
(***************************************************************************)
(* Theorems about module Shop, for any number of SKUs, products, members   *)
(* of staff, files and concurrent requests, and any bound.  Each part has  *)
(* an inductive invariant of its own, which says what a request that has   *)
(* read and has not written yet may rely on.                               *)
(***************************************************************************)
EXTENDS Shop, TLAPS

(* Cart: what a request is about to write keeps the limits as well, and    *)
(* the rows that it has found are there, or it knows that one is lost.     *)
Line == {NoLine} \cup [quantity : 1..MAX_CART_ITEM_QUANTITY, selected : BOOLEAN]
Fits(s, l) == l \in Line /\ (Limit[s] > 0 => l.quantity <= Limit[s])
AllFit(cart) == cart \in [Skus -> Line] /\ \A s \in Skus : Fits(s, cart[s])

CartRequest ==
    [at : {"idle", "find", "write", "clear", "fold", "merge"}, cart : Carts,
     plan : [Skus -> Line], rows : SUBSET Skus, hasCart : BOOLEAN, seen : Nat,
     lost : BOOLEAN, gone : BOOLEAN]

KnowsItsRows(r, found) ==
    /\ AllFit(r.plan)
    /\ r.at \in {"fold", "merge"} => r.cart = "USER"
    /\ r.at \in {"write", "merge"} /\ ~r.lost => r.rows \subseteq Lines(found[r.cart])

CartInv ==
    /\ sku \in [Skus -> [open : BOOLEAN, available : Nat, limit : Nat]]
    /\ \A s \in Skus : sku[s].limit = Limit[s]
    /\ exists \in [Carts -> BOOLEAN]
    /\ line \in [Carts -> [Skus -> Line]]
    /\ \A c \in Carts : AllFit(line[c])
    /\ request \in [Workers -> CartRequest]
    /\ \A w \in Workers : KnowsItsRows(request[w], line)

LEMMA LineTyped ==
    /\ NoLine \in Line /\ \A s \in Skus : Fits(s, NoLine)
    /\ \A l \in Line : l.quantity \in Nat /\ l.selected \in BOOLEAN
    /\ Line \subseteq [quantity : Nat, selected : BOOLEAN]
    /\ \A l \in Line : l # NoLine => l.quantity \in 1..MAX_CART_ITEM_QUANTITY
<1>1. NoLine \in Line /\ \A s \in Skus : Fits(s, NoLine)
  BY CartAssumption DEF Line, NoLine, Fits
<1>3. \A l \in [quantity : 1..MAX_CART_ITEM_QUANTITY, selected : BOOLEAN] :
        l.quantity \in 1..MAX_CART_ITEM_QUANTITY /\ l.selected \in BOOLEAN
  OBVIOUS
<1>2. Line \subseteq [quantity : Nat, selected : BOOLEAN]
  <2>1. NoLine \in [quantity : Nat, selected : BOOLEAN]
    BY DEF NoLine
  <2>2. 1..MAX_CART_ITEM_QUANTITY \subseteq Nat
    OBVIOUS
  <2> QED
    BY <2>1, <2>2 DEF Line
<1>4. ASSUME NEW l \in Line
      PROVE  /\ l.quantity \in Nat /\ l.selected \in BOOLEAN
             /\ l # NoLine => l.quantity \in 1..MAX_CART_ITEM_QUANTITY
  <2>1. CASE l = NoLine
    BY <2>1 DEF NoLine
  <2>2. CASE l # NoLine
    BY <1>3, <2>2, MaxAssumption DEF Line
  <2> QED
    BY <2>1, <2>2
<1> QED
  BY <1>1, <1>2, <1>4

\* The least of a few numbers is one of them, and no greater than any.
LEMMA LeastOfFew ==
    ASSUME NEW a \in Nat, NEW b \in Nat, NEW c \in Nat, NEW d \in Nat
    PROVE  /\ Least({a, b, c, d}) \in {a, b, c, d}
           /\ \A n \in {a, b, c, d} : Least({a, b, c, d}) <= n
<1>1. \E n \in {a, b, c, d} : \A m \in {a, b, c, d} : n <= m
  OBVIOUS
<1> QED
  BY <1>1 DEF Least

LEMMA ClampFits ==
    ASSUME NEW n \in Nat \ {0}, NEW available \in Nat, NEW limit \in Nat
    PROVE  /\ clampCartQuantity(n, available, limit) \in 1..MAX_CART_ITEM_QUANTITY
           /\ limit > 0 => clampCartQuantity(n, available, limit) <= limit
<1> DEFINE b == IF limit > 0 THEN limit ELSE n
           a == IF available > 0 THEN available ELSE n
<1>1. {n, MAX_CART_ITEM_QUANTITY} \cup (IF limit > 0 THEN {limit} ELSE {})
         \cup (IF available > 0 THEN {available} ELSE {}) = {n, MAX_CART_ITEM_QUANTITY, b, a}
  OBVIOUS
<1>2. clampCartQuantity(n, available, limit) = Least({n, MAX_CART_ITEM_QUANTITY, b, a})
  BY <1>1 DEF clampCartQuantity
<1>3. a \in Nat \ {0} /\ b \in Nat \ {0}
  OBVIOUS
<1> HIDE DEF a, b
<1>4. /\ Least({n, MAX_CART_ITEM_QUANTITY, b, a}) \in {n, MAX_CART_ITEM_QUANTITY, b, a}
      /\ \A m \in {n, MAX_CART_ITEM_QUANTITY, b, a} : Least({n, MAX_CART_ITEM_QUANTITY, b, a}) <= m
  BY <1>3, MaxAssumption, LeastOfFew
<1>5. limit > 0 => b = limit
  BY DEF b
<1> QED
  BY <1>2, <1>3, <1>4, <1>5, MaxAssumption

LEMMA OneFits ==
    ASSUME NEW s \in Skus, NEW n \in Nat \ {0}, NEW available \in Nat
    PROVE  /\ AllFit(One(s, clampCartQuantity(n, available, Limit[s])))
           /\ Lines(One(s, clampCartQuantity(n, available, Limit[s]))) = {s}
<1> DEFINE q == clampCartQuantity(n, available, Limit[s])
<1>1. Limit[s] \in Nat
  BY CartAssumption
<1>2. q \in 1..MAX_CART_ITEM_QUANTITY /\ (Limit[s] > 0 => q <= Limit[s])
  BY <1>1, ClampFits
<1> HIDE DEF q
<1>3. [quantity |-> q, selected |-> TRUE] \in Line /\ [quantity |-> q, selected |-> TRUE] # NoLine
  BY <1>2, MaxAssumption DEF Line, NoLine
<1>4. Fits(s, [quantity |-> q, selected |-> TRUE])
  BY <1>2, <1>3 DEF Fits
<1>5. AllFit(One(s, q)) /\ Lines(One(s, q)) = {s}
  BY <1>3, <1>4, LineTyped DEF One, Empty, AllFit, Lines
<1> QED
  BY <1>5 DEF q

LEMMA MergedFits ==
    ASSUME NEW user \in [Skus -> Line], NEW guest \in [Skus -> Line], AllFit(user), AllFit(guest),
           CartInv
    PROVE  AllFit(mergeCartLines(user, guest, sku))
<1> SUFFICES ASSUME NEW s \in Skus PROVE Fits(s, mergeCartLines(user, guest, sku)[s])
  BY DEF AllFit, mergeCartLines, Fits
<1>1. CASE guest[s] = NoLine
  BY <1>1 DEF AllFit, mergeCartLines
<1>2. CASE guest[s] # NoLine
  <2> DEFINE q == clampCartQuantity(user[s].quantity + guest[s].quantity, sku[s].available, sku[s].limit)
  <2>1. user[s].quantity + guest[s].quantity \in Nat \ {0}
    BY <1>2, LineTyped, MaxAssumption
  <2>2. sku[s].available \in Nat /\ sku[s].limit = Limit[s] /\ Limit[s] \in Nat
    BY CartAssumption DEF CartInv
  <2>3. q \in 1..MAX_CART_ITEM_QUANTITY /\ (Limit[s] > 0 => q <= Limit[s])
    BY <2>1, <2>2, ClampFits
  <2>4. user[s].selected \in BOOLEAN /\ guest[s].selected \in BOOLEAN
    BY LineTyped
  <2>5. mergeCartLines(user, guest, sku)[s] = [quantity |-> q, selected |-> user[s].selected \/ guest[s].selected]
    BY <1>2 DEF mergeCartLines
  <2> HIDE DEF q
  <2> QED
    BY <2>3, <2>4, <2>5 DEF Fits, Line
<1> QED
  BY <1>1, <1>2

LEMMA CartInitInv == Init => CartInv
<1> SUFFICES ASSUME Init PROVE CartInv
  OBVIOUS
<1>1. Empty \in [Skus -> Line] /\ AllFit(Empty)
  BY LineTyped DEF Empty, AllFit
<1>2. Idle \in CartRequest /\ KnowsItsRows(Idle, line)
  BY <1>1 DEF Idle, CartRequest, KnowsItsRows, Carts
<1>3. \A c \in Carts : line[c] = Empty
  BY DEF Init
<1>4. /\ sku \in [Skus -> [open : BOOLEAN, available : Nat, limit : Nat]]
      /\ \A s \in Skus : sku[s].limit = Limit[s]
  <2>1. PICK available \in [Skus -> Stocks] :
          sku = [s \in Skus |-> [open |-> TRUE, available |-> available[s], limit |-> Limit[s]]]
    BY DEF Init
  <2> QED
    BY <2>1, CartAssumption
<1>5. line \in [Carts -> [Skus -> Line]]
  BY <1>1 DEF Init
<1> QED
  BY <1>1, <1>2, <1>3, <1>4, <1>5 DEF Init, CartInv

LEMMA CartInvSuffices == CartInv => WithinLimits
BY LineTyped DEF CartInv, WithinLimits, AllFit, Fits, Lines

(* Requests under which the rows S of cart c are deleted.                  *)
LEMMA DeletingKnows ==
    ASSUME CartInv, NEW c \in Carts, NEW S \in SUBSET Skus,
           NEW requests \in [Workers -> CartRequest],
           \A w \in Workers : KnowsItsRows(requests[w], line),
           line' \in [Carts -> [Skus -> Line]],
           \A s \in Skus \ S : line[c][s] # NoLine => line'[c][s] # NoLine,
           \A d \in Carts \ {c}, s \in Skus : line[d][s] # NoLine => line'[d][s] # NoLine
    PROVE  /\ Deleting(requests, c, S) \in [Workers -> CartRequest]
           /\ \A w \in Workers : KnowsItsRows(Deleting(requests, c, S)[w], line')
<1> SUFFICES ASSUME NEW w \in Workers
             PROVE  /\ Deleting(requests, c, S)[w] \in CartRequest
                    /\ KnowsItsRows(Deleting(requests, c, S)[w], line')
  BY DEF Deleting
<1> DEFINE r == requests[w]
<1>0. r \in CartRequest
  OBVIOUS
<1>1. CASE r.cart # c
  BY <1>0, <1>1 DEF Deleting, KnowsItsRows, CartRequest, Lines, AllFit, Fits
<1>2. CASE r.cart = c /\ r.at = "clear"
  BY <1>0, <1>2 DEF Deleting, KnowsItsRows, CartRequest, Lines, AllFit, Fits
<1>3. CASE r.cart = c /\ r.at # "clear"
  BY <1>0, <1>3 DEF Deleting, KnowsItsRows, CartRequest, Lines, AllFit, Fits
<1> QED
  BY <1>1, <1>2, <1>3

LEMMA CartStepInv == ASSUME CartInv, Next PROVE CartInv'
<1>0. Idle \in CartRequest /\ KnowsItsRows(Idle, line')
  <2>1. Empty \in [Skus -> Line] /\ AllFit(Empty)
    BY LineTyped DEF Empty, AllFit
  <2> QED
    BY <2>1 DEF Idle, CartRequest, KnowsItsRows, Carts
<1>1. ASSUME NEW w \in Workers, NEW r \in CartRequest, KnowsItsRows(r, line),
             request' = [request EXCEPT ![w] = r], UNCHANGED <<sku, exists, line>>
      PROVE  CartInv'
  BY <1>1 DEF CartInv
<1>2. ASSUME NEW s \in Skus, NEW open \in BOOLEAN, NEW available \in Stocks, Sell(s, open, available)
      PROVE  CartInv'
  BY <1>2, CartAssumption DEF Sell, CartInv
<1>3. ASSUME NEW w \in Workers, NEW c \in Carts, NEW s \in Skus, NEW n \in Quantities, AddRead(w, c, s, n)
      PROVE  CartInv'
  <2>1. n \in Nat \ {0} /\ sku[s].available \in Nat
    BY CartAssumption DEF CartInv
  <2> DEFINE plan == One(s, clampCartQuantity(n, sku[s].available, Limit[s]))
  <2>2. AllFit(plan)
    BY <2>1, OneFits
  <2> HIDE DEF plan
  <2>3. PICK r \in CartRequest : KnowsItsRows(r, line) /\ request' = [request EXCEPT ![w] = r]
    BY <1>0, <1>3, <2>1, <2>2 DEF AddRead, plan, Idle, CartRequest, KnowsItsRows, AllFit
  <2> QED
    BY <1>1, <1>3, <2>3 DEF AddRead
<1>4. ASSUME NEW w \in Workers, NEW s \in Skus, AddFind(w, s) PROVE CartInv'
  <2> DEFINE r == request[w]
             held == line[r.cart][s]
  <2>1. r \in CartRequest /\ r.cart \in Carts /\ AllFit(r.plan) /\ held \in Line /\ s \in Lines(r.plan)
    BY <1>4 DEF AddFind, CartInv, CartRequest, KnowsItsRows, AllFit
  <2>2. held.quantity + r.plan[s].quantity \in Nat \ {0} /\ r.seen \in Nat
    <3>1. r.plan[s] \in Line /\ r.plan[s] # NoLine /\ r.seen \in Nat
      BY <2>1 DEF AllFit, Lines, CartRequest
    <3> QED
      BY <2>1, <3>1, LineTyped, MaxAssumption
  <2>3. AllFit(One(s, heldTogether(r, s)))
    BY <2>2, OneFits DEF heldTogether
  <2> DEFINE plan == IF held = NoLine THEN r.plan ELSE One(s, heldTogether(r, s))
             next == [r EXCEPT !.at = "write", !.hasCart = exists[r.cart],
                               !.rows = {s} \cap Lines(line[r.cart]), !.seen = 0, !.plan = plan]
  <2>4. AllFit(plan)
    BY <2>1, <2>3
  <2> HIDE DEF plan
  <2>5. next \in CartRequest /\ KnowsItsRows(next, line)
    BY <1>4, <2>1, <2>4 DEF CartInv, CartRequest, KnowsItsRows, AllFit
  <2>6. request' = [request EXCEPT ![w] = next] /\ UNCHANGED <<sku, exists, line>>
    BY <1>4 DEF AddFind, plan
  <2> QED
    BY <1>1, <2>5, <2>6
<1>5. ASSUME NEW w \in Workers, NEW c \in Carts, NEW s \in Skus, NEW n \in Quantities, UpdateFind(w, c, s, n)
      PROVE  CartInv'
  <2>1. n \in Nat \ {0} /\ sku[s].available \in Nat
    BY CartAssumption DEF CartInv
  <2> DEFINE plan == One(s, clampCartQuantity(n, sku[s].available, Limit[s]))
             next == [Idle EXCEPT !.at = "write", !.cart = c, !.plan = plan, !.rows = {s}, !.hasCart = TRUE]
  <2>2. AllFit(plan)
    BY <2>1, OneFits
  <2>3. request' = [request EXCEPT ![w] = next] /\ UNCHANGED <<sku, exists, line>> /\ line[c][s] # NoLine
    BY <1>5 DEF UpdateFind
  <2> HIDE DEF plan
  <2>4. next \in CartRequest /\ KnowsItsRows(next, line)
    BY <1>0, <2>2, <2>3 DEF Idle, CartRequest, KnowsItsRows, AllFit, Lines
  <2> QED
    BY <1>1, <2>3, <2>4
<1>6. ASSUME NEW c \in Carts, NEW S \in SUBSET Skus, NEW b \in BOOLEAN, SelectItems(c, S, b) PROVE CartInv'
  <2>1. \A s \in S : line[c][s] # NoLine /\ line[c][s] \in Line /\ Fits(s, line[c][s])
    BY <1>6 DEF SelectItems, Lines, CartInv, AllFit
  <2>2. \A s \in S : LET l == [line[c][s] EXCEPT !.selected = b] IN l \in Line /\ Fits(s, l) /\ l # NoLine
    <3> SUFFICES ASSUME NEW s \in S
                 PROVE  LET l == [line[c][s] EXCEPT !.selected = b] IN l \in Line /\ Fits(s, l) /\ l # NoLine
      OBVIOUS
    <3> DEFINE l == [line[c][s] EXCEPT !.selected = b]
    <3>1. line[c][s] \in [quantity : 1..MAX_CART_ITEM_QUANTITY, selected : BOOLEAN]
      BY <2>1 DEF Line
    <3>2. l \in [quantity : 1..MAX_CART_ITEM_QUANTITY, selected : BOOLEAN] /\ l.quantity = line[c][s].quantity
      BY <3>1
    <3>3. l \in Line /\ l # NoLine
      BY <3>2, MaxAssumption DEF Line, NoLine
    <3> QED
      BY <2>1, <3>2, <3>3 DEF Fits
  <2>3. /\ line' \in [Carts -> [Skus -> Line]]
        /\ \A d \in Carts : AllFit(line'[d])
        /\ \A d \in Carts, s \in Skus : line'[d][s] = NoLine <=> line[d][s] = NoLine
    BY <1>6, <2>1, <2>2 DEF SelectItems, CartInv, AllFit
  <2> QED
    BY <1>6, <2>3 DEF SelectItems, CartInv, KnowsItsRows, Lines, CartRequest
<1>7. ASSUME NEW c \in Carts, NEW s \in Skus, RemoveItem(c, s) PROVE CartInv'
  <2>1. line' = [line EXCEPT ![c] = [@ EXCEPT ![s] = NoLine]]
    BY <1>7 DEF RemoveItem
  <2>2. /\ line' \in [Carts -> [Skus -> Line]]
        /\ \A d \in Carts : AllFit(line'[d])
        /\ \A d \in Carts, t \in Skus : line[d][t] # NoLine /\ line'[d][t] = NoLine => d = c /\ t = s
    BY <2>1, LineTyped DEF CartInv, AllFit
  <2>3. /\ request' \in [Workers -> CartRequest]
        /\ \A w \in Workers : KnowsItsRows(request'[w], line')
    BY <1>7, <2>2, DeletingKnows DEF RemoveItem, CartInv
  <2> QED
    BY <1>7, <2>2, <2>3 DEF RemoveItem, CartInv
<1>8. ASSUME NEW w \in Workers, NEW c \in Carts, ClearRead(w, c) PROVE CartInv'
  <2> DEFINE next == [Idle EXCEPT !.at = "clear", !.cart = c, !.rows = Invalid(line[c])]
  <2>1. next \in CartRequest /\ KnowsItsRows(next, line)
    BY <1>0 DEF Idle, CartRequest, KnowsItsRows, Invalid, Lines
  <2> QED
    BY <1>1, <1>8, <2>1 DEF ClearRead
<1>9. ASSUME NEW w \in Workers, ClearDelete(w) PROVE CartInv'
  <2> DEFINE r == request[w]
  <2>1. r.cart \in Carts /\ r.rows \in SUBSET Skus
    BY DEF CartInv, CartRequest
  <2>2. line' = [line EXCEPT ![r.cart] = [s \in Skus |-> IF s \in r.rows THEN NoLine ELSE @[s]]]
    BY <1>9 DEF ClearDelete
  <2>3. /\ line' \in [Carts -> [Skus -> Line]]
        /\ \A d \in Carts : AllFit(line'[d])
        /\ \A d \in Carts, t \in Skus : line[d][t] # NoLine /\ line'[d][t] = NoLine => d = r.cart /\ t \in r.rows
    BY <2>1, <2>2, LineTyped DEF CartInv, AllFit
  <2>4. Done(w) \in [Workers -> CartRequest] /\ \A v \in Workers : KnowsItsRows(Done(w)[v], line)
    BY <1>0 DEF Done, CartInv, KnowsItsRows, Idle
  <2>5. /\ request' \in [Workers -> CartRequest]
        /\ \A v \in Workers : KnowsItsRows(request'[v], line')
    BY <1>9, <2>1, <2>3, <2>4, DeletingKnows DEF ClearDelete
  <2> QED
    BY <1>9, <2>3, <2>5 DEF ClearDelete, CartInv
<1>10. ASSUME NEW w \in Workers, Write(w) PROVE CartInv'
  <2> DEFINE r == request[w]
  <2>1. r.cart \in Carts /\ AllFit(r.plan) /\ AllFit(line[r.cart])
    BY DEF CartInv, CartRequest, KnowsItsRows
  <2>2. \A s \in Lines(r.plan) \cap r.rows :
          LET l == [line[r.cart][s] EXCEPT !.quantity = r.plan[s].quantity]
          IN  l \in Line /\ Fits(s, l) /\ l # NoLine
    <3> SUFFICES ASSUME NEW s \in Lines(r.plan) \cap r.rows
                 PROVE  LET l == [line[r.cart][s] EXCEPT !.quantity = r.plan[s].quantity]
                        IN  l \in Line /\ Fits(s, l) /\ l # NoLine
      OBVIOUS
    <3>1. s \in Skus /\ line[r.cart][s] \in Line /\ r.plan[s] \in Line /\ r.plan[s] # NoLine /\ Fits(s, r.plan[s])
      BY <2>1 DEF Lines, AllFit
    <3>2. line[r.cart][s] \in [quantity : Nat, selected : BOOLEAN]
      BY <3>1, LineTyped
    <3> QED
      BY <3>1, <3>2, LineTyped, MaxAssumption DEF Line, Fits, NoLine
  <2>3. line' = [line EXCEPT ![r.cart] =
             [s \in Skus |-> IF s \notin Lines(r.plan) THEN @[s]
                             ELSE IF s \in r.rows THEN [@[s] EXCEPT !.quantity = r.plan[s].quantity]
                             ELSE r.plan[s]]]
    BY <1>10 DEF Write
  <2>4. /\ line' \in [Carts -> [Skus -> Line]]
        /\ \A d \in Carts : AllFit(line'[d])
        /\ \A d \in Carts, s \in Skus : line[d][s] # NoLine => line'[d][s] # NoLine
    BY <2>1, <2>2, <2>3 DEF CartInv, AllFit, Lines
  <2>5. request' = [request EXCEPT ![w] = Idle] /\ UNCHANGED sku /\ exists' \in [Carts -> BOOLEAN]
    BY <1>10, <2>1 DEF Write, Done, CartInv
  <2> QED
    BY <1>0, <2>4, <2>5 DEF CartInv, KnowsItsRows, CartRequest, Lines
<1>11. ASSUME NEW w \in Workers, MergeRead(w) PROVE CartInv'
  <2> DEFINE next == [Idle EXCEPT !.at = "fold", !.plan = line["GUEST"]]
  <2>1. next \in CartRequest /\ KnowsItsRows(next, line)
    BY <1>0 DEF Idle, CartRequest, KnowsItsRows, CartInv, Carts
  <2> QED
    BY <1>1, <1>11, <2>1 DEF MergeRead
<1>12. ASSUME NEW w \in Workers, MergeFind(w) PROVE CartInv'
  <2> DEFINE r == request[w]
             plan == mergeCartLines(line["USER"], r.plan, sku)
             next == [r EXCEPT !.at = "merge", !.hasCart = exists["USER"], !.rows = Lines(line["USER"]), !.plan = plan]
  <2>1. r \in CartRequest /\ AllFit(r.plan) /\ r.cart = "USER"
    BY <1>12 DEF MergeFind, CartInv, KnowsItsRows
  <2>2. AllFit(line["USER"])
    BY DEF CartInv, Carts
  <2>3. AllFit(plan)
    BY <2>1, <2>2, MergedFits DEF AllFit
  <2>4. request' = [request EXCEPT ![w] = next] /\ UNCHANGED <<sku, exists, line>>
    BY <1>12 DEF MergeFind
  <2> HIDE DEF plan
  <2>5. exists["USER"] \in BOOLEAN /\ Lines(line["USER"]) \in SUBSET Skus
    BY DEF CartInv, Carts, Lines
  <2>6. next \in CartRequest
    BY <2>1, <2>3, <2>5 DEF CartRequest, AllFit
  <2>7. KnowsItsRows(next, line)
    BY <2>1, <2>3 DEF CartRequest, KnowsItsRows
  <2> QED
    BY <1>1, <2>4, <2>6, <2>7
<1>13. ASSUME NEW w \in Workers, MergeWrite(w) PROVE CartInv'
  <2> DEFINE r == request[w]
             merged == [s \in Skus |-> IF s \in Lines(r.plan) THEN r.plan[s] ELSE line["USER"][s]]
  <2>1. AllFit(merged) /\ \A s \in Skus : line["USER"][s] # NoLine => merged[s] # NoLine
    BY DEF CartInv, Carts, AllFit, KnowsItsRows, Lines
  <2>2. AllFit(guestRowsLeft(r))
    BY LineTyped DEF guestRowsLeft, CartInv, Carts, AllFit, Empty
  <2>3. line' = [USER |-> merged, GUEST |-> guestRowsLeft(r)] /\ UNCHANGED sku
    BY <1>13 DEF MergeWrite
  <2>8. exists' \in [Carts -> BOOLEAN]
    <3>1. r.gone \in BOOLEAN /\ exists["GUEST"] \in BOOLEAN
      BY DEF CartInv, CartRequest, Carts
    <3>2. PICK left \in BOOLEAN : exists' = [USER |-> TRUE, GUEST |-> left]
      BY <1>13, <3>1 DEF MergeWrite
    <3>3. DOMAIN exists' = Carts /\ exists' = [c \in DOMAIN exists' |-> exists'[c]]
      BY <3>2 DEF Carts
    <3>4. exists'["USER"] \in BOOLEAN /\ exists'["GUEST"] \in BOOLEAN
      BY <3>2
    <3>5. \A c \in Carts : exists'[c] \in BOOLEAN
      BY <3>4 DEF Carts
    <3> QED
      BY <3>3, <3>5
  <2> HIDE DEF merged
  <2>4. /\ line' \in [Carts -> [Skus -> Line]]
        /\ \A d \in Carts : AllFit(line'[d])
        /\ \A s \in Skus : line["USER"][s] # NoLine => line'["USER"][s] # NoLine
    BY <2>1, <2>2, <2>3 DEF Carts, AllFit
  <2>5. Done(w) \in [Workers -> CartRequest] /\ \A v \in Workers : KnowsItsRows(Done(w)[v], line)
    BY <1>0 DEF Done, CartInv, KnowsItsRows, Idle
  <2>6. CASE r.gone
    <3>1. request' = Done(w) /\ line'["GUEST"] = line["GUEST"]
      BY <1>13, <2>3, <2>6 DEF MergeWrite, guestRowsLeft
    <3>2. \A c \in Carts, s \in Skus : line[c][s] # NoLine => line'[c][s] # NoLine
      BY <2>4, <3>1 DEF Carts
    <3>3. ASSUME NEW v \in Workers PROVE KnowsItsRows(request'[v], line')
      <4> DEFINE q == Done(w)[v]
      <4>1. q \in CartRequest /\ KnowsItsRows(q, line) /\ q = request'[v]
        BY <2>5, <3>1
      <4> HIDE DEF q
      <4> QED
        BY <3>2, <4>1 DEF CartRequest, KnowsItsRows, Lines
    <3> QED
      BY <2>3, <2>4, <2>5, <2>8, <3>1, <3>3 DEF CartInv
  <2>7. CASE ~r.gone
    <3> DEFINE left == Deleting(Done(w), "GUEST", Skus)
    <3>1. left \in [Workers -> CartRequest] /\ \A v \in Workers : KnowsItsRows(left[v], line')
      BY <2>4, <2>5, DeletingKnows DEF Carts
    <3> HIDE DEF left
    <3>2. request' = [v \in Workers |->
            [left[v] EXCEPT !.lost = @ \/ (left[v].cart = "GUEST" /\ left[v].hasCart),
                            !.gone = @ \/ left[v].at \in {"fold", "merge"}]]
      BY <1>13, <2>7 DEF MergeWrite, DeletingGuest, left
    <3>3. ASSUME NEW v \in Workers PROVE request'[v] \in CartRequest /\ KnowsItsRows(request'[v], line')
      <4>1. left[v] \in CartRequest /\ KnowsItsRows(left[v], line')
        BY <3>1
      <4>2. PICK b1 \in BOOLEAN, b2 \in BOOLEAN : 
              /\ request'[v] = [left[v] EXCEPT !.lost = b1, !.gone = b2]
              /\ left[v].lost => b1
        BY <3>2, <4>1 DEF CartRequest
      <4> QED
        BY <4>1, <4>2 DEF CartRequest, KnowsItsRows
    <3>4. DOMAIN request' = Workers /\ request' = [v \in Workers |-> request'[v]]
      BY <3>2
    <3> QED
      BY <1>13, <2>3, <2>4, <2>8, <3>3, <3>4 DEF MergeWrite, CartInv
  <2> QED
    BY <2>6, <2>7
<1>14. ASSUME NEW w \in Workers, Fail(w) PROVE CartInv'
  BY <1>0, <1>14 DEF Fail, Done, CartInv
<1> QED
  BY <1>2, <1>3, <1>4, <1>5, <1>6, <1>7, <1>8, <1>9, <1>10, <1>11, <1>12, <1>13, <1>14 DEF Next

(* A step by which a line appears is the write of a request that looked    *)
(* for its row and found none.                                             *)
LEMMA AppearsForARequest ==
    ASSUME CartInv, Next, NEW c \in Carts, NEW s \in Skus, line[c][s] = NoLine, line'[c][s] # NoLine
    PROVE  AskedFor(s)
<1>1. CASE UNCHANGED line
  BY <1>1
<1>2. ASSUME NEW d \in Carts, NEW t \in Skus, RemoveItem(d, t) PROVE FALSE
  BY <1>2 DEF RemoveItem, CartInv
<1>3. ASSUME NEW d \in Carts, NEW S \in SUBSET Skus, NEW b \in BOOLEAN, SelectItems(d, S, b) PROVE FALSE
  BY <1>3 DEF SelectItems, CartInv, Lines
<1>4. ASSUME NEW w \in Workers, ClearDelete(w) PROVE FALSE
  BY <1>4 DEF ClearDelete, CartInv
<1>5. ASSUME NEW w \in Workers, Write(w)
      PROVE  AskedFor(s)
  <2> DEFINE r == request[w]
  <2>1. c = r.cart /\ s \in Lines(r.plan)
    BY <1>5 DEF Write, CartInv, CartRequest
  <2>2. r.at = "write" /\ ~r.lost /\ r.rows \subseteq Lines(line[r.cart])
    BY <1>5 DEF Write, Writable, CartInv, KnowsItsRows
  <2>3. s \notin r.rows
    BY <2>1, <2>2 DEF Lines
  <2>4. request'[w] = Idle
    BY <1>5 DEF Write, Done, CartInv
  <2> QED
    BY <2>1, <2>2, <2>3, <2>4 DEF AskedFor
<1>6. ASSUME NEW w \in Workers, MergeWrite(w)
      PROVE  AskedFor(s)
  <2> DEFINE r == request[w]
  <2>1. line'["GUEST"] = guestRowsLeft(r) /\ \A t \in Skus \ Lines(r.plan) : line'["USER"][t] = line["USER"][t]
    BY <1>6 DEF MergeWrite
  <2>2. line'["GUEST"][s] # NoLine => line["GUEST"][s] # NoLine
    BY <2>1 DEF guestRowsLeft, Empty
  <2>3. c = "USER" /\ s \in Lines(r.plan)
    BY <2>1, <2>2 DEF Carts
  <2>4. r.at = "merge" /\ ~r.lost /\ r.cart = "USER" /\ r.rows \subseteq Lines(line["USER"])
    BY <1>6 DEF MergeWrite, Writable, CartInv, KnowsItsRows
  <2>5. s \notin r.rows
    BY <2>3, <2>4 DEF Lines
  <2>6. request'[w] = Idle
    BY <1>6 DEF MergeWrite, Done, DeletingGuest, Deleting, Idle, CartInv
  <2> QED
    BY <2>3, <2>4, <2>5, <2>6 DEF AskedFor
<1> QED
  BY <1>1, <1>2, <1>3, <1>4, <1>5, <1>6
     DEF Next, Sell, AddRead, UpdateFind, AddFind, ClearRead, MergeRead, MergeFind, Fail
-----------------------------------------------------------------------------
(* Products: requests are about products that there are, and a product     *)
(* that there is not has no review history yet.                            *)
ProductRow == [status : Products!Status, text : Nat, complete : BOOLEAN]
ProductRequest ==
    {Products!Idle}
      \cup [at : {"update"}, p : Ids, from : Products!Editable]
      \cup [at : {"move"}, p : Ids, from : Products!Status, to : Products!Status]

ProductsInv ==
    /\ product \in [Ids -> ProductRow \cup {Products!NoProduct}]
    /\ told \in [Ids -> Products!Status]
    /\ productRequest \in [Workers -> ProductRequest]
    /\ \A w \in Workers : productRequest[w] # Products!Idle => productRequest[w].p \in {p \in Ids : Products!Exists(p)}
    /\ \A p \in Ids : ~Products!Exists(p) => told[p] = "DRAFT"
    /\ HistoryTellsStatus

LEMMA StatusOfProducts ==
    /\ Products!Status = {"DRAFT", "PENDING_REVIEW", "APPROVED", "REJECTED", "ACTIVE", "INACTIVE", "ARCHIVED"}
    /\ Products!Editable \subseteq Products!Status
BY DEF Products!Status, Products!PRODUCT_TRANSITIONS, Products!Editable

LEMMA ProductsInitInv == Products!Init => ProductsInv
BY StatusOfProducts DEF Products!Init, ProductsInv, ProductRequest, HistoryTellsStatus, Products!HistoryTellsStatus,
  Products!Exists

LEMMA ProductsStepInv == ASSUME ProductsInv, Products!Next PROVE ProductsInv'
<1> USE StatusOfProducts DEF Products!NoProduct, Products!Idle, Products!Exists, HistoryTellsStatus, Products!HistoryTellsStatus
<1>0. Products!Idle \in ProductRequest
  BY DEF ProductRequest
<1>1. ASSUME NEW active \in BOOLEAN, NEW open \in BOOLEAN, Products!SetShop(active, open) PROVE ProductsInv'
  BY <1>1 DEF Products!SetShop, ProductsInv
<1>2. ASSUME NEW p \in Ids, NEW complete \in BOOLEAN, Products!create(p, complete) PROVE ProductsInv'
  BY <1>2 DEF Products!create, ProductsInv, ProductRow
<1>3. ASSUME NEW source \in Ids, NEW p \in Ids, Products!copy(source, p) PROVE ProductsInv'
  <2>1. product[source].complete \in BOOLEAN
    BY <1>3 DEF Products!copy, ProductsInv, ProductRow
  <2> QED
    BY <1>2, <1>3, <2>1 DEF Products!copy
<1>4. ASSUME NEW w \in Workers, NEW p \in Ids, Products!UpdateRead(w, p) PROVE ProductsInv'
  BY <1>4 DEF Products!UpdateRead, ProductsInv, ProductRequest
<1>5. ASSUME NEW w \in Workers, NEW p \in Ids, NEW from, NEW to \in Products!Status, Products!Begin(w, p, from, to) PROVE ProductsInv'
  BY <1>5 DEF Products!Begin, ProductsInv, ProductRequest, ProductRow
<1>6. ASSUME NEW w \in Workers, NEW complete \in BOOLEAN, Products!UpdateWrite(w, complete) PROVE ProductsInv'
  <2> DEFINE r == productRequest[w]
  <2> DEFINE status == IF r.from \in {"APPROVED", "INACTIVE"} THEN "DRAFT" ELSE product[r.p].status
  <2>1. r.p \in Ids /\ Products!Exists(r.p)
    BY <1>6 DEF Products!UpdateWrite, ProductsInv, ProductRequest
  <2>2. product[r.p] \in ProductRow /\ told[r.p] = product[r.p].status
    BY <2>1 DEF ProductsInv
  <2> DEFINE new == [status |-> status, text |-> product[r.p].text + 1, complete |-> complete]
  <2>3. new \in ProductRow /\ new # Products!NoProduct
    BY <2>2 DEF ProductRow
  <2>4. product' = [product EXCEPT ![r.p] = new] /\ told' = [told EXCEPT ![r.p] = status]
    BY <1>6, <2>2 DEF Products!UpdateWrite, Products!tellsReset, ProductsInv
  <2>5. productRequest' = [productRequest EXCEPT ![w] = Products!Idle]
    BY <1>6 DEF Products!UpdateWrite, Products!Done
  <2>6. status \in Products!Status
    BY <2>2 DEF ProductRow
  <2>7. new.status = status
    OBVIOUS
  <2> HIDE DEF new, status
  <2> QED
    BY <1>0, <2>1, <2>3, <2>4, <2>5, <2>6, <2>7 DEF ProductsInv
<1>7. ASSUME NEW w \in Workers, Products!transition(w) PROVE ProductsInv'
  <2> DEFINE r == productRequest[w]
  <2>1. r.p \in Ids /\ Products!Exists(r.p) /\ r.to \in Products!Status
    BY <1>7 DEF Products!transition, ProductsInv, ProductRequest
  <2>2. product[r.p] \in ProductRow
    BY <2>1 DEF ProductsInv
  <2> DEFINE new == [product[r.p] EXCEPT !.status = r.to]
  <2>3. new \in ProductRow /\ new # Products!NoProduct /\ new.status = r.to
    BY <2>1, <2>2 DEF ProductRow
  <2>4. product' = [product EXCEPT ![r.p] = new] /\ told' = [told EXCEPT ![r.p] = r.to]
    BY <1>7 DEF Products!transition
  <2>5. productRequest' = [productRequest EXCEPT ![w] = Products!Idle]
    BY <1>7 DEF Products!transition, Products!Done
  <2> HIDE DEF new
  <2> QED
    BY <1>0, <1>7, <2>1, <2>3, <2>4, <2>5 DEF Products!transition, ProductsInv
<1>8. ASSUME NEW w \in Workers, Products!Fail(w) PROVE ProductsInv'
  BY <1>0, <1>8 DEF Products!Fail, ProductsInv, Products!Done
<1>9. ASSUME NEW w \in Workers, NEW p \in Ids,
             \/ Products!archive(w, p) \/ Products!submit(w, p)
             \/ Products!publish(w, p) \/ Products!unpublish(w, p)
             \/ \E approved \in BOOLEAN : Products!decide(w, p, approved)
      PROVE  ProductsInv'
  <2>1. PICK from \in SUBSET Products!Status, to \in Products!Status : Products!Begin(w, p, from, to)
    BY <1>9 DEF Products!archive, Products!submit, Products!publish, Products!unpublish, Products!decide
  <2> QED
    BY <1>5, <2>1
<1> QED
  BY <1>1, <1>2, <1>3, <1>4, <1>6, <1>7, <1>8, <1>9 DEF Products!Next
-----------------------------------------------------------------------------
(* Onboarding: rows are never removed, so a request still finds the row    *)
(* that it has read; and once there is a merchant there is one.            *)
Finds(r) ==
    \/ r = Onboarding!Idle
    \/ r.at = "save" /\ r.i \in 0..Onboarding!Latest
    \/ r.at = "move" /\ r.i \in 1..Onboarding!Latest /\ r.to \in Onboarding!Status
    \/ r.at = "status" /\ r.to \in {"ACTIVE", "SUSPENDED"} /\ merchant # "NONE"

OnboardingInv ==
    /\ Onboarding!TypeOK
    /\ DOMAIN applicationRequest = Workers
    /\ \A w \in Workers : Finds(applicationRequest[w])
    /\ OneApproval

LEMMA StatusOfApplications ==
    Onboarding!Status = {"DRAFT", "SUBMITTED", "NEEDS_CHANGES", "APPROVED", "REJECTED", "WITHDRAWN"}
BY DEF Onboarding!Status, Onboarding!MERCHANT_APPLICATION_TRANSITIONS

LEMMA OnboardingInitInv == Onboarding!Init => OnboardingInv
BY DEF Onboarding!Init, OnboardingInv, Onboarding!TypeOK, Finds, OneApproval, Onboarding!OneApproval, Onboarding!Latest

LEMMA OnboardingStepInv == ASSUME OnboardingInv, Onboarding!Next PROVE OnboardingInv'
<1> USE StatusOfApplications DEF OneApproval, Onboarding!OneApproval, Onboarding!Latest, Onboarding!Idle, Onboarding!Done
<1>1. ASSUME NEW w \in Workers, NEW r, Onboarding!Reads(w, r), Finds(r) PROVE OnboardingInv'
  BY <1>1 DEF Onboarding!Reads, OnboardingInv, Onboarding!TypeOK, Finds
<1>2. ASSUME NEW w \in Workers, Onboarding!SaveRead(w) PROVE OnboardingInv'
  <2>1. Len(application) \in Nat
    BY DEF OnboardingInv, Onboarding!TypeOK
  <2>2. PICK r : Onboarding!Reads(w, r) /\ Finds(r)
    BY <1>2, <2>1 DEF Onboarding!SaveRead, Finds
  <2> QED
    BY <1>1, <2>2
<1>3. ASSUME NEW w \in Workers, NEW complete \in BOOLEAN, Onboarding!SaveWrite(w, complete) PROVE OnboardingInv'
  <2> DEFINE r == applicationRequest[w]
             new == [status |-> "DRAFT", told |-> "DRAFT", complete |-> complete]
  <2>0. applicationRequest' = [applicationRequest EXCEPT ![w] = Onboarding!Idle] /\ merchant' = merchant /\ granted' = granted
    BY <1>3 DEF Onboarding!SaveWrite
  <2>1. r.i \in 0..Len(application)
    BY <1>3 DEF Onboarding!SaveWrite, OnboardingInv, Finds
  <2>2. CASE r.i > 0
    <3> DEFINE saved == [application[r.i] EXCEPT !.complete = complete]
    <3>0. application[r.i] \in Onboarding!Application
      BY <2>1, <2>2 DEF OnboardingInv, Onboarding!TypeOK
    <3>1. application' = [application EXCEPT ![r.i] = saved]
      BY <1>3, <2>2 DEF Onboarding!SaveWrite
    <3>2. saved \in Onboarding!Application /\ saved.status = application[r.i].status /\ saved.told = application[r.i].told
      BY <3>0 DEF Onboarding!Application
    <3>3. application' \in Seq(Onboarding!Application) /\ Len(application') = Len(application)
      BY <2>1, <2>2, <3>1, <3>2 DEF OnboardingInv, Onboarding!TypeOK
    <3>4. \A i \in 1..Len(application') : application'[i].status = application'[i].told
      BY <2>1, <2>2, <3>1, <3>2, <3>3 DEF OnboardingInv, Onboarding!TypeOK
    <3> QED
      BY <2>0, <3>3, <3>4 DEF OnboardingInv, Onboarding!TypeOK, Finds
  <2>3. CASE ~(r.i > 0)
    <3>1. application' = Append(application, new)
      BY <1>3, <2>3 DEF Onboarding!SaveWrite
    <3>2. new \in Onboarding!Application /\ new.status = new.told
      BY DEF Onboarding!Application
    <3>3. application' \in Seq(Onboarding!Application) /\ Len(application') = Len(application) + 1 /\ Len(application) \in Nat
      BY <3>1, <3>2 DEF OnboardingInv, Onboarding!TypeOK
    <3>4. \A i \in 1..Len(application') : application'[i].status = application'[i].told
      BY <3>1, <3>2, <3>3 DEF OnboardingInv, Onboarding!TypeOK
    <3> QED
      BY <2>0, <3>3, <3>4 DEF OnboardingInv, Onboarding!TypeOK, Finds
  <2> QED
    BY <2>2, <2>3
<1>4. ASSUME NEW w \in Workers, NEW i, NEW to \in Onboarding!Status, Onboarding!Begin(w, i, to) PROVE OnboardingInv'
  <2>1. PICK r : Onboarding!Reads(w, r) /\ Finds(r)
    BY <1>4 DEF Onboarding!Begin, Finds
  <2> QED
    BY <1>1, <2>1
<1>5. ASSUME NEW w \in Workers, NEW i, NEW s \in {"ACTIVE", "SUSPENDED"}, Onboarding!StatusRead(w, i, s) PROVE OnboardingInv'
  <2>1. PICK r : Onboarding!Reads(w, r) /\ Finds(r)
    BY <1>5 DEF Onboarding!StatusRead, Finds
  <2> QED
    BY <1>1, <2>1
<1>6. ASSUME NEW w \in Workers, Onboarding!Move(w) PROVE OnboardingInv'
  <2> DEFINE r == applicationRequest[w]
             moved == [application[r.i] EXCEPT !.status = r.to, !.told = r.to]
  <2>1. r.i \in 1..Len(application) /\ r.to \in Onboarding!Status
    BY <1>6 DEF Onboarding!Move, OnboardingInv, Finds
  <2>0. application[r.i] \in Onboarding!Application
    BY <2>1 DEF OnboardingInv, Onboarding!TypeOK
  <2>2. application' = [application EXCEPT ![r.i] = moved]
    BY <1>6, <2>0, <2>1 DEF Onboarding!Move, OnboardingInv, Onboarding!TypeOK, Onboarding!Application
  <2>3. moved \in Onboarding!Application /\ moved.status = moved.told
    BY <2>0, <2>1 DEF Onboarding!Application
  <2>4. application' \in Seq(Onboarding!Application) /\ Len(application') = Len(application)
    BY <2>1, <2>2, <2>3 DEF OnboardingInv, Onboarding!TypeOK
  <2>5. \A j \in 1..Len(application') : application'[j].status = application'[j].told
    BY <2>1, <2>2, <2>3, <2>4 DEF OnboardingInv, Onboarding!TypeOK
  <2>6. /\ merchant' \in {"NONE", "ACTIVE", "SUSPENDED"}
        /\ granted' = (IF merchant' = "NONE" THEN 0 ELSE 1)
        /\ merchant # "NONE" => merchant' # "NONE"
    BY <1>6 DEF Onboarding!Move, Onboarding!mayOnboard, OnboardingInv, Onboarding!TypeOK
  <2> QED
    BY <1>6, <2>4, <2>5, <2>6 DEF Onboarding!Move, OnboardingInv, Onboarding!TypeOK, Finds
<1>7. ASSUME NEW w \in Workers, Onboarding!SetMerchantStatus(w) PROVE OnboardingInv'
  BY <1>7 DEF Onboarding!SetMerchantStatus, OnboardingInv, Onboarding!TypeOK, Finds
<1>8. ASSUME NEW w \in Workers, Onboarding!Fail(w) PROVE OnboardingInv'
  BY <1>8 DEF Onboarding!Fail, OnboardingInv, Onboarding!TypeOK, Finds
<1> QED
  BY <1>2, <1>3, <1>4, <1>5, <1>6, <1>7, <1>8 DEF Onboarding!Next, Onboarding!submit, Onboarding!withdraw, Onboarding!review
-----------------------------------------------------------------------------
(* Desk: the row and the number of answered toggles, and nothing else.     *)
DeskInv == favorite \in BOOLEAN /\ toggles \in Nat /\ TogglesCount

LEMMA DeskInitInv == Desk!Init => DeskInv
<1> SUFFICES ASSUME Desk!Init PROVE DeskInv
  OBVIOUS
<1>1. favorite = FALSE /\ toggles = 0
  BY DEF Desk!Init
<1>2. ~(toggles % 2 = 1)
  BY <1>1
<1>3. favorite = (toggles % 2 = 1)
  BY <1>1, <1>2
<1> QED
  BY <1>1, <1>3 DEF DeskInv, TogglesCount, Desk!TogglesCount

LEMMA DeskStepInv == ASSUME DeskInv, Desk!Next PROVE DeskInv'
<1>1. ASSUME NEW w \in Workers, Desk!toggle(w) PROVE DeskInv'
  <2>1. favorite' = ~favorite
    BY <1>1 DEF Desk!toggle, Desk!rowAsFound, DeskInv
  <2>2. toggles \in Nat /\ toggles' = toggles + 1
    BY <1>1 DEF Desk!toggle, DeskInv
  <2>3. (toggles' % 2 = 1) <=> ~(toggles % 2 = 1)
    BY <2>2
  <2>4. favorite \in BOOLEAN /\ favorite = (toggles % 2 = 1)
    BY DEF DeskInv, TogglesCount, Desk!TogglesCount
  <2>5. favorite' = (toggles' % 2 = 1)
    BY <2>1, <2>3, <2>4
  <2> QED
    BY <2>1, <2>2, <2>4, <2>5 DEF DeskInv, TogglesCount, Desk!TogglesCount
<1>2. ASSUME UNCHANGED <<favorite, toggles>> PROVE DeskInv'
  BY <1>2 DEF DeskInv, TogglesCount, Desk!TogglesCount
<1> QED
  BY <1>1, <1>2 DEF Desk!Next, Desk!ReviewCheck, Desk!ReviewCreate, Desk!ReplyCheck, Desk!reply, Desk!ToggleCheck,
     Desk!ImportCheck, Desk!import, Desk!Fail, Desk!hide, Desk!resolve, Desk!createExport, Desk!runExport, Desk!Checked
-----------------------------------------------------------------------------
(* Files: what each statement of an upload has left behind.                *)
UploadLeaves(k) ==
    /\ upload[k] \in Files!Statements
    /\ asset[k] # Nobody => asset[k] = uploader[k]
    /\ upload[k] # "new" => uploader[k] \in Workers
    /\ asset[k] # Nobody => upload[k] \in {"remove", "done"}
    /\ upload[k] \in {"record", "remove"} => k \in disk
    /\ upload[k] = "new" => k \notin disk
    /\ asset[k] # Nobody => k \in disk \/ k \in unsure
    /\ upload[k] = "remove" /\ asset[k] # Nobody => k \in unsure
    /\ k \in disk /\ asset[k] = Nobody /\ upload[k] = "done" => k \in broken

FilesInv ==
    /\ DOMAIN asset = Ids /\ DOMAIN upload = Ids /\ DOMAIN uploader = Ids
    /\ used \subseteq Ids /\ disk \subseteq Ids /\ team \subseteq Workers
    /\ \A k \in Ids : UploadLeaves(k)
    /\ \A k \in used : asset[k] # Nobody

LEMMA FilesInitInv == Files!Init => FilesInv
BY DEF Files!Init, FilesInv, UploadLeaves, Files!Statements

LEMMA FilesInvSuffices == FilesInv => NothingAstray
<1> SUFFICES ASSUME FilesInv PROVE Files!NothingAstray
  BY DEF NothingAstray
<1>1. \A k \in Ids \ unsure : Files!Streams(k)
  BY DEF FilesInv, UploadLeaves, Files!Streams, Files!download, Files!publicDownload
<1>2. \A k \in disk : asset[k] = Nobody => upload[k] \notin {"new", "done"} \/ k \in broken
  BY DEF FilesInv, UploadLeaves
<1>3. \A k \in used : Files!download(Operator, k)
  BY DEF FilesInv, Files!download
<1> QED
  BY <1>1, <1>2, <1>3 DEF Files!NothingAstray

LEMMA FilesStepInv == ASSUME FilesInv, Files!Next PROVE FilesInv'
<1> USE PartsAssumption DEF Files!FilesAssumption, Files!Statements, Files!usage
<1>1. ASSUME NEW k \in Ids, 
             \/ \E u \in Workers : Files!create(k, u)
             \/ Files!write(k) \/ Files!WriteFails(k) \/ Files!Record(k) \/ Files!RecordFails(k) \/ Files!remove(k) \/ Files!Crash(k)
      PROVE  FilesInv'
  <2>1. DOMAIN asset' = Ids /\ DOMAIN upload' = Ids /\ DOMAIN uploader' = Ids
    BY <1>1 DEF FilesInv, Files!create, Files!write, Files!WriteFails, Files!Record, Files!RecordFails, Files!remove, Files!Crash, Files!Moves
  <2>2. ASSUME NEW j \in Ids, j # k PROVE UploadLeaves(j)'
    BY <1>1, <2>2 DEF FilesInv, UploadLeaves, Files!create, Files!write, Files!WriteFails, Files!Record, Files!RecordFails, Files!remove, Files!Crash, Files!Moves
  <2>3. UploadLeaves(k)'
    BY <1>1 DEF FilesInv, UploadLeaves, Files!create, Files!write, Files!WriteFails, Files!Record, Files!RecordFails, Files!remove, Files!Crash, Files!Moves
  <2>4. disk' \subseteq Ids
    BY <1>1 DEF FilesInv, Files!create, Files!write, Files!WriteFails, Files!Record, Files!RecordFails, Files!remove, Files!Crash
  <2>5. used' = used /\ team' = team /\ \A j \in Ids : asset[j] # Nobody => asset'[j] # Nobody
    BY <1>1 DEF FilesInv, UploadLeaves, Files!create, Files!write, Files!WriteFails, Files!Record, Files!RecordFails, Files!remove, Files!Crash, Files!Moves
  <2> QED
    BY <2>1, <2>2, <2>3, <2>4, <2>5 DEF FilesInv
<1>2. ASSUME NEW k \in Ids, Files!validate(k) PROVE FilesInv'
  BY <1>2 DEF Files!validate, FilesInv, UploadLeaves
<1>3. ASSUME Files!Others PROVE FilesInv'
  BY <1>3 DEF Files!Others, FilesInv, UploadLeaves
<1> QED
  BY <1>1, <1>2, <1>3 DEF Files!Next
-----------------------------------------------------------------------------
(* Team: what a request and a login have read of an account still holds,   *)
(* as long as nothing was late.                                            *)
Account == [isActive : BOOLEAN, staff : BOOLEAN, by : {"nobody", "self", "owner"}]
TeamTyped ==
    /\ account \in [Staff -> Account]
    /\ signedIn \in [Staff -> BOOLEAN] /\ outdated \in [Staff -> BOOLEAN]
    /\ login \in [Staff -> {"no", "current", "outdated"}]
    /\ DOMAIN routes = Staff /\ DOMAIN call = Workers
    /\ late \in BOOLEAN

Asks(r) ==
    /\ r.op \in {"idle", "create", "access", "status", "remove"}
    /\ r.op = "idle" <=> r = Team!Idle
    /\ r.op \in {"create", "access"} => r.granted \in Granted
    /\ r.op = "status" => r.isActive \in BOOLEAN

StillAsRead == \A u \in Staff :
    /\ login[u] # "no" => account[u].isActive /\ login[u] = "current"
    /\ \A r \in Workers : call[r].op = "status" /\ call[r].of = u => routes[u] # Team!NoMember

TeamInv ==
    /\ TeamTyped
    /\ \A r \in Workers : Asks(call[r])
    /\ \A u \in Staff : account[u].staff => account[u].by # "nobody"
    /\ ~late => StillAsRead
    /\ OutIsOut

LEMMA GrantedIsMember == \A given \in Granted : given # Team!NoMember
<1>1. "no member" \notin Team!MERCHANT_STAFF_ROUTE_KEYS
  BY DEF Team!MERCHANT_STAFF_ROUTE_KEYS
<1> QED
  BY <1>1, PartsAssumption DEF Team!TeamAssumption, Team!NoMember

LEMMA TeamInitInv == Team!Init => TeamInv
<1> SUFFICES ASSUME Team!Init PROVE TeamInv
  OBVIOUS
<1>1. TeamTyped
  BY DEF Team!Init, TeamTyped, Account, Team!NoAccount
<1>2. \A r \in Workers : Asks(call[r])
  BY DEF Team!Init, Asks, Team!Idle
<1>3. StillAsRead
  BY DEF Team!Init, StillAsRead, Team!Idle
<1>4. OutIsOut
  BY DEF Team!Init, OutIsOut, Team!OutIsOut, Team!NoAccount
<1> QED
  BY <1>1, <1>2, <1>3, <1>4 DEF Team!Init, TeamInv, Team!NoAccount

LEMMA TeamStepInv == ASSUME TeamInv, Team!Next PROVE TeamInv'
<1> USE DEF OutIsOut, Team!OutIsOut, Team!passwords
<1>1. ASSUME NEW r \in Workers, NEW next, Team!Starts(r, next), Asks(next),
             \A u \in Staff : next.op = "status" /\ next.of = u => routes[u] # Team!NoMember
      PROVE  TeamInv'
  BY <1>1 DEF Team!Starts, TeamInv, TeamTyped, Account, StillAsRead
<1>2. ASSUME NEW r \in Workers, NEW u \in Staff,
             \/ \E given \in Granted :
                  Team!createStaffAccount(r, u, given) \/ Team!updateAccess(r, u, given)
             \/ \E isActive \in BOOLEAN : Team!setMemberStatus(r, u, isActive)
             \/ Team!removeMember(r, u)
      PROVE  TeamInv'
  <2>1. CASE \E given \in Granted :
               Team!createStaffAccount(r, u, given) \/ Team!updateAccess(r, u, given)
    <3>1. PICK given \in Granted, op \in {"create", "access"} :
            Team!Starts(r, [op |-> op, of |-> u, granted |-> given])
      BY <2>1 DEF Team!createStaffAccount, Team!updateAccess
    <3>2. Asks([op |-> op, of |-> u, granted |-> given])
      BY DEF Asks, Team!Idle
    <3> QED
      BY <1>1, <3>1, <3>2
  <2>2. CASE \E isActive \in BOOLEAN : Team!setMemberStatus(r, u, isActive)
    <3>1. PICK isActive \in BOOLEAN :
            /\ Team!Starts(r, [op |-> "status", of |-> u, isActive |-> isActive])
            /\ routes[u] # Team!NoMember
      BY <2>2 DEF Team!setMemberStatus
    <3>2. Asks([op |-> "status", of |-> u, isActive |-> isActive])
      BY DEF Asks, Team!Idle
    <3> QED
      BY <1>1, <3>1, <3>2
  <2>3. CASE Team!removeMember(r, u)
    <3>1. Team!Starts(r, [op |-> "remove", of |-> u])
      BY <2>3 DEF Team!removeMember
    <3>2. Asks([op |-> "remove", of |-> u])
      BY DEF Asks, Team!Idle
    <3> QED
      BY <1>1, <3>1, <3>2
  <2> QED
    BY <1>2, <2>1, <2>2, <2>3
<1>3. ASSUME NEW r \in Workers, NEW u \in Staff, NEW op, Team!Writes(r, op, u)
      PROVE  /\ call' = [call EXCEPT ![r] = Team!Idle] /\ login' = login
             /\ \A q \in Workers : Asks(call'[q])
             /\ late' \in BOOLEAN
             /\ ~late' => /\ ~late /\ login[u] = "no"
                          /\ \A q \in Workers \ {r} : call[q].op = "idle" \/ call[q].of # u
  BY <1>3 DEF Team!Writes, Team!Readers, TeamInv, TeamTyped, Account, Asks, Team!Idle
<1>4. ASSUME NEW r \in Workers, NEW u \in Staff, Team!CreateWrite(r, u) PROVE TeamInv'
  <2>1. Team!Writes(r, "create", u) /\ call[r].granted \in Granted
    BY <1>4 DEF Team!CreateWrite, Team!Writes, TeamInv, Asks
  <2>2. call[r].granted # Team!NoMember
    BY <2>1, GrantedIsMember
  <2>3. TeamTyped'
    BY <1>3, <1>4, <2>1, <2>2 DEF Team!CreateWrite, TeamInv, TeamTyped, Account
  <2>4. \A v \in Staff : account'[v].staff => account'[v].by # "nobody"
    BY <1>3, <1>4, <2>1, <2>2 DEF Team!CreateWrite, TeamInv, TeamTyped, Account
  <2>5. ~late' => StillAsRead'
    BY <1>3, <1>4, <2>1, <2>2 DEF Team!CreateWrite, TeamInv, TeamTyped, Account, StillAsRead, Team!Idle
  <2>6. OutIsOut'
    BY <1>3, <1>4, <2>1, <2>2 DEF Team!CreateWrite, TeamInv, TeamTyped, Account
  <2> QED
    BY <1>3, <2>1, <2>3, <2>4, <2>5, <2>6 DEF TeamInv
<1>5. ASSUME NEW r \in Workers, NEW u \in Staff, Team!AccessWrite(r, u) PROVE TeamInv'
  <2>1. Team!Writes(r, "access", u) /\ call[r].granted \in Granted
    BY <1>5 DEF Team!AccessWrite, Team!Writes, TeamInv, Asks
  <2>2. call[r].granted # Team!NoMember
    BY <2>1, GrantedIsMember
  <2> QED
    BY <1>3, <1>5, <2>1, <2>2 DEF Team!AccessWrite, TeamInv, TeamTyped, Account, StillAsRead, Team!Idle
<1>6. ASSUME NEW r \in Workers, NEW u \in Staff, Team!StatusWrite(r, u) PROVE TeamInv'
  <2>1. Team!Writes(r, "status", u) /\ call[r].isActive \in BOOLEAN /\ call[r].op = "status" /\ call[r].of = u
    BY <1>6 DEF Team!StatusWrite, Team!Writes, TeamInv, Asks
  <2> QED
    BY <1>3, <1>6, <2>1 DEF Team!StatusWrite, Team!Closes, TeamInv, TeamTyped, Account, StillAsRead, Team!Idle
<1>7. ASSUME NEW r \in Workers, NEW u \in Staff, Team!RemoveWrite(r, u) PROVE TeamInv'
  <2>1. Team!Writes(r, "remove", u)
    BY <1>7 DEF Team!RemoveWrite
  <2> DEFINE gone == [account[u] EXCEPT !.staff = FALSE, !.isActive = FALSE]
  <2>0. account[u] \in Account /\ account' = [account EXCEPT ![u] = gone]
    BY <1>7 DEF Team!RemoveWrite, TeamInv, TeamTyped, Account
  <2>2. gone \in Account /\ ~gone.staff /\ ~gone.isActive
    BY <2>0 DEF Account
  <2>3. TeamTyped'
    BY <1>3, <1>7, <2>0, <2>1, <2>2 DEF Team!RemoveWrite, Team!Closes, TeamInv, TeamTyped
  <2>4. \A v \in Staff : account'[v].staff => account'[v].by # "nobody"
    BY <1>3, <1>7, <2>1 DEF Team!RemoveWrite, Team!Closes, TeamInv, TeamTyped
  <2>5. ~late' => StillAsRead'
    BY <1>3, <1>7, <2>1 DEF Team!RemoveWrite, Team!Closes, TeamInv, TeamTyped, StillAsRead, Team!Idle
  <2>6. OutIsOut'
    BY <1>3, <1>7, <2>1 DEF Team!RemoveWrite, Team!Closes, TeamInv, TeamTyped
  <2> QED
    BY <1>3, <2>1, <2>3, <2>4, <2>5, <2>6 DEF TeamInv
<1>8. ASSUME NEW r \in Workers, Team!Fail(r) PROVE TeamInv'
  BY <1>8 DEF Team!Fail, TeamInv, TeamTyped, Account, StillAsRead, Asks, Team!Idle
<1>9. ASSUME NEW u \in Staff, Team!register(u) PROVE TeamInv'
  BY <1>9 DEF Team!register, TeamInv, TeamTyped, Account, StillAsRead
<1>10. ASSUME NEW u \in Staff, Team!LoginCheck(u) PROVE TeamInv'
  BY <1>10 DEF Team!LoginCheck, TeamInv, TeamTyped, Account, StillAsRead
<1>11. ASSUME NEW u \in Staff, Team!issueSession(u) PROVE TeamInv'
  BY <1>11 DEF Team!issueSession, TeamInv, TeamTyped, Account, StillAsRead
<1>12. ASSUME NEW u \in Staff, Team!logout(u) PROVE TeamInv'
  BY <1>12 DEF Team!logout, Team!Closes, TeamInv, TeamTyped, Account, StillAsRead
<1>13. ASSUME NEW u \in Staff, Team!ResetWrite(u) PROVE TeamInv'
  BY <1>13 DEF Team!ResetWrite, TeamInv, TeamTyped, Account, StillAsRead
<1>14. ASSUME NEW u \in Staff, Team!forgotPassword(u) \/ Team!resetPassword(u) \/ Team!ResetFails(u) PROVE TeamInv'
  BY <1>14 DEF Team!forgotPassword, Team!resetPassword, Team!ResetFails, TeamInv, TeamTyped, Account, StillAsRead
<1> QED
  BY <1>2, <1>4, <1>5, <1>6, <1>7, <1>8, <1>9, <1>10, <1>11, <1>12, <1>13, <1>14 DEF Team!Next
-----------------------------------------------------------------------------
(* Products: what a step does to the status of a product.                  *)
LEMMA ProductsMove ==
    ASSUME ProductsInv, Products!Next
    PROVE  \A p \in Ids : Products!Exists(p) /\ product'[p].status # product[p].status =>
             \/ Products!canTransitionProduct(product[p].status, product'[p].status)
             \/ product'[p].status = "DRAFT"
<1> SUFFICES ASSUME NEW p \in Ids, Products!Exists(p), product'[p].status # product[p].status
             PROVE  \/ Products!canTransitionProduct(product[p].status, product'[p].status)
                    \/ product'[p].status = "DRAFT"
  OBVIOUS
<1>1. ASSUME NEW q \in Ids, NEW complete, Products!create(q, complete) PROVE FALSE
  BY <1>1 DEF Products!create, Products!Exists, ProductsInv
<1>2. ASSUME NEW w \in Workers, NEW complete \in BOOLEAN, Products!UpdateWrite(w, complete)
      PROVE  product'[p].status = "DRAFT"
  <2>1. productRequest[w].p = p
    BY <1>2 DEF Products!UpdateWrite, ProductsInv
  <2> QED
    BY <1>2, <2>1 DEF Products!UpdateWrite, ProductsInv
<1>3. ASSUME NEW w \in Workers, Products!transition(w)
      PROVE  Products!canTransitionProduct(product[p].status, product'[p].status)
  <2>1. productRequest[w].p = p
    BY <1>3 DEF Products!transition, ProductsInv
  <2>2. product[p] \in ProductRow
    BY DEF ProductsInv, Products!Exists
  <2> QED
    BY <1>3, <2>1, <2>2 DEF Products!transition, Products!stillThere, ProductsInv, ProductRow
<1>4. CASE UNCHANGED product
  BY <1>4
<1> QED
  BY <1>1, <1>2, <1>3, <1>4
     DEF Products!Next, Products!copy, Products!SetShop, Products!UpdateRead, Products!archive,
         Products!submit, Products!publish, Products!unpublish, Products!decide, Products!Begin, Products!Fail
-----------------------------------------------------------------------------
(* The parts together.                                                     *)
ShopInv == CartInv /\ ProductsInv /\ OnboardingInv /\ DeskInv /\ TeamInv /\ FilesInv

LEMMA ShopInitInv == ShopInit => ShopInv
BY CartInitInv, ProductsInitInv, OnboardingInitInv, DeskInitInv, TeamInitInv, FilesInitInv
   DEF ShopInit, ShopInv

LEMMA CartRests == ASSUME CartInv, UNCHANGED vars PROVE CartInv'
BY DEF vars, CartInv

LEMMA ProductsRests == ASSUME ProductsInv, UNCHANGED productVars PROVE ProductsInv'
BY DEF productVars, ProductsInv, HistoryTellsStatus, Products!HistoryTellsStatus, Products!Exists

LEMMA OnboardingRests == ASSUME OnboardingInv, UNCHANGED onboardingVars PROVE OnboardingInv'
BY DEF onboardingVars, OnboardingInv, Onboarding!TypeOK, Finds, OneApproval, Onboarding!OneApproval,
       Onboarding!Latest

LEMMA DeskRests == ASSUME DeskInv, UNCHANGED deskVars PROVE DeskInv'
BY DEF deskVars, DeskInv, TogglesCount, Desk!TogglesCount

LEMMA TeamRests == ASSUME TeamInv, UNCHANGED teamVars PROVE TeamInv'
BY DEF teamVars, TeamInv, TeamTyped, StillAsRead, OutIsOut, Team!OutIsOut

LEMMA FilesRests == ASSUME FilesInv, UNCHANGED filesVars PROVE FilesInv'
BY DEF filesVars, FilesInv, UploadLeaves

LEMMA ShopStepInv == ASSUME ShopInv, [ShopNext]_shopVars PROVE ShopInv'
<1> USE CartRests, ProductsRests, OnboardingRests, DeskRests, TeamRests, FilesRests DEF ShopInv
<1>1. CASE CartStep
  BY <1>1, CartStepInv DEF CartStep
<1>2. CASE ProductsStep
  BY <1>2, ProductsStepInv DEF ProductsStep
<1>3. CASE OnboardingStep
  BY <1>3, OnboardingStepInv DEF OnboardingStep
<1>4. CASE DeskStep
  BY <1>4, DeskStepInv DEF DeskStep
<1>5. CASE TeamStep
  BY <1>5, TeamStepInv DEF TeamStep
<1>6. CASE FilesStep
  BY <1>6, FilesStepInv DEF FilesStep
<1>7. CASE UNCHANGED shopVars
  BY <1>7 DEF shopVars
<1> QED
  BY <1>1, <1>2, <1>3, <1>4, <1>5, <1>6, <1>7 DEF ShopNext

\* The inductive invariants hold in every state that the shop can reach.
THEOREM ShopCorrect == ShopSpec => []ShopInv
<1>1. ShopInit => ShopInv
  BY ShopInitInv
<1>2. ShopInv /\ [ShopNext]_shopVars => ShopInv'
  BY ShopStepInv
<1> QED
  BY <1>1, <1>2, PTL DEF ShopSpec
-----------------------------------------------------------------------------
\* cart.service.ts: no cart ever holds more of a SKU than its limits allow,
\* however requests that read before others wrote overwrite each other.
THEOREM LimitsAreKept == ShopSpec => []WithinLimits
<1>1. ShopInv => WithinLimits
  BY CartInvSuffices DEF ShopInv
<1> QED
  BY <1>1, ShopCorrect, PTL

\* cart.service.ts: a line that is gone comes back only for a request that
\* looked for its row and did not find it.
THEOREM NothingReturns == ShopSpec => RemovedStaysRemoved
<1> DEFINE A == \A c \in Carts, s \in Skus : line[c][s] = NoLine /\ line'[c][s] # NoLine => AskedFor(s)
<1>1. ShopInv /\ [ShopNext]_shopVars => [A]_vars
  <2> SUFFICES ASSUME ShopInv, [ShopNext]_shopVars PROVE A \/ UNCHANGED vars
    OBVIOUS
  <2>1. CASE CartStep
    BY <2>1, AppearsForARequest DEF CartStep, ShopInv
  <2>2. CASE ~CartStep
    BY <2>2 DEF ShopNext, ProductsStep, OnboardingStep, DeskStep, TeamStep, FilesStep, shopVars
  <2> QED
    BY <2>1, <2>2
<1> QED
  BY <1>1, ShopCorrect, PTL DEF ShopSpec, RemovedStaysRemoved

\* product.service.ts: the last review event of a product tells its status.
THEOREM ProductHistory == ShopSpec => []HistoryTellsStatus
<1>1. ShopInv => HistoryTellsStatus
  BY DEF ShopInv, ProductsInv
<1> QED
  BY <1>1, ShopCorrect, PTL

\* product-workflow.ts: whatever requests race, a product takes the steps of
\* the table, or goes back to draft.
THEOREM ProductSteps == ShopSpec => StepsOfTheTable
<1> DEFINE A == \A p \in Ids : Products!Exists(p) /\ product'[p].status # product[p].status =>
                  \/ Products!canTransitionProduct(product[p].status, product'[p].status)
                  \/ product'[p].status = "DRAFT"
<1>1. ShopInv /\ [ShopNext]_shopVars => [A]_(Products!vars)
  <2> SUFFICES ASSUME ShopInv, [ShopNext]_shopVars PROVE A \/ UNCHANGED Products!vars
    OBVIOUS
  <2>1. CASE ProductsStep
    BY <2>1, ProductsMove DEF ProductsStep, ShopInv
  <2>2. CASE ~ProductsStep
    BY <2>2 DEF ShopNext, CartStep, OnboardingStep, DeskStep, TeamStep, FilesStep, shopVars,
                productVars, Products!vars
  <2> QED
    BY <2>1, <2>2
<1> QED
  BY <1>1, ShopCorrect, PTL DEF ShopSpec, StepsOfTheTable, Products!StepsOfTheTable

\* merchant-onboarding.service.ts: one merchant for a user, by one approval,
\* and every application has the status its timeline ends with.
THEOREM OneMerchant == ShopSpec => []OneApproval
<1>1. ShopInv => OneApproval
  BY DEF ShopInv, OnboardingInv
<1> QED
  BY <1>1, ShopCorrect, PTL

\* favorite.service.ts: the stored favorite is the parity of the answered toggles.
THEOREM TogglesAreCounted == ShopSpec => []TogglesCount
<1>1. ShopInv => TogglesCount
  BY DEF ShopInv, DeskInv
<1> QED
  BY <1>1, ShopCorrect, PTL

\* store.service.ts and auth.service.ts: who was suspended, removed, or had the
\* password reset has no session left, unless a write or a login was late.
THEOREM SuspendedIsOut == ShopSpec => []OutIsOut
<1>1. ShopInv => OutIsOut
  BY DEF ShopInv, TeamInv
<1> QED
  BY <1>1, ShopCorrect, PTL

\* files.service.ts: rows and objects agree, but for what a crash, the disk or a
\* lost answer of the database has left, and what a product names is there.
THEOREM FilesAreThere == ShopSpec => []NothingAstray
<1>1. ShopInv => NothingAstray
  BY FilesInvSuffices DEF ShopInv
<1> QED
  BY <1>1, ShopCorrect, PTL
=============================================================================
