---------------------------- MODULE CheckoutProofs ----------------------------
(***************************************************************************)
(* Proofs about Checkout: what is ordered, with which coupon and at which  *)
(* price, for any SKUs, carts, offers, buyers and numbers of requests; and *)
(* about PromotionDomain: how a discount falls to the lines of any bill.   *)
(*                                                                         *)
(* Total is a fold, defined by recursion on finite sets.  What it computes *)
(* is shown without an induction theorem: the number of units gained less  *)
(* those lost adds up as the fold does, and a smallest set on which the    *)
(* two differ is none.                                                     *)
(***************************************************************************)
EXTENDS Checkout, UnitCounting, WellFoundedInduction

-----------------------------------------------------------------------------
(* Total.                                                                  *)

\* A set of natural numbers has a least element.
LEMMA Least ==
    ASSUME NEW T \in SUBSET Nat, T # {}
    PROVE  \E n \in T : \A m \in T : ~(m < n)
<1> DEFINE R == OpToRel(<, Nat)
<1>1. IsWellFoundedOn(R, Nat)
  BY NatLessThanWellFounded
<1>2. \A x, y \in Nat : <<y, x>> \in R <=> y < x
  BY DEF OpToRel
<1> HIDE DEF R
<1>3. \E x \in T : \A y \in T : ~(<<y, x>> \in R)
  BY <1>1, WFMin
<1> QED
  BY <1>2, <1>3

\* g adds f up over every subset of S, one element after the other.
Adds(g, f, S) ==
    g = [s \in SUBSET S |->
           IF s = {} THEN 0
           ELSE f[CHOOSE x \in s : TRUE] + g[s \ {CHOOSE x \in s : TRUE}]]

LEMMA TotalIs ==
    ASSUME NEW f, NEW S
    PROVE  Total(f, S) = (CHOOSE g : Adds(g, f, S))[S]
BY DEF Total, FoldFunctionOnSet, MapThenFoldSet, Adds

\* A sum is determined by what it adds.
LEMMA AddsAgree ==
    ASSUME NEW f, NEW S, IsFiniteSet(S), NEW g, NEW h, Adds(g, f, S), Adds(h, f, S)
    PROVE  g[S] = h[S]
<1> DEFINE bad == {s \in SUBSET S : g[s] # h[s]}
           T == {Cardinality(s) : s \in bad}
           one(s) == CHOOSE x \in s : TRUE
<1>1. SUFFICES ASSUME g[S] # h[S] PROVE FALSE
  OBVIOUS
<1>2. \A s \in SUBSET S : IsFiniteSet(s) /\ Cardinality(s) \in Nat
  BY FS_Subset, FS_CardinalityType
<1>3. T \in SUBSET Nat /\ T # {}
  BY <1>1, <1>2
<1>4. PICK n \in T : \A m \in T : ~(m < n)
  <2> HIDE DEF T
  <2> QED
    BY <1>3, Least
<1>5. PICK s \in bad : n = Cardinality(s)
  BY <1>4
<1>6. s # {} => one(s) \in s
  OBVIOUS
<1>7. /\ g[s] = IF s = {} THEN 0 ELSE f[one(s)] + g[s \ {one(s)}]
      /\ h[s] = IF s = {} THEN 0 ELSE f[one(s)] + h[s \ {one(s)}]
  BY <1>5 DEF Adds
<1> HIDE DEF one
<1>8. s # {}
  BY <1>5, <1>7
<1>9. s \ {one(s)} \in SUBSET S /\ Cardinality(s \ {one(s)}) = Cardinality(s) - 1
  BY <1>2, <1>5, <1>6, <1>8, FS_RemoveElement
<1>10. s \ {one(s)} \notin bad
  <2>1. Cardinality(s \ {one(s)}) < n
    BY <1>2, <1>5, <1>9
  <2> QED
    BY <1>4, <2>1
<1>11. g[s \ {one(s)}] = h[s \ {one(s)}]
  BY <1>9, <1>10
<1> QED
  BY <1>5, <1>7, <1>8, <1>11

\* What is gained and what is lost, as units.
Gains(f, S) == [x \in S |-> IF f[x] > 0 THEN f[x] ELSE 0]
Losses(f, S) == [x \in S |-> IF f[x] > 0 THEN 0 ELSE -f[x]]
Net(f, S, T) == Cardinality(UnitsOver(T, Gains(f, S))) - Cardinality(UnitsOver(T, Losses(f, S)))

LEMMA UnitsLess ==
    ASSUME NEW S, IsFiniteSet(S), NEW f, \A x \in S : f[x] \in Nat, NEW T \in SUBSET S, NEW x \in T
    PROVE  /\ Cardinality(UnitsOver(T, f)) = Cardinality(UnitsOver(T \ {x}, f)) + f[x]
           /\ Cardinality(UnitsOver(T, f)) \in Nat
<1> DEFINE A == UnitsOver(T \ {x}, f)
           n == f[x]
<1>1. UnitsOver(T, f) = A \cup UnitsOf(x, n)
  BY DEF UnitsOver
<1>2. IsFiniteSet(A) /\ IsFiniteSet(T)
  <2>1. IsFiniteSet(T) /\ IsFiniteSet(T \ {x})
    BY FS_Subset
  <2>2. \A y \in T \ {x} : f[y] \in Nat
    OBVIOUS
  <2> QED
    BY <2>1, <2>2, UnitsAreFinite
<1>3. \A k \in 1..n : <<x, k>> \notin A
  <2>1. \A y \in T \ {x} : \A u \in UnitsOf(y, f[y]) : u[1] = y
    BY DEF UnitsOf
  <2>2. \A u \in A : u[1] # x
    BY <2>1 DEF UnitsOver
  <2> QED
    BY <2>2
<1>4. n \in Nat
  OBVIOUS
<1>5. Cardinality(UnitsOver(T, f)) \in Nat
  BY <1>2, UnitsAreFinite
<1> HIDE DEF A, n
<1>6. Cardinality(A \cup UnitsOf(x, n)) = Cardinality(A) + n
  BY <1>2, <1>3, <1>4, UnitsJoin
<1> QED
  BY <1>1, <1>5, <1>6 DEF A, n

LEMMA NetGrows ==
    ASSUME NEW S, IsFiniteSet(S), NEW f, \A x \in S : f[x] \in Int, NEW T \in SUBSET S
    PROVE  /\ Net(f, S, T) \in Int
           /\ T = {} => Net(f, S, T) = 0
           /\ \A x \in T : Net(f, S, T) = f[x] + Net(f, S, T \ {x})
<1> DEFINE g == Gains(f, S)
           h == Losses(f, S)
<1>1. \A x \in S : g[x] \in Nat /\ h[x] \in Nat /\ f[x] = g[x] - h[x]
  BY DEF Gains, Losses
<1>2. Net(f, S, T) = Cardinality(UnitsOver(T, g)) - Cardinality(UnitsOver(T, h))
      /\ \A x : Net(f, S, T \ {x}) = Cardinality(UnitsOver(T \ {x}, g)) - Cardinality(UnitsOver(T \ {x}, h))
  BY DEF Net
<1> HIDE DEF g, h
<1>3. \A U \in SUBSET T : Cardinality(UnitsOver(U, g)) \in Nat /\ Cardinality(UnitsOver(U, h)) \in Nat
  <2> SUFFICES ASSUME NEW U \in SUBSET T
               PROVE  Cardinality(UnitsOver(U, g)) \in Nat /\ Cardinality(UnitsOver(U, h)) \in Nat
    OBVIOUS
  <2>1. IsFiniteSet(U) /\ \A x \in U : g[x] \in Nat /\ h[x] \in Nat
    BY <1>1, FS_Subset
  <2> QED
    BY <2>1, UnitsAreFinite
<1>4. T = {} => Net(f, S, T) = 0
  BY <1>2, NoUnits
<1>5. ASSUME NEW x \in T PROVE Net(f, S, T) = f[x] + Net(f, S, T \ {x})
  <2>1. /\ Cardinality(UnitsOver(T, g)) = Cardinality(UnitsOver(T \ {x}, g)) + g[x]
        /\ Cardinality(UnitsOver(T, h)) = Cardinality(UnitsOver(T \ {x}, h)) + h[x]
    BY <1>1, UnitsLess
  <2> DEFINE a == Cardinality(UnitsOver(T \ {x}, g))
             b == Cardinality(UnitsOver(T \ {x}, h))
  <2>2. T \ {x} \in SUBSET T
    OBVIOUS
  <2>3. a \in Nat /\ b \in Nat /\ g[x] \in Nat /\ h[x] \in Nat /\ f[x] = g[x] - h[x]
    BY <1>1, <1>3, <2>2
  <2>4. Net(f, S, T) = (a + g[x]) - (b + h[x]) /\ Net(f, S, T \ {x}) = a - b
    BY <1>2, <2>1
  <2> HIDE DEF a, b
  <2> QED
    BY <2>3, <2>4
<1> QED
  BY <1>2, <1>3, <1>4, <1>5

\* A sum is what is gained less what is lost, in whichever order it is added.
LEMMA TotalCounts ==
    ASSUME NEW S, IsFiniteSet(S), NEW f, \A x \in S : f[x] \in Int, NEW T \in SUBSET S
    PROVE  Total(f, T) = Net(f, S, T)
<1> DEFINE one(s) == CHOOSE x \in s : TRUE
           g == [s \in SUBSET T |-> Net(f, S, s)]
<1>1. \A s \in SUBSET T : Net(f, S, s) = IF s = {} THEN 0 ELSE f[one(s)] + Net(f, S, s \ {one(s)})
  <2> SUFFICES ASSUME NEW s \in SUBSET T
               PROVE  Net(f, S, s) = IF s = {} THEN 0 ELSE f[one(s)] + Net(f, S, s \ {one(s)})
    OBVIOUS
  <2>1. s # {} => one(s) \in s
    OBVIOUS
  <2>2. s \in SUBSET S
    OBVIOUS
  <2> HIDE DEF one
  <2> QED
    BY <2>1, <2>2, NetGrows
<1>2. g = [s \in SUBSET T |-> IF s = {} THEN 0 ELSE f[one(s)] + g[s \ {one(s)}]]
  BY <1>1
<1>3. Adds(g, f, T)
  <2> HIDE DEF g
  <2> QED
    BY <1>2 DEF Adds
<1>4. Adds(CHOOSE k : Adds(k, f, T), f, T)
  <2> HIDE DEF g
  <2> QED
    BY <1>3
<1>5. IsFiniteSet(T)
  BY FS_Subset
<1>6. (CHOOSE k : Adds(k, f, T))[T] = g[T]
  <2> DEFINE h == CHOOSE k : Adds(k, f, T)
  <2> HIDE DEF g, h
  <2>1. Adds(h, f, T)
    BY <1>4 DEF h
  <2> QED
    BY <1>3, <1>5, <2>1, AddsAgree DEF h
<1> QED
  BY <1>6, TotalIs
-----------------------------------------------------------------------------
(* Total, as it is used.                                                   *)

LEMMA TotalAdds ==
    ASSUME NEW S, IsFiniteSet(S), NEW f, \A x \in S : f[x] \in Int
    PROVE  /\ Total(f, S) \in Int
           /\ \A x \in S : Total(f, S) = f[x] + Total(f, S \ {x})
<1>1. \A T \in SUBSET S : Total(f, T) = Net(f, S, T)
  BY TotalCounts
<1>2. /\ Net(f, S, S) \in Int
      /\ \A x \in S : Net(f, S, S) = f[x] + Net(f, S, S \ {x})
  BY NetGrows
<1> QED
  BY <1>1, <1>2

LEMMA TotalOfNone ==
    ASSUME NEW f, NEW S, IsFiniteSet(S), \A x \in S : f[x] = 0
    PROVE  Total(f, S) = 0
<1>1. Total(f, S) = Net(f, S, S)
  BY TotalCounts
<1>2. \A x \in S : Gains(f, S)[x] = 0 /\ Losses(f, S)[x] = 0
  BY DEF Gains, Losses
<1>3. Cardinality(UnitsOver(S, Gains(f, S))) = 0 /\ Cardinality(UnitsOver(S, Losses(f, S))) = 0
  BY <1>2, NoUnits
<1> QED
  BY <1>1, <1>3 DEF Net

LEMMA TotalAgrees ==
    ASSUME NEW S, IsFiniteSet(S), NEW f, NEW g,
           \A x \in S : f[x] \in Int /\ g[x] = f[x]
    PROVE  Total(g, S) = Total(f, S)
<1>1. Total(f, S) = Net(f, S, S) /\ Total(g, S) = Net(g, S, S)
  BY TotalCounts
<1>2. Gains(g, S) = Gains(f, S) /\ Losses(g, S) = Losses(f, S)
  BY DEF Gains, Losses
<1> QED
  BY <1>1, <1>2 DEF Net

LEMMA TotalOfPart ==
    ASSUME NEW S, IsFiniteSet(S), NEW f, \A x \in S : f[x] \in Int,
           NEW T \in SUBSET S, \A x \in S \ T : f[x] = 0
    PROVE  Total(f, S) = Total(f, T)
<1> DEFINE g == Gains(f, S)
           h == Losses(f, S)
<1>1. \A x \in S \ T : g[x] = 0 /\ h[x] = 0
  BY DEF Gains, Losses
<1> HIDE DEF g, h
<1>2. UnitsOver(S, g) = UnitsOver(T, g) /\ UnitsOver(S, h) = UnitsOver(T, h)
  <2>1. \A x \in S \ T : UnitsOf(x, g[x]) = {} /\ UnitsOf(x, h[x]) = {}
    BY <1>1 DEF UnitsOf
  <2> QED
    BY <2>1 DEF UnitsOver
<1>3. Total(f, S) = Net(f, S, S) /\ Total(f, T) = Net(f, S, T)
  BY TotalCounts
<1> QED
  BY <1>2, <1>3 DEF Net, g, h

LEMMA TotalOfNaturals ==
    ASSUME NEW S, IsFiniteSet(S), NEW f, \A x \in S : f[x] \in Nat
    PROVE  Total(f, S) \in Nat /\ \A x \in S : f[x] <= Total(f, S)
<1> DEFINE h == Losses(f, S)
           g == Gains(f, S)
<1>1. \A x \in S : h[x] = 0 /\ g[x] = f[x] /\ g[x] \in Nat
  BY DEF Losses, Gains
<1>2. Total(f, S) = Cardinality(UnitsOver(S, g)) - Cardinality(UnitsOver(S, h))
  BY TotalCounts DEF Net
<1> HIDE DEF g, h
<1>3. Cardinality(UnitsOver(S, h)) = 0
  BY <1>1, NoUnits
<1>4. Cardinality(UnitsOver(S, g)) \in Nat /\ \A x \in S : g[x] <= Cardinality(UnitsOver(S, g))
  BY <1>1, UnitsAreFinite, UnitsCounted
<1> QED
  BY <1>1, <1>2, <1>3, <1>4
-----------------------------------------------------------------------------
(* What a coupon takes off, and how it falls to the lines.                 *)

IsBill(lines) ==
    /\ \E n \in Nat : DOMAIN lines \subseteq 1..n
    /\ \A k \in DOMAIN lines : lines[k].amount \in Nat \ {0}

LEMMA BillFinite ==
    ASSUME NEW lines, IsBill(lines)
    PROVE  /\ IsFiniteSet(DOMAIN lines)
           /\ \A T \in SUBSET DOMAIN lines : IsFiniteSet(T)
           /\ \A T \in SUBSET DOMAIN lines : T # {} =>
                \E k \in T : \A j \in T : j <= k
<1>1. PICK n \in Nat : DOMAIN lines \subseteq 1..n
  BY DEF IsBill
<1>2. IsFiniteSet(1..n)
  BY FS_Interval
<1>3. \A T \in SUBSET DOMAIN lines : IsFiniteSet(T)
  BY <1>1, <1>2, FS_Subset
<1>4. ASSUME NEW T \in SUBSET DOMAIN lines, T # {} PROVE \E k \in T : \A j \in T : j <= k
  <2> DEFINE U == {m \in 0..n : n - m \in T}
  <2>1. U \in SUBSET Nat
    OBVIOUS
  <2>2. \A k \in T : k \in 1..n /\ n - k \in 0..n /\ n - (n - k) = k
    BY <1>1
  <2>3. U # {}
    BY <1>4, <2>2
  <2>4. PICK m \in U : \A l \in U : ~(l < m)
    <3> HIDE DEF U
    <3> QED
      BY <2>1, <2>3, Least
  <2>5. n - m \in T /\ m \in 0..n
    BY <2>4
  <2>6. ASSUME NEW j \in T PROVE j <= n - m
    <3>1. n - j \in U
      BY <2>2
    <3>2. ~(n - j < m) /\ j \in 1..n
      BY <2>2, <2>4, <3>1
    <3> QED
      BY <2>5, <3>2
  <2> QED
    BY <2>5, <2>6
<1> QED
  BY <1>3, <1>4

\* A discount is a number of cents, no more than the lines it is for.
LEMMA DiscountFits ==
    ASSUME NEW lines, IsBill(lines), NEW coupon,
           coupon.value \in Nat, coupon.minimum \in Nat
    PROVE  /\ eligibleAmount(lines, coupon) \in Nat
           /\ Eligible(lines, coupon) # {} => eligibleAmount(lines, coupon) > 0
           /\ Eligible(lines, coupon) = {} => eligibleAmount(lines, coupon) = 0
           /\ Discount(lines, coupon) \in Nat
           /\ Discount(lines, coupon) <= eligibleAmount(lines, coupon)
           /\ ~Applies(lines, coupon) => Discount(lines, coupon) = 0
<1> DEFINE E == Eligible(lines, coupon)
           f == Amounts(lines)
           e == eligibleAmount(lines, coupon)
<1>1. E \in SUBSET DOMAIN lines /\ \A k \in E : f[k] \in Nat /\ f[k] > 0
  BY DEF Eligible, Amounts, IsBill
<1>2. IsFiniteSet(E)
  BY <1>1, BillFinite
<1>3. e = Total(f, E)
  BY DEF eligibleAmount
<1> HIDE DEF E, f
<1>4. e \in Nat /\ \A k \in E : f[k] <= e
  BY <1>1, <1>2, <1>3, TotalOfNaturals
<1>5. E # {} => e > 0
  BY <1>1, <1>4
<1>6. E = {} => e = 0
  BY <1>2, <1>3, TotalOfNone
<1>7. (e * coupon.value) \div 100 \in Nat
  <2>1. e * coupon.value \in Nat
    BY <1>4
  <2> QED
    BY <2>1
<1> DEFINE c == IF coupon.type = "FIXED" THEN coupon.value ELSE (e * coupon.value) \div 100
<1>8. c \in Nat
  BY <1>7
<1>9. Discount(lines, coupon) = IF ~Applies(lines, coupon) THEN 0 ELSE IF c > e THEN e ELSE c
  BY DEF Discount
<1> HIDE DEF e, c
<1> QED
  BY <1>4, <1>5, <1>6, <1>8, <1>9 DEF E, e

(* The parts of a discount make up the whole (allocateDiscount,            *)
(* promotion-domain.ts): for any bill and any coupon, whatever rounding    *)
(* takes from one line the last eligible line takes up.                    *)
THEOREM PartsMakeUpTheWhole ==
    ASSUME NEW lines, IsBill(lines), NEW coupon,
           coupon.value \in Nat, coupon.minimum \in Nat
    PROVE  /\ Allocation(lines, coupon) \in [DOMAIN lines -> Int]
           /\ Total(Allocation(lines, coupon), DOMAIN lines) = Discount(lines, coupon)
<1> DEFINE E == Eligible(lines, coupon)
           e == eligibleAmount(lines, coupon)
           d == Discount(lines, coupon)
           share == Allocation(lines, coupon)
           R == [k \in E |-> Proportion(lines, coupon, k)]
           Last(k) == \A j \in E : j <= k
<1>1. E \in SUBSET DOMAIN lines /\ IsFiniteSet(E) /\ IsFiniteSet(DOMAIN lines)
  BY BillFinite DEF Eligible
<1>2. /\ e \in Nat /\ d \in Nat /\ (E # {} => e > 0)
      /\ ~Applies(lines, coupon) => d = 0
      /\ E = {} => d = 0
  BY DiscountFits
<1>3. ASSUME NEW k \in E PROVE R[k] \in Int
  <2>1. R[k] = (d * lines[k].amount) \div e
    BY DEF Proportion
  <2>2. lines[k].amount \in Nat
    BY <1>1 DEF IsBill
  <2>3. d * lines[k].amount \in Nat /\ e \in Nat \ {0}
    BY <1>2, <1>3, <2>2
  <2> HIDE DEF d, e
  <2> QED
    BY <2>1, <2>3
<1>4. share = [k \in DOMAIN lines |->
                 IF k \notin E \/ ~Applies(lines, coupon) THEN 0
                 ELSE IF Last(k) THEN d - Total(R, E \ {k}) ELSE R[k]]
  BY DEF Allocation
<1> HIDE DEF E, e, d, R, share
<1>5. CASE ~Applies(lines, coupon) \/ E = {}
  <2>1. \A k \in DOMAIN lines : share[k] = 0
    BY <1>4, <1>5
  <2>2. Total(share, DOMAIN lines) = 0
    BY <1>1, <2>1, TotalOfNone
  <2> QED
    BY <1>2, <1>4, <1>5, <2>1, <2>2 DEF share, d
<1>6. CASE Applies(lines, coupon) /\ E # {}
  <2>1. PICK last \in E : Last(last)
    BY <1>1, <1>6, BillFinite
  <2>2. \A k \in E : k \in Int
    BY <1>1 DEF IsBill
  <2>3. \A k \in E \ {last} : ~Last(k)
    BY <2>1, <2>2
  <2>4. IsFiniteSet(E \ {last}) /\ Total(R, E \ {last}) \in Int
    <3>1. IsFiniteSet(E \ {last})
      BY <1>1, FS_Subset
    <3> QED
      BY <1>3, <3>1, TotalAdds
  <2>5. /\ share \in [DOMAIN lines -> Int]
        /\ share[last] = d - Total(R, E \ {last})
        /\ \A k \in E \ {last} : share[k] = R[k]
        /\ \A k \in (DOMAIN lines) \ E : share[k] = 0
    <3>1. \A k \in DOMAIN lines : share[k] \in Int
      <4> SUFFICES ASSUME NEW k \in DOMAIN lines PROVE share[k] \in Int
        OBVIOUS
      <4>1. CASE k \notin E
        <5>1. share[k] = 0
          BY <1>4, <4>1
        <5> QED
          BY <5>1
      <4>2. CASE k = last
        <5>1. k \in E /\ Last(k)
          BY <2>1, <4>2
        <5>2. share[k] = d - Total(R, E \ {k})
          <6> HIDE DEF Last
          <6> QED
            BY <1>4, <1>6, <5>1
        <5> QED
          BY <1>2, <2>4, <4>2, <5>2
      <4>3. CASE k \in E \ {last}
        <5>1. share[k] = R[k]
          BY <1>4, <1>6, <2>3, <4>3
        <5> QED
          BY <1>3, <4>3, <5>1
      <4> QED
        BY <4>1, <4>2, <4>3
    <3> QED
      BY <1>1, <1>4, <1>6, <2>1, <2>3, <3>1
  <2>6. Total(share, DOMAIN lines) = Total(share, E)
    BY <1>1, <2>5, TotalOfPart
  <2>7. Total(share, E) = share[last] + Total(share, E \ {last})
    BY <1>1, <2>1, <2>5, TotalAdds
  <2>8. Total(share, E \ {last}) = Total(R, E \ {last})
    BY <1>3, <2>4, <2>5, TotalAgrees
  <2> QED
    BY <1>2, <2>4, <2>5, <2>6, <2>7, <2>8 DEF share, d
<1> QED
  BY <1>5, <1>6
-----------------------------------------------------------------------------
(* The invariant.                                                          *)

Draft == [cart : Carts, asked : [Skus -> Nat], valid : SUBSET Skus]
Request == [at : {"idle", "create", "CHECKOUT_QUOTE_CONSUMED"},
            quote : Quotes \cup {None}, key : Keys \cup {None}]

Typed ==
    /\ DOMAIN offer = Skus /\ \A s \in Skus : offer[s] \in Offers[s]
    /\ available \in [Skus -> Nat]
    /\ couponOpen \in BOOLEAN
    /\ claimant \in [Claims -> Buyers \cup {None}]
    /\ redemption \in [Claims -> Redemption \cup {None}]
    /\ draft \in [Buyers -> Draft \cup {NoDraft}]
    /\ quote \in [Quotes -> Quote \cup {None}]
    /\ order \in [Quotes -> Order \cup {NoOrder}]
    /\ request \in [Workers -> Request]

\* Only what can be ordered is priced, and nothing is taken off without a coupon.
DraftsTell == \A b \in Buyers : draft[b] # NoDraft => draft[b].valid \subseteq Ordered(draft[b].cart)
QuotesTell == \A q \in Quotes : quote[q] # None => quote[q].coupon \/ quote[q].discount = 0

\* Orders, and requests for one, are of quotes that exist.
RowsExist ==
    /\ \A q \in Quotes : order[q] # NoOrder => quote[q] # None
    /\ \A w \in Workers : request[w].at = "create" =>
         request[w].quote \in Quotes /\ quote[request[w].quote] # None /\ request[w].key \in Keys

FinitelyMany == IsFiniteSet({c \in Claims : claimant[c] # None}) /\ IsFiniteSet(KeptOrders)

IInv == Typed /\ DraftsTell /\ QuotesTell /\ RowsExist /\ FinitelyMany /\ CouponKept /\ OrdersAddUp

\* CouponKept and OrdersAddUp by their parts.
ClaimsLimited ==
    /\ Cardinality({c \in Claims : claimant[c] # None}) <= Coupon.totalLimit
    /\ \A b \in Buyers : Cardinality(ClaimsOf(b)) <= Coupon.perUserLimit
HoldersOf(q) == {c \in Claims : redemption[c] # None /\ redemption[c].order = q}
ClaimsBelong ==
    \A c \in Claims : redemption[c] # None =>
      /\ redemption[c].order \in KeptOrders
      /\ claimant[c] = quote[redemption[c].order].buyer
      /\ redemption[c].discount = quote[redemption[c].order].discount
OneClaimEach ==
    \A q \in KeptOrders :
      Cardinality(HoldersOf(q)) = IF quote[q].discount > 0 THEN 1 ELSE 0
Sold(s) == [q \in KeptOrders |-> quote[q].cart[s]]
UnitsTell == \A s \in Skus : available[s] + Total(Sold(s), KeptOrders) = Stock[s]
SharesTell ==
    \A q \in Quotes : quote[q] # None =>
      Total(quote[q].share, DOMAIN quote[q].share) = quote[q].discount

LEMMA Parts ==
    /\ CouponKept <=> ClaimsLimited /\ ClaimsBelong /\ OneClaimEach
    /\ OrdersAddUp <=> UnitsTell /\ SharesTell
BY DEF CouponKept, OrdersAddUp, ClaimsLimited, ClaimsBelong, OneClaimEach, HoldersOf,
       UnitsTell, Sold, SharesTell
-----------------------------------------------------------------------------
(* The initial states.                                                     *)

LEMMA RowsTyped ==
    /\ NoOrder.status = "NONE" /\ NoOrder.key = None /\ NoOrder.paid = FALSE /\ NoOrder \notin Order
    /\ \A o \in Order :
         /\ o.status \in {"PENDING_PAYMENT", "PAID", "CANCELLED", "CLOSED"} /\ o # NoOrder
         /\ o.status = "PENDING_PAYMENT" => o.paid = FALSE
         /\ o.status = "PAID" => o.paid = TRUE
    /\ NoDraft.cart = None /\ \A d \in Draft : d # NoDraft
    /\ Idle \in Request /\ Idle.at = "idle"
    /\ None \notin Quote /\ None \notin Redemption
<1>1. NoOrder.status = "NONE" /\ NoOrder.key = None /\ NoOrder.paid = FALSE
  BY DEF NoOrder
<1>2. \A o \in Order : /\ o.status \in {"PENDING_PAYMENT", "PAID", "CANCELLED", "CLOSED"}
                       /\ o.status = "PENDING_PAYMENT" => o.paid = FALSE
                       /\ o.status = "PAID" => o.paid = TRUE
  BY DEF Order
<1>3. NoDraft.cart = None
  BY DEF NoDraft
<1>4. \A d \in Draft : d.cart \in Carts
  BY DEF Draft
<1>5. \A d \in Draft : d # NoDraft
  BY <1>3, <1>4, CheckoutAssumption
<1> QED
  BY <1>1, <1>2, <1>3, <1>5, RowAssumption DEF Idle, Request

LEMMA InitHolds ==
    ASSUME Init
    PROVE  IInv
<1> USE DEF Init
<1>1. KeptOrders = {}
  BY RowsTyped DEF KeptOrders
<1>2. {c \in Claims : claimant[c] # None} = {} /\ \A b \in Buyers : ClaimsOf(b) = {}
  BY CheckoutAssumption DEF ClaimsOf
<1>3. Typed
  <2>1. DOMAIN offer = Skus /\ \A s \in Skus : offer[s] \in Offers[s]
    OBVIOUS
  <2>2. couponOpen \in BOOLEAN
    OBVIOUS
  <2>3. request \in [Workers -> Request]
    BY RowsTyped
  <2> QED
    BY <2>1, <2>2, <2>3, CheckoutAssumption DEF Typed
<1>4. DraftsTell /\ QuotesTell /\ RowsExist
  BY RowsTyped DEF DraftsTell, QuotesTell, RowsExist
<1>5. FinitelyMany
  BY <1>1, <1>2, FS_EmptySet DEF FinitelyMany
<1>6. ClaimsLimited
  <2>1. Coupon.totalLimit \in Nat /\ Coupon.perUserLimit \in Nat
    BY CheckoutAssumption DEF Rule
  <2>2. Cardinality({c \in Claims : claimant[c] # None}) = 0
        /\ \A b \in Buyers : Cardinality(ClaimsOf(b)) = 0
    BY <1>2, FS_EmptySet
  <2> HIDE DEF Init
  <2> QED
    BY <2>1, <2>2 DEF ClaimsLimited
<1>7. ClaimsBelong /\ OneClaimEach /\ SharesTell
  BY <1>1 DEF ClaimsBelong, OneClaimEach, SharesTell
<1>8. UnitsTell
  <2>1. \A s \in Skus : Total(Sold(s), KeptOrders) = 0
    BY <1>1, TotalOfNone, FS_EmptySet
  <2> QED
    BY <2>1, CheckoutAssumption DEF UnitsTell
<1> QED
  BY <1>3, <1>4, <1>5, <1>6, <1>7, <1>8, Parts DEF IInv
-----------------------------------------------------------------------------
(* The steps.                                                              *)

\* What stays when no order, claim or unit of stock moves: a quote is only
\* inserted, or expires.
Lasting(q) ==
    quote[q] # None =>
      /\ quote'[q] # None /\ quote'[q].buyer = quote[q].buyer /\ quote'[q].cart = quote[q].cart
      /\ quote'[q].discount = quote[q].discount

LEMMA OrdersStay ==
    ASSUME IInv, UNCHANGED <<available, claimant, redemption, order>>,
           \A q \in Quotes : Lasting(q)
    PROVE  /\ FinitelyMany' /\ ClaimsLimited' /\ ClaimsBelong' /\ OneClaimEach' /\ UnitsTell'
           /\ \A q \in Quotes : order'[q] # NoOrder => quote'[q] # None
<1>1. /\ ClaimsLimited /\ ClaimsBelong /\ OneClaimEach /\ UnitsTell /\ FinitelyMany /\ RowsExist
      /\ KeptOrders' = KeptOrders
  BY Parts DEF IInv, KeptOrders
<1>2. \A q \in KeptOrders : q \in Quotes /\ quote[q] # None
  BY <1>1, RowsTyped DEF RowsExist, KeptOrders
<1>3. FinitelyMany' /\ ClaimsLimited'
  BY <1>1 DEF FinitelyMany, ClaimsLimited, ClaimsOf
<1>4. ClaimsBelong'
  BY <1>1, <1>2 DEF ClaimsBelong, Lasting
<1>5. OneClaimEach'
  BY <1>1, <1>2 DEF OneClaimEach, HoldersOf, Lasting
<1>6. \A s \in Skus : Sold(s)' = Sold(s)
  BY <1>1, <1>2 DEF Sold, Lasting
<1>7. UnitsTell'
  BY <1>1, <1>6 DEF UnitsTell
<1> QED
  BY <1>1, <1>3, <1>4, <1>5, <1>7 DEF RowsExist, Lasting

\* A request that goes on, where nothing else does.
LEMMA RequestsGoOn ==
    ASSUME IInv, UNCHANGED <<offer, available, couponOpen, claimant, redemption, draft, quote, order>>,
           request' \in [Workers -> Request],
           \A w \in Workers : request'[w].at = "create" =>
             \/ request'[w] = request[w]
             \/ request'[w].quote \in Quotes /\ quote[request'[w].quote] # None /\ request'[w].key \in Keys
    PROVE  IInv'
<1>1. \A q \in Quotes : Lasting(q)
  BY DEF Lasting
<1>2. Typed' /\ DraftsTell' /\ QuotesTell'
  BY DEF IInv, Typed, DraftsTell, QuotesTell
<1>3. RowsExist'
  BY DEF IInv, RowsExist
<1>4. SharesTell'
  BY Parts DEF IInv, SharesTell
<1>5. FinitelyMany' /\ ClaimsLimited' /\ ClaimsBelong' /\ OneClaimEach' /\ UnitsTell'
  BY <1>1, OrdersStay
<1>6. CouponKept' /\ OrdersAddUp'
  BY <1>4, <1>5 DEF CouponKept, OrdersAddUp, ClaimsLimited, ClaimsBelong, OneClaimEach, HoldersOf,
       UnitsTell, Sold, SharesTell
<1> QED
  BY <1>2, <1>3, <1>5, <1>6 DEF IInv

LEMMA RequestsKeep ==
    ASSUME IInv, NEW w \in Workers,
           CreateConsumed(w) \/ Fail(w) \/ \E q \in Quotes, k \in Keys : CreateLookup(w, q, k)
    PROVE  IInv'
<1>1. request \in [Workers -> Request]
  BY DEF IInv, Typed
<1>2. CASE CreateConsumed(w)
  <2> DEFINE next == [request[w] EXCEPT !.at = "CHECKOUT_QUOTE_CONSUMED"]
  <2>1. next \in Request /\ next.at # "create"
    BY <1>1 DEF Request
  <2>2. request' = [request EXCEPT ![w] = next]
    BY <1>1, <1>2 DEF CreateConsumed
  <2> HIDE DEF next
  <2> QED
    BY <1>1, <1>2, <2>1, <2>2, RequestsGoOn DEF CreateConsumed
<1>3. CASE Fail(w)
  BY <1>1, <1>3, RequestsGoOn, RowsTyped DEF Fail
<1>4. ASSUME NEW q \in Quotes, NEW k \in Keys, CreateLookup(w, q, k) PROVE IInv'
  <2> DEFINE next == [at |-> "create", quote |-> q, key |-> k]
  <2>1. next \in Request /\ next.quote = q /\ next.key = k /\ quote[q] # None
    BY <1>4 DEF Request, CreateLookup
  <2>2. request' = [request EXCEPT ![w] = next]
    BY <1>4 DEF CreateLookup
  <2> HIDE DEF next
  <2> QED
    BY <1>1, <1>4, <2>1, <2>2, RequestsGoOn DEF CreateLookup
<1> QED
  BY <1>2, <1>3, <1>4

\* The market: offers, the coupon's status, and what a createQuote reads.
LEMMA MarketKeeps ==
    ASSUME IInv,
           \/ SetStatus
           \/ \E s \in Skus : \E o \in Offers[s] : ChangeOffer(s, o)
           \/ \E b \in Buyers, cart \in Carts : QuoteRead(b, cart)
    PROVE  IInv'
<1>1. UNCHANGED <<available, claimant, redemption, quote, order, request>>
  BY DEF SetStatus, ChangeOffer, QuoteRead
<1>2. \A q \in Quotes : Lasting(q)
  BY <1>1 DEF Lasting
<1>3. FinitelyMany' /\ ClaimsLimited' /\ ClaimsBelong' /\ OneClaimEach' /\ UnitsTell'
  BY <1>1, <1>2, OrdersStay
<1>4. SharesTell' /\ QuotesTell' /\ RowsExist'
  BY <1>1, Parts DEF IInv, SharesTell, QuotesTell, RowsExist
<1>5. CouponKept' /\ OrdersAddUp'
  BY <1>3, <1>4 DEF CouponKept, OrdersAddUp, ClaimsLimited, ClaimsBelong, OneClaimEach, HoldersOf,
       UnitsTell, Sold, SharesTell
<1>6. Typed /\ DraftsTell
  BY DEF IInv
<1>7. Typed' /\ DraftsTell'
  <2>1. CASE SetStatus
    <3>1. couponOpen' \in BOOLEAN
      BY <2>1 DEF SetStatus
    <3> QED
      BY <1>1, <1>6, <2>1, <3>1 DEF SetStatus, Typed, DraftsTell
  <2>2. ASSUME NEW s \in Skus, NEW o \in Offers[s], ChangeOffer(s, o) PROVE Typed' /\ DraftsTell'
    BY <1>1, <1>6, <2>2 DEF ChangeOffer, Typed, DraftsTell
  <2>3. ASSUME NEW b \in Buyers, NEW cart \in Carts, QuoteRead(b, cart) PROVE Typed' /\ DraftsTell'
    <3> DEFINE d == [cart |-> cart, asked |-> Prices,
                     valid |-> {s \in Ordered(cart) : ~invalidReason(s, cart[s])}]
    <3>1. Prices \in [Skus -> Nat]
      BY <1>6, CheckoutAssumption DEF Prices, Typed, Offer
    <3>2. d \in Draft /\ d.valid \subseteq Ordered(d.cart)
      BY <3>1 DEF Draft, Ordered
    <3>3. draft' = [draft EXCEPT ![b] = d] /\ UNCHANGED <<offer, couponOpen>>
      BY <2>3 DEF QuoteRead
    <3> HIDE DEF d
    <3>4. draft' \in [Buyers -> Draft \cup {NoDraft}]
      BY <1>6, <3>2, <3>3 DEF Typed
    <3> QED
      BY <1>1, <1>6, <3>2, <3>3, <3>4 DEF Typed, DraftsTell
  <2> QED
    BY <2>1, <2>2, <2>3
<1> QED
  BY <1>3, <1>4, <1>5, <1>7 DEF IInv

LEMMA ClaimKeeps ==
    ASSUME IInv, NEW b \in Buyers, Claim(b)
    PROVE  IInv'
<1> DEFINE taken == {c \in Claims : claimant[c] # None}
<1>1. PICK c \in Claims : claimant[c] = None /\ claimant' = [claimant EXCEPT ![c] = b]
  BY DEF Claim
<1>2. /\ UNCHANGED <<offer, available, couponOpen, redemption, draft, quote, order, request>>
      /\ Cardinality(taken) < Coupon.totalLimit
      /\ Cardinality(ClaimsOf(b)) < Coupon.perUserLimit
  BY DEF Claim, mayClaim, publicForStore
<1>3. /\ Typed /\ DraftsTell /\ QuotesTell /\ RowsExist /\ FinitelyMany
      /\ ClaimsLimited /\ ClaimsBelong /\ OneClaimEach /\ UnitsTell /\ SharesTell
  BY Parts DEF IInv
<1>4. /\ claimant' \in [Claims -> Buyers \cup {None}] /\ claimant'[c] = b /\ b # None
      /\ \A d \in Claims \ {c} : claimant'[d] = claimant[d]
  BY <1>1, <1>3, CheckoutAssumption DEF Typed
<1>5. /\ {d \in Claims : claimant'[d] # None} = taken \cup {c} /\ c \notin taken
      /\ ClaimsOf(b)' = ClaimsOf(b) \cup {c} /\ c \notin ClaimsOf(b)
      /\ \A v \in Buyers \ {b} : ClaimsOf(v)' = ClaimsOf(v)
  BY <1>1, <1>4, CheckoutAssumption DEF ClaimsOf
<1>6. IsFiniteSet(taken) /\ IsFiniteSet(ClaimsOf(b)) /\ ClaimsOf(b) \subseteq taken
  <2>1. ClaimsOf(b) \in SUBSET taken /\ IsFiniteSet(taken)
    BY <1>3, CheckoutAssumption DEF ClaimsOf, FinitelyMany
  <2> HIDE DEF taken
  <2> QED
    BY <2>1, FS_Subset
<1>7. KeptOrders' = KeptOrders
  BY <1>2 DEF KeptOrders
<1> HIDE DEF taken
<1>8. /\ IsFiniteSet(taken \cup {c}) /\ Cardinality(taken \cup {c}) = Cardinality(taken) + 1
      /\ Cardinality(ClaimsOf(b) \cup {c}) = Cardinality(ClaimsOf(b)) + 1
      /\ Cardinality(taken) \in Nat /\ Cardinality(ClaimsOf(b)) \in Nat
  BY <1>5, <1>6, FS_AddElement, FS_CardinalityType
<1>9. ClaimsLimited'
  <2>1. Coupon.totalLimit \in Nat /\ Coupon.perUserLimit \in Nat
    BY CheckoutAssumption DEF Rule
  <2>2. Cardinality({d \in Claims : claimant'[d] # None}) <= Coupon.totalLimit
    BY <1>2, <1>5, <1>8, <2>1
  <2>3. \A v \in Buyers : Cardinality(ClaimsOf(v)') <= Coupon.perUserLimit
    BY <1>2, <1>3, <1>5, <1>8, <2>1 DEF ClaimsLimited
  <2> QED
    BY <2>2, <2>3 DEF ClaimsLimited
<1>10. FinitelyMany'
  BY <1>3, <1>5, <1>7, <1>8 DEF FinitelyMany
<1>11. ClaimsBelong'
  <2>1. redemption[c] = None
    <3>1. ASSUME redemption[c] # None PROVE FALSE
      <4>1. /\ redemption[c].order \in KeptOrders
            /\ claimant[c] = quote[redemption[c].order].buyer
        BY <1>3, <3>1 DEF ClaimsBelong
      <4>2. quote[redemption[c].order] \in Quote
        BY <1>3, <4>1, RowsTyped DEF RowsExist, KeptOrders, Typed
      <4> QED
        BY <1>1, <4>1, <4>2, CheckoutAssumption DEF Quote
    <3> QED
      BY <3>1
  <2> QED
    BY <1>2, <1>3, <1>4, <1>7, <2>1 DEF ClaimsBelong
<1>12. OneClaimEach' /\ UnitsTell' /\ SharesTell'
  BY <1>2, <1>3, <1>7 DEF OneClaimEach, HoldersOf, UnitsTell, Sold, SharesTell
<1>13. CouponKept' /\ OrdersAddUp'
  BY <1>9, <1>11, <1>12 DEF CouponKept, OrdersAddUp, ClaimsLimited, ClaimsBelong, OneClaimEach, HoldersOf,
       UnitsTell, Sold, SharesTell
<1>14. Typed' /\ DraftsTell' /\ QuotesTell' /\ RowsExist'
  BY <1>2, <1>3, <1>4 DEF Typed, DraftsTell, QuotesTell, RowsExist
<1> QED
  BY <1>10, <1>13, <1>14 DEF IInv

\* The lines that are priced are a bill.
LEMMA LinesAreABill ==
    ASSUME NEW cart \in Carts, NEW S \in SUBSET Ordered(cart),
           NEW asked, \A s \in Skus : asked[s] \in Nat \ {0}
    PROVE  /\ IsBill(LinesFor(S, cart, asked))
           /\ DOMAIN LinesFor(S, cart, asked) \subseteq DOMAIN SkuOrder
<1>1. DOMAIN SkuOrder = 1..Len(SkuOrder) /\ Len(SkuOrder) \in Nat
  BY CheckoutAssumption
<1>2. DOMAIN LinesFor(S, cart, asked) \subseteq DOMAIN SkuOrder
  BY DEF LinesFor
<1>3. ASSUME NEW k \in DOMAIN LinesFor(S, cart, asked)
      PROVE  LinesFor(S, cart, asked)[k].amount \in Nat \ {0}
  <2> DEFINE s == SkuOrder[k]
  <2>1. s \in Ordered(cart) /\ LinesFor(S, cart, asked)[k].amount = asked[s] * cart[s]
    BY DEF LinesFor
  <2>2. cart[s] \in Nat /\ cart[s] > 0 /\ asked[s] \in Nat /\ asked[s] > 0
    BY <2>1, CheckoutAssumption DEF Ordered
  <2> HIDE DEF s
  <2>3. \A a, c \in Nat : a > 0 /\ c > 0 => a * c \in Nat /\ a * c > 0
    OBVIOUS
  <2> QED
    BY <2>1, <2>2, <2>3
<1> QED
  BY <1>1, <1>2, <1>3 DEF IsBill

\* A quote that is inserted is one, and its shares add up to its discount.
LEMMA QuoteRowTells ==
    ASSUME IInv, NEW b \in Buyers, draft[b] # NoDraft, NEW coupon \in BOOLEAN
    PROVE  /\ QuoteRow(b, coupon) \in Quote
           /\ QuoteRow(b, coupon).coupon \/ QuoteRow(b, coupon).discount = 0
           /\ Total(QuoteRow(b, coupon).share, DOMAIN QuoteRow(b, coupon).share) = QuoteRow(b, coupon).discount
<1> DEFINE d == draft[b]
           lines == LinesFor(d.valid, d.cart, Prices)
           alloc == Allocation(lines, Coupon)
           off == IF coupon THEN Discount(lines, Coupon) ELSE 0
           share == [k \in DOMAIN SkuOrder |-> IF coupon /\ k \in DOMAIN lines THEN alloc[k] ELSE 0]
           own == Amounts(LinesFor(d.valid, d.cart, d.asked))
           named == coupon /\ Applies(lines, Coupon)
           valid == d.valid = Ordered(d.cart) /\ Total(own, DOMAIN own) > off
           row == QuoteRow(b, coupon)
<1>1. d \in Draft /\ d.valid \in SUBSET Ordered(d.cart) /\ d.cart \in Carts /\ d.asked \in [Skus -> Nat]
  BY DEF IInv, Typed, DraftsTell, Draft
<1>2. \A s \in Skus : Prices[s] \in Nat \ {0}
  BY CheckoutAssumption DEF Prices, IInv, Typed, Offer
<1>3. IsBill(lines) /\ DOMAIN lines \subseteq DOMAIN SkuOrder
  BY <1>1, <1>2, LinesAreABill
<1>4. row = [buyer |-> b, cart |-> d.cart, asked |-> d.asked, discount |-> off, coupon |-> named,
             share |-> share, valid |-> valid, expired |-> FALSE]
  BY DEF QuoteRow, quotedDiscount
<1>5. named \in BOOLEAN
  OBVIOUS
<1>6. valid \in BOOLEAN
  OBVIOUS
<1> HIDE DEF lines, own, valid, row, d
<1>7. Coupon.value \in Nat /\ Coupon.minimum \in Nat
  BY CheckoutAssumption DEF Rule
<1>8. /\ Discount(lines, Coupon) \in Nat
      /\ ~Applies(lines, Coupon) => Discount(lines, Coupon) = 0
  BY <1>3, <1>7, DiscountFits
<1>9. alloc \in [DOMAIN lines -> Int] /\ Total(alloc, DOMAIN lines) = Discount(lines, Coupon)
  BY <1>3, <1>7, PartsMakeUpTheWhole
<1>10. off \in Nat /\ (named \/ off = 0)
  BY <1>8
<1>11. IsFiniteSet(DOMAIN SkuOrder)
  <2>1. DOMAIN SkuOrder = 1..Len(SkuOrder) /\ Len(SkuOrder) \in Nat
    BY CheckoutAssumption
  <2> QED
    BY <2>1, FS_Interval
<1> HIDE DEF alloc, named
<1>12. share \in [DOMAIN SkuOrder -> Int]
  BY <1>9
<1>13. Total(share, DOMAIN SkuOrder) = off
  <2>1. CASE coupon
    <3>1. /\ \A k \in DOMAIN lines : share[k] = alloc[k] /\ alloc[k] \in Int
          /\ \A k \in (DOMAIN SkuOrder) \ (DOMAIN lines) : share[k] = 0
          /\ \A k \in DOMAIN SkuOrder : share[k] \in Int
      BY <1>3, <1>9, <2>1
    <3> HIDE DEF share
    <3>2. Total(share, DOMAIN SkuOrder) = Total(share, DOMAIN lines)
      BY <1>3, <1>11, <3>1, TotalOfPart
    <3>3. Total(share, DOMAIN lines) = Total(alloc, DOMAIN lines)
      <4>1. IsFiniteSet(DOMAIN lines)
        BY <1>3, BillFinite
      <4> QED
        BY <3>1, <4>1, TotalAgrees
    <3> QED
      BY <1>9, <2>1, <3>2, <3>3
  <2>2. CASE ~coupon
    <3>1. \A k \in DOMAIN SkuOrder : share[k] = 0
      BY <2>2
    <3> HIDE DEF share
    <3>2. Total(share, DOMAIN SkuOrder) = 0
      BY <1>11, <3>1, TotalOfNone
    <3> QED
      BY <2>2, <3>2
  <2> QED
    BY <2>1, <2>2
<1> HIDE DEF off, share
<1>14. row \in Quote
  BY <1>1, <1>4, <1>5, <1>6, <1>10, <1>12 DEF Quote
<1>15. row.coupon = named /\ row.discount = off /\ row.share = share /\ DOMAIN row.share = DOMAIN SkuOrder
  BY <1>4, <1>12
<1> QED
  BY <1>10, <1>13, <1>14, <1>15 DEF row

LEMMA QuotesKeep ==
    ASSUME IInv,
           \/ \E b \in Buyers, q \in Quotes, c \in BOOLEAN : QuoteInsert(b, q, c)
           \/ \E q \in Quotes : ExpireQuote(q)
    PROVE  IInv'
<1>1. /\ Typed /\ DraftsTell /\ QuotesTell /\ RowsExist /\ SharesTell
      /\ UNCHANGED <<offer, available, couponOpen, claimant, redemption, order, request>>
  BY Parts DEF IInv, QuoteInsert, ExpireQuote
<1>2. ASSUME quote' \in [Quotes -> Quote \cup {None}], \A q \in Quotes : Lasting(q),
             draft' \in [Buyers -> Draft \cup {NoDraft}],
             \A b \in Buyers : draft'[b] = draft[b] \/ draft'[b] = NoDraft,
             QuotesTell', SharesTell'
      PROVE  IInv'
  <2>1. /\ FinitelyMany' /\ ClaimsLimited' /\ ClaimsBelong' /\ OneClaimEach' /\ UnitsTell'
        /\ \A q \in Quotes : order'[q] # NoOrder => quote'[q] # None
    BY <1>1, <1>2, OrdersStay
  <2>2. CouponKept' /\ OrdersAddUp'
    BY <1>2, <2>1 DEF CouponKept, OrdersAddUp, ClaimsLimited, ClaimsBelong, OneClaimEach, HoldersOf,
         UnitsTell, Sold, SharesTell
  <2>3. Typed' /\ DraftsTell'
    BY <1>1, <1>2 DEF Typed, DraftsTell
  <2>4. RowsExist'
    BY <1>1, <1>2, <2>1 DEF RowsExist, Lasting
  <2> QED
    BY <1>2, <2>1, <2>2, <2>3, <2>4 DEF IInv
<1>3. ASSUME NEW b \in Buyers, NEW q \in Quotes, NEW c \in BOOLEAN, QuoteInsert(b, q, c) PROVE IInv'
  <2> DEFINE priced == draft[b].valid # {} /\ c
             row == QuoteRow(b, priced)
  <2>1. /\ draft[b] # NoDraft /\ quote[q] = None
        /\ quote' = quote \/ quote' = [quote EXCEPT ![q] = row]
        /\ draft' = [draft EXCEPT ![b] = NoDraft]
    BY <1>3 DEF QuoteInsert
  <2>2. priced \in BOOLEAN
    OBVIOUS
  <2> HIDE DEF priced
  <2>3. /\ row \in Quote /\ (row.coupon \/ row.discount = 0)
        /\ Total(row.share, DOMAIN row.share) = row.discount
    BY <2>1, <2>2, QuoteRowTells
  <2> HIDE DEF row
  <2>4. quote' \in [Quotes -> Quote \cup {None}] /\ \A p \in Quotes : (quote'[p] = quote[p] \/ (p = q /\ quote'[p] = row))
    BY <1>1, <2>1, <2>3 DEF Typed
  <2>5. \A p \in Quotes : Lasting(p)
    BY <2>1, <2>4 DEF Lasting
  <2>6. QuotesTell' /\ SharesTell'
    BY <1>1, <2>3, <2>4 DEF QuotesTell, SharesTell
  <2>7. draft' \in [Buyers -> Draft \cup {NoDraft}] /\ \A v \in Buyers : draft'[v] = draft[v] \/ draft'[v] = NoDraft
    BY <1>1, <2>1 DEF Typed
  <2> QED
    BY <1>2, <2>4, <2>5, <2>6, <2>7
<1>4. ASSUME NEW q \in Quotes, ExpireQuote(q) PROVE IInv'
  <2>1. quote[q] \in Quote /\ quote' = [quote EXCEPT ![q] = [quote[q] EXCEPT !.expired = TRUE]] /\ draft' = draft
    BY <1>1, <1>4 DEF ExpireQuote, Typed
  <2> DEFINE row == [quote[q] EXCEPT !.expired = TRUE]
  <2>2. /\ row \in Quote /\ row.buyer = quote[q].buyer /\ row.cart = quote[q].cart
        /\ row.discount = quote[q].discount /\ row.coupon = quote[q].coupon /\ row.share = quote[q].share
    BY <2>1 DEF Quote
  <2>3. quote' = [quote EXCEPT ![q] = row]
    BY <2>1
  <2> HIDE DEF row
  <2>4. quote' \in [Quotes -> Quote \cup {None}] /\ quote'[q] = row /\ \A p \in Quotes \ {q} : quote'[p] = quote[p]
    BY <1>1, <2>2, <2>3 DEF Typed
  <2>5. \A p \in Quotes : Lasting(p)
    BY <2>2, <2>4, RowsTyped DEF Lasting
  <2>6. quote[q] # None
    BY <1>4 DEF ExpireQuote
  <2>7. QuotesTell' /\ SharesTell'
    BY <1>1, <2>2, <2>4, <2>6 DEF QuotesTell, SharesTell
  <2>8. draft' \in [Buyers -> Draft \cup {NoDraft}]
    BY <1>1, <2>1 DEF Typed
  <2> QED
    BY <1>2, <2>1, <2>4, <2>5, <2>7, <2>8
<1> QED
  BY <1>3, <1>4

\* An order takes its units and, with a coupon, one claim of its buyer.
LEMMA CreateKeeps ==
    ASSUME IInv, NEW w \in Workers, CreateOrder(w)
    PROVE  IInv'
<1>0. PICK q, row : q = request[w].quote /\ row = quote[q]
  OBVIOUS
<1>1. /\ Typed /\ DraftsTell /\ QuotesTell /\ RowsExist /\ FinitelyMany
      /\ ClaimsLimited /\ ClaimsBelong /\ OneClaimEach /\ UnitsTell /\ SharesTell
  BY Parts DEF IInv
<1>2. /\ request[w].at = "create" /\ order[q] = NoOrder
      /\ \A s \in Ordered(row.cart) : available[s] >= row.cart[s]
      /\ order' = [order EXCEPT ![q] = [status |-> "PENDING_PAYMENT", key |-> request[w].key,
                                        paid |-> FALSE]]
      /\ available' = [s \in Skus |-> available[s] - row.cart[s]]
      /\ request' = [request EXCEPT ![w] = Idle]
      /\ UNCHANGED <<offer, couponOpen, claimant, draft, quote>>
  BY <1>0 DEF CreateOrder, stillSellable
<1>3. /\ q \in Quotes /\ row # None /\ row \in Quote /\ request[w].key \in Keys /\ row.cart \in Carts
      /\ row.buyer \in Buyers /\ row.discount \in Nat
  BY <1>0, <1>1, <1>2 DEF RowsExist, Typed, Quote
<1>4. \A s \in Skus : row.cart[s] \in Nat /\ available[s] \in Nat /\ available[s] >= row.cart[s]
  <2> SUFFICES ASSUME NEW s \in Skus
               PROVE  row.cart[s] \in Nat /\ available[s] \in Nat /\ available[s] >= row.cart[s]
    OBVIOUS
  <2>1. row.cart[s] \in Nat /\ available[s] \in Nat
    BY <1>1, <1>3, CheckoutAssumption DEF Typed
  <2>2. s \in Ordered(row.cart) \/ row.cart[s] = 0
    BY <2>1 DEF Ordered
  <2> QED
    BY <1>2, <2>1, <2>2
<1>5. /\ order' \in [Quotes -> Order \cup {NoOrder}] /\ order'[q].status = "PENDING_PAYMENT"
      /\ \A p \in Quotes \ {q} : order'[p] = order[p]
  <2> DEFINE new == [status |-> "PENDING_PAYMENT", key |-> request[w].key, paid |-> FALSE]
  <2>1. new \in [status : {"PENDING_PAYMENT"}, key : Keys, paid : {FALSE}] /\ new.status = "PENDING_PAYMENT"
    BY <1>3
  <2>2. new \in Order
    BY <2>1 DEF Order
  <2>3. order' = [order EXCEPT ![q] = new]
    BY <1>2
  <2> HIDE DEF new
  <2> QED
    BY <1>1, <1>3, <2>1, <2>2, <2>3 DEF Typed
<1>6. KeptOrders' = KeptOrders \cup {q} /\ q \notin KeptOrders
  BY <1>2, <1>3, <1>5, RowsTyped DEF KeptOrders
<1>7. /\ redemption' \in [Claims -> Redemption \cup {None}]
      /\ \/ row.discount = 0 /\ redemption' = redemption
         \/ /\ row.discount > 0
            /\ \E c \in Claims :
                 /\ claimant[c] = row.buyer /\ redemption[c] = None
                 /\ redemption'[c] = [order |-> q, discount |-> row.discount]
                 /\ \A d \in Claims \ {c} : redemption'[d] = redemption[d]
  <2>1. CASE row.coupon
    <3>1. row.discount > 0
      BY <1>0, <1>3, <2>1 DEF CreateOrder, redeemsAsQuoted
    <3>2. PICK c \in Unredeemed(row.buyer) :
            redemption' = [redemption EXCEPT ![c] = [order |-> q, discount |-> row.discount]]
      BY <1>0, <2>1 DEF CreateOrder
    <3>3. c \in Claims /\ claimant[c] = row.buyer /\ redemption[c] = None
      BY <3>2 DEF Unredeemed, ClaimsOf
    <3>4. [order |-> q, discount |-> row.discount] \in Redemption
      BY <1>3 DEF Redemption
    <3>5. redemption' \in [Claims -> Redemption \cup {None}]
      BY <1>1, <3>2, <3>3, <3>4 DEF Typed
    <3> QED
      BY <1>1, <3>1, <3>2, <3>3, <3>5 DEF Typed
  <2>2. CASE ~row.coupon
    <3>1. row.discount = 0
      BY <1>0, <1>1, <1>3, <2>2 DEF QuotesTell
    <3>2. redemption' = redemption
      BY <1>0, <2>2 DEF CreateOrder
    <3> QED
      BY <1>1, <3>1, <3>2 DEF Typed
  <2> QED
    BY <2>1, <2>2
<1>8. \A c \in Claims : redemption[c] # None => redemption[c].order \in KeptOrders
  BY <1>1 DEF ClaimsBelong
<1>9. HoldersOf(q) = {}
  BY <1>6, <1>8 DEF HoldersOf
<1>10. quote' = quote /\ row = quote[q]
  BY <1>0, <1>2
<1>11. ClaimsBelong'
  BY <1>1, <1>2, <1>3, <1>6, <1>7, <1>10 DEF ClaimsBelong
<1>12. OneClaimEach'
  <2>1. CASE redemption' = redemption /\ row.discount = 0
    <3>1. \A p \in Quotes : HoldersOf(p)' = HoldersOf(p)
      BY <2>1 DEF HoldersOf
    <3>2. Cardinality(HoldersOf(q)') = 0
      BY <1>3, <1>9, <3>1, FS_EmptySet
    <3>3. \A p \in KeptOrders : p \in Quotes /\ Cardinality(HoldersOf(p)') = IF quote'[p].discount > 0 THEN 1 ELSE 0
      BY <1>1, <1>10, <3>1 DEF OneClaimEach, KeptOrders
    <3> QED
      BY <1>6, <1>10, <2>1, <3>2, <3>3 DEF OneClaimEach
  <2>2. ASSUME row.discount > 0, NEW c \in Claims, redemption[c] = None,
               redemption'[c] = [order |-> q, discount |-> row.discount],
               \A d \in Claims \ {c} : redemption'[d] = redemption[d]
        PROVE  OneClaimEach'
    <3>1. redemption'[c] # None /\ redemption'[c].order = q
      <4>1. [order |-> q, discount |-> row.discount] \in Redemption
        BY <1>3 DEF Redemption
      <4> QED
        BY <2>2, <4>1, RowsTyped
    <3>2. HoldersOf(q)' = {c}
      BY <1>9, <2>2, <3>1 DEF HoldersOf
    <3>3. Cardinality(HoldersOf(q)') = 1
      BY <3>2, FS_Singleton
    <3>4. \A p \in KeptOrders : HoldersOf(p)' = HoldersOf(p)
      BY <1>6, <2>2, <3>1 DEF HoldersOf
    <3>5. \A p \in KeptOrders : Cardinality(HoldersOf(p)') = IF quote'[p].discount > 0 THEN 1 ELSE 0
      BY <1>1, <1>10, <3>4 DEF OneClaimEach
    <3> QED
      BY <1>6, <1>10, <2>2, <3>3, <3>5 DEF OneClaimEach
  <2> QED
    BY <1>7, <2>1, <2>2
<1>13. UnitsTell'
  <2> SUFFICES ASSUME NEW s \in Skus
               PROVE  available'[s] + Total(Sold(s)', KeptOrders') = Stock[s]
    BY DEF UnitsTell
  <2> DEFINE f == Sold(s)
             g == Sold(s)'
             L == KeptOrders
             M == KeptOrders'
  <2>1. /\ IsFiniteSet(L) /\ M = L \cup {q} /\ q \notin L /\ M \ {q} = L
    BY <1>1, <1>6 DEF FinitelyMany
  <2>2. /\ \A p \in L : f[p] = quote[p].cart[s] /\ f[p] \in Nat /\ g[p] = f[p]
        /\ g[q] = row.cart[s] /\ g[q] \in Nat
    <3>1. \A p \in L : quote[p] \in Quote
      BY <1>1, RowsTyped DEF RowsExist, KeptOrders, Typed
    <3>2. \A p \in L : quote[p].cart[s] \in Nat
      BY <3>1, CheckoutAssumption DEF Quote
    <3> QED
      BY <1>3, <1>4, <1>6, <1>10, <3>2 DEF Sold
  <2>3. available[s] + Total(f, L) = Stock[s] /\ available'[s] = available[s] - row.cart[s]
    BY <1>1, <1>2 DEF UnitsTell
  <2>4. available[s] \in Nat /\ row.cart[s] \in Nat
    BY <1>4
  <2> HIDE DEF f, g, L, M
  <2>5. IsFiniteSet(M)
    BY <2>1, FS_AddElement
  <2>6. \A p \in M : g[p] \in Int
    BY <2>1, <2>2
  <2>7. Total(g, M) = g[q] + Total(g, L)
    BY <2>1, <2>5, <2>6, TotalAdds
  <2>8. Total(g, L) = Total(f, L)
    BY <2>1, <2>2, TotalAgrees
  <2>9. Total(f, L) \in Int
    BY <2>1, <2>2, TotalAdds
  <2>10. available'[s] + Total(g, M) = Stock[s]
    BY <2>2, <2>3, <2>4, <2>7, <2>8, <2>9
  <2> QED
    BY <2>10 DEF g, M
<1>14. FinitelyMany'
  <2>1. IsFiniteSet(KeptOrders \cup {q})
    BY <1>1, FS_AddElement DEF FinitelyMany
  <2> QED
    BY <1>1, <1>2, <1>6, <2>1 DEF FinitelyMany
<1>15. ClaimsLimited' /\ SharesTell' /\ DraftsTell' /\ QuotesTell'
  BY <1>1, <1>2 DEF ClaimsLimited, ClaimsOf, SharesTell, DraftsTell, QuotesTell
<1>16. Typed'
  <2>1. available' \in [Skus -> Nat]
    BY <1>2, <1>4
  <2>2. request' \in [Workers -> Request]
    BY <1>1, <1>2, RowsTyped DEF Typed
  <2> QED
    BY <1>1, <1>2, <1>5, <1>7, <2>1, <2>2 DEF Typed
<1>17. RowsExist'
  <2>1. \A p \in Quotes : order'[p] # NoOrder => quote'[p] # None
    BY <1>1, <1>3, <1>5, <1>10 DEF RowsExist
  <2>2. \A v \in Workers : request'[v].at = "create" => request'[v] = request[v]
    BY <1>1, <1>2, RowsTyped DEF Typed
  <2> QED
    BY <1>1, <1>10, <2>1, <2>2 DEF RowsExist
<1>18. CouponKept' /\ OrdersAddUp'
  BY <1>11, <1>12, <1>13, <1>15 DEF CouponKept, OrdersAddUp, ClaimsLimited, ClaimsBelong, OneClaimEach,
       HoldersOf, UnitsTell, Sold, SharesTell
<1> QED
  BY <1>14, <1>15, <1>16, <1>17, <1>18 DEF IInv

\* An order that ends has another status, and was paid or not as before.
LEMMA StatusEnds ==
    ASSUME NEW q \in Quotes, NEW to \in {"CANCELLED", "CLOSED"},
           order \in [Quotes -> Order \cup {NoOrder}], order[q] \in Order,
           order' = [order EXCEPT ![q].status = to]
    PROVE  /\ order' \in [Quotes -> Order \cup {NoOrder}] /\ order'[q].status = to
           /\ order'[q].paid = order[q].paid /\ \A p \in Quotes \ {q} : order'[p] = order[p]
<1> DEFINE o == order[q]
           e == [order[q] EXCEPT !.status = to]
<1>1. o \in [status : {"PENDING_PAYMENT", "PAID", "CANCELLED", "CLOSED"}, key : Keys, paid : BOOLEAN]
  BY DEF Order
<1>2. /\ e \in [status : {"CANCELLED", "CLOSED"}, key : Keys, paid : BOOLEAN]
      /\ e.status = to /\ e.paid = o.paid
  BY <1>1
<1>3. e \in Order
  BY <1>2 DEF Order
<1>4. order' = [order EXCEPT ![q] = e]
  OBVIOUS
<1> HIDE DEF e
<1> QED
  BY <1>2, <1>3, <1>4

\* An order that ends unpaid gives back its units and its claim.
LEMMA UnpaidEndKeeps ==
    ASSUME IInv, NEW q \in Quotes, NEW to \in {"CANCELLED", "CLOSED"},
           order[q].status = "PENDING_PAYMENT", ends(q, to)
    PROVE  IInv'
<1>1. /\ Typed /\ DraftsTell /\ QuotesTell /\ RowsExist /\ FinitelyMany
      /\ ClaimsLimited /\ ClaimsBelong /\ OneClaimEach /\ UnitsTell /\ SharesTell
  BY Parts DEF IInv
<1>2. /\ order[q].status = "PENDING_PAYMENT" /\ order' = [order EXCEPT ![q].status = to]
      /\ redemption' = [c \in Claims |-> IF redemption[c] # None /\ redemption[c].order = q
                                         THEN None ELSE redemption[c]]
      /\ available' = [s \in Skus |-> available[s] + quote[q].cart[s]]
      /\ UNCHANGED <<offer, couponOpen, claimant, draft, quote, request>>
  BY DEF ends, shouldReleaseCouponReservation, couponReleased, unitsReleased
<1>3. q \in KeptOrders /\ order[q] \in Order /\ quote[q] \in Quote /\ order[q].paid = FALSE
  BY <1>1, <1>2, RowsTyped DEF KeptOrders, Typed, RowsExist
<1>4. /\ order' \in [Quotes -> Order \cup {NoOrder}] /\ order'[q].status = to
      /\ order'[q].paid = FALSE /\ \A p \in Quotes \ {q} : order'[p] = order[p]
  BY <1>1, <1>2, <1>3, StatusEnds DEF Typed
<1>5. KeptOrders' = KeptOrders \ {q}
  BY <1>4 DEF KeptOrders
<1>6. redemption' \in [Claims -> Redemption \cup {None}]
  BY <1>1, <1>2 DEF Typed
<1>7. ClaimsBelong'
  BY <1>1, <1>2, <1>5 DEF ClaimsBelong
<1>8. OneClaimEach'
  <2>1. \A p \in KeptOrders \ {q} : HoldersOf(p)' = HoldersOf(p)
    BY <1>2 DEF HoldersOf
  <2> QED
    BY <1>1, <1>2, <1>5, <2>1 DEF OneClaimEach
<1>9. UnitsTell'
  <2> SUFFICES ASSUME NEW s \in Skus
               PROVE  available'[s] + Total(Sold(s)', KeptOrders') = Stock[s]
    BY DEF UnitsTell
  <2> DEFINE f == Sold(s)
             g == Sold(s)'
             L == KeptOrders
             M == KeptOrders'
  <2>1. IsFiniteSet(L) /\ M = L \ {q} /\ q \in L
    BY <1>1, <1>3, <1>5 DEF FinitelyMany
  <2>2. /\ \A p \in L : f[p] = quote[p].cart[s] /\ f[p] \in Nat
        /\ \A p \in M : g[p] = f[p]
    <3>1. \A p \in L : quote[p] \in Quote
      BY <1>1, RowsTyped DEF RowsExist, KeptOrders, Typed
    <3>2. \A p \in L : quote[p].cart[s] \in Nat
      BY <3>1, CheckoutAssumption DEF Quote
    <3> QED
      BY <1>2, <1>5, <3>2 DEF Sold
  <2>3. /\ available[s] + Total(f, L) = Stock[s] /\ available'[s] = available[s] + f[q]
        /\ available[s] \in Nat
    BY <1>1, <1>2, <1>3, <2>2 DEF UnitsTell, Typed
  <2> HIDE DEF f, g, L, M
  <2>4. Total(f, L) = f[q] + Total(f, M)
    BY <2>1, <2>2, TotalAdds
  <2>5. IsFiniteSet(M)
    BY <2>1, FS_RemoveElement
  <2>6. Total(g, M) = Total(f, M) /\ Total(f, M) \in Int
    BY <2>1, <2>2, <2>5, TotalAgrees, TotalAdds
  <2>7. available'[s] + Total(g, M) = Stock[s]
    BY <2>1, <2>2, <2>3, <2>4, <2>6
  <2> QED
    BY <2>7 DEF g, M
<1>10. FinitelyMany'
  <2>1. IsFiniteSet(KeptOrders \ {q})
    BY <1>1, FS_RemoveElement DEF FinitelyMany
  <2> QED
    BY <1>1, <1>2, <1>5, <2>1 DEF FinitelyMany
<1>11. ClaimsLimited' /\ SharesTell' /\ DraftsTell' /\ QuotesTell'
  BY <1>1, <1>2 DEF ClaimsLimited, ClaimsOf, SharesTell, DraftsTell, QuotesTell
<1>12. Typed'
  <2>1. available' \in [Skus -> Nat]
    <3>1. \A s \in Skus : available[s] \in Nat /\ quote[q].cart[s] \in Nat
      BY <1>1, <1>3, CheckoutAssumption DEF Typed, Quote
    <3> QED
      BY <1>2, <3>1
  <2> QED
    BY <1>1, <1>2, <1>4, <1>6, <2>1 DEF Typed
<1>13. RowsExist'
  BY <1>1, <1>2, <1>3, <1>4, RowsTyped DEF RowsExist
<1>14. CouponKept' /\ OrdersAddUp'
  BY <1>7, <1>8, <1>9, <1>11 DEF CouponKept, OrdersAddUp, ClaimsLimited, ClaimsBelong, OneClaimEach,
       HoldersOf, UnitsTell, Sold, SharesTell
<1> QED
  BY <1>10, <1>11, <1>12, <1>13, <1>14 DEF IInv

\* A status that changes and leaves every order its units and its claim.
LEMMA OrderMovesKeep ==
    ASSUME IInv, NEW q \in Quotes, quote[q] # None,
           order' \in [Quotes -> Order \cup {NoOrder}],
           \A p \in Quotes \ {q} : order'[p] = order[p],
           KeptOrders' = KeptOrders,
           UNCHANGED <<offer, available, couponOpen, claimant, redemption, draft, quote, request>>
    PROVE  IInv'
<1>1. /\ Typed /\ DraftsTell /\ QuotesTell /\ RowsExist /\ FinitelyMany
      /\ ClaimsLimited /\ ClaimsBelong /\ OneClaimEach /\ UnitsTell /\ SharesTell
  BY Parts DEF IInv
<1>2. FinitelyMany' /\ ClaimsLimited' /\ ClaimsBelong' /\ OneClaimEach'
  BY <1>1 DEF FinitelyMany, ClaimsLimited, ClaimsOf, ClaimsBelong, OneClaimEach, HoldersOf
<1>3. UnitsTell' /\ SharesTell'
  BY <1>1 DEF UnitsTell, Sold, SharesTell
<1>4. Typed' /\ DraftsTell' /\ QuotesTell'
  BY <1>1 DEF Typed, DraftsTell, QuotesTell
<1>5. RowsExist'
  BY <1>1 DEF RowsExist
<1>6. CouponKept' /\ OrdersAddUp'
  BY <1>2, <1>3 DEF CouponKept, OrdersAddUp, ClaimsLimited, ClaimsBelong, OneClaimEach, HoldersOf,
       UnitsTell, Sold, SharesTell
<1> QED
  BY <1>2, <1>4, <1>5, <1>6 DEF IInv

\* One that was paid keeps them.
LEMMA PaidEndKeeps ==
    ASSUME IInv, NEW q \in Quotes, NEW to \in {"CANCELLED", "CLOSED"},
           order[q].status = "PAID", ends(q, to)
    PROVE  IInv'
<1>1. /\ Typed /\ DraftsTell /\ QuotesTell /\ RowsExist /\ FinitelyMany
      /\ ClaimsLimited /\ ClaimsBelong /\ OneClaimEach /\ UnitsTell /\ SharesTell
  BY Parts DEF IInv
<1>2. /\ order' = [order EXCEPT ![q].status = to]
      /\ UNCHANGED <<offer, available, couponOpen, claimant, redemption, draft, quote, request>>
  BY DEF ends, shouldReleaseCouponReservation
<1>3. order[q] \in Order /\ quote[q] # None /\ order[q].paid
  BY <1>1, RowsTyped DEF Typed, RowsExist
<1>4. /\ order' \in [Quotes -> Order \cup {NoOrder}]
      /\ order'[q].paid /\ \A p \in Quotes \ {q} : order'[p] = order[p]
  BY <1>1, <1>2, <1>3, StatusEnds DEF Typed
<1>5. KeptOrders' = KeptOrders
  BY <1>3, <1>4 DEF KeptOrders
<1> QED
  BY <1>1, <1>2, <1>3, <1>4, <1>5, OrderMovesKeep

LEMMA EndKeeps ==
    ASSUME IInv, NEW q \in Quotes, cancel(q) \/ closeExpiredOrder(q)
    PROVE  IInv'
<1>1. order[q] \in Order \cup {NoOrder}
  BY DEF IInv, Typed
<1>2. ASSUME cancel(q) PROVE IInv'
  <2>1. order[q].status \in {"PENDING_PAYMENT", "PAID", "CANCELLED", "CLOSED"} /\ ends(q, "CANCELLED")
    BY <1>1, <1>2, RowsTyped DEF cancel
  <2>2. order[q].status \in {"PENDING_PAYMENT", "PAID"}
    BY <1>2, <2>1 DEF cancel, canApplyOrderTransition, transitions
  <2> QED
    BY <2>1, <2>2, UnpaidEndKeeps, PaidEndKeeps
<1>3. ASSUME closeExpiredOrder(q) PROVE IInv'
  <2>1. order[q].status = "PENDING_PAYMENT" /\ ends(q, "CLOSED")
    BY <1>3 DEF closeExpiredOrder, shouldCloseExpiredOrder
  <2> QED
    BY <2>1, UnpaidEndKeeps
<1> QED
  BY <1>2, <1>3

LEMMA PayKeeps ==
    ASSUME IInv, NEW q \in Quotes, Pay(q)
    PROVE  IInv'
<1>1. order \in [Quotes -> Order \cup {NoOrder}] /\ RowsExist
  BY DEF IInv, Typed
<1>2. /\ order[q].status = "PENDING_PAYMENT"
      /\ order' = [order EXCEPT ![q].status = "PAID", ![q].paid = TRUE]
      /\ UNCHANGED <<offer, available, couponOpen, claimant, redemption, draft, quote, request>>
  BY DEF Pay
<1>3. order[q] \in Order /\ quote[q] # None
  BY <1>1, <1>2, RowsTyped DEF RowsExist
<1>4. /\ order' \in [Quotes -> Order \cup {NoOrder}] /\ order'[q].paid
      /\ \A p \in Quotes \ {q} : order'[p] = order[p]
  <2> DEFINE paid == [order[q] EXCEPT !.status = "PAID", !.paid = TRUE]
  <2>1. paid \in [status : {"PAID"}, key : Keys, paid : {TRUE}] /\ paid.paid
    BY <1>3 DEF Order
  <2>2. paid \in Order
    BY <2>1 DEF Order
  <2>3. order' = [order EXCEPT ![q] = paid]
    BY <1>2
  <2> HIDE DEF paid
  <2> QED
    BY <1>1, <2>1, <2>2, <2>3
<1>5. KeptOrders' = KeptOrders
  BY <1>2, <1>4 DEF KeptOrders
<1> QED
  BY <1>2, <1>3, <1>4, <1>5, OrderMovesKeep

LEMMA NextKeeps ==
    ASSUME IInv, [Next]_vars
    PROVE  IInv'
<1>1. CASE UNCHANGED vars
  <2>1. \A q \in Quotes : Lasting(q)
    BY <1>1 DEF Lasting, vars
  <2>2. request' \in [Workers -> Request]
    BY <1>1 DEF IInv, Typed, vars
  <2> QED
    BY <1>1, <2>2, RequestsGoOn DEF vars
<1>2. CASE Next
  BY <1>2, ClaimKeeps, MarketKeeps, QuotesKeep, CreateKeeps, EndKeeps, PayKeeps, RequestsKeep DEF Next
<1> QED
  BY <1>1, <1>2
-----------------------------------------------------------------------------
(* The specification.                                                      *)

(* The invariant of carts, coupons, quotes and orders.                     *)
THEOREM CheckoutCorrect == Spec => []IInv
<1>1. Init => IInv
  BY InitHolds
<1>2. IInv /\ [Next]_vars => IInv'
  BY NextKeeps
<1> QED
  BY <1>1, <1>2, PTL DEF Spec

(* Every row has its type: a discount is never negative, and stock is not. *)
THEOREM CheckoutTyped == Spec => []TypeOK
<1>1. IInv => TypeOK
  <2> SUFFICES ASSUME IInv PROVE TypeOK
    OBVIOUS
  <2>1. Typed /\ RowsExist
    BY DEF IInv
  <2>2. \A w \in Workers : request[w].at \in {"idle", "create", "CHECKOUT_QUOTE_CONSUMED"}
    BY <2>1 DEF Typed, Request
  <2> QED
    BY <2>1, <2>2 DEF Typed, RowsExist, TypeOK
<1> QED
  BY <1>1, CheckoutCorrect, PTL

(* The coupon is never claimed more often than its limits say; an order    *)
(* with a discount that waits for its payment or was ever paid holds one   *)
(* claim, of its own buyer and with its own discount, even cancelled after *)
(* the payment, and an order that ended unpaid holds none.                 *)
THEOREM CouponIsKept == Spec => []CouponKept
<1>1. IInv => CouponKept
  BY DEF IInv
<1> QED
  BY <1>1, CheckoutCorrect, PTL

(* The units of the orders that wait for their payment or were ever paid   *)
(* are those no longer available, cancelled after it or not, and the       *)
(* shares of a quote's lines are its discount.                             *)
THEOREM OrdersDoAddUp == Spec => []OrdersAddUp
<1>1. IInv => OrdersAddUp
  BY DEF IInv
<1> QED
  BY <1>1, CheckoutCorrect, PTL

\* The terms of a new order, as PlacedOnCurrentTerms says.
Placed(q) ==
    LET row   == quote[q]
        lines == LinesFor(Ordered(row.cart), row.cart, Prices)
    IN  /\ Amounts(lines) = Amounts(LinesFor(Ordered(row.cart), row.cart, row.asked))
        /\ row.discount = IF row.coupon THEN Discount(lines, Coupon) ELSE 0
        /\ \A s \in Ordered(row.cart) : ~invalidReason(s, row.cart[s])
OnCurrentTerms == \A q \in Quotes : order[q] = NoOrder /\ order'[q] # NoOrder => Placed(q)

LEMMA CreatePlaces ==
    ASSUME IInv, NEW w \in Workers, CreateOrder(w)
    PROVE  Placed(request[w].quote)
<1> DEFINE q == request[w].quote
           row == quote[q]
           S == Ordered(row.cart)
           lines == LinesFor(S, row.cart, Prices)
<1>1. /\ \A s \in S : stillSellable(s, row) /\ redeemsAsQuoted(row) /\ request[w].at = "create"
  BY DEF CreateOrder
<1>2. /\ q \in Quotes /\ row \in Quote /\ row.cart \in Carts /\ (row.coupon \/ row.discount = 0)
      /\ available \in [Skus -> Nat] /\ \A s \in Skus : offer[s] \in Offer
  BY CheckoutAssumption DEF CreateOrder, IInv, RowsExist, Typed, Quote, QuotesTell
<1>3. \A s \in S : s \in Skus /\ row.cart[s] \in Nat /\ row.cart[s] > 0
  BY <1>2, CheckoutAssumption DEF Ordered
<1>4. Amounts(lines) = Amounts(LinesFor(S, row.cart, row.asked))
  <2>1. \A k \in DOMAIN SkuOrder : SkuOrder[k] \in S => Prices[SkuOrder[k]] = row.asked[SkuOrder[k]]
    BY <1>1, <1>3 DEF Prices, stillSellable
  <2> HIDE DEF row, S
  <2> QED
    BY <2>1 DEF Amounts, LinesFor
<1>5. row.discount = IF row.coupon THEN Discount(lines, Coupon) ELSE 0
  BY <1>1, <1>2 DEF redeemsAsQuoted, CreateOrder
<1>6. \A s \in S : ~invalidReason(s, row.cart[s])
  <2> SUFFICES ASSUME NEW s \in S PROVE ~invalidReason(s, row.cart[s])
    OBVIOUS
  <2>1. /\ offer[s].open /\ available[s] >= row.cart[s] /\ row.cart[s] <= offer[s].limit
        /\ available[s] \in Nat /\ offer[s].limit \in Nat /\ row.cart[s] \in Nat /\ row.cart[s] > 0
    BY <1>1, <1>2, <1>3 DEF stillSellable, Offer
  <2> HIDE DEF S, row
  <2> QED
    BY <2>1 DEF invalidReason
<1> QED
  BY <1>4, <1>5, <1>6 DEF Placed

(* An order is placed on the terms in force at that moment: at the prices, *)
(* with the discount, for sale and in stock, as a fresh quote would say.   *)
THEOREM OrdersArePlacedRightly == Spec => PlacedOnCurrentTerms
<1>1. IInv /\ [Next]_vars => [OnCurrentTerms]_vars
  <2> SUFFICES ASSUME IInv, Next, NEW q \in Quotes, order[q] = NoOrder, order'[q] # NoOrder
               PROVE  Placed(q)
    BY DEF OnCurrentTerms
  <2>1. order \in [Quotes -> Order \cup {NoOrder}]
    BY DEF IInv, Typed
  <2>2. order' # order
    OBVIOUS
  <2>3. ASSUME NEW p \in Quotes, cancel(p) \/ closeExpiredOrder(p) \/ Pay(p) PROVE FALSE
    <3>1. order[p] # NoOrder
      BY <2>3, RowsTyped DEF cancel, closeExpiredOrder, shouldCloseExpiredOrder, Pay
    <3>2. \A r \in Quotes \ {p} : order'[r] = order[r]
      BY <2>1, <2>3 DEF cancel, closeExpiredOrder, ends, Pay
    <3> QED
      BY <3>1, <3>2
  <2>4. PICK w \in Workers : CreateOrder(w)
    BY <2>2, <2>3 DEF Next, SetStatus, ChangeOffer, Claim, QuoteRead, QuoteInsert, ExpireQuote,
                      CreateLookup, CreateConsumed, Fail
  <2>5. q = request[w].quote
    BY <2>1, <2>4 DEF CreateOrder
  <2> QED
    BY <2>4, <2>5, CreatePlaces
<1>2. PlacedOnCurrentTerms <=> [][OnCurrentTerms]_vars
  BY PTL DEF PlacedOnCurrentTerms, OnCurrentTerms, Placed
<1> QED
  BY <1>1, <1>2, CheckoutCorrect, PTL DEF Spec
====
