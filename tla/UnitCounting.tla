---------------------------- MODULE UnitCounting ----------------------------
(***************************************************************************)
(* Counting units of stock as elements of a set: a holder of q units is    *)
(* the set of the pairs <<holder, 1>> .. <<holder, q>>, so that what many  *)
(* holders have together is the cardinality of a union.                    *)
(***************************************************************************)
EXTENDS Integers, FiniteSets, TLAPS, FiniteSetTheorems

UnitsOf(r, q) == {r} \X (1..q)

(* They are as many as their number says.                                 *)
LEMMA UnitsCount ==
    ASSUME NEW r, NEW q \in Nat
    PROVE  IsFiniteSet(UnitsOf(r, q)) /\ Cardinality(UnitsOf(r, q)) = q
<1> DEFINE f == [k \in 1..q |-> <<r, k>>]
<1>1. IsFiniteSet(1..q) /\ Cardinality(1..q) = q
  BY FS_Interval
<1>2. f \in Injection(1..q, UnitsOf(r, q))
  BY DEF Injection, IsInjective, UnitsOf
<1>3. f \in Surjection(1..q, UnitsOf(r, q))
  <2>1. \A u \in UnitsOf(r, q) : u[2] \in 1..q /\ u = <<r, u[2]>>
    BY DEF UnitsOf
  <2>2. \A u \in UnitsOf(r, q) : \E k \in 1..q : f[k] = u
    BY <2>1
  <2>3. f \in [1..q -> UnitsOf(r, q)]
    BY DEF UnitsOf
  <2> QED
    BY <2>2, <2>3 DEF Surjection
<1>4. ExistsBijection(1..q, UnitsOf(r, q))
  BY <1>2, <1>3 DEF ExistsBijection, Bijection
<1> QED
  BY <1>1, <1>4, FS_Bijection

(* Sets that share nothing are counted one by one.                         *)
LEMMA DisjointCount ==
    ASSUME NEW S, IsFiniteSet(S), NEW T, IsFiniteSet(T), S \cap T = {}
    PROVE  /\ IsFiniteSet(S \cup T)
           /\ Cardinality(S \cup T) = Cardinality(S) + Cardinality(T)
<1>1. Cardinality(S) \in Nat /\ Cardinality(T) \in Nat
  BY FS_CardinalityType
<1>2. Cardinality(S \cap T) = 0
  BY FS_EmptySet
<1>3. /\ IsFiniteSet(S \cup T)
      /\ Cardinality(S \cup T)
           = Cardinality(S) + Cardinality(T) - Cardinality(S \cap T)
  BY FS_Union
<1> QED
  BY <1>1, <1>2, <1>3

(* A set of units that grows by the units of a new holder grows by their   *)
(* number, and shrinks by it when they leave.                              *)
LEMMA UnitsJoin ==
    ASSUME NEW S, IsFiniteSet(S), NEW r, NEW q \in Nat,
           \A k \in 1..q : <<r, k>> \notin S
    PROVE  /\ IsFiniteSet(S \cup UnitsOf(r, q))
           /\ Cardinality(S \cup UnitsOf(r, q)) = Cardinality(S) + q
<1>1. S \cap UnitsOf(r, q) = {}
  BY DEF UnitsOf
<1> QED
  BY <1>1, UnitsCount, DisjointCount

LEMMA UnitsLeave ==
    ASSUME NEW S, NEW T, IsFiniteSet(S), NEW r, NEW q \in Nat,
           S = T \cup UnitsOf(r, q), \A k \in 1..q : <<r, k>> \notin T
    PROVE  /\ IsFiniteSet(T)
           /\ Cardinality(T) = Cardinality(S) - q
<1>1. IsFiniteSet(T) /\ Cardinality(T) \in Nat
  BY FS_Subset, FS_CardinalityType
<1>2. Cardinality(S) = Cardinality(T) + q
  BY <1>1, UnitsJoin
<1> QED
  BY <1>1, <1>2
-----------------------------------------------------------------------------
(* Units summed over finitely many holders.                                *)

UnitsOver(S, f) == UNION {UnitsOf(p, f[p]) : p \in S}

\* They are finitely many.
LEMMA UnitsAreFinite ==
    ASSUME NEW S, IsFiniteSet(S), NEW f, \A p \in S : f[p] \in Nat
    PROVE  /\ IsFiniteSet(UnitsOver(S, f))
           /\ Cardinality(UnitsOver(S, f)) \in Nat
<1> DEFINE g == [p \in S |-> UnitsOf(p, f[p])]
           T == {UnitsOf(p, f[p]) : p \in S}
<1>1. g \in Surjection(S, T)
  BY DEF Surjection
<1>2. IsFiniteSet(T)
  <2> HIDE DEF T, g
  <2> QED
    BY <1>1, FS_Surjection
<1>3. \A U \in T : IsFiniteSet(U)
  BY UnitsCount
<1>4. IsFiniteSet(UNION T)
  <2> HIDE DEF T, g
  <2> QED
    BY <1>2, <1>3, FS_UNION
<1> QED
  BY <1>4, FS_CardinalityType DEF UnitsOver

\* A holder that had none and gets n adds n to the sum.
LEMMA UnitsGrow ==
    ASSUME NEW S, IsFiniteSet(S), NEW f, NEW g, NEW p \in S,
           \A q \in S : f[q] \in Nat, f[p] = 0, g[p] \in Nat,
           \A q \in S \ {p} : g[q] = f[q]
    PROVE  Cardinality(UnitsOver(S, g)) = Cardinality(UnitsOver(S, f)) + g[p]
<1>1. UnitsOver(S, g) = UnitsOver(S, f) \cup UnitsOf(p, g[p])
  <2>1. UnitsOf(p, f[p]) = {}
    BY DEF UnitsOf
  <2>2. \A q \in S \ {p} : UnitsOf(q, g[q]) = UnitsOf(q, f[q])
    OBVIOUS
  <2> QED
    BY <2>1, <2>2 DEF UnitsOver
<1>2. \A k \in 1..g[p] : <<p, k>> \notin UnitsOver(S, f)
  <2>1. \A q \in S : \A u \in UnitsOf(q, f[q]) : u[1] = q /\ u[2] \in 1..f[q]
    BY DEF UnitsOf
  <2>2. ASSUME NEW k \in 1..g[p], NEW q \in S, <<p, k>> \in UnitsOf(q, f[q]) PROVE FALSE
    BY <2>1, <2>2
  <2> QED
    BY <2>2 DEF UnitsOver
<1>3. IsFiniteSet(UnitsOver(S, f))
  BY UnitsAreFinite
<1>4. Cardinality(UnitsOver(S, f) \cup UnitsOf(p, g[p])) = Cardinality(UnitsOver(S, f)) + g[p]
  <2> DEFINE A == UnitsOver(S, f)
             n == g[p]
  <2>1. IsFiniteSet(A) /\ n \in Nat /\ \A k \in 1..n : <<p, k>> \notin A
    BY <1>2, <1>3
  <2> HIDE DEF A, n
  <2>2. Cardinality(A \cup UnitsOf(p, n)) = Cardinality(A) + n
    BY <2>1, UnitsJoin
  <2> QED
    BY <2>2 DEF A, n
<1> QED
  BY <1>1, <1>4

\* A holder that has some is counted.
LEMMA UnitsCounted ==
    ASSUME NEW S, IsFiniteSet(S), NEW f, \A q \in S : f[q] \in Nat, NEW p \in S
    PROVE  f[p] <= Cardinality(UnitsOver(S, f))
<1>1. UnitsOf(p, f[p]) \in SUBSET UnitsOver(S, f)
  BY DEF UnitsOver
<1>2. IsFiniteSet(UnitsOver(S, f))
  BY UnitsAreFinite
<1>3. Cardinality(UnitsOf(p, f[p])) = f[p]
  BY UnitsCount
<1> QED
  BY <1>1, <1>2, <1>3, FS_Subset

\* Without holders, or when none has any, there is nothing.
LEMMA NoUnits ==
    ASSUME NEW S, NEW f, \A p \in S : f[p] = 0
    PROVE  Cardinality(UnitsOver(S, f)) = 0
<1>1. UnitsOver(S, f) = {}
  BY DEF UnitsOver, UnitsOf
<1> QED
  BY <1>1, FS_EmptySet
=============================================================================
