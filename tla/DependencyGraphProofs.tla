------------------------- MODULE DependencyGraphProofs -------------------------
(***************************************************************************)
(* Facts about the dependency bookkeeping, used by the proofs about the    *)
(* validation and about the scheduler.  They hold for lists with repeated  *)
(* entries and for any set of resolved steps.                              *)
(***************************************************************************)
EXTENDS DependencyGraph, FiniteSetTheorems, TLAPS

(* The positions that wait for something are finitely many. *)
LEMMA PendingFinite ==
  ASSUME NEW Ids, NEW g, NEW resolved, NEW s \in DOMAIN g, g[s] \in Seq(Ids)
  PROVE  /\ IsFiniteSet(Pending(g, resolved, s))
         /\ Cardinality(Pending(g, resolved, s)) \in Nat
<1>1. DOMAIN g[s] = 1 .. Len(g[s]) /\ Len(g[s]) \in Nat
  OBVIOUS
<1>2. IsFiniteSet(DOMAIN g[s])
  BY <1>1, FS_Interval
<1>3. Pending(g, resolved, s) \in SUBSET DOMAIN g[s]
  BY DEF Pending
<1>4. IsFiniteSet(Pending(g, resolved, s))
  BY <1>2, <1>3, FS_Subset
<1> QED
  BY <1>4, FS_CardinalityType

(* A counter that starts at the length of the list counts every entry. *)
LEMMA InitialCountsExact ==
  ASSUME NEW Ids, NEW g, NEW s \in DOMAIN g, g[s] \in Seq(Ids)
  PROVE  InitialCounts(g)[s] = Cardinality(Pending(g, {}, s))
<1>1. DOMAIN g[s] = 1 .. Len(g[s]) /\ Len(g[s]) \in Nat
  OBVIOUS
<1>2. Pending(g, {}, s) = 1 .. Len(g[s])
  BY <1>1 DEF Pending
<1>3. Cardinality(1 .. Len(g[s])) = Len(g[s])
  <2> DEFINE n == Len(g[s])
  <2>1. n \in Int /\ n \in Nat /\ 1 \in Int
    BY <1>1
  <2> HIDE DEF n
  <2>2. Cardinality(1 .. n) = IF 1 > n THEN 0 ELSE n - 1 + 1
    BY <2>1, FS_Interval
  <2> QED
    BY <2>1, <2>2 DEF n
<1> QED
  BY <1>2, <1>3 DEF InitialCounts

(* Resolving d takes off the counter of s exactly the entries equal to d.  *)
LEMMA DecrementExact ==
  ASSUME NEW Ids, NEW g, NEW resolved, NEW s \in DOMAIN g, g[s] \in Seq(Ids),
         NEW d, d \notin resolved
  PROVE  Cardinality(Pending(g, resolved, s)) - Cardinality(Occurrences(g, d, s))
           = Cardinality(Pending(g, resolved \cup {d}, s))
<1> DEFINE Before == Pending(g, resolved, s)
           After  == Pending(g, resolved \cup {d}, s)
           Taken  == Occurrences(g, d, s)
<1>1. IsFiniteSet(Before) /\ IsFiniteSet(After)
  BY PendingFinite
<1>2. Taken \in SUBSET Before
  BY DEF Occurrences, Pending
<1>3. IsFiniteSet(Taken)
  BY <1>1, <1>2, FS_Subset
<1>4. Before = Taken \cup After /\ Taken \cap After = {}
  BY DEF Occurrences, Pending
<1>5. Cardinality(Taken \cup After)
        = Cardinality(Taken) + Cardinality(After) - Cardinality(Taken \cap After)
  BY <1>1, <1>3, FS_Union
<1>6. Cardinality(Taken \cap After) = 0
  BY <1>4, FS_EmptySet
<1>7. Cardinality(Before) = Cardinality(Taken \cup After)
  BY <1>4
<1>8. /\ Cardinality(Taken) \in Nat
      /\ Cardinality(After) \in Nat
  BY <1>1, <1>3, FS_CardinalityType
<1> QED
  BY <1>5, <1>6, <1>7, <1>8

(* A counter is zero exactly when all the dependencies are resolved. *)
LEMMA ZeroIffResolved ==
  ASSUME NEW Ids, NEW g, NEW resolved, NEW s \in DOMAIN g, g[s] \in Seq(Ids)
  PROVE  /\ Cardinality(Pending(g, resolved, s)) = 0
              <=> DepsOf(g, s) \subseteq resolved
         /\ Pending(g, resolved, s) = {} <=> DepsOf(g, s) \subseteq resolved
<1>1. IsFiniteSet(Pending(g, resolved, s))
  BY PendingFinite
<1>2. Cardinality(Pending(g, resolved, s)) = 0 <=> Pending(g, resolved, s) = {}
  BY <1>1, FS_EmptySet
<1>3. Pending(g, resolved, s) = {} <=> DepsOf(g, s) \subseteq resolved
  BY DEF Pending, DepsOf
<1> QED
  BY <1>2, <1>3
==============================================================================
