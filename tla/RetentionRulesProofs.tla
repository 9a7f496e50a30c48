------------------------ MODULE RetentionRulesProofs -------------------------
(***************************************************************************)
(* Lemmas about the retention rule, for every finite set of snapshots.     *)
(***************************************************************************)
EXTENDS RetentionRules, FiniteSetTheorems, TLAPS

\* Finitely many snapshots fall into finitely many buckets.
LEMMA BucketsFinite ==
    ASSUME NEW T, IsFiniteSet(T), NEW b
    PROVE  IsFiniteSet(BucketsOf(T, b)) /\ Cardinality(BucketsOf(T, b)) \in Nat
<1> DEFINE f == [t \in T |-> b[t]]
<1>1. f \in Surjection(T, BucketsOf(T, b))
  BY DEF Surjection, BucketsOf
<1>2. IsFiniteSet(BucketsOf(T, b))
  BY <1>1, FS_Surjection
<1>3. QED
  BY <1>2, FS_CardinalityType

\* Fewer snapshots fall into no more buckets.
LEMMA BucketsMonotone ==
    ASSUME NEW T, IsFiniteSet(T), NEW S \in SUBSET T, NEW b
    PROVE  /\ BucketsOf(S, b) \subseteq BucketsOf(T, b)
           /\ Cardinality(BucketsOf(S, b)) \in Nat
           /\ Cardinality(BucketsOf(T, b)) \in Nat
           /\ Cardinality(BucketsOf(S, b)) <= Cardinality(BucketsOf(T, b))
<1>1. BucketsOf(S, b) \subseteq BucketsOf(T, b)
  BY DEF BucketsOf
<1>2. IsFiniteSet(BucketsOf(T, b)) /\ Cardinality(BucketsOf(T, b)) \in Nat
  BY BucketsFinite
<1>3. /\ IsFiniteSet(BucketsOf(S, b))
      /\ Cardinality(BucketsOf(S, b)) <= Cardinality(BucketsOf(T, b))
  BY <1>1, <1>2, FS_Subset
<1>4. Cardinality(BucketsOf(S, b)) \in Nat
  BY <1>3, FS_CardinalityType
<1>5. QED
  BY <1>1, <1>2, <1>3, <1>4

\* A snapshot that stays among many stays among fewer: what a class gives up it
\* never wants back, whatever is added later.
LEMMA KeptAntitone ==
    ASSUME NEW T, IsFiniteSet(T), NEW S \in SUBSET T, NEW b, NEW l \in Nat
    PROVE  Kept(T, b, l) \cap S \subseteq Kept(S, b, l)
<1> SUFFICES ASSUME NEW t \in Kept(T, b, l), t \in S
             PROVE  t \in Kept(S, b, l)
  OBVIOUS
<1>1. Newer(S, t) \subseteq Newer(T, t) /\ Newer(T, t) \subseteq T
  BY DEF Newer
<1>2. IsFiniteSet(Newer(T, t))
  BY <1>1, FS_Subset
<1>3. /\ BucketsOf(Newer(S, t), b) \subseteq BucketsOf(Newer(T, t), b)
      /\ Cardinality(BucketsOf(Newer(S, t), b)) \in Nat
      /\ Cardinality(BucketsOf(Newer(T, t), b)) \in Nat
      /\ Cardinality(BucketsOf(Newer(S, t), b)) <= Cardinality(BucketsOf(Newer(T, t), b))
  BY <1>1, <1>2, BucketsMonotone
<1>4. /\ b[t] \notin BucketsOf(Newer(T, t), b)
      /\ Cardinality(BucketsOf(Newer(T, t), b)) < l
  BY DEF Kept
<1>5. Cardinality(BucketsOf(Newer(S, t), b)) < l
  BY <1>3, <1>4
<1>6. QED
  BY <1>3, <1>4, <1>5 DEF Kept

\* The same for all classes together.
LEMMA KeepSetAntitone ==
    ASSUME NEW T, IsFiniteSet(T), NEW S \in SUBSET T, NEW b, NEW l,
           \A k \in DOMAIN b : l[k] \in Nat
    PROVE  KeepSet(T, b, l) \cap S \subseteq KeepSet(S, b, l)
<1> SUFFICES ASSUME NEW t \in S, NEW k \in DOMAIN b, t \in Kept(T, b[k], l[k])
             PROVE  t \in KeepSet(S, b, l)
  BY DEF KeepSet
<1>1. t \in Kept(S, b[k], l[k])
  BY KeptAntitone
<1>2. QED
  BY <1>1 DEF KeepSet

\* The rule only keeps what is there.
LEMMA KeepSetSubset ==
    ASSUME NEW T, NEW b, NEW l
    PROVE  KeepSet(T, b, l) \subseteq T
  BY DEF KeepSet, Kept
=============================================================================
