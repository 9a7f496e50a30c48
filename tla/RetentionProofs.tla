--------------------------- MODULE RetentionProofs ---------------------------
(***************************************************************************)
(* The selection loop implements the retention rule, for every set of      *)
(* creation times, every number of classes and every limit.                *)
(***************************************************************************)
EXTENDS Retention, RetentionRulesProofs

-----------------------------------------------------------------------------
(* The rule on a growing prefix of the list *)

\* Only newer snapshots decide about a snapshot: older ones change nothing.
LEMMA OlderDoNotMatter ==
    ASSUME NEW V \in SUBSET Int, NEW S \in SUBSET Int, V \subseteq S,
           \A u \in V, s \in S \ V : u > s, NEW t \in V
    PROVE  Newer(S, t) = Newer(V, t)
<1> SUFFICES ASSUME NEW u \in S, u > t
             PROVE  u \in V
  BY DEF Newer
<1>1. CASE u \notin V
  <2>1. u \in S \ V
    BY <1>1
  <2>2. t > u
    BY <2>1
  <2>3. t \in Int /\ u \in Int
    OBVIOUS
  <2> QED
    BY <2>2, <2>3
<1> QED
  BY <1>1

\* Older snapshots may only be added to what is kept.
LEMMA KeptOfPrefix ==
    ASSUME NEW V \in SUBSET Int, NEW S \in SUBSET Int, V \subseteq S,
           \A u \in V, s \in S \ V : u > s, NEW b, NEW l
    PROVE  Kept(S, b, l) \cap V = Kept(V, b, l)
<1>1. \A t \in V : Newer(S, t) = Newer(V, t)
  BY OlderDoNotMatter
<1> QED
  BY <1>1 DEF Kept

\* The snapshots newer than the one the loop comes to are those it has visited.
LEMMA NewerAreVisited ==
    ASSUME NEW V \in SUBSET Int, NEW t \in Int, \A u \in V : u > t
    PROVE  Newer(V \cup {t}, t) = V
<1>1. ~(t > t)
  OBVIOUS
<1>2. Newer(V \cup {t}, t) \subseteq V
  BY <1>1 DEF Newer
<1>3. V \subseteq Newer(V \cup {t}, t)
  BY DEF Newer
<1> QED
  BY <1>2, <1>3

\* A snapshot of a bucket already met is not kept.
LEMMA KeptPassOver ==
    ASSUME NEW V \in SUBSET Int, NEW t \in Int, \A u \in V : u > t, NEW b, NEW l,
           b[t] \in BucketsOf(V, b)
    PROVE  Kept(V \cup {t}, b, l) = Kept(V, b, l)
<1>1. Kept(V \cup {t}, b, l) \cap V = Kept(V, b, l)
  <2>1. \A u \in V, s \in (V \cup {t}) \ V : u > s
    OBVIOUS
  <2> QED
    BY <2>1, KeptOfPrefix
<1>2. t \notin Kept(V \cup {t}, b, l)
  BY NewerAreVisited DEF Kept
<1>3. Kept(V \cup {t}, b, l) \subseteq V \cup {t}
  BY DEF Kept
<1> QED
  BY <1>1, <1>2, <1>3

\* The first snapshot of a new bucket is kept while there is room.
LEMMA KeptKeep ==
    ASSUME NEW V \in SUBSET Int, NEW t \in Int, \A u \in V : u > t, NEW b, NEW l,
           b[t] \notin BucketsOf(V, b), Cardinality(BucketsOf(V, b)) < l
    PROVE  Kept(V \cup {t}, b, l) = Kept(V, b, l) \cup {t}
<1>1. Kept(V \cup {t}, b, l) \cap V = Kept(V, b, l)
  <2>1. \A u \in V, s \in (V \cup {t}) \ V : u > s
    OBVIOUS
  <2> QED
    BY <2>1, KeptOfPrefix
<1>2. t \in Kept(V \cup {t}, b, l)
  BY NewerAreVisited DEF Kept
<1>3. Kept(V \cup {t}, b, l) \subseteq V \cup {t}
  BY DEF Kept
<1> QED
  BY <1>1, <1>2, <1>3

\* When the visited snapshots fill the limit, no older one is kept.
LEMMA KeptBreak ==
    ASSUME NEW S \in SUBSET Int, IsFiniteSet(S), NEW V \in SUBSET S,
           \A u \in V, s \in S \ V : u > s, NEW b, NEW l \in Nat,
           Cardinality(BucketsOf(V, b)) >= l
    PROVE  Kept(S, b, l) = Kept(V, b, l)
<1>1. Kept(S, b, l) \cap V = Kept(V, b, l)
  BY KeptOfPrefix
<1>2. ASSUME NEW s \in S \ V
      PROVE  s \notin Kept(S, b, l)
  <2>1. V \subseteq Newer(S, s) /\ Newer(S, s) \subseteq S
    BY <1>2 DEF Newer
  <2>2. IsFiniteSet(Newer(S, s))
    BY <2>1, FS_Subset
  <2>3. /\ Cardinality(BucketsOf(V, b)) \in Nat
        /\ Cardinality(BucketsOf(Newer(S, s), b)) \in Nat
        /\ Cardinality(BucketsOf(V, b)) <= Cardinality(BucketsOf(Newer(S, s), b))
    BY <2>1, <2>2, BucketsMonotone
  <2>4. ~(Cardinality(BucketsOf(Newer(S, s), b)) < l)
    BY <2>3
  <2> QED
    BY <2>4 DEF Kept
<1>3. Kept(S, b, l) \subseteq S
  BY DEF Kept
<1> QED
  BY <1>1, <1>2, <1>3

\* A class with limit 0 keeps nothing.
LEMMA KeptNone ==
    ASSUME NEW S, IsFiniteSet(S), NEW b
    PROVE  Kept(S, b, 0) = {}
<1> SUFFICES ASSUME NEW t \in Kept(S, b, 0)
             PROVE  FALSE
  OBVIOUS
<1>1. Newer(S, t) \subseteq S
  BY DEF Newer
<1>2. IsFiniteSet(Newer(S, t))
  BY <1>1, FS_Subset
<1>3. Cardinality(BucketsOf(Newer(S, t), b)) \in Nat
  BY <1>2, BucketsFinite
<1>4. Cardinality(BucketsOf(Newer(S, t), b)) < 0
  BY DEF Kept
<1> QED
  BY <1>3, <1>4
-----------------------------------------------------------------------------
(* The loop *)

IInv == TypeOK /\ LoopInv

\* Facts every step of a pass uses.
LEMMA PassFacts ==
    ASSUME IInv, class <= Passes
    PROVE  /\ class \in 1..Passes /\ limit[class] \in Nat
           /\ snapshots \in SUBSET Int /\ IsFiniteSet(snapshots)
           /\ Visited \in SUBSET Int /\ Visited \subseteq snapshots
           /\ rest \in SUBSET Int /\ rest = snapshots \ Visited
           /\ \A u \in Visited, s \in snapshots \ Visited : u > s
           /\ buckets = BucketsOf(Visited, Bucket[class])
           /\ keep = KeptBy(class - 1) \cup Kept(Visited, Bucket[class], limit[class])
<1>1. snapshots \subseteq Times /\ rest \subseteq snapshots
  BY DEF IInv, TypeOK
<1>2. snapshots \in SUBSET Int /\ IsFiniteSet(snapshots)
  BY <1>1, TimesAssumption, FS_Subset
<1>3. class \in 1..Passes
  BY PassesAssumption DEF IInv, TypeOK
<1>4. limit[class] \in Nat
  BY <1>3, PassesAssumption DEF IInv, TypeOK
<1>5. rest = snapshots \ Visited
  BY <1>1 DEF Visited
<1>6. /\ buckets = BucketsOf(Visited, Bucket[class])
      /\ keep = KeptBy(class - 1) \cup Kept(Visited, Bucket[class], limit[class])
      /\ \A u \in Visited, s \in rest : u > s
  BY DEF IInv, LoopInv, KeptBy
<1> QED
  BY <1>1, <1>2, <1>3, <1>4, <1>5, <1>6 DEF Visited

\* The end of a pass, however it is reached, starts the next one well.
LEMMA NextPassKeeps ==
    ASSUME IInv, class <= Passes, NextPass, UNCHANGED input,
           keep' = KeptBy(class - 1) \cup Kept(snapshots, Bucket[class], limit[class])
    PROVE  IInv'
<1>1. class \in 1..Passes /\ limit[class] \in Nat /\ class' = class + 1
  BY PassFacts DEF NextPass
<1>2. rest' = snapshots /\ buckets' = {} /\ snapshots' = snapshots /\ limit' = limit
  BY DEF NextPass, input
<1>3. keep' = KeptBy(class)
  <2>1. 1..class = (1..class - 1) \cup {class}
    BY <1>1
  <2> QED
    BY <2>1 DEF KeptBy
<1>4. keep' \subseteq snapshots
  BY <1>3 DEF KeptBy, Kept
<1>5. TypeOK'
  <2>1. class' \in 1..Passes + 1
    BY <1>1, PassesAssumption
  <2> QED
    BY <1>2, <1>4, <2>1 DEF IInv, TypeOK
<1>6. Visited' = {}
  BY <1>2 DEF Visited
<1>7. ASSUME class' <= Passes
      PROVE  /\ buckets' = BucketsOf(Visited', Bucket[class'])
             /\ Cardinality(buckets') < limit'[class']
                  \/ (limit'[class'] = 0 /\ Visited' = {})
             /\ keep' = KeptBy(class - 1)' \cup Kept(Visited', Bucket[class'], limit'[class'])
  <2>1. buckets' = BucketsOf(Visited', Bucket[class'])
    BY <1>2, <1>6 DEF BucketsOf
  <2>2. Cardinality(buckets') = 0
    BY <1>2, FS_EmptySet
  <2>3. limit'[class'] \in Nat
    BY <1>5, <1>7, PassesAssumption DEF TypeOK
  <2>4. Cardinality(buckets') < limit'[class'] \/ limit'[class'] = 0
    BY <2>2, <2>3
  <2>5. Kept(Visited', Bucket[class'], limit'[class']) = {}
    BY <1>6 DEF Kept
  <2>6. class' - 1 = class
    BY <1>1
  <2> QED
    BY <1>2, <1>3, <1>6, <2>1, <2>4, <2>5, <2>6 DEF KeptBy
<1>8. ASSUME class' = Passes + 1
      PROVE  keep' = KeepSet(snapshots', Bucket, limit')
  <2>1. class = Passes
    BY <1>1, <1>8, PassesAssumption
  <2>2. DOMAIN Bucket = 1..class
    BY <2>1, BucketAssumption
  <2> QED
    BY <1>2, <1>3, <2>2 DEF KeptBy, KeepSet
<1>9. \A u \in Visited', t \in rest' : u > t
  BY <1>6
<1> QED
  BY <1>5, <1>7, <1>8, <1>9 DEF IInv, LoopInv

\* A step inside a pass that leaves t behind and keeps the loop's facts.
LEMMA StepKeeps ==
    ASSUME IInv, class <= Passes, NEW t \in rest, IsNewest(t),
           UNCHANGED <<input, class>>, rest' = rest \ {t},
           buckets' = BucketsOf(Visited \cup {t}, Bucket[class]),
           Cardinality(buckets') < limit[class],
           keep' = KeptBy(class - 1)
                     \cup Kept(Visited \cup {t}, Bucket[class], limit[class])
    PROVE  IInv'
<1>1. snapshots' = snapshots /\ limit' = limit /\ class' = class
  BY DEF input
<1>2. rest \subseteq snapshots /\ snapshots \subseteq Int
  BY PassFacts
<1>3. Visited' = Visited \cup {t}
  BY <1>1, <1>2 DEF Visited
<1>4. \A u \in Visited', s \in rest' : u > s
  <2>1. \A s \in rest \ {t} : t > s
    BY <1>2 DEF IsNewest
  <2>2. \A u \in Visited, s \in rest : u > s
    BY DEF IInv, LoopInv
  <2> QED
    BY <1>3, <2>1, <2>2
<1>5. class /= Passes + 1
  BY PassFacts, PassesAssumption
<1>6. LoopInv'
  BY <1>1, <1>3, <1>4, <1>5 DEF LoopInv, KeptBy
<1>7. keep' \subseteq snapshots
  BY <1>2 DEF KeptBy, Kept, Visited
<1>8. buckets' \subseteq BucketsOf(snapshots, Bucket[class])
  BY <1>2 DEF BucketsOf, Visited
<1>9. BucketsOf(snapshots, Bucket[class]) \subseteq Int
  <2>1. snapshots \subseteq Times /\ class \in 1..Passes
    BY PassFacts DEF IInv, TypeOK
  <2>2. Bucket[class] \in [Times -> Int]
    BY <2>1, BucketAssumption
  <2> QED
    BY <2>1, <2>2 DEF BucketsOf
<1>10. TypeOK'
  BY <1>1, <1>7, <1>8, <1>9 DEF IInv, TypeOK
<1> QED
  BY <1>6, <1>10 DEF IInv

\* A pass that has nothing to do or nothing left has kept what the rule keeps.
LEMMA EndPassKeeps ==
    ASSUME IInv, EndPass
    PROVE  IInv'
<1>1. class <= Passes /\ NextPass /\ UNCHANGED input /\ keep' = keep
  BY DEF EndPass
<1>2. Kept(Visited, Bucket[class], limit[class])
        = Kept(snapshots, Bucket[class], limit[class])
  <2>1. CASE limit[class] = 0
    <3>1. IsFiniteSet(Visited) /\ IsFiniteSet(snapshots)
      BY <1>1, PassFacts, FS_Subset
    <3> QED
      BY <2>1, <3>1, KeptNone
  <2>2. CASE rest = {}
    <3>1. Visited = snapshots
      BY <2>2 DEF Visited
    <3> QED
      BY <3>1
  <2> QED
    BY <2>1, <2>2 DEF EndPass
<1> QED
  BY <1>1, <1>2, PassFacts, NextPassKeeps

\* A snapshot of a bucket already met is passed over, and the rule agrees.
LEMMA PassOverKeeps ==
    ASSUME IInv, NEW t, PassOver(t)
    PROVE  IInv'
<1>1. /\ class <= Passes /\ IsNewest(t) /\ t \in rest
      /\ Bucket[class][t] \in buckets
      /\ rest' = rest \ {t} /\ buckets' = buckets /\ keep' = keep
      /\ UNCHANGED <<input, class>> /\ limit[class] > 0
  BY DEF PassOver, IsNewest
<1>2. /\ Visited \in SUBSET Int /\ t \in Int
      /\ \A u \in Visited : u > t
      /\ buckets = BucketsOf(Visited, Bucket[class])
      /\ keep = KeptBy(class - 1) \cup Kept(Visited, Bucket[class], limit[class])
      /\ limit[class] \in Nat
  BY <1>1, PassFacts
<1>3. Kept(Visited \cup {t}, Bucket[class], limit[class])
        = Kept(Visited, Bucket[class], limit[class])
  BY <1>1, <1>2, KeptPassOver
<1>4. BucketsOf(Visited \cup {t}, Bucket[class]) = buckets
  BY <1>1, <1>2 DEF BucketsOf
<1>5. Cardinality(buckets) < limit[class]
  <2>1. limit[class] /= 0
    BY <1>1, <1>2
  <2> QED
    BY <1>1, <2>1 DEF IInv, LoopInv
<1> QED
  BY <1>1, <1>2, <1>3, <1>4, <1>5, StepKeeps

\* The first snapshot of a new bucket is kept, and the last bucket ends the pass.
LEMMA KeepKeeps ==
    ASSUME IInv, NEW t, Keep(t)
    PROVE  IInv'
<1> DEFINE met == buckets \cup {Bucket[class][t]}
<1>1. /\ class <= Passes /\ IsNewest(t) /\ t \in rest
      /\ Bucket[class][t] \notin buckets
      /\ keep' = keep \cup {t} /\ UNCHANGED input /\ limit[class] > 0
  BY DEF Keep, IsNewest
<1>2. /\ Visited \in SUBSET Int /\ Visited \subseteq snapshots
      /\ t \in Int /\ t \in snapshots
      /\ \A u \in Visited : u > t
      /\ buckets = BucketsOf(Visited, Bucket[class])
      /\ keep = KeptBy(class - 1) \cup Kept(Visited, Bucket[class], limit[class])
      /\ limit[class] \in Nat /\ snapshots \in SUBSET Int /\ IsFiniteSet(snapshots)
  BY <1>1, PassFacts
<1>3. Cardinality(buckets) < limit[class]
  <2>1. limit[class] /= 0
    BY <1>1, <1>2
  <2> QED
    BY <1>1, <2>1 DEF IInv, LoopInv
<1>4. Kept(Visited \cup {t}, Bucket[class], limit[class])
        = Kept(Visited, Bucket[class], limit[class]) \cup {t}
  <2>1. /\ Cardinality(BucketsOf(Visited, Bucket[class])) < limit[class]
        /\ Bucket[class][t] \notin BucketsOf(Visited, Bucket[class])
    BY <1>1, <1>2, <1>3
  <2>2. ASSUME NEW b, NEW l, b[t] \notin BucketsOf(Visited, b),
               Cardinality(BucketsOf(Visited, b)) < l
        PROVE  Kept(Visited \cup {t}, b, l) = Kept(Visited, b, l) \cup {t}
    BY <1>2, <2>2, KeptKeep
  <2> QED
    BY <2>1, <2>2
<1>5. met = BucketsOf(Visited \cup {t}, Bucket[class])
  BY <1>2 DEF BucketsOf
<1>6. keep' = KeptBy(class - 1)
                \cup Kept(Visited \cup {t}, Bucket[class], limit[class])
  BY <1>1, <1>2, <1>4
<1>7. CASE Cardinality(met) >= limit[class]
  <2>1. NextPass
    BY <1>7 DEF Keep
  <2>2. \A u \in Visited \cup {t}, s \in snapshots \ (Visited \cup {t}) : u > s
    <3>1. \A u \in Visited, s \in rest : u > s
      BY DEF IInv, LoopInv
    <3>2. \A s \in rest \ {t} : t > s
      <4>1. rest \subseteq Int
        BY <1>1, PassFacts
      <4> QED
        BY <1>2, <4>1, <1>1 DEF IsNewest
    <3> QED
      BY <3>1, <3>2 DEF Visited
  <2>3. Kept(Visited \cup {t}, Bucket[class], limit[class])
          = Kept(snapshots, Bucket[class], limit[class])
    <3>1. Cardinality(BucketsOf(Visited \cup {t}, Bucket[class])) >= limit[class]
      BY <1>5, <1>7
    <3>2. Visited \cup {t} \in SUBSET snapshots
      BY <1>2
    <3> HIDE DEF met
    <3> QED
      BY <1>2, <2>2, <3>1, <3>2, KeptBreak
  <2> QED
    BY <1>1, <1>6, <2>1, <2>3, NextPassKeeps
<1>8. CASE ~(Cardinality(met) >= limit[class])
  <2>1. buckets' = met /\ rest' = rest \ {t} /\ class' = class
    BY <1>8 DEF Keep
  <2>2. Cardinality(met) < limit[class]
    <3>1. IsFiniteSet(Visited \cup {t})
      BY <1>2, FS_Subset
    <3>2. Cardinality(met) \in Nat
      BY <1>5, <3>1, BucketsFinite
    <3> QED
      BY <1>2, <1>8, <3>2
  <2> QED
    BY <1>1, <1>5, <1>6, <2>1, <2>2, StepKeeps
<1> QED
  BY <1>7, <1>8

-----------------------------------------------------------------------------
(* Theorems *)

\* The loop starts with nothing visited and nothing kept.
LEMMA InitHolds == Init => IInv
<1> SUFFICES ASSUME Init PROVE IInv
  OBVIOUS
<1>1. class = 1 /\ rest = snapshots /\ buckets = {} /\ keep = {} /\ snapshots \subseteq Times
  BY DEF Init
<1>2. TypeOK
  BY <1>1, PassesAssumption DEF Init, TypeOK
<1>3. Visited = {} /\ \A k : Kept(Visited, Bucket[k], limit[k]) = {}
  BY <1>1 DEF Visited, Kept
<1>4. KeptBy(class - 1) = {}
  BY <1>1 DEF KeptBy
<1>5. ASSUME class <= Passes
      PROVE  /\ buckets = BucketsOf(Visited, Bucket[class])
             /\ Cardinality(buckets) < limit[class] \/ (limit[class] = 0 /\ Visited = {})
             /\ keep = KeptBy(class - 1) \cup Kept(Visited, Bucket[class], limit[class])
  <2>1. buckets = BucketsOf(Visited, Bucket[class])
    BY <1>1, <1>3 DEF BucketsOf
  <2>2. Cardinality(buckets) = 0
    BY <1>1, FS_EmptySet
  <2>3. limit[class] \in Nat
    BY <1>1, <1>5, PassesAssumption DEF Init
  <2>4. Cardinality(buckets) < limit[class] \/ limit[class] = 0
    BY <2>2, <2>3
  <2> QED
    BY <1>1, <1>3, <1>4, <2>1, <2>4
<1>6. ASSUME class = Passes + 1
      PROVE  keep = KeepSet(snapshots, Bucket, limit)
  <2>1. DOMAIN Bucket = {}
    BY <1>1, <1>6, PassesAssumption, BucketAssumption
  <2> QED
    BY <1>1, <2>1 DEF KeepSet
<1>7. \A u \in Visited, t \in rest : u > t
  BY <1>3
<1> QED
  BY <1>2, <1>5, <1>6, <1>7 DEF IInv, LoopInv

\* Every iteration keeps the loop invariant.
LEMMA StepHolds == IInv /\ [Next]_vars => IInv'
<1> SUFFICES ASSUME IInv, [Next]_vars PROVE IInv'
  OBVIOUS
<1>1. CASE EndPass
  BY <1>1, EndPassKeeps
<1>2. ASSUME NEW t \in snapshots, PassOver(t) PROVE IInv'
  BY <1>2, PassOverKeeps
<1>3. ASSUME NEW t \in snapshots, Keep(t) PROVE IInv'
  BY <1>3, KeepKeeps
<1>4. CASE UNCHANGED vars
  BY <1>4 DEF vars, input, IInv, TypeOK, LoopInv, Visited, KeptBy
<1> QED
  BY <1>1, <1>2, <1>3, <1>4 DEF Next

\* What the loop has kept so far is, at every iteration, what the rule keeps of
\* the snapshots it has visited.
THEOREM LoopInvariant == Spec => []IInv
BY InitHolds, StepHolds, PTL DEF Spec

\* retention_keep_set computes the declarative rule: per class the newest snapshot
\* of each of the newest limit buckets, for any snapshots, buckets and limits.
THEOREM LoopImplementsRule == Spec => []LoopKeepsRule
<1>1. IInv => LoopKeepsRule
  BY DEF IInv, LoopInv, LoopKeepsRule, Done
<1> QED
  BY <1>1, LoopInvariant, PTL

\* A policy that keeps anything keeps the newest snapshot.
THEOREM NewestIsKept == Spec => []NewestStays
<1>1. IInv => NewestStays
  <2> SUFFICES ASSUME IInv, Done, NEW k \in 1..Passes, limit[k] > 0,
                      NEW t \in snapshots, \A u \in snapshots : u <= t
               PROVE  t \in keep
    BY DEF NewestStays
  <2>1. keep = KeepSet(snapshots, Bucket, limit)
    BY DEF IInv, LoopInv, Done
  <2>2. Newer(snapshots, t) = {}
    <3>1. snapshots \subseteq Int
      BY TimesAssumption DEF IInv, TypeOK
    <3>2. \A u \in snapshots : ~(u > t)
      BY <3>1
    <3> QED
      BY <3>2 DEF Newer
  <2>3. BucketsOf(Newer(snapshots, t), Bucket[k]) = {}
    BY <2>2 DEF BucketsOf
  <2>4. Cardinality(BucketsOf(Newer(snapshots, t), Bucket[k])) < limit[k]
    BY <2>3, FS_EmptySet
  <2>5. t \in Kept(snapshots, Bucket[k], limit[k])
    BY <2>3, <2>4 DEF Kept
  <2>6. k \in DOMAIN Bucket
    BY BucketAssumption
  <2> QED
    BY <2>1, <2>5, <2>6 DEF KeepSet
<1> QED
  BY <1>1, LoopInvariant, PTL
=============================================================================
