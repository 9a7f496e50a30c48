----------------------------- MODULE Retention ------------------------------
(***************************************************************************)
(* The selection loop of retention (retention_keep_set and keep_bucketed,  *)
(* crates/core/src/retention.rs), one iteration at a time, against the     *)
(* declarative rule of RetentionRules.                                     *)
(***************************************************************************)
EXTENDS RetentionRules

CONSTANTS
    Times,     \* creation times a snapshot can have
    Passes,    \* number of classes: hourly, daily, weekly, monthly
    Bucket,    \* class -> time -> its bucket
    MaxLimit   \* bound: largest number of buckets a class keeps

ASSUME TimesAssumption == Times \subseteq Int /\ IsFiniteSet(Times)
ASSUME PassesAssumption == Passes \in Nat /\ MaxLimit \in Nat
ASSUME BucketAssumption == Bucket \in [1..Passes -> [Times -> Int]]

VARIABLES
    snapshots, limit,  \* input: creation times (all different), the policy
    class,             \* pass under way, Passes + 1 at the end
    rest,              \* snapshots this pass has not visited
    buckets,           \* buckets this pass has met
    keep               \* result

input == <<snapshots, limit>>
vars == <<input, class, rest, buckets, keep>>

TypeOK ==
    /\ snapshots \subseteq Times
    /\ limit \in [1..Passes -> 0..MaxLimit]
    /\ class \in 1..Passes + 1
    /\ rest \subseteq snapshots
    /\ buckets \subseteq Int
    /\ class <= Passes => buckets \subseteq BucketsOf(snapshots, Bucket[class])
    /\ keep \subseteq snapshots

Init ==
    /\ snapshots \in SUBSET Times
    /\ limit \in [1..Passes -> 0..MaxLimit]
    /\ class = 1
    /\ rest = snapshots
    /\ buckets = {}
    /\ keep = {}

\* Mutant: sorted by created_at without Reverse.
IsOldest(t) == t \in rest /\ \A u \in rest : t <= u

\* The loop visits the list sorted by Reverse(created_at).
IsNewest(t) == t \in rest /\ \A u \in rest : u <= t

NextPass ==
    class' = class + 1 /\ rest' = snapshots /\ buckets' = {}

\* if limit == 0 { return }, and the end of the list.
EndPass ==
    /\ class <= Passes
    /\ limit[class] = 0 \/ rest = {}
    /\ NextPass
    /\ UNCHANGED <<input, keep>>

\* if buckets.contains(&current) { continue }
PassOver(t) ==
    /\ class <= Passes /\ limit[class] > 0 /\ IsNewest(t)
    /\ Bucket[class][t] \in buckets
    /\ rest' = rest \ {t}
    /\ UNCHANGED <<input, class, buckets, keep>>

\* Mutant: the pass breaks off one bucket late.
KeepLate(t) ==
    /\ class <= Passes /\ limit[class] > 0 /\ IsNewest(t)
    /\ Bucket[class][t] \notin buckets
    /\ keep' = keep \cup {t}
    /\ IF Cardinality(buckets) >= limit[class]
         THEN NextPass
         ELSE /\ buckets' = buckets \cup {Bucket[class][t]}
              /\ rest' = rest \ {t} /\ UNCHANGED class
    /\ UNCHANGED input

\* buckets.push; keep.insert; if buckets.len() >= limit { break }
Keep(t) ==
    /\ class <= Passes /\ limit[class] > 0 /\ IsNewest(t)
    /\ Bucket[class][t] \notin buckets
    /\ keep' = keep \cup {t}
    /\ IF Cardinality(buckets \cup {Bucket[class][t]}) >= limit[class]
         THEN NextPass
         ELSE /\ buckets' = buckets \cup {Bucket[class][t]}
              /\ rest' = rest \ {t} /\ UNCHANGED class
    /\ UNCHANGED input

Next == EndPass \/ \E t \in snapshots : PassOver(t) \/ Keep(t)

Spec == Init /\ [][Next]_vars

-----------------------------------------------------------------------------
(* Properties *)

Done == class = Passes + 1

\* The loop keeps exactly what the rule says: in each class the newest snapshot
\* of each of the newest "limit" buckets, whatever the gaps between them.
LoopKeepsRule == Done => keep = KeepSet(snapshots, Bucket, limit)

\* A policy with a single bucket to keep never gives up the newest snapshot
\* (validate_policy refuses the others, policy.rs:171).
NewestStays ==
    Done /\ (\E k \in 1..Passes : limit[k] > 0)
        => \A t \in snapshots : (\A u \in snapshots : u <= t) => t \in keep

-----------------------------------------------------------------------------
(* Loop invariant *)

Visited == snapshots \ rest

\* What the first n classes keep.
KeptBy(n) == UNION {Kept(snapshots, Bucket[k], limit[k]) : k \in 1..n}

\* What the pass under way has kept is what the rule keeps of the visited
\* snapshots, and it has met fewer buckets than its limit.
LoopInv ==
    /\ \A u \in Visited, t \in rest : u > t
    /\ class <= Passes =>
         /\ buckets = BucketsOf(Visited, Bucket[class])
         /\ Cardinality(buckets) < limit[class] \/ (limit[class] = 0 /\ Visited = {})
         /\ keep = KeptBy(class - 1) \cup Kept(Visited, Bucket[class], limit[class])
    /\ class = Passes + 1 => keep = KeepSet(snapshots, Bucket, limit)
=============================================================================
