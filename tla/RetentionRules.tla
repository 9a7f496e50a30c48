--------------------------- MODULE RetentionRules ---------------------------
(***************************************************************************)
(* Which snapshots a retention policy keeps (crates/core/src/retention.rs),*)
(* stated without a loop.  A snapshot is its creation time; a bucket       *)
(* function sends a time to its hour, day, ISO week or month.              *)
(***************************************************************************)
EXTENDS Integers, FiniteSets

Newer(T, t) == {u \in T : u > t}
BucketsOf(T, bucket) == {bucket[u] : u \in T}

\* One class keeps the newest snapshot of each of the newest "limit" buckets.
Kept(T, bucket, limit) ==
    {t \in T : /\ bucket[t] \notin BucketsOf(Newer(T, t), bucket)
               /\ Cardinality(BucketsOf(Newer(T, t), bucket)) < limit}

\* A snapshot stays when any class keeps it.
KeepSet(T, bucket, limit) ==
    UNION {Kept(T, bucket[k], limit[k]) : k \in DOMAIN bucket}
=============================================================================
