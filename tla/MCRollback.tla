----------------------------- MODULE MCRollback -----------------------------
(* Instances of Rollback for TLC. *)
EXTENDS Rollback, TLC

\* Return and discard paths differ only by a time stamp, and clients are alike.
Symmetry ==
    Permutations(Returns) \cup Permutations(Discards) \cup Permutations(Clients)
=============================================================================
