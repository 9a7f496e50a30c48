------------------------- MODULE MCManagedSnapshots -------------------------
(* Instances of ManagedSnapshots for TLC. *)
EXTENDS ManagedSnapshots, TLC

\* Clients, snapshot paths and return paths are alike.
Symmetry ==
    Permutations(Clients) \cup Permutations(Names) \cup Permutations(Anchors)
=============================================================================
