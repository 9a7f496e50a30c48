----------------------------- MODULE MCDesktop -----------------------------
(* An instance of Desktop for TLC. *)
EXTENDS Desktop, TLC

CONSTANTS a, e

\* Search texts and filters let everything through, or one path.
Views == {{a, e}, {a}}

\* The windows are alike, and so are the snapshots and the tasks of Mounts; the other
\* parts have values of their own.
Symmetry == Permutations(Windows) \cup Permutations(Snaps) \cup Permutations(Tasks \ {Main})
=============================================================================
