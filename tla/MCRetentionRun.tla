--------------------------- MODULE MCRetentionRun ---------------------------
(* Instances of RetentionRun for TLC. *)
EXTENDS RetentionRun, TLC

CONSTANTS timer, gui

\* The runs of the timer and of the GUI are alike.
Symmetry == Permutations(Clients)

\* Two readings to a second, four to an hour, eight to a day.
MCName == [t \in Times |-> t \div 2 + 1]
MCPaths == {MCName[t] : t \in Times}
MCBucket == <<[t \in Times |-> t \div 4], [t \in Times |-> t \div 8]>>
MCLimit == <<2, 1>>

\* The clock goes back: the fifth reading and the first share a name.
RepeatedName == [t \in Times |-> IF t < 5 THEN t ELSE t - 4]
=============================================================================
