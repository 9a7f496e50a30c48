---------------------------- MODULE RootKeeping -----------------------------
(***************************************************************************)
(* What a reversible rollback promises, without paths, rows or files:      *)
(* roots are set aside and brought back, and the only root that ever       *)
(* disappears is one the machine never ran on (docs/architecture.md,       *)
(* "Rollback is staged as a reversible transaction").                      *)
(***************************************************************************)
EXTENDS Naturals

VARIABLES
    next,      \* root the boot loader would mount now, 0 for none
    kept,      \* roots preserved under another path
    used,      \* every root identity handed out so far
    running,   \* root the machine runs on, 0 when it found none
    booted     \* every root the machine has run on

vars == <<next, kept, used, running, booted>>

Init ==
    /\ next = 1 /\ kept = {} /\ used = {1}
    /\ running = 1 /\ booted = {1}

SetAside ==
    /\ next # 0
    /\ kept' = kept \cup {next} /\ next' = 0
    /\ UNCHANGED <<used, running, booted>>

BringBack ==
    /\ next = 0
    /\ next' \in kept /\ kept' = kept \ {next'}
    /\ UNCHANGED <<used, running, booted>>

Create ==
    \E v \in used' \ used :
        /\ v # 0 /\ used' = used \cup {v}
        /\ \/ next = 0 /\ next' = v /\ UNCHANGED kept
           \/ kept' = kept \cup {v} /\ UNCHANGED next
        /\ UNCHANGED <<running, booted>>

Withdraw ==
    /\ \/ next # 0 /\ next \notin booted /\ next' = 0 /\ UNCHANGED kept
       \/ \E v \in kept \ booted : kept' = kept \ {v} /\ UNCHANGED next
    /\ UNCHANGED <<used, running, booted>>

Boot ==
    /\ running # 0
    /\ running' = next /\ booted' = booted \cup ({next} \ {0})
    /\ UNCHANGED <<next, kept, used>>

Next == SetAside \/ BringBack \/ Create \/ Withdraw \/ Boot

Spec == Init /\ [][Next]_vars
=============================================================================
