------------------------------ MODULE MCPolicy ------------------------------
(* An instance of PolicyDialog for TLC. *)
EXTENDS PolicyDialog

CONSTANTS home, hourly, daily, small, none

MCDefault == [subvol |-> home, schedule |-> hourly, plan |-> small, enabled |-> TRUE]
MCGiven == {MCDefault}
=============================================================================
