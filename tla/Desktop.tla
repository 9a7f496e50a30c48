------------------------------- MODULE Desktop -------------------------------
(***************************************************************************)
(* The parts of the desktop program and of the helper that share no state: *)
(* mounts, the main list, notifications, the update, the top level.  A     *)
(* behaviour is one of one of them, the others stay as they began: what    *)
(* each part does is checked in full, and nothing is lost by not           *)
(* interleaving steps that cannot disturb each other.                      *)
(***************************************************************************)
EXTENDS Mounts

CONSTANTS
    Filesystems, Root, Bare, Paths, External, Searches, Filters,  \* of Inventory
    Futures, FirstFuture, ListTrouble,                            \* its Tasks, First, MaxTrouble
    Policies, Runs, Limit, Hour, MaxTime, LogFaults,              \* of Notifications
    LastRelease, UpdateFaults,                                    \* of Update
    Requests, TopFaults                                           \* of TopLevel

ASSUME InventoryAssumption ==
    /\ None \notin Filesystems /\ Root \in Filesystems /\ Bare \subseteq Filesystems
    /\ External \subseteq Paths
    /\ Searches \subseteq SUBSET Paths /\ Paths \in Searches     \* the empty search text
    /\ Filters \subseteq SUBSET Paths /\ Filters # {}
    /\ FirstFuture \in Futures /\ ListTrouble \in Nat
ASSUME NotificationsAssumption ==
    /\ Runs \subseteq Nat /\ Limit \in Nat /\ Hour \in Nat \ {0} /\ MaxTime \in Nat /\ LogFaults \in Nat
ASSUME UpdateAssumption == LastRelease \in Nat /\ UpdateFaults \in Nat
ASSUME TopAssumption == TopFaults \in Nat

VARIABLES
    selector, inventory, list, marked, selected, selecting, search, filter,
    dialog, request, captured, trouble, unpatient, emptied,
    clock, run, file, check, told, lost, excused, twice,
    assets, installed, running, pending, offered, task, got, saved, ended, between, damage,
    stacked, manager, database, step, kind, failures, fooled, overlapped,
    part

listVars == <<selector, inventory, list, marked, selected, selecting, search, filter,
              dialog, request, captured, trouble, unpatient, emptied>>
notifyVars == <<clock, run, file, check, told, lost, excused, twice>>
updateVars == <<assets, installed, running, pending, offered, task, got, saved, ended, between, damage>>
topVars == <<stacked, manager, database, step, kind, failures, fooled, overlapped>>

List == INSTANCE Inventory WITH
    Tasks <- Futures, First <- FirstFuture, MaxTrouble <- ListTrouble,
    pc <- request, job <- captured, hasty <- unpatient

Notify == INSTANCE Notifications WITH MaxFaults <- LogFaults, faults <- lost

Updates == INSTANCE Update WITH
    MaxFaults <- UpdateFaults, faults <- damage, dead <- ended, others <- between

TopMount == INSTANCE TopLevel WITH
    MaxFaults <- TopFaults, depth <- stacked, pc <- step, faults <- failures

DesktopInit ==
    /\ part \in {"mounts", "list", "notify", "updates", "top"}
    /\ Init /\ (part # "mounts" => ~owned)
    /\ List!Init /\ (part # "list" => filter = CHOOSE f \in Filters : TRUE)
    /\ Notify!Init
    /\ Updates!Init
    /\ TopMount!Init /\ (part # "top" => manager /\ database)

DesktopNext ==
    /\ UNCHANGED part
    /\ \/ part = "mounts" /\ Next
          /\ UNCHANGED <<listVars, notifyVars, updateVars, topVars>>
       \/ part = "list" /\ List!Next
          /\ UNCHANGED <<vars, notifyVars, updateVars, topVars>>
       \/ part = "notify" /\ Notify!Next
          /\ UNCHANGED <<vars, listVars, updateVars, topVars>>
       \/ part = "updates" /\ Updates!Next
          /\ UNCHANGED <<vars, listVars, notifyVars, topVars>>
       \/ part = "top" /\ TopMount!Next
          /\ UNCHANGED <<vars, listVars, notifyVars, updateVars>>

DesktopSpec == DesktopInit /\ [][DesktopNext]_<<vars, listVars, notifyVars, updateVars, topVars, part>>

-----------------------------------------------------------------------------

\* Every part keeps its state in its types.
DesktopTypeOK ==
    CASE part = "mounts" -> TypeOK
      [] part = "list" -> List!TypeOK
      [] part = "notify" -> Notify!TypeOK
      [] part = "updates" -> Updates!TypeOK
      [] part = "top" -> TopMount!TypeOK

\* What is queued for deletion is what the user sees selected (Inventory).
SelectedIsVisible == List!SelectedIsVisible

\* A batch is asked for on rows of the list, of their filesystem (Inventory).
BulkDeleteWasShown == List!BulkDeleteWasShown

\* The list never stays at "loading", and shows the selected filesystem (Inventory).
ShownIsCurrent == List!ShownIsCurrent

\* The user is told once of each scheduled run (Notifications).
ToldOnce == Notify!ToldOnce

\* Only published packages are installed, and never older ones (Update).
UpdatesAreSound == Updates!UpdatesAreSound

\* A request has what it needs mounted and created (TopLevel).
StoreReady == TopMount!StoreReady
=============================================================================
