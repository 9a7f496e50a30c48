------------------------------- MODULE TopLevel -------------------------------
(***************************************************************************)
(* How a request of the helper reaches a filesystem and its state database *)
(* (crates/helper/src/infra.rs): the top level is mounted unless it already*)
(* is, the manager's subvolume created unless it exists, the database      *)
(* opened.  Requests run on threads of their own, each command is a step.  *)
(***************************************************************************)
EXTENDS Naturals

CONSTANTS
    Requests,     \* requests of one filesystem, handled at any time
    MaxFaults     \* bound: failing commands

VARIABLES
    depth,        \* mounts stacked at the path of the top level
    manager,      \* @btrfs-manager exists on the filesystem
    database,     \* and holds the database
    pc,           \* request -> its next step
    kind,         \* request -> what it needs: only the mount, or the state store
    faults,
    fooled,       \* history: a findmnt that failed was taken for "not mounted"
    overlapped    \* history: a request came while another was under way

vars == <<depth, manager, database, pc, kind, faults, fooled, overlapped>>
history == <<fooled, overlapped>>

Steps == {"uuid", "mounted", "mount", "look", "create", "show", "open"}

TypeOK ==
    /\ depth \in Nat /\ manager \in BOOLEAN /\ database \in BOOLEAN
    /\ pc \in [Requests -> Steps \cup {"new", "done", "failed"}]
    /\ kind \in [Requests -> {"mount", "store"}]
    /\ faults \in 0..MaxFaults /\ fooled \in BOOLEAN /\ overlapped \in BOOLEAN

Init ==
    /\ depth = 0 /\ manager \in BOOLEAN /\ database \in {FALSE, manager}
    /\ pc = [r \in Requests |-> "new"] /\ kind = [r \in Requests |-> "mount"]
    /\ faults = 0 /\ fooled = FALSE /\ overlapped = FALSE

Goto(r, step) == pc' = [pc EXCEPT ![r] = step]
Fault == faults < MaxFaults /\ faults' = faults + 1
UnderWay(r) == pc[r] \in Steps

Receive(r) ==
    /\ pc[r] = "new" /\ Goto(r, "uuid")
    /\ \E k \in {"mount", "store"} : kind' = [kind EXCEPT ![r] = k]
    /\ overlapped' = (overlapped \/ \E other \in Requests : UnderWay(other))
    /\ UNCHANGED <<depth, manager, database, faults, fooled>>

-----------------------------------------------------------------------------
(* ensure_top_level_mount *)

FindUuid(r) ==
    /\ pc[r] = "uuid"
    /\ \/ Goto(r, "mounted") /\ UNCHANGED faults
       \/ Goto(r, "failed") /\ Fault
    /\ UNCHANGED <<depth, manager, database, kind, history>>

Mounted(r) == IF kind[r] = "store" THEN "look" ELSE "done"

\* Mutant: it is mounted each time.
FindMountNever(r) ==
    /\ pc[r] = "mounted" /\ Goto(r, "mount")
    /\ UNCHANGED <<depth, manager, database, kind, faults, history>>

FindMount(r) ==
    /\ pc[r] = "mounted"
    /\ \/ Goto(r, IF depth > 0 THEN Mounted(r) ELSE "mount") /\ UNCHANGED <<faults, fooled>>
       \/ Goto(r, "mount") /\ Fault /\ fooled' = TRUE
    /\ UNCHANGED <<depth, manager, database, kind, overlapped>>

\* findmnt for the device, create_dir_all, mount.  A filesystem that is mounted over
\* itself is refused or stacked: mount(8) has done both.
MountTop(r) ==
    /\ pc[r] = "mount"
    /\ \/ depth' = depth + 1 /\ Goto(r, Mounted(r)) /\ UNCHANGED faults
       \/ depth > 0 /\ Goto(r, "failed") /\ UNCHANGED <<depth, faults>>
       \/ Goto(r, "failed") /\ Fault /\ UNCHANGED depth
    /\ UNCHANGED <<manager, database, kind, history>>

-----------------------------------------------------------------------------
(* ensure_manager_subvolume_at_top_level, state_store_at_top_level *)

LookForManager(r) ==
    /\ pc[r] = "look" /\ Goto(r, IF manager THEN "show" ELSE "create")
    /\ UNCHANGED <<depth, manager, database, kind, faults, history>>

\* btrfs refuses to create what exists.
CreateManager(r) ==
    /\ pc[r] = "create"
    /\ \/ ~manager /\ manager' = TRUE /\ Goto(r, "open") /\ UNCHANGED faults
       \/ manager /\ Goto(r, "failed") /\ UNCHANGED <<manager, faults>>
       \/ Goto(r, "failed") /\ Fault /\ UNCHANGED manager
    /\ UNCHANGED <<depth, database, kind, history>>

ShowManager(r) ==
    /\ pc[r] = "show"
    /\ \/ Goto(r, "open") /\ UNCHANGED faults
       \/ Goto(r, "failed") /\ Fault
    /\ UNCHANGED <<depth, manager, database, kind, history>>

\* StateStore::open_at creates the file and its tables when they are missing.
OpenStore(r) ==
    /\ pc[r] = "open"
    /\ \/ database' = TRUE /\ Goto(r, "done") /\ UNCHANGED faults
       \/ Goto(r, "failed") /\ Fault /\ UNCHANGED database
    /\ UNCHANGED <<depth, manager, kind, history>>

\* What is mounted under /run is gone, and so are the requests.
Reboot ==
    /\ depth > 0 /\ depth' = 0
    /\ pc' = [r \in Requests |-> IF pc[r] = "new" THEN "new" ELSE "failed"]
    /\ Fault
    /\ UNCHANGED <<manager, database, kind, history>>

Next ==
    \/ \E r \in Requests :
          Receive(r) \/ FindUuid(r) \/ FindMount(r) \/ MountTop(r)
          \/ LookForManager(r) \/ CreateManager(r) \/ ShowManager(r) \/ OpenStore(r)
    \/ Reboot

Spec == Init /\ [][Next]_vars

-----------------------------------------------------------------------------
(* Properties *)

\* A request that goes on has the top level mounted, and one that has its store also
\* the manager's subvolume with the database; requests that do not overlap mount it
\* once ("subsequent calls are idempotent", infra.rs:36-38), unless a findmnt failed;
\* and without a failing command none of them is refused (infra.rs:39-161).
StoreReady ==
    /\ \A r \in Requests : pc[r] \in {"look", "create", "show", "open", "done"} => depth > 0
    /\ \A r \in Requests : pc[r] = "done" /\ kind[r] = "store" => manager /\ database
    /\ depth > 1 => fooled \/ overlapped
    /\ (\E r \in Requests : pc[r] = "failed") => faults > 0 \/ overlapped


-----------------------------------------------------------------------------
(* Inductive strengthening *)

\* A request that found or created the manager's subvolume relies on it; a findmnt
\* that misled a request has failed.
Found ==
    /\ \A r \in Requests : pc[r] \in {"show", "open"} => manager
    /\ fooled => faults > 0

\* Requests that do not overlap come one after the other, and what one of them saw
\* still holds when it acts upon it.
OneAtATime ==
    ~overlapped =>
        /\ \A r, other \in Requests : UnderWay(r) /\ UnderWay(other) => r = other
        /\ \A r \in Requests : pc[r] = "mount" => fooled \/ depth = 0
        /\ \A r \in Requests : pc[r] = "create" => ~manager

TopInv == TypeOK /\ Found /\ OneAtATime /\ StoreReady
==============================================================================
