------------------------------ MODULE Rollback ------------------------------
(***************************************************************************)
(* Staging, committing and reverting a root rollback                       *)
(* (crates/helper/src/rollback.rs).                                        *)
(*                                                                         *)
(* The helper renames the root subvolume to a return path, snapshots the   *)
(* chosen source into the freed path, and records the change three times:  *)
(* an anchor row and a plan row in SQLite, and a plan file.  Each system   *)
(* call, SQL statement and file write is one step here, because requests   *)
(* run on separate threads without a lock (dbus.rs) and because a step can *)
(* fail or the process can die between any two of them.                    *)
(***************************************************************************)
EXTENDS Integers

CONSTANTS
    Clients,     \* threads of the service and CLI processes that run requests
    Root,        \* the path the boot loader mounts as /, "@"
    Returns,     \* return paths, "@btrfs-manager/return-<time>"
    Discards,    \* discard paths, "@btrfs-manager/discarded-<time>"
    Snaps,       \* paths of the read-only snapshots one can roll back to
    MaxPlans,    \* bound: stage requests ever started
    MaxBoots,    \* bound: reboots
    MaxFaults,   \* bound: commands, statements or writes that fail
    MaxCrashes   \* bound: deaths of a process or of the machine mid-request

ASSUME NamesAssumption ==
    /\ Root \notin Returns \cup Discards \cup Snaps
    /\ Returns \cap Discards = {}
    /\ Snaps \cap (Returns \cup Discards) = {}
    /\ Returns # {} /\ Discards # {} /\ Clients # {}

ASSUME BoundsAssumption ==
    /\ MaxPlans \in Nat \ {0}
    /\ MaxBoots \in Nat /\ MaxFaults \in Nat /\ MaxCrashes \in Nat

RootPaths == {Root} \cup Returns \cup Discards
Plans == 1..MaxPlans
PlanStatus == {"awaiting_reboot", "activated", "reverted"}

NoSubvol == 0       \* nothing at a path, or no subvolume
FirstRoot == 1      \* identity of the root the machine starts on

VARIABLES
    (* Btrfs namespace and kernel *)
    fs,          \* path -> identity of the writable root there, or NoSubvol
    snaps,       \* source snapshots that still exist
    running,     \* identity of the subvolume mounted at /
    boot,        \* number of the current boot (the kernel's boot id)
    fresh,       \* next subvolume identity
    (* state kept on the top-level subvolume *)
    dbAnchors,   \* return paths with a rollback-anchor row
    dbPlan,      \* plan -> status of its row, "none" when there is no row
    file,        \* plan -> what its file holds: "none", "invalid" or a status
    (* requests *)
    plan,        \* plan -> its fields, fixed when the request built it
    nplan,       \* plans built so far; a larger plan is newer
    pc,          \* client -> step it is about to take, "idle" between requests
    job,         \* client -> plan its request works on
    discard,     \* client -> discard path of its revert
    (* bounds and history, read by no guard but their own bound *)
    faults, crashes,
    booted,      \* every subvolume that has been the running root
    orig,        \* plan -> root its rename moved away
    made,        \* plan -> root its snapshot created
    staged       \* plans whose stage request reported success

disk == <<fs, snaps, fresh>>
machine == <<running, boot, booted>>
state == <<dbAnchors, dbPlan, file>>
plans == <<plan, nplan>>
requests == <<pc, job, discard>>
history == <<orig, made, staged>>
vars == <<disk, machine, state, plans, requests, faults, crashes, history>>

Steps == {"idle", "rename", "snapshot", "anchor", "plan_row", "plan_file",
          "recover_delete", "recover_rename", "commit_db", "commit_file",
          "revert_out", "revert_in", "revert_undo", "revert_db", "revert_file"}

TypeOK ==
    /\ fs \in [RootPaths -> Nat]
    /\ snaps \subseteq Snaps
    /\ running \in Nat /\ boot \in Nat /\ fresh \in Nat
    /\ dbAnchors \subseteq RootPaths
    /\ dbPlan \in [Plans -> PlanStatus \cup {"none"}]
    /\ file \in [Plans -> PlanStatus \cup {"none", "invalid"}]
    /\ plan \in [Plans -> [source : RootPaths \cup Snaps, replaced : RootPaths,
                           ret : RootPaths, created_boot : Nat]]
    /\ nplan \in 0..MaxPlans
    /\ pc \in [Clients -> Steps]
    /\ job \in [Clients -> Plans]
    /\ discard \in [Clients -> RootPaths]
    /\ faults \in 0..MaxFaults /\ crashes \in 0..MaxCrashes
    /\ booted \subseteq Nat
    /\ orig \in [Plans -> Nat] /\ made \in [Plans -> Nat]
    /\ staged \subseteq Plans

Init ==
    /\ fs = [q \in RootPaths |-> IF q = Root THEN FirstRoot ELSE NoSubvol]
    /\ snaps = Snaps
    /\ running = FirstRoot /\ boot = 0 /\ fresh = FirstRoot + 1
    /\ dbAnchors = {}
    /\ dbPlan = [p \in Plans |-> "none"]
    /\ file = [p \in Plans |-> "none"]
    /\ plan = [p \in Plans |-> [source |-> Root, replaced |-> Root,
                                ret |-> Root, created_boot |-> 0]]
    /\ nplan = 0
    /\ pc = [c \in Clients |-> "idle"]
    /\ job = [c \in Clients |-> 1]
    /\ discard = [c \in Clients |-> Root]
    /\ faults = 0 /\ crashes = 0
    /\ booted = {FirstRoot}
    /\ orig = [p \in Plans |-> NoSubvol]
    /\ made = [p \in Plans |-> NoSubvol]
    /\ staged = {}

-----------------------------------------------------------------------------
(* Helpers *)

Exists(q) == IF q \in RootPaths THEN fs[q] # NoSubvol ELSE q \in snaps

\* rename(2) in the top-level tree: it needs a source, and a destination that is
\* absent, for a root subvolume is a directory that is not empty; a path is renamed
\* onto itself with success and without effect.
CanRename(from, to) == fs[from] # NoSubvol /\ (fs[to] = NoSubvol \/ to = from)
Rename(from, to) == fs' = [fs EXCEPT ![from] = NoSubvol, ![to] = fs[from]]

Goto(c, step) == pc' = [pc EXCEPT ![c] = step]

\* A call that may fail for a reason outside the model (I/O error, full disk,
\* database busy for longer than its timeout).
Fault == faults < MaxFaults /\ faults' = faults + 1
NoFault == UNCHANGED faults
FaultOr(ordinary) == IF ordinary THEN NoFault ELSE Fault

Readable(p) == file[p] \in PlanStatus

\* pending_rollback: the newest plan file that awaits the reboot; nothing when
\* there are only resolved files; the newest awaiting row when no file can be
\* read.
IsPending(p) ==
    \/ /\ file[p] = "awaiting_reboot"
       /\ \A q \in Plans : file[q] = "awaiting_reboot" => q <= p
    \/ /\ \A q \in Plans : ~Readable(q)
       /\ dbPlan[p] = "awaiting_reboot"
       /\ \A q \in Plans : dbPlan[q] = "awaiting_reboot" => q <= p

\* rebooted_since_staging, on which the dialog offers "keep".
RebootedSince(p) == plan[p].created_boot # boot

P(c) == plan[job[c]]

\* The return path of a plan is not the path it replaces.
Away(p) == plan[p].ret # plan[p].replaced

-----------------------------------------------------------------------------
(* stage_rollback *)

\* Validation, findmnt and build_rollback_plan.  The kernel names the mounted
\* subvolume by the path it has now, so after a rename findmnt reports the
\* new path.
StageBegin(c, s, r) ==
    /\ pc[c] = "idle" /\ nplan < MaxPlans /\ Exists(s)
    /\ \E cur \in RootPaths :
         /\ fs[cur] = running /\ running # NoSubvol
         /\ plan' = [plan EXCEPT ![nplan + 1] =
                       [source |-> s, replaced |-> cur, ret |-> r,
                        created_boot |-> boot]]
    /\ nplan' = nplan + 1
    /\ job' = [job EXCEPT ![c] = nplan + 1]
    /\ Goto(c, "rename")
    /\ UNCHANGED <<disk, machine, state, discard, faults, crashes, history>>

StageRename(c) ==
    /\ pc[c] = "rename"
    /\ \/ /\ CanRename(P(c).replaced, P(c).ret)
          /\ Rename(P(c).replaced, P(c).ret)
          /\ orig' = [orig EXCEPT ![job[c]] = fs[P(c).replaced]]
          /\ Goto(c, "snapshot")
          /\ NoFault
       \/ /\ FaultOr(~CanRename(P(c).replaced, P(c).ret))
          /\ Goto(c, "idle")
          /\ UNCHANGED <<fs, orig>>
    /\ UNCHANGED <<snaps, fresh, machine, state, plans, job, discard, crashes,
                   made, staged>>

\* btrfs subvolume snapshot <source> <replaced>.  When something has come to
\* stand at the destination the new subvolume is created inside it.
StageSnapshot(c) ==
    /\ pc[c] = "snapshot"
    /\ \/ /\ Exists(P(c).source)
          /\ IF fs[P(c).replaced] = NoSubvol
               THEN /\ fs' = [fs EXCEPT ![P(c).replaced] = fresh]
                    /\ made' = [made EXCEPT ![job[c]] = fresh]
                    /\ fresh' = fresh + 1
               ELSE UNCHANGED <<fs, made, fresh>>
          /\ Goto(c, "anchor")
          /\ NoFault
       \/ /\ FaultOr(~Exists(P(c).source))
          /\ Goto(c, "recover_delete")
          /\ UNCHANGED <<fs, made, fresh>>
    /\ UNCHANGED <<snaps, machine, state, plans, job, discard, crashes, orig,
                   staged>>

\* Mutant: two of its eight arguments, both relative paths, are swapped.
StageAnchorSwapped(c) ==
    /\ pc[c] = "anchor"
    /\ \/ dbAnchors' = dbAnchors \cup {P(c).source} /\ Goto(c, "plan_row") /\ NoFault
       \/ Fault /\ Goto(c, "recover_delete") /\ UNCHANGED dbAnchors
    /\ UNCHANGED <<disk, machine, dbPlan, file, plans, job, discard, crashes,
                   history>>

\* persist_rollback_metadata_or_recover, in its order: anchor row, plan row,
\* plan file.
StageAnchor(c) ==
    /\ pc[c] = "anchor"
    /\ \/ dbAnchors' = dbAnchors \cup {P(c).ret} /\ Goto(c, "plan_row") /\ NoFault
       \/ Fault /\ Goto(c, "recover_delete") /\ UNCHANGED dbAnchors
    /\ UNCHANGED <<disk, machine, dbPlan, file, plans, job, discard, crashes,
                   history>>

StagePlanRow(c) ==
    /\ pc[c] = "plan_row"
    /\ \/ /\ dbPlan' = [dbPlan EXCEPT ![job[c]] = "awaiting_reboot"]
          /\ Goto(c, "plan_file") /\ NoFault
       \/ Fault /\ Goto(c, "recover_delete") /\ UNCHANGED dbPlan
    /\ UNCHANGED <<disk, machine, dbAnchors, file, plans, job, discard, crashes,
                   history>>

StagePlanFile(c) ==
    /\ pc[c] = "plan_file"
    /\ \/ /\ file' = [file EXCEPT ![job[c]] = "awaiting_reboot"]
          /\ staged' = staged \cup {job[c]}
          /\ Goto(c, "idle") /\ NoFault
       \/ /\ Fault /\ Goto(c, "recover_delete")
          /\ \E left \in {"none", "invalid"} : file' = [file EXCEPT ![job[c]] = left]
          /\ UNCHANGED staged
    /\ UNCHANGED <<disk, machine, dbAnchors, dbPlan, plans, job, discard,
                   crashes, orig, made>>

\* Mutant: the recovery deletes the return path instead of the root path.
RecoverDeleteReturn(c) ==
    /\ pc[c] = "recover_delete"
    /\ fs' = [fs EXCEPT ![P(c).ret] = NoSubvol]
    /\ Goto(c, "recover_rename") /\ NoFault
    /\ UNCHANGED <<snaps, fresh, machine, state, plans, job, discard, crashes,
                   history>>

\* recover_failed_rollback_stage: delete what stands at the root path, then
\* move the old root back; each failure ends the request.
RecoverDelete(c) ==
    /\ pc[c] = "recover_delete"
    /\ \/ /\ fs' = [fs EXCEPT ![P(c).replaced] = NoSubvol]
          /\ Goto(c, "recover_rename") /\ NoFault
       \/ /\ fs[P(c).replaced] # NoSubvol
          /\ Fault /\ Goto(c, "idle") /\ UNCHANGED fs
    /\ UNCHANGED <<snaps, fresh, machine, state, plans, job, discard, crashes,
                   history>>

RecoverRename(c) ==
    /\ pc[c] = "recover_rename"
    /\ \/ /\ CanRename(P(c).ret, P(c).replaced)
          /\ Rename(P(c).ret, P(c).replaced) /\ NoFault
       \/ /\ FaultOr(~CanRename(P(c).ret, P(c).replaced))
          /\ UNCHANGED fs
    /\ Goto(c, "idle")
    /\ UNCHANGED <<snaps, fresh, machine, state, plans, job, discard, crashes,
                   history>>

-----------------------------------------------------------------------------
(* commit_rollback *)

CommitBegin(c, p) ==
    /\ pc[c] = "idle" /\ running # NoSubvol /\ IsPending(p)
    /\ job' = [job EXCEPT ![c] = p]
    /\ Goto(c, "commit_db")
    /\ UNCHANGED <<disk, machine, state, plans, discard, faults, crashes, history>>

\* UPDATE rollback_plans: it changes nothing when the plan has no row.
SetRowStatus(p, status) ==
    dbPlan' = [dbPlan EXCEPT ![p] = IF @ = "none" THEN @ ELSE status]

\* Mutant: the plan file is left as it was.
SetFileStatusForgotten(p, status) == UNCHANGED file /\ NoFault

\* update_rollback_plan_file_status: nothing to do without a file, an error
\* when the file cannot be parsed, else the file is rewritten.
SetFileStatus(p, status) ==
    \/ ~Readable(p) /\ UNCHANGED file /\ NoFault
    \/ Readable(p) /\ file' = [file EXCEPT ![p] = status] /\ NoFault
    \/ /\ Readable(p) /\ Fault
       /\ \E left \in {file[p], "invalid"} : file' = [file EXCEPT ![p] = left]

\* Mutant: a database error is logged and the file updated all the same.
CommitDbIgnoresError(c) ==
    /\ pc[c] = "commit_db"
    /\ \/ SetRowStatus(job[c], "activated") /\ NoFault
       \/ Fault /\ UNCHANGED dbPlan
    /\ Goto(c, "commit_file")
    /\ UNCHANGED <<disk, machine, dbAnchors, file, plans, job, discard, crashes,
                   history>>

CommitDb(c) ==
    /\ pc[c] = "commit_db"
    /\ \/ SetRowStatus(job[c], "activated") /\ Goto(c, "commit_file") /\ NoFault
       \/ Fault /\ Goto(c, "idle") /\ UNCHANGED dbPlan
    /\ UNCHANGED <<disk, machine, dbAnchors, file, plans, job, discard, crashes,
                   history>>

CommitFile(c) ==
    /\ pc[c] = "commit_file"
    /\ SetFileStatus(job[c], "activated")
    /\ Goto(c, "idle")
    /\ UNCHANGED <<disk, machine, dbAnchors, dbPlan, plans, job, discard,
                   crashes, history>>

-----------------------------------------------------------------------------
(* revert_rollback *)

RevertBegin(c, p, d) ==
    /\ pc[c] = "idle" /\ running # NoSubvol /\ IsPending(p)
    /\ job' = [job EXCEPT ![c] = p]
    /\ discard' = [discard EXCEPT ![c] = d]
    /\ Goto(c, "revert_out")
    /\ UNCHANGED <<disk, machine, state, plans, faults, crashes, history>>

RevertOut(c) ==
    /\ pc[c] = "revert_out"
    /\ \/ /\ CanRename(P(c).replaced, discard[c])
          /\ Rename(P(c).replaced, discard[c])
          /\ Goto(c, "revert_in") /\ NoFault
       \/ /\ FaultOr(~CanRename(P(c).replaced, discard[c]))
          /\ Goto(c, "idle") /\ UNCHANGED fs
    /\ UNCHANGED <<snaps, fresh, machine, state, plans, job, discard, crashes,
                   history>>

\* Mutant: the second rename takes the discarded root instead of the kept one.
RevertInDiscarded(c) ==
    /\ pc[c] = "revert_in"
    /\ CanRename(discard[c], P(c).replaced)
    /\ Rename(discard[c], P(c).replaced)
    /\ Goto(c, "revert_db") /\ NoFault
    /\ UNCHANGED <<snaps, fresh, machine, state, plans, job, discard, crashes,
                   history>>

RevertIn(c) ==
    /\ pc[c] = "revert_in"
    /\ \/ /\ CanRename(P(c).ret, P(c).replaced)
          /\ Rename(P(c).ret, P(c).replaced)
          /\ Goto(c, "revert_db") /\ NoFault
       \/ /\ FaultOr(~CanRename(P(c).ret, P(c).replaced))
          /\ Goto(c, "revert_undo") /\ UNCHANGED fs
    /\ UNCHANGED <<snaps, fresh, machine, state, plans, job, discard, crashes,
                   history>>

\* Mutant: a failed swap is reported without moving the current root back.
RevertUndoSkipped(c) ==
    /\ pc[c] = "revert_undo"
    /\ Goto(c, "idle") /\ NoFault
    /\ UNCHANGED <<disk, machine, state, plans, job, discard, crashes, history>>

RevertUndo(c) ==
    /\ pc[c] = "revert_undo"
    /\ \/ /\ CanRename(discard[c], P(c).replaced)
          /\ Rename(discard[c], P(c).replaced) /\ NoFault
       \/ /\ FaultOr(~CanRename(discard[c], P(c).replaced))
          /\ UNCHANGED fs
    /\ Goto(c, "idle")
    /\ UNCHANGED <<snaps, fresh, machine, state, plans, job, discard, crashes,
                   history>>

RevertDb(c) ==
    /\ pc[c] = "revert_db"
    /\ \/ SetRowStatus(job[c], "reverted") /\ Goto(c, "revert_file") /\ NoFault
       \/ Fault /\ Goto(c, "idle") /\ UNCHANGED dbPlan
    /\ UNCHANGED <<disk, machine, dbAnchors, file, plans, job, discard, crashes,
                   history>>

RevertFile(c) ==
    /\ pc[c] = "revert_file"
    /\ SetFileStatus(job[c], "reverted")
    /\ Goto(c, "idle")
    /\ UNCHANGED <<disk, machine, dbAnchors, dbPlan, plans, job, discard,
                   crashes, history>>

-----------------------------------------------------------------------------
(* The environment *)

\* Any other request or tool deletes a source snapshot.
RemoveSource(s) ==
    /\ s \in snaps /\ running # NoSubvol
    /\ snaps' = snaps \ {s}
    /\ UNCHANGED <<fs, fresh, machine, state, plans, requests, faults, crashes,
                   history>>

\* Death in the middle of a plan file write leaves a file that does not parse.
Writing(c) ==
    \/ pc[c] = "plan_file"
    \/ pc[c] \in {"commit_file", "revert_file"} /\ Readable(job[c])
TearFiles(dying) ==
    \E torn \in SUBSET {job[c] : c \in {d \in dying : Writing(d)}} :
        file' = [p \in Plans |-> IF p \in torn THEN "invalid" ELSE file[p]]

\* The process that runs a request dies; the machine stays up.
Crash(c) ==
    /\ pc[c] # "idle" /\ crashes < MaxCrashes
    /\ crashes' = crashes + 1
    /\ TearFiles({c})
    /\ Goto(c, "idle")
    /\ UNCHANGED <<disk, machine, dbAnchors, dbPlan, plans, job, discard, faults,
                   history>>

Quiet == \A c \in Clients : pc[c] = "idle"

\* A reboot, orderly or by loss of power.  The boot loader mounts Root by its
\* path; without one there the machine stays down (running = NoSubvol).
Reboot ==
    /\ running # NoSubvol /\ boot < MaxBoots
    /\ IF Quiet THEN UNCHANGED crashes
                ELSE crashes < MaxCrashes /\ crashes' = crashes + 1
    /\ boot' = boot + 1
    /\ running' = fs[Root]
    /\ booted' = booted \cup ({fs[Root]} \ {NoSubvol})
    /\ TearFiles(Clients)
    /\ pc' = [c \in Clients |-> "idle"]
    /\ UNCHANGED <<disk, dbAnchors, dbPlan, plans, job, discard, faults, history>>

-----------------------------------------------------------------------------
\* The rows that carry a rollback button: snapshots and preserved roots.
Stage(c) ==
    \E s \in Returns \cup Discards \cup Snaps, r \in Returns : StageBegin(c, s, r)

Answer(c) ==
    \/ \E p \in Plans : CommitBegin(c, p)
    \/ \E p \in Plans, d \in Discards : RevertBegin(c, p, d)

Continue(c) ==
    \/ StageRename(c) \/ StageSnapshot(c)
    \/ StageAnchor(c) \/ StagePlanRow(c) \/ StagePlanFile(c)
    \/ RecoverDelete(c) \/ RecoverRename(c)
    \/ CommitDb(c) \/ CommitFile(c)
    \/ RevertOut(c) \/ RevertIn(c) \/ RevertUndo(c)
    \/ RevertDb(c) \/ RevertFile(c)

Environment ==
    \/ \E s \in Snaps : RemoveSource(s)
    \/ \E c \in Clients : Crash(c)
    \/ Reboot

\* Requests of any number of clients, interleaved step by step: what the helper
\* allows.
Next ==
    \/ Environment
    \/ \E c \in Clients : Stage(c) \/ Answer(c) \/ Continue(c)

Spec == Init /\ [][Next]_vars

\* One request at a time: what a single GUI does, whose calls block its main
\* loop until the helper answers.
SerialNext ==
    \/ Environment
    \/ \E c \in Clients : (Quiet /\ (Stage(c) \/ Answer(c))) \/ Continue(c)

SerialSpec == Init /\ [][SerialNext]_vars

\* Several clients answer the same prompt (the dialog of a second window, the
\* CLI), but a stage has the helper for itself and starts only on the root that
\* stands at Root, with no rollback waiting for its reboot.  The code checks
\* neither.
AnswerSteps == {"idle", "commit_db", "commit_file", "revert_out", "revert_in",
                "revert_undo", "revert_db", "revert_file"}
AnswersNext ==
    \/ Environment
    \/ \E c \in Clients :
         \/ Quiet /\ fs[Root] = running /\ Stage(c)
         \/ (\A d \in Clients : pc[d] \in AnswerSteps) /\ Answer(c)
         \/ Continue(c)

AnswersSpec == Init /\ [][AnswersNext]_vars

-----------------------------------------------------------------------------
(* Properties *)

\* Every subvolume that was ever the running root is still somewhere in the namespace:
\* the recovery of a failed stage, the only step that deletes, never deletes a root the
\* user worked on ("@ recovered", rollback.rs:65).  But for one: a root whose own path
\* was given to its stage as the return path, which is where an earlier stage, before
\* the reboot, moved it.  That rename does nothing, and the recovery deletes the root.
NoRootLost ==
    \A v \in booted :
        \/ \E q \in RootPaths : fs[q] = v
        \/ \E p \in 1..nplan : ~Away(p) /\ orig[p] = v

\* Without a crash and with at most one thing gone wrong (any step that fails,
\* or else a source that disappears under the request), the boot loader finds a
\* root as soon as no request is under way: stage and revert always recover.
BootableAfterOneFault ==
    Quiet /\ crashes = 0 /\ (faults = 0 \/ (faults = 1 /\ snaps = Snaps))
        => fs[Root] # NoSubvol

\* However requests interleave, as long as nothing fails and the sources stay,
\* the boot loader finds a root whenever no request is under way.
BootableUndisturbed ==
    Quiet /\ crashes = 0 /\ faults = 0 /\ snaps = Snaps => fs[Root] # NoSubvol

\* A plan file never runs ahead of the database: a file that awaits has a row,
\* and a resolved file has a row with the same status, whatever failed or
\* crashed in between (DB first, file second in all three requests).
FileNotAheadOfDb ==
    \A p \in Plans :
        /\ file[p] = "awaiting_reboot" => dbPlan[p] # "none"
        /\ file[p] \in {"activated", "reverted"} => dbPlan[p] = file[p]

\* A revert whose swap succeeds brings back exactly the root that its plan moved
\* away ("reboot to restore original root", rollback.rs:219), however requests
\* answer, fail and die: unless its return path, which names a second of the clock,
\* was given to another plan, too.
OwnReturn(p) == \A q \in 1..nplan : plan[q].ret = plan[p].ret => q = p
RevertRestoresOriginal ==
    [][\A c \in Clients :
         pc[c] = "revert_in" /\ pc'[c] = "revert_db" /\ OwnReturn(job[c])
             => fs'[P(c).replaced] = orig[job[c]]]_vars

\* Seen through the paths alone, every step sets a root aside, brings one back, creates
\* one, withdraws one that never ran, or boots (RootKeeping); all but the recovery of a
\* stage whose return path is the path it replaces (NoRootLost), which withdraws a root
\* that ran.
Preserved == {fs[q] : q \in RootPaths \ {Root}} \ {NoSubvol}
K == INSTANCE RootKeeping WITH next <- fs[Root], kept <- Preserved,
                               used <- 1..(fresh - 1)
RecoversOntoItself == \E c \in Clients : pc[c] = "recover_delete" /\ ~Away(job[c])
KeepsRoots == K!Init /\ [][K!Next \/ RecoversOntoItself]_K!vars

\* While the newest staged rollback awaits its reboot and nothing failed, the
\* root that the boot loader will mount is the one this rollback created ("on
\* next boot the new `@` is mounted", core/src/rollback.rs:20).
StagedRootIsNext ==
    Quiet /\ faults = 0 /\ crashes = 0 /\ nplan \in staged
        /\ file[nplan] = "awaiting_reboot"
        => fs[Root] = made[nplan]

\* "Keep" is offered for the newest rollback only to a machine that runs the root
\* this rollback created, when nothing failed (dialogs/rollback.rs:60-72 offers the
\* commit on rebooted_since_staging alone).  Of an older plan it is not true: one
\* left unanswered before the next rollback is offered again once that is answered.
KeepOfferedOnStagedRoot ==
    Quiet /\ faults = 0 /\ crashes = 0 /\ running # NoSubvol
        => \A p \in Plans : p = nplan /\ IsPending(p) /\ RebootedSince(p)
                               => running = made[p]

\* A plan that the prompt offers was really staged: no prompt for a rollback
\* that was undone ("the filesystem and state never diverge", rollback.rs:94).
PendingWasStaged == Quiet => \A p \in Plans : IsPending(p) => p \in staged

-----------------------------------------------------------------------------
(* Inductive invariants of SerialSpec *)

OneRequest ==
    \A c, d \in Clients : pc[c] # "idle" /\ pc[d] # "idle" => c = d

Identities ==
    /\ fresh > NoSubvol
    /\ \A q, t \in RootPaths : fs[q] = fs[t] /\ fs[q] # NoSubvol => q = t
    /\ \A q \in RootPaths : fs[q] < fresh
    /\ \A v \in booted : v # NoSubvol /\ v < fresh

StageSteps == {"rename", "snapshot", "anchor", "plan_row", "plan_file",
               "recover_delete", "recover_rename"}

\* The recovery will delete nothing that ever ran: a rename to another path left the
\* root path empty and the snapshot that filled it has not been booted; a rename onto
\* itself left the old root there.
RecoverySafe ==
    /\ \A p \in Plans : p > nplan => orig[p] = NoSubvol
    /\ \A c \in Clients :
        /\ pc[c] \in StageSteps => job[c] \in 1..nplan
        /\ pc[c] = "rename" => orig[job[c]] = NoSubvol
        /\ Away(job[c]) =>
             /\ pc[c] = "snapshot" => fs[P(c).replaced] = NoSubvol
             /\ pc[c] \in {"anchor", "plan_row", "plan_file", "recover_delete"}
                    => fs[P(c).replaced] \notin booted
        /\ ~Away(job[c])
             /\ pc[c] \in {"snapshot", "anchor", "plan_row", "plan_file", "recover_delete"}
                 => fs[P(c).replaced] = orig[job[c]] /\ orig[job[c]] # NoSubvol

\* Why NoRootLost holds for one request at a time.
RootInv == OneRequest /\ Identities /\ RecoverySafe /\ NoRootLost

Resolved == {"activated", "reverted"}

\* Why FileNotAheadOfDb holds for one request at a time.
StatusInv ==
    /\ OneRequest
    /\ FileNotAheadOfDb
    /\ \A p \in Plans : p > nplan => file[p] = "none" /\ dbPlan[p] = "none"
    /\ \A c \in Clients :
        /\ pc[c] # "idle" => job[c] <= nplan /\ file[job[c]] \notin Resolved
        /\ pc[c] \in StageSteps => ~Readable(job[c])
        /\ pc[c] = "plan_file" => dbPlan[job[c]] # "none"
        /\ pc[c] = "commit_file" /\ Readable(job[c]) => dbPlan[job[c]] = "activated"
        /\ pc[c] = "revert_file" /\ Readable(job[c]) => dbPlan[job[c]] = "reverted"
-----------------------------------------------------------------------------
(* Inductive invariants of AnswersSpec *)

Kept == 1..nplan
Swapping == {"revert_in", "revert_undo"}

\* A stage starts on the root that stands at Root, so a plan replaces no other path.
PlansReplaceRoot ==
    \A p \in Kept : plan[p].replaced = Root /\ plan[p].ret \in Returns

\* A request works on a plan that was made, a revert on a discard path of its own kind.
OnKeptPlans ==
    /\ \A p \in Plans : p > nplan => file[p] = "none" /\ dbPlan[p] = "none"
    /\ \A c \in Clients :
         /\ pc[c] # "idle" => job[c] \in Kept
         /\ pc[c] \in {"revert_out"} \cup Swapping => discard[c] \in Discards

StageAlone ==
    \A c, d \in Clients : pc[c] \in StageSteps /\ pc[d] # "idle" => c = d

\* Who has moved the root away and not brought one back is alone with the empty path,
\* and what it moved is where it put it.
OneSwap ==
    /\ \A c, d \in Clients : pc[c] \in Swapping /\ pc[d] \in Swapping => c = d
    /\ \A c \in Clients :
         pc[c] \in Swapping => fs[Root] = NoSubvol /\ fs[discard[c]] # NoSubvol

\* A return path holds the root that one of its plans moved there.
ReturnsHoldOriginals ==
    \A r \in Returns :
        fs[r] # NoSubvol => \E p \in Kept : plan[p].ret = r /\ orig[p] = fs[r]

\* Why RevertRestoresOriginal holds for answers that interleave.
SwapInv ==
    /\ Identities /\ PlansReplaceRoot /\ OnKeptPlans
    /\ StageAlone /\ OneSwap /\ ReturnsHoldOriginals

\* Without a failure and with all sources no stage has to recover, and the path of
\* the root is empty only in the hands of a request.
RootAtHand ==
    crashes = 0 /\ faults = 0 /\ snaps = Snaps =>
        /\ \/ \E c \in Clients : pc[c] \in {"snapshot"} \cup Swapping
           \/ fs[Root] # NoSubvol
        /\ \A c \in Clients :
             /\ pc[c] \notin {"recover_delete", "recover_rename"}
             /\ pc[c] \in {"rename", "snapshot"} =>
                    Exists(P(c).source) /\ P(c).source # Root
             /\ pc[c] = "snapshot" => fs[Root] = NoSubvol

\* Where the newest rollback stands, when nothing failed: its new root is at Root, or
\* at the discard path of a revert that goes on, until a revert has brought back the
\* old one and is about to say so; and only it is answered.
NewestStands ==
    LET p == nplan
        back == fs[plan[p].ret] = NoSubvol
    IN  crashes = 0 /\ faults = 0 =>
        /\ \A c \in Clients :
             /\ pc[c] \in StageSteps => /\ job[c] = p /\ file[p] = "none"
                                        /\ plan[p].created_boot = boot
             /\ pc[c] = "snapshot" => fs[Root] = NoSubvol /\ ~back
             /\ pc[c] \in {"anchor", "plan_row", "plan_file"} =>
                    fs[Root] = made[p] /\ made[p] # NoSubvol /\ ~back
             /\ pc[c] \in {"commit_file", "revert_file"} => dbPlan[job[c]] # "awaiting_reboot"
        /\ p \in Plans /\ file[p] = "awaiting_reboot" =>
             /\ \A c \in Clients : pc[c] # "idle" => job[c] = p
             /\ made[p] # NoSubvol
             /\ back => \E c \in Clients : pc[c] \in {"revert_db", "revert_file"}
             /\ ~back => \/ fs[Root] = made[p]
                         \/ \E c \in Clients : pc[c] \in Swapping /\ fs[discard[c]] = made[p]
             /\ RebootedSince(p) => running = made[p]
        /\ p \in Plans /\ dbPlan[p] = "awaiting_reboot" =>
             file[p] = "awaiting_reboot" \/ \E c \in Clients : pc[c] = "plan_file"

\* Why the other properties of AnswersSpec hold.
AnswersInv == SwapInv /\ RootAtHand /\ NewestStands

-----------------------------------------------------------------------------
(* Why BootableAfterOneFault holds for one request at a time *)

Undisturbed == crashes = 0 /\ faults = 0 /\ snaps = Snaps
OneDisturbance == crashes = 0 /\ (faults = 0 \/ (faults = 1 /\ snaps = Snaps))

PlansFromRows ==
    /\ \A p \in Kept : /\ plan[p].ret \in Returns
                       /\ plan[p].source \in Returns \cup Discards \cup Snaps
    /\ \A c \in Clients : pc[c] \in {"revert_out"} \cup Swapping => discard[c] \in Discards

\* The request may have left the path it replaces empty.
Moved == {"snapshot", "recover_delete", "recover_rename"} \cup Swapping

\* Root is empty only in the hands of a request that can still fill it: what it moved
\* away stands where it put it, and nothing is in its way.  A recovery that no fault
\* caused has met a source that was gone or that was the very root moved away.  (A
\* rename onto itself moves nothing; it is never one of Root.)
RootReturns ==
    OneDisturbance =>
        /\ fs[Root] # NoSubvol \/ \E c \in Clients : pc[c] \in Moved /\ P(c).replaced = Root
        /\ \A c \in Clients :
             /\ pc[c] \in {"rename", "snapshot"} /\ Undisturbed
                    /\ (P(c).source # P(c).replaced \/ ~Away(job[c])) => Exists(P(c).source)
             /\ pc[c] \in {"recover_delete", "recover_rename"} /\ Undisturbed
                    => P(c).source = P(c).replaced /\ Away(job[c])
             /\ pc[c] \in Swapping =>
                  /\ fs[discard[c]] # NoSubvol
                  /\ fs[P(c).replaced] = NoSubvol \/ discard[c] = P(c).replaced
             /\ Away(job[c]) =>
                  /\ pc[c] \in StageSteps \ {"rename"} => fs[P(c).ret] # NoSubvol
                  /\ pc[c] \in {"snapshot", "recover_rename"} => fs[P(c).replaced] = NoSubvol
                  /\ pc[c] = "recover_delete" /\ faults = 0 => fs[P(c).replaced] = NoSubvol
                  /\ pc[c] = "revert_undo" /\ discard[c] # P(c).replaced => ~Undisturbed

\* The root that a staged plan moved away stays at its return path, which no other such
\* plan has, until the revert brings it back or a request is replacing it.
ReturnsStay ==
    Undisturbed =>
        /\ \A p \in Kept : file[p] = "awaiting_reboot" /\ Away(p) =>
             /\ \/ fs[plan[p].ret] # NoSubvol
                \/ \E c \in Clients : pc[c] \in Moved /\ P(c).replaced = plan[p].ret
                \/ \E c \in Clients : pc[c] \in {"revert_db", "revert_file"} /\ job[c] = p
             /\ \A q \in Kept :
                    file[q] = "awaiting_reboot" /\ Away(q) /\ plan[q].ret = plan[p].ret => q = p
             /\ \A c \in Clients :
                    pc[c] \in StageSteps \ {"rename"} /\ Away(job[c]) => P(c).ret # plan[p].ret
        /\ \A p \in Plans : dbPlan[p] = "awaiting_reboot" =>
             file[p] = "awaiting_reboot" \/ \E c \in Clients : pc[c] = "plan_file" /\ job[c] = p
        /\ \A c \in Clients :
             pc[c] \in {"revert_out", "revert_in"} => file[job[c]] = "awaiting_reboot"

BootableInv == PlansFromRows /\ RootReturns /\ ReturnsStay
=============================================================================
