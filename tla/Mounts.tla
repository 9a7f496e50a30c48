------------------------------- MODULE Mounts -------------------------------
(***************************************************************************)
(* The mounts of the helper (crates/helper/src/mount_ops.rs, infra.rs) and *)
(* what the GUI remembers of them (crates/app/src/gui/mounts.rs, row.rs).  *)
(* Starting the program again opens another window of the same process,    *)
(* with a memory of its own (gui/mod.rs:49-56).  Buttons start tasks that  *)
(* overlap; a task is a sequence of calls of the helper, and its outcome   *)
(* is shown by the main loop.  Opening and closing a window call the       *)
(* helper synchronously: the main loop waits, for all windows.             *)
(***************************************************************************)
EXTENDS Naturals, FiniteSets

CONSTANTS
    Snaps,       \* snapshots, each a row with a browse and an unmount button
    Windows,
    Tasks,       \* calls and threads under way at the same time
    Main,        \* the task that is the main loop itself
    MaxDepth,    \* bound: mounts on top of each other at one place
    MaxTrouble   \* bound: failing calls, busy mounts, a killed program, an
                 \* impatient user; a start of a program that runs counts for two

ASSUME TaskAssumption == Main \in Tasks
ASSUME BoundAssumption == MaxDepth \in Nat \ {0} /\ MaxTrouble \in Nat

\* A snapshot's target under the runtime directory, its target under /tmp, and
\* the mount of the top level of the filesystem.
Top == <<"top", "top">>
Places == ({"browse", "fallback"} \X Snaps) \cup {Top}
Browse(s) == <<"browse", s>>

VARIABLES
    depth,      \* place -> how many mounts are stacked there
    owned,      \* the runtime directory is not writable (an earlier sudo)
    gui,        \* window -> down, starting, up, closing; the process lives as long as one is not down
    mounted,    \* window -> UiState.mounted_snapshots
    session,    \* window -> UiState.session_mounts
    rows,       \* window -> snapshot -> the sensitive button of its row
    pc, job,    \* task -> its next step, its local variables
    faults,     \* what failed, and how often a button was pressed, or a window opened or
                \* closed, before an earlier answer came
    starts,     \* history: how often the program was started while it ran
    stray       \* history: places that were mounted over, or mounted while a window opened

vars == <<depth, owned, gui, mounted, session, rows, pc, job, faults, starts, stray>>

Steps == {"idle", "target", "preunmount", "mount", "open", "shown", "umount",
          "unmounted", "list", "clean", "cleaned", "lastmount", "lastumount"}
None == "none"

\* window: whose state the outcome changes; None when it is gone.
Jobs == [window : Windows \cup {None}, snap : Snaps \cup {None},
         place : Places, todo : [Places -> 0..MaxDepth], read : BOOLEAN]
Nothing == [p \in Places |-> 0]
NoJob == [window |-> None, snap |-> None, place |-> Top, todo |-> Nothing, read |-> TRUE]

ASSUME NoneAssumption == None \notin Snaps /\ None \notin Windows

TypeOK ==
    /\ depth \in [Places -> 0..MaxDepth] /\ owned \in BOOLEAN
    /\ gui \in [Windows -> {"down", "starting", "up", "closing"}]
    /\ mounted \in [Windows -> SUBSET (Places \ {Top})] /\ session \in [Windows -> SUBSET (Places \ {Top})]
    /\ rows \in [Windows -> [Snaps -> {"browse", "unmount"}]]
    /\ pc \in [Tasks -> Steps] /\ job \in [Tasks -> Jobs]
    /\ \A t \in Tasks : pc[t] \in {"preunmount", "mount", "open", "shown", "umount", "unmounted",
                                   "lastmount", "lastumount"} => job[t].place # Top
    /\ \A t \in Tasks : pc[t] \in {"target", "preunmount", "mount", "open", "shown", "umount",
                                   "unmounted"} => job[t].snap # None
    /\ faults \in 0..MaxTrouble /\ starts \in 0..MaxTrouble /\ stray \subseteq Places

NewRows == [s \in Snaps |-> "browse"]

Init ==
    /\ depth = [p \in Places |-> IF p = Top THEN 1 ELSE 0] /\ owned \in BOOLEAN
    /\ gui = [w \in Windows |-> "down"] /\ rows = [w \in Windows |-> NewRows]
    /\ mounted = [w \in Windows |-> {}] /\ session = [w \in Windows |-> {}]
    /\ pc = [t \in Tasks |-> "idle"] /\ job = [t \in Tasks |-> NoJob]
    /\ faults = 0 /\ starts = 0 /\ stray = {}

-----------------------------------------------------------------------------

Goto(t, step) == pc' = [pc EXCEPT ![t] = step]
Done(t) == Goto(t, "idle") /\ job' = [job EXCEPT ![t] = NoJob]
Fault == faults + 2 * starts < MaxTrouble /\ faults' = faults + 1
Hasty(early) == IF early THEN Fault ELSE UNCHANGED faults
memory == <<mounted, session, rows>>
state == <<gui, memory, owned>>
history == <<starts, stray>>

\* The main loop answers; something is under way.
Alive == \E w \in Windows : gui[w] # "down"
Free == \A w \in Windows : gui[w] \in {"down", "up"}
Quiet == \A t \in Tasks : pc[t] = "idle"

\* umount takes the uppermost mount of a place, unless it is busy.  A filesystem that
\* is mounted over itself is refused or stacked: mount(8) has done both.
Umounted(p) == depth[p] > 0 /\ depth' = [depth EXCEPT ![p] = @ - 1]
MountOn(p) ==
    /\ depth[p] < MaxDepth /\ depth' = [depth EXCEPT ![p] = @ + 1]
    /\ stray' = IF depth[p] > 0 \/ \E w \in Windows : gui[w] = "starting"
                THEN stray \cup {p} ELSE stray

\* A button of a window starts a task; nothing disables it before the answer.
Working(s) == \E t \in Tasks : pc[t] # "idle" /\ (job[t].snap = s \/ pc[t] \in {"list", "clean", "cleaned"})
Press(w, t, step, j, early) ==
    /\ Free /\ gui[w] = "up" /\ t # Main /\ pc[t] = "idle"
    /\ Goto(t, step) /\ job' = [job EXCEPT ![t] = [j EXCEPT !.window = w]]
    /\ Hasty(early)
    /\ UNCHANGED <<depth, state, history>>

-----------------------------------------------------------------------------
(* Browse: browse_snapshot_readonly on a thread of its own *)

PressBrowse(w, t, s) ==
    /\ rows[w][s] = "browse"
    /\ Press(w, t, "target", [NoJob EXCEPT !.snap = s], Working(s))

\* Mutant: the target is not kept.
BrowseTargetUnset(t) ==
    /\ pc[t] = "target" /\ Goto(t, "preunmount")
    /\ UNCHANGED <<depth, state, job, faults, history>>

\* ensure_browse_target falls back to /tmp.
BrowseTarget(t) ==
    /\ pc[t] = "target"
    /\ \/ /\ job' = [job EXCEPT ![t].place = <<IF owned THEN "fallback" ELSE "browse", job[t].snap>>]
          /\ Goto(t, "preunmount") /\ UNCHANGED faults
       \/ Fault /\ Done(t)
    /\ UNCHANGED <<depth, state, history>>

\* Whatever is mounted there is unmounted once; errors are ignored.
BrowseUnmount(t) ==
    /\ pc[t] = "preunmount" /\ Goto(t, "mount")
    /\ \/ Umounted(job[t].place) /\ UNCHANGED faults
       \/ depth[job[t].place] = 0 /\ UNCHANGED <<depth, faults>>
       \/ Fault /\ UNCHANGED depth
    /\ UNCHANGED <<state, job, history>>

\* MountSubvolume: findmnt, create_dir_all, mount.
BrowseMount(t) ==
    /\ pc[t] = "mount"
    /\ \/ MountOn(job[t].place) /\ Goto(t, "open") /\ UNCHANGED <<job, faults>>
       \/ depth[job[t].place] > 0 /\ Done(t) /\ UNCHANGED <<depth, stray, faults>>
       \/ Fault /\ Done(t) /\ UNCHANGED <<depth, stray>>
    /\ UNCHANGED <<state, starts>>

\* The file manager; when it cannot be opened the mount stays, unrecorded.
BrowseOpen(t) ==
    /\ pc[t] = "open"
    /\ \/ Goto(t, "shown") /\ UNCHANGED <<job, faults>>
       \/ Fault /\ Done(t)
    /\ UNCHANGED <<depth, state, history>>

\* The outcome changes the row whose button was pressed; when the list was drawn again
\* meanwhile it is no longer there, and the new one stays as it is.  (Which of the two
\* is left open: tasks do not remember when the rows were drawn.)
Shown(t, step, button) ==
    /\ pc[t] = step /\ job[t].window # None /\ Free /\ Done(t)
    /\ rows' \in {rows, [rows EXCEPT ![job[t].window][job[t].snap] = button]}
    /\ UNCHANGED <<depth, owned, gui, faults, history>>

\* Mutant: the mount is not recorded for the end of the session.
BrowseShownOnly(t) ==
    /\ Shown(t, "shown", "unmount")
    /\ mounted' = [mounted EXCEPT ![job[t].window] = @ \cup {job[t].place}]
    /\ UNCHANGED session

BrowseShown(t) ==
    /\ Shown(t, "shown", "unmount")
    /\ mounted' = [mounted EXCEPT ![job[t].window] = @ \cup {job[t].place}]
    /\ session' = [session EXCEPT ![job[t].window] = @ \cup {job[t].place}]

-----------------------------------------------------------------------------
(* Unmount and cleanup *)

PressUnmount(w, t, s) ==
    /\ rows[w][s] = "unmount"
    /\ Press(w, t, "umount", [NoJob EXCEPT !.snap = s, !.place = Browse(s)], Working(s))

\* The row unmounts its target under the runtime directory.
UnmountRun(t) ==
    /\ pc[t] = "umount"
    /\ \/ Umounted(job[t].place) /\ Goto(t, "unmounted") /\ UNCHANGED <<job, faults>>
       \/ depth[job[t].place] = 0 /\ Done(t) /\ UNCHANGED <<depth, faults>>
       \/ Fault /\ Done(t) /\ UNCHANGED depth
    /\ UNCHANGED <<state, history>>

\* Mutant: only the row learns of it.
UnmountShownRow(t) ==
    Shown(t, "unmounted", "browse") /\ UNCHANGED <<mounted, session>>

UnmountShown(t) ==
    /\ Shown(t, "unmounted", "browse")
    /\ mounted' = [mounted EXCEPT ![job[t].window] = @ \ {job[t].place}]
    /\ UNCHANGED session

PressCleanup(w, t) == Press(w, t, "list", NoJob, ~Quiet)

\* Mutant: the roots of the top-level mounts count as managed, too.
ManagedAll(p) == p[1] \in {"browse", "top"}

\* managed_mount_roots: the runtime directory only.
Managed(p) == p[1] = "browse"

\* All targets are listed and sorted; neighbours that are equal count once, so a
\* place with several mounts may be listed several times.  A listing that fails
\* counts as an empty one.
CleanupList(t) ==
    /\ pc[t] = "list" /\ Goto(t, "clean")
    /\ LET listed == {p \in Places : Managed(p) /\ depth[p] > 0}
       IN  \/ /\ \E times \in [listed -> 1..MaxDepth] :
                   /\ \A p \in listed : times[p] <= depth[p]
                   /\ Cardinality(listed) = 1 => \A p \in listed : times[p] = 1
                   /\ job' = [job EXCEPT ![t].todo =
                                [p \in Places |-> IF p \in listed THEN times[p] ELSE 0]]
              /\ UNCHANGED faults
           \/ Fault /\ job' = [job EXCEPT ![t].read = FALSE]
    /\ UNCHANGED <<depth, state, history>>

\* Mutant: an error ends the loop and the answer is still "cleaned up".
CleanupUmountLenient(t) ==
    /\ pc[t] = "clean"
    /\ \E p \in Places :
         /\ job[t].todo[p] > 0
         /\ \/ Umounted(p) /\ job' = [job EXCEPT ![t].todo[p] = @ - 1] /\ UNCHANGED <<pc, faults>>
            \/ Fault /\ UNCHANGED <<depth, job>> /\ Goto(t, "cleaned")
    /\ UNCHANGED <<state, history>>

\* umount one by one; the first error ends the request.
CleanupUmount(t) ==
    /\ pc[t] = "clean"
    /\ \E p \in Places :
         /\ job[t].todo[p] > 0
         /\ \/ Umounted(p) /\ job' = [job EXCEPT ![t].todo[p] = @ - 1] /\ UNCHANGED <<pc, faults>>
            \/ depth[p] = 0 /\ Done(t) /\ UNCHANGED <<depth, faults>>
            \/ Fault /\ Done(t) /\ UNCHANGED depth
    /\ UNCHANGED <<state, history>>

CleanupEnd(t) ==
    /\ pc[t] = "clean" /\ job[t].todo = Nothing /\ Goto(t, "cleaned")
    /\ UNCHANGED <<depth, state, job, faults, history>>

\* Only a success clears what the window remembers; the rows stay as they are.
Forget(w) ==
    /\ mounted' = [mounted EXCEPT ![w] = {}] /\ session' = [session EXCEPT ![w] = {}]
CleanupShown(t) ==
    /\ pc[t] = "cleaned" /\ job[t].window # None /\ Free /\ Done(t)
    /\ Forget(job[t].window)
    /\ UNCHANGED <<depth, owned, gui, rows, faults, history>>

\* A new inventory or another filter draws the rows of a window again.
Render(w) ==
    /\ Free /\ gui[w] = "up"
    /\ rows' = [rows EXCEPT ![w] =
                  [s \in Snaps |-> IF Browse(s) \in mounted[w] THEN "unmount" ELSE "browse"]]
    /\ rows' # rows
    /\ UNCHANGED <<depth, owned, gui, mounted, session, pc, job, faults, history>>

-----------------------------------------------------------------------------
(* The program starts and ends *)

Orphan(j) == [j EXCEPT !.window = None]

\* Tasks of the program die with it; a request the helper has taken goes on.
InHelper == {"list", "clean"}
Last == [mount |-> "lastmount", preunmount |-> "lastumount", umount |-> "lastumount"]
Die ==
    /\ gui' = [w \in Windows |-> "down"] /\ rows' = [w \in Windows |-> NewRows]
    /\ mounted' = [w \in Windows |-> {}] /\ session' = [w \in Windows |-> {}]
    /\ \E taken \in SUBSET {t \in Tasks : pc[t] \in DOMAIN Last} :
          pc' = [t \in Tasks |-> IF t \in taken THEN Last[pc[t]]
                                ELSE IF pc[t] \in InHelper THEN pc[t] ELSE "idle"]
    /\ job' = [t \in Tasks |-> IF pc'[t] = "idle" THEN NoJob ELSE Orphan(job[t])]
    /\ starts' = 0
    /\ UNCHANGED <<depth, owned, stray>>

\* The helper's last answer reaches nobody.
LastRequest(t) ==
    /\ \/ pc[t] = "lastmount" /\ MountOn(job[t].place)
       \/ pc[t] = "lastumount" /\ Umounted(job[t].place) /\ UNCHANGED stray
       \/ pc[t] \in {"lastmount", "lastumount"} /\ UNCHANGED <<depth, stray>>
    /\ Done(t)
    /\ UNCHANGED <<state, faults, starts>>

Lost(t) ==
    /\ pc[t] \in {"shown", "unmounted", "cleaned"} /\ job[t].window = None /\ Done(t)
    /\ UNCHANGED <<depth, state, faults, history>>

\* connect_close_request: unmount_session_mounts goes on after an error.
Close(w) ==
    /\ Free /\ gui[w] = "up" /\ gui' = [gui EXCEPT ![w] = "closing"]
    /\ Hasty(~Quiet)
    /\ UNCHANGED <<depth, owned, memory, pc, job, history>>

CloseUnmount(w) ==
    /\ gui[w] = "closing"
    /\ \E p \in session[w] :
         /\ session' = [session EXCEPT ![w] = @ \ {p}]
         /\ \/ Umounted(p) /\ UNCHANGED faults
            \/ depth[p] = 0 /\ UNCHANGED <<depth, faults>>
            \/ Fault /\ UNCHANGED depth
    /\ UNCHANGED <<owned, gui, mounted, rows, pc, job, history>>

\* The window is gone; its tasks go on.
Gone(w) ==
    /\ gui' = [gui EXCEPT ![w] = "down"] /\ rows' = [rows EXCEPT ![w] = NewRows] /\ Forget(w)
    /\ job' = [t \in Tasks |-> IF job[t].window = w THEN Orphan(job[t]) ELSE job[t]]
    /\ UNCHANGED <<depth, owned, pc, faults, history>>

\* The process ends with its last window.
CloseEnd(w) ==
    /\ gui[w] = "closing" /\ session[w] = {}
    /\ IF \E v \in Windows \ {w} : gui[v] # "down" THEN Gone(w) ELSE Die /\ UNCHANGED faults

Killed == Alive /\ Fault /\ Die

\* run_startup_tasks first asks for a cleanup and waits for it.  (The program is
\* not launched again while the cleanup of a killed launch still runs.)
Launch(w) ==
    /\ Free /\ gui[w] = "down" /\ gui' = [gui EXCEPT ![w] = "starting"]
    /\ pc[Main] = "idle" /\ Goto(Main, "list")
    /\ job' = [job EXCEPT ![Main].window = w]
    /\ Hasty(~Quiet)
    /\ IF Alive THEN faults + 2 * starts + 1 < MaxTrouble /\ starts' = starts + 1 ELSE UNCHANGED starts
    /\ UNCHANGED <<depth, owned, memory, stray>>

Launched(w) ==
    /\ gui[w] = "starting" /\ pc[Main] \in {"cleaned", "idle"}
    /\ gui' = [gui EXCEPT ![w] = "up"] /\ Done(Main)
    /\ UNCHANGED <<depth, owned, memory, faults, history>>

-----------------------------------------------------------------------------

Task(t) ==
    \/ BrowseTarget(t) \/ BrowseUnmount(t) \/ BrowseMount(t) \/ BrowseOpen(t) \/ BrowseShown(t)
    \/ UnmountRun(t) \/ UnmountShown(t)
    \/ CleanupList(t) \/ CleanupUmount(t) \/ CleanupEnd(t) \/ CleanupShown(t)
    \/ LastRequest(t) \/ Lost(t)

Button(w, t) ==
    \/ PressCleanup(w, t)
    \/ \E s \in Snaps : PressBrowse(w, t, s) \/ PressUnmount(w, t, s)

Window(w) ==
    \/ Launch(w) \/ Launched(w) \/ Render(w) \/ Close(w) \/ CloseUnmount(w) \/ CloseEnd(w)
    \/ \E t \in Tasks : Button(w, t)

Next == Killed \/ (\E w \in Windows : Window(w)) \/ \E t \in Tasks : Task(t)

Spec == Init /\ [][Next]_vars

-----------------------------------------------------------------------------
(* Properties *)

Mounted == {p \in Places \ {Top} : depth[p] > 0}
Open == {w \in Windows : gui[w] # "down"}

\* Of a user who waits for answers, while nothing fails and the runtime directory
\* is writable (nothing cleans the fallback under /tmp): each mounted snapshot is
\* mounted once, and an open window will unmount it on close.  A window that is alone
\* remembers exactly what is mounted; one that is not may remember what another has
\* unmounted, when it was opened or later (row.rs:66-214, header.rs:138-154, mod.rs:318-323).
RemembersMounts ==
    (faults = 0 /\ ~owned /\ Free /\ Quiet) =>
        /\ \A p \in Mounted : depth[p] = 1 /\ \E w \in Open : p \in session[w]
        /\ starts = 0 => \A w \in Open : mounted[w] = Mounted /\ mounted[w] \subseteq session[w]

\* Such a session leaves no snapshot mounted behind (gui/mounts.rs:21-45).
CloseLeavesNothing == (faults = 0 /\ ~owned /\ Open = {}) => Mounted = {}

\* Whatever failed, was killed or overlapped before: a launch whose cleanup
\* could list the mounts and reports success leaves no snapshot mounted in the
\* runtime directory, except where one had been mounted over another or a task of
\* another window, or a request of the ended program, mounted it meanwhile
\* (mod.rs:297-298, mount_ops.rs:219-252).
LaunchRecovers ==
    [][\A w \in Windows : gui[w] = "starting" /\ gui'[w] = "up" /\ pc[Main] = "cleaned" /\ job[Main].read
        => \A s \in Snaps : depth[Browse(s)] > 0 => Browse(s) \in stray]_gui

\* Nothing the GUI does, in any order, unmounts the top level: it persists for the
\* service (infra.rs:20-22), whose open database and requests rely on it.
TopLevelStays == depth[Top] = 1

=============================================================================
