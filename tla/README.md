# Btrfs Manager in TLA+

This directory holds TLA+ models of Btrfs Manager, TLC configurations that
model-check them on small instances, and TLAPS proofs of the properties that
matter most. Every definition is translated from the Rust source; the file
`PROJECT.json` maps each definition to the lines it stands for.

## 1. The system

Btrfs Manager is a GTK program (`crates/app`) that talks over D-Bus to a
privileged helper (`crates/helper`); both share a library (`crates/core`). The
helper runs `btrfs`, `mount` and `systemctl`, and keeps its state in one SQLite
database inside the filesystem and one in `/var/lib`. Systemd timers and users
start the helper from the command line, so several processes work on the same
filesystem and the same database. Inside the service each request runs on its
own thread (`dbus.rs`); nothing locks one request against another.

| Component | State | Operations | Hard behaviours | Properties |
|---|---|---|---|---|
| Rollback requests (`helper/rollback.rs`) | root subvolumes under paths, `rollback_plans` rows, plan files, anchor rows, boot identity | stage, commit, revert, pending query, recovery | crash between rename and snapshot, failing recovery, reboot between steps, two answers to one prompt | no root is lost, one failure leaves a bootable system, files follow the database |
| Managed snapshots (`helper/snapshot.rs`) | subvolumes, `managed_snapshots` rows, snapshot container | create, delete, batch delete, lock, unlock | row and subvolume change in two steps, name collisions, rows replaced under a running delete | anchors untouched, no orphan, lock state truthful |
| Listing and reconciliation (`helper/subvolume.rs`) | none of its own | list subvolumes, prune rows | list and rows are read at different times; a stale mount | only rows of deleted subvolumes are pruned |
| Retention selection (`core/retention.rs`) | loop variables | keep set | gaps, zero limits, week across months | computes the rule, keeps the newest |
| Retention runs (`helper/retention.rs`) | subvolumes, rows, run logs | scheduled snapshot, deletes, log, preview | timer and GUI overlap, selection before creation and deletion after, recovery of a failed insert | kept buckets survive, nothing left unsaid, logs tell every deletion once |
| Policies and units (`helper/policy.rs`) | policy rows, unit files, what systemd has read, linked and started | upsert, enable and disable, recovery | three stores change in turn, half-done writes and commands, dead helper | success means the timer follows the row; one failure is taken back |
| Policy dialog (`app/gui/dialogs/policy.rs`) | form, validity of the preview, policy id | open, edit, preview, save, run | form changed after the preview, list of policies that fails to load, policies that others save meanwhile | what is saved was previewed, one policy per subvolume, the dialog comes back |
| Top level (`helper/infra.rs`) | mount of the top level, manager subvolume, database | reach the filesystem, open the store | two first requests both mount or create, a failed `findmnt` | a request that goes on has its mount and its store |
| Mounts (`helper/mount_ops.rs`, `app/gui/mounts.rs`, `row.rs`, `header.rs`) | mount table, each window's memory of it, buttons of the rows | browse, unmount, cleanup, close, launch | presses before an answer, a second window, busy mounts, a killed program whose last request goes on | a window remembers each mount, closing leaves none, a launch recovers |
| GUI inventory (`app/gui/discovery.rs`, `inventory.rs`, `bulk.rs`) | inventory, list, selection, selector | discover, load, search, filter, select, delete | answers out of order, selection older than the inventory | what is deleted was shown and selected, the list shows the selected filesystem |
| Rollback prompt (`app/gui/dialogs/rollback.rs`) | pending plan | keep, revert, later | shown on the wrong boot | part of the Rollback model |
| Notifications (`app/gui/notifications.rs`) | time of the last check | check | run ends during a check, two windows check at once, log limit | each run is told once |
| Self-update (`helper/selfupdate.rs`, `app/gui/update_*.rs`) | offer of each window, package in the runtime directory | check, download, store, verify, install, restart | damaged download, release published meanwhile, two windows, other installations, a file that changes between its checks | what is installed was compared with its checksum and is newer |
| D-Bus service, command line | threads, processes | dispatch, authorization | no lock between requests | the clients of all models |
| Parsers, comparison, diagnostics, usage, widgets | none | pure functions and reports | - | unit tests cover them |

Interaction: the GUI calls the helper synchronously for rollbacks, creation,
locking and policies (`handle_privileged`, the main loop waits) and
asynchronously for listings and bulk deletes (`handle_privileged_async`). A
listing and any other request therefore really overlap, and so do a timer and
the GUI. A rollback writes anchor rows into the snapshot table; snapshot
requests refuse anchors; listings prune rows of all requests; retention deletes
rows that snapshot requests and listings also delete. The policy dialog sits in
front of the policy requests, which the command line also sends. Every request
that needs a filesystem first goes through the top-level mount, which the
mounts of the GUI must never unmount.

Starting the GUI again while it runs does not start a second program: the
application is unique, its `activate` signal runs `build_ui` once more in the
live process (`gui/mod.rs:49-56`), and the second window gets a state of its own,
cleans up mounts, looks for runs and for updates as the first did, and shares
with it the main loop, the helper and the disk. `Mounts`, `Update` and
`Notifications` therefore have a set of `Windows`; `Inventory` models the list
of one window, to which a second window is one of the others who create and delete.

## 2. Modules

| Module | Models |
|---|---|
| `Rollback` | `stage_rollback`, `commit_rollback`, `revert_rollback`, their recovery, the pending query, crash, reboot; abstract specification `RootKeeping` |
| `RootKeeping` | what a reversible rollback promises: roots are set aside and brought back, and only a root that never ran disappears |
| `ManagedSnapshots` | create, delete, batch delete, lock, unlock, listing with prune; the steps of rollbacks that touch anchors |
| `RetentionRules` | the retention rule as a set, without a loop |
| `Retention` | the loops of `retention_keep_set` and `keep_bucketed`, one iteration per step |
| `RetentionRun` | `run_retention_policy`: load, select, create, record, recover, delete, log, for overlapping runs |
| `Policy` | `upsert_snapshot_policy`, `set_snapshot_policy_enabled`, the unit files, `systemctl`, recovery, death of the helper, restart of the machine |
| `PolicyDialog` | extends `Policy` by the dialog in front of it: open, edit, preview, save, run, beside other clients that save, enable and disable |
| `TopLevel` | `ensure_top_level_mount`, `ensure_manager_subvolume`, the store, for overlapping requests |
| `Mounts` | browse, unmount and cleanup tasks of the windows, launch, a second start, close, a killed program, and the helper calls behind them |
| `Inventory` | the main list: discovery, loading, drawing, selection, dialogs, and answers in any order |
| `Notifications` | the check of scheduled runs by each window, beside runs that end meanwhile |
| `Update` | check, offer, download, checksum, stored file, the helper's check, install, restart, in several windows, beside new releases and others who install or write |
| `Desktop` | `Mounts`, `Inventory`, `Notifications`, `Update` and `TopLevel` side by side, with the assumptions on their constants |
| `MCRollback`, `MCManagedSnapshots`, `MCRetention`, `MCRetentionRun`, `MCPolicy`, `MCDesktop` | instances for TLC |
| `RollbackProofs`, `ManagedSnapshotsProofs`, `RetentionRulesProofs`, `RetentionProofs`, `RetentionRunProofs`, `PolicyProofs`, `MountsProofs`, `DesktopProofs` | theorems |

The parts of `Desktop` share no variable, so a step of one neither enables nor
disables a step of another, and each property is about one of them. The module
therefore chooses one part at the start (`part`) and lets it run; an interleaved
product would reach the same states of each part and nothing else. The theorem
`PartsAreKept` says that each part behaves there as it does alone. `MCDesktop`
only adds the values and the symmetry of the run.
`PolicyDialog` over `Policy` is a composition in earnest: the dialog's requests
are `Policy`'s, another client's run between them.

How state and actions correspond to the code:

* One action is one `btrfs` command, file operation or SQL statement together
  with the code up to the next one; `pc[c]` is the line a thread is about to
  run, `job[c]` its local variables. An early return or an error is a disjunct
  of the action. A failing command is a `Fault`, bounded by a constant.
* A crash ends one request and keeps everything on disk. A reboot (Rollback)
  ends all requests and changes the running root.
* A subvolume is an identity under a path, a row a record under its path (the
  column is UNIQUE and inserts replace). Uuids are fresh numbers.
* In `Rollback`, a rename needs its source to exist and its destination to be
  free, as rename(2) does for subvolumes; a rename of a path to itself succeeds
  and does nothing.
* In `ManagedSnapshots` a snapshot onto an existing read-only subvolume fails
  and onto an unlocked one lands inside it (`nested`); a subvolume that holds
  another cannot be deleted.
* In `RetentionRun` a creation time is a reading of the clock and stands for the
  row's id; `Name` sends a reading to the local time in the file name, so
  that several readings can share a name. Snapshots stay read-only there.
* In `Policy` a unit file is whole, torn or absent, `loaded` is what systemd read
  at its last reload, `linked` what a restart will start. `fs::write` empties a
  file before it fills it, and `systemctl enable --now` links before it starts;
  a failure or a death may strike in between.
* In `Mounts` a place is a mount target and `depth` how many mounts are stacked
  there. mount(8) has refused and has stacked a filesystem over itself, so both
  are possible. A task ends where its thread or its future ends; a closed window
  leaves its tasks, a killed program the requests the helper has already taken. An
  outcome changes the widgets it captured, which may belong to a row that was drawn
  again since: the row shown now is changed or not.
* In `Inventory` a search text or a filter is the set of paths it lets through,
  and a listing answers with any set of paths, since others create and delete
  snapshots at any time.
* In `Update` the package of a release is whole or not. `fs::write` empties the file
  before it fills it, so a second window that stores the same release leaves it torn for
  a moment, in which the first may hash it. `restart` executes the path of the
  running binary, which after an upgrade may no longer exist: the program then ends.
* History variables (`hasty`, `starts`, `stray`, `missed`, `emptied`, `excused`,
  `twice`, `others`, `fooled`, `overlapped`, `previewed`) are read by properties only, or
  by a bound. Each names
  one circumstance under which the code does not keep the promise, so that the
  property can say that there is no other.
* Left out as data: tags, texts, authorization, the calendar arithmetic behind
  bucket keys, the status and error text of a run log.

Usage assumptions. `Spec` of each module lets any number of clients interleave
without limit, which is what the helper allows. Some promises hold only when
users keep some order, and the code does not enforce it. These are stated as
specifications of their own:

* `Rollback!SerialSpec`: one rollback request at a time, as one GUI does.
* `Rollback!AnswersSpec`: several clients answer one prompt at once, but a stage
  is alone and starts on the root that stands at `@`. Even so a return path may be
  given to two plans, because its name is a second of the clock;
  `RevertRestoresOriginal` is about the others (`OwnReturn`).
* `ManagedSnapshots!OrderlySpec`: creations and deletions overlap, a listing and
  a lock or unlock are alone.
* `RetentionRun!NamesUsedUp`: a name is not given again after its snapshot has
  been recorded.
* `Policy!SerialSpec`: one policy request at a time. `PolicyDialog!DialogSpec`
  keeps it: the dialog and the other clients (the command line, another window)
  take turns, request by request.
* "A user who waits", in `Mounts`: presses no button of a snapshot that a task works
  for, and opens and closes windows while none is under way; anything else counts as
  one of the `faults`. In `Inventory`: asks for nothing while a request is under way
  (`hasty`).

With two clients and full `Spec`, TLC finds behaviours of `Rollback` that break
`NoRootLost` and `BootableUndisturbed` (a stage that overlaps another works on
paths the other has just renamed). No text of the repository promises otherwise,
so they are reported here and not as findings.

One hazard needs no second client. A return path is a name with a second of the
clock, or whatever a client asks for, and nothing compares it with the path the
running root has. After one stage the running root stands at that stage's return
path; a second stage before the reboot replaces that path (`rollback_restage`). If it
is given the same return path, the rename of the running root onto itself succeeds and
does nothing (`rollback.rs:49`), and when a later step fails, the recovery deletes
what stands there: the running root (`rollback.rs:229-239`). The trace, with one
client and one fault: stage with return path r, stage again with r, the snapshot
fails, recover. `NoRootLost` and `KeepsRoots` hold for everything else and name
this case (`Away`, `RecoversOntoItself`); without the exception TLC finds the trace.

## 3. What the runs check

| Run | Question | Bounds |
|---|---|---|
| `rollback_serial` | Do roots survive, does one failure leave a bootable system, do files never run ahead of the database, is it `RootKeeping`? | 1 client, 2 plans, 2 boots, 1 fault, 1 crash: two rollbacks staged, answered and re-staged around every failure point, also with one return path for both |
| `rollback_answers` | What two answers to one prompt can do to the swap and to the plan's status | 2 clients, 2 plans, 1 boot, 1 fault, 1 crash |
| `rollback_ghost` (violation) | Is every offered rollback a staged one? | 1 client, 1 plan, 1 fault |
| `rollback_restage` (violation) | Is the staged root the next root, also for a second stage? | 1 client, 2 plans |
| `snapshots_orderly` | Do rows and subvolumes agree, are anchors safe, is pruning right? | 2 clients, 2 names, 1 anchor, 2 rows, 1 of each trouble: enough for a row to be replaced under a delete that read its predecessor |
| `snapshots_listrace` (violation) | Does a listing prune only what is gone? | 2 clients, no trouble |
| `snapshots_unlockrace` (violation) | Is an unlocked snapshot marked? | 2 clients, no trouble |
| `policy_dialog` | Does success mean that the timer follows the row? Is one failure taken back? Is only saved what was previewed? Does the dialog make one policy per subvolume, and come back from each request? | the dialog and one other client, 2 policies, 1 subvolume, 2 schedules, 2 plans of which one is refused; two failing calls (a failure and a second one inside its recovery), or one death of the helper or restart of the machine, which counts for two; the other client saves the default policy of the subvolume under either id, enables and disables |
| `desktop` | Does a window remember each mount, leave none behind, recover at launch, spare the top level? Is what is deleted what was shown? Is each run told once, each installed package the published one, each store ready? | mounts: 2 windows, 2 snapshots, 2 tasks beside the main loop, 2 mounts at a place, 2 troubles (a failing call, a busy mount, a killed program, a press, opening or closing before an answer; a start of a running program counts for two); list: 2 filesystems, 2 snapshots of which one is external, 2 futures, 1 trouble; notifications: 2 windows, 2 policies, 2 runs, a limit of 1 log, 6 readings of the clock, 1 trouble (a failing request or file, a check that begins during another's, a closed window, a killed program); update: 2 windows, 2 releases, 2 troubles (a failing step, a damaged download, a second window, another installation, a write to the file, a killed program); top level: 2 requests, 2 troubles |
| `retention_selection` | Does the loop compute the rule, keep the newest? | every subset of 7 times (two in an hour, three in a day, a week across two months), limits 0 to 2 for four classes |
| `retention_overlap` | Do overlapping, failing, dying runs keep what the policy keeps, tell what they did, and delete only what they saw? | 2 clients, 5 readings of the clock after 3 in the past (two complete creations and an attempt), 2 classes, 2 troubles of any kind |
| `retention_summertime` (violation) | The same for a single run when local time repeats a name | 1 client, 1 trouble |

Bounds that limit the state space are named constants used in guards
(`MaxPlans`, `MaxBoots`, `MaxFaults`, `MaxCrashes`, `MaxIds`, `MaxGone`,
`MaxTime`, `MaxTrouble`, `MaxDepth`, `LastRelease`). Clients, return paths, discard paths, windows, snapshots and tasks are symmetric
where a run declares it; `policy_dialog`, which checks liveness, uses none.
Deadlock checking is off because the bounded system may stop: requests are
optional and every bound is finite.

Fairness is assumed where the code runs by itself. In `PolicyDialog` a helper
thread goes on to its next call, and the main loop, which waits for the answer,
shows it: weak fairness of each client's step (`Proceed`) and of `Shown`, hence
`DialogAnswers`. A dead helper is an answer, too (the connection reports it). No
user is promised to press anything and no process to survive, so nothing else is
fair, and the other modules state safety.

What the violation runs show:

* `rollback_ghost`: a stage whose plan file cannot be written undoes the disk
  change but leaves its plan row (and anchor row), which the prompt offers.
* `rollback_restage`: after a stage, `findmnt` reports the running root at its
  return path; a second stage replaces that path and not `@`.
* `snapshots_listrace`: rows are read after the subvolume list; a snapshot
  created in between looks stale and its row is pruned.
* `snapshots_unlockrace`: property and state are set in two steps; a lock and an
  unlock interleave to a writable snapshot recorded as read-only.
* `retention_summertime`: a candidate's subvolume is gone and its row stale; in
  the repeated hour the new snapshot takes the name, replaces the row and is
  then deleted as the candidate.

What the models show beside that, where no text of the repository promises
otherwise, or a hedged one, so that there is no finding:

* The prompt offers the newest plan that awaits an answer and, when the boot id
  has changed, calls it booted. A rollback that was booted and not answered,
  followed by a second one that was booted and kept, is offered again on a
  machine that runs the root of the second. Of the newest plan the prompt is right
  (`KeepOfferedOnStagedRoot`).
* An anchor stays undeletable after its rollback was committed or reverted,
  although the refusal says to revert or commit first, because nothing ever
  changes its state.
* `set_snapshot_policy_enabled` reads a whole policy and writes it back: with two
  requests at a time an edit saved in between is lost, and the units may follow
  the row that is overwritten.
* When the list of policies cannot be loaded, the dialog takes it for empty and a
  save makes a second policy for the subvolume. So it does when another client has
  saved one since the dialog opened, for the id is chosen then
  (`dialogs/policy.rs:34-38`), and nothing but the id is a key (`missed`).
* A cleanup ends at the first mount that is busy or gone. Browse mounts under
  `/tmp`, used when the runtime directory is not writable, are never cleaned up.
* A browse or unmount button stays sensitive until the answer comes: a second
  press mounts over the first mount (`stray`).
* The cleanup of a second window unmounts what the first one shows as mounted; the
  first forgets nothing, and its rows go on offering "unmount". `RemembersMounts` says
  what is left of the promise then: each mount has an open window that will unmount
  it, and with one window started alone (`starts`) the memory is exact.
* Inventories are installed in the order of their answers. A listing without
  any subvolume returns before the selection is pruned, with the batch button
  still enabled (`emptied`). Unlocking and creating load the list again without
  the search text. Deleting one snapshot takes its row away and leaves it in the
  inventory, so that the next filter shows it again.
* The comparison that protects an update is the one of the download with the
  published checksums. `core/checksum.rs:1-4` says that the helper "re-verifies the
  same file independently", and `docs/product-roadmap.md:142` that it does so before
  it installs; but the expected hash it is given is taken from the stored file after
  the comparison (`update_apply.rs:47`), so its check compares the file with
  itself. A file changed between `update_apply.rs:78` and that reading, by something
  else or by a second window that stores the package again, is installed as it is.
* A window compares releases with the one it was built from. After an upgrade by
  pacman, or in a second window after "later", an offer may be of the release that is
  already installed, or of an older one. A failed attempt uses up the offer until the
  next launch.
* `UpdatesAreSound` therefore names who came in between (`others`): a second window, a
  request of a program that had ended, another installation, a write to the file. Each
  conjunct says which of them break it, and with one more trouble TLC confirms that
  each exception is needed.
* A run that ends while a check goes on may be told twice, and so may one that is there
  when the checks of two windows overlap; one that is logged after its policy's logs
  were read, or whose toast went to a window that was closed, never (`twice`,
  `excused`).
* A revert or recovery that must delete a subvolume holding nested ones fails
  like any other command (`Fault`).

## 4. What is proved

TLAPS proves, for every value of the constants that satisfies the named
assumptions:

| Theorem | Statement |
|---|---|
| `TypeCorrect`, `SnapshotTypes`, `RunTypes`, `MountTypes` | `Spec => []TypeOK` for full concurrency |
| `DialogTypes` | `DialogSpec => []DialogTypeOK` |
| `RootsSurvive` | `SerialSpec => []NoRootLost`: every root that ran survives, but for that of a stage onto its own path |
| `FileFollowsDb` | `SerialSpec => []FileNotAheadOfDb` |
| `ImplementsRootKeeping` | `SerialSpec => KeepsRoots`: every step is one of `RootKeeping`, but the recovery of such a stage |
| `BootableSerial` | `SerialSpec => []BootableAfterOneFault`, whichever step fails |
| `RevertsRestore` | `AnswersSpec => RevertRestoresOriginal`, any number of clients, failures and crashes |
| `BootableAnswers`, `StagedIsNext`, `KeptIsRunning` | `AnswersSpec => []BootableUndisturbed`, `[]StagedRootIsNext`, `[]KeepOfferedOnStagedRoot` |
| `AnchorsAreSafe` | `Spec => AnchorsStay`, any number of clients and faults |
| `SnapshotsAreRecorded`, `LocksAreRecorded` | `OrderlySpec => []NoOrphans`, `OrderlySpec => []LockTruthful` |
| `PruneIsRight`, `ListingIsComplete` | `OrderlySpec => PruneOnlyDeleted`, `OrderlySpec => ListReconciles` |
| `LoopImplementsRule`, `NewestIsKept` | the selection loop computes the rule for any times, classes and limits |
| `BucketsSurvive` | with `NamesUsedUp`, `Spec => []BucketsKept`, any number of overlapping runs, faults and deaths |
| `OnlyOldDeleted` | with `NamesUsedUp`, `Spec => OnlyPreRunDeleted`, whatever others remove |
| `NothingIsUnsaid` | with `NamesUsedUp`, `Spec => []NothingLeftUnsaid` |
| `LogsAreTrue` | for finitely many clients, `Spec => []DeletionsLogged` |
| `SuccessScheduled` | `SerialSpec => []SuccessIsScheduled`, any number of failures, deaths and restarts before |
| `TimersFollowRows` | `SerialSpec => []TimerFollowsRow` |
| `DialogImplementsSerial` | `DialogSpec => SerialSpec`: the two theorems above hold behind the dialog |
| `GateIsSound` | `DialogSpec => SavedWasPreviewed` |
| `OnePolicyEach` | `DialogSpec => []OnePerSubvolume`, whatever policies other clients save |
| `TopLevelIsSafe` | `Spec => []TopLevelStays`, any number of snapshots, tasks and troubles |
| `LaunchCleansUp` | `Spec => LaunchRecovers` |
| `WindowRemembers`, `CloseIsClean` | `Spec => []RemembersMounts`, `Spec => []CloseLeavesNothing`, any number of windows |
| `SelectionIsSeen`, `ListIsCurrent`, `BatchWasShown` | `List!Spec => []SelectedIsVisible`, `[]ShownIsCurrent`, `BulkDeleteWasShown`, any filesystems, searches, filters and overlapping loads |
| `RunsAreTold` | `Notify!Spec => []ToldOnce`, any number of windows, policies, runs, checks and failures |
| `UpdatesAreTrue` | `Updates!Spec => []UpdatesAreSound`, any number of windows and releases, and whoever else installs or writes |
| `StoreIsReady` | `TopMount!Spec => []StoreReady`, any number of overlapping requests |
| `PartsAreKept`, `DesktopTypes`, `DesktopIsRight` | `DesktopSpec` implies the specification of each part, `[]DesktopTypeOK`, and all of the above |

The inductive invariants:

* `RootInv`. `NoRootLost` alone is not inductive: the recovery deletes the
  subvolume at the replaced path. `RecoverySafe` says that between the rename and
  the end of the stage that path is empty or holds a root that never ran, unless the
  stage's return path is that path;
  `Identities` that no identity is at two paths; `OneRequest` that nobody renames
  in between.
* `StatusInv`. A file may follow only a row that has the same status already:
  the invariant records, for each step of a commit, revert or stage, which of
  row and file are written.
* `BootableInv`. The path a request replaces may be empty only in its own hands,
  between two of its steps. For a stage or revert under way without a disturbance
  the invariant names what stands at the return path or discard path, so that the
  recovery can move it back after one failure (`RootReturns`, `Moved`); and no step
  in between takes it away (`ReturnsStay`).
* `SwapInv`, for answers that interleave. The renames of the code exclude each
  other: only one revert can be between moving `@` out and moving the original
  in (`OneSwap`), because the first rename of a second one finds no `@`.
  `ReturnsHoldOriginals` says what stands at a return path is the original of one
  of its plans, hence of the only one.
* `RootAtHand` and `NewestStands`. Without a failure `@` is missing only between
  two steps of a swap, and the newest unanswered plan's root stands at `@`.
* `AnchorInv`. A request that works on a row holds the id of a row that was no
  anchor when it was read; ids are handed out once, so an anchor inserted later
  has another id.
* `OrderlyInv`. The id that a request holds is that of its path's row or of no row
  any more (`IdsOfPaths`), so a delete cannot hit the row of a later snapshot. What
  is on disk without a row is about to get one from its creation, even from under
  the delete of the row it had (`RecordsInv`). A listing, a lock and an unlock are
  alone, so what was listed is what is on disk until the pruning is done
  (`ListingInv`), and property and state differ only in the hands of one request.
* `LoopInv`. What the loop has kept is what the rule keeps of the visited
  snapshots, and it has met fewer buckets than the limit. The lemmas show that
  the rule looks only at newer snapshots (`KeptOfPrefix`), so that older ones can
  be added one by one, and that a full class keeps nothing older (`KeptBreak`).
* `CalmInv` of `RetentionRun`. What a run is about to delete is outside the rule over all snapshots
  ever recorded. This stays true when others record more, because adding
  snapshots makes no older one wanted again (`KeepSetAntitone`); its path cannot
  hold anything else, because its name is used up; and the path of a snapshot
  under creation has no row, so no run can have selected it.
* `PathInv`. A subvolume has the name of its time, no reading gives the name of a
  row or of a candidate again, so what stands at a candidate's path when it is
  removed is older than the run. Nothing is asked of others: `BucketsKept` needs
  them to leave rows and subvolumes alone, this does not.
* `SaidInv`. Every subvolume without a row is in the hands of the run that made
  it, or two failures have left it and a log names it or is about to. A row
  goes only after its subvolume (`RowsLast`), so deleting candidates leaves none;
  a recovery that could not remove the snapshot has it in its list still
  (`CreationsNamed`).
* `LogInv`. Each path has been deleted as often as logs tell plus the number of
  runs that are still to tell. A run that deletes a path was not to tell of it
  yet, because the rows it selected have paths of their own (`RowsApart`) and it
  works through them in order (`Tidy`).
* `RecoveryInv` and `SerialInv`. `SuccessIsScheduled` says nothing of a request
  under way. `Progress` records for each step of it what it has written already:
  after the service file the service is whole, after the timer file the timer
  carries the wanted schedule, after the reload systemd has read it.
  `RecoveryInv` adds that with one failing call every policy but the one being
  written is `Settled`: it agrees with its units and still will when systemd
  reads all files again, which a request for another policy makes it do. It also
  records what a recovery has brought back at each of its steps.
* `GateInv`. While the buttons are sensitive the form is what was previewed, and
  what a request of the dialog writes is that form.
* `SoleInv`. Where the dialog has missed nothing, its id is the only policy of its
  subvolume or there is none, and so is the row that its request may bring back. What
  other clients save cannot make a second one without being missed, but what the
  dialog saves, or takes back after a failure, could.
* `LaunchInv`. No cleanup has the top level on its list, a place with several
  mounts is marked as stray, and while a window opens, whatever is mounted
  in the runtime directory is on the list of the launching cleanup or stray.
* `CalmInv` of `Mounts`. For a user who waits, while nothing fails, two
  tasks never work for the same snapshot and a cleanup, an opening or a closing
  window is alone (`Separate`), each step knows what is mounted at its place
  (`Known`), and but where a task is in between an open window will unmount what is
  mounted and a window started alone remembers exactly that (`Told`). The three need
  each other: what a step knows stays true only because no other task works at its
  place.
* `ListInv`. `SelectedIsVisible` is inductive; `BulkDeleteWasShown` needs that rows
  are of the inventory's filesystem (`RowsOfInventory`). A list that says "loading"
  has a future that will draw it (`LoadingEnds`). A user who waits has one request
  or one dialog (`OneRequest`), so the filesystem of the selector, of the
  request, of the dialog and of the list cannot part (`OneFilesystem`).
* `ToldInv`. A check lies between two readings of the clock and takes over where
  the last stored one left off, or every run that had ended is marked since checks
  overlapped (`CheckInOrder`, `Blurred`); no run ends at the reading of a
  check (`ReadingsApart`). So of the logged runs that ended before a check each has
  been told, is excused, or is still before the check (`NotMissed`), and what was
  told lies before the stored time while what a check finds lies behind it
  (`NotRepeated`).
* `UpdateInv`. From the comparison on, the package under way is the release's own and
  whole, and the stored file is so from its last write on, but for what others do
  (`PackageMatches`); an offer is taken once, and a window started alone compares with
  what is installed (`OfferTaken`); the helper works for a closed program only if one
  ended before its request (`WhoIsThere`).
* `TopInv`. A request that found or made the manager's subvolume relies on it
  (`Found`), and what a request that overlaps no other has seen still holds when it
  acts (`OneAtATime`).

Only model-checked: the liveness property `DialogAnswers` (liveness under fairness and
ENABLED are out of reach of the installed provers, as is induction over recursive definitions; no module here is recursive). Every
invariant and action property of a passing run is also proved.

## 5. Order of the work, and what is left

In this order: Rollback with RootKeeping, ManagedSnapshots, RetentionRules and
Retention, RetentionRun, and their proofs; then Policy and PolicyDialog, Mounts,
TopLevel, Inventory, Notifications and Update, and the proofs of Policy,
PolicyDialog and Mounts; then those of AnswersSpec and OrderlySpec, of
`NothingLeftUnsaid` and of Desktop.

The proofs have changed three statements. `RevertRestoresOriginal` is now about
plans whose return path is their own, `KeepOfferedOnStagedRoot` about the
newest plan, and the proofs of `Desktop`
need the constants' assumptions, which are now named there. Modelling the rename of
a path onto itself, the second start of the program, policies saved by others and
installations by others has then narrowed `NoRootLost`, `KeepsRoots`,
`RemembersMounts`, `OnePerSubvolume` and `UpdatesAreSound` to what the code does
keep, each exception named.

Worth proving next: that several clients keep `NoRootLost` under `AnswersSpec`,
that the dialog's `Policy` requests implement an abstract "row and timer change
together", and that `Mounts` implements a map from snapshots to mounts.

## 6. Not modelled

* Parsers, path comparison and path validation: pure functions on text with
  unit tests. The models start from accepted requests and parsed answers.
* Diagnostics, disk usage, previews, the inventory's annotation: they read and
  report.
* Authorization is Polkit's decision; downloading is an external library's; the
  message encoding between GUI and helper is serde's.
* `RunNow` after a save is `RetentionRun`'s run; the two modules are not composed,
  because a run reads its policy once and never writes one.
* Deletion of a policy: the program has no request for it.
* `run_check` builds the same window in a program of another name and ends it after a
  second: two programs that clean up each other's mounts are not modelled.
* Widgets, wording, translation, sorting and layout.
