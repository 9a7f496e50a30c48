------------------------------ MODULE Inventory ------------------------------
(***************************************************************************)
(* The main list of the GUI (crates/app/src/gui/discovery.rs, inventory.rs,*)
(* bulk.rs, row.rs): filesystems are discovered and listed by requests of  *)
(* the helper that run beside the main loop, and whose answers are shown in*)
(* the order they come in; in between the user filters, selects, deletes.  *)
(* A search text and a filter stand for the set of snapshots they let      *)
(* through.  Others create and delete snapshots at any time, so a listing  *)
(* may answer with any set of them.  The list is that of one window: a     *)
(* second one has a UiState of its own, and is one of the others.          *)
(***************************************************************************)
EXTENDS Naturals, FiniteSets

CONSTANTS
    Filesystems,   \* Btrfs filesystems that may be mounted
    Root,          \* the filesystem of the active root
    Bare,          \* filesystems without a subvolume that is no snapshot
    Paths,         \* paths of snapshots; the same path may exist on each filesystem
    External,      \* paths of snapshots of other tools
    Searches,      \* texts of the search box
    Filters,       \* category and time range
    Tasks, First,  \* futures of the main loop; the one that startup spawns
    MaxTrouble     \* bound: failing requests, filesystems that go

VARIABLES
    selector,      \* the active entry, the entries and the sensitivity of the selector
    inventory,     \* UiState.inventory: filesystem and snapshots (None: not yet loaded)
    list,          \* what the list box shows, and of which filesystem
    marked,        \* the rows GTK shows as selected
    selected,      \* UiState.selected
    selecting,     \* UiState.select_mode
    search, filter,
    dialog,        \* the open confirmation
    pc, job,       \* future -> the request it waits for, its captured variables
    trouble,
    hasty,         \* history: the user started a request while another was under way
    emptied        \* history: a listing without a subvolume was drawn, and no other since

vars == <<selector, inventory, list, marked, selected, selecting, search, filter,
          dialog, pc, job, trouble, hasty, emptied>>
view == <<list, marked, selected>>
controls == <<selecting, search, filter>>

None == "none"
All == Paths
Known == Filesystems \cup {None}
Lists == [what : {"loading", "status", "rows"}, fs : Known, shown : SUBSET Paths]
Dialogs == [kind : {"bulk", "delete", "reload", None}, fs : Known,
            paths : SUBSET Paths, fresh : BOOLEAN]   \* fresh: its row is still in the list
NoDialog == [kind |-> None, fs |-> None, paths |-> {}, fresh |-> FALSE]
Jobs == [fs : Known, query : Searches \cup {All}]
NoJob == [fs |-> None, query |-> All]

TypeOK ==
    /\ selector \in [entries : SUBSET Filesystems, active : Filesystems \cup {None}, sensitive : BOOLEAN]
    /\ inventory \in [fs : Known, snaps : SUBSET Paths] /\ list \in Lists
    /\ marked \subseteq list.shown \ External /\ selected \subseteq Paths \ External
    /\ selecting \in BOOLEAN /\ search \in Searches /\ filter \in Filters
    /\ dialog \in Dialogs
    /\ pc \in [Tasks -> {"idle", "discover", "list", "delete"}]
    /\ job \in [Tasks -> Jobs]
    /\ trouble \in 0..MaxTrouble /\ hasty \in BOOLEAN /\ emptied \in BOOLEAN

Status(what) == [what |-> what, fs |-> None, shown |-> {}]

Init ==
    /\ selector = [entries |-> {}, active |-> None, sensitive |-> FALSE]
    /\ inventory = [fs |-> None, snaps |-> {}] /\ list = Status("loading")
    /\ marked = {} /\ selected = {} /\ selecting = FALSE
    /\ search = All /\ filter \in Filters /\ dialog = NoDialog
    /\ pc = [t \in Tasks |-> IF t = First THEN "discover" ELSE "idle"]
    /\ job = [t \in Tasks |-> NoJob]
    /\ trouble = 0 /\ hasty = FALSE /\ emptied = FALSE

Quiet == \A t \in Tasks : pc[t] = "idle"
Troubled == trouble < MaxTrouble /\ trouble' = trouble + 1

-----------------------------------------------------------------------------
(* Drawing *)

\* Rows that are removed are no longer selected, and the list says so: the handler
\* stores the selection that is left (unless render_inventory suppresses it).
Stale(d) == [d EXCEPT !.fresh = FALSE]
ShowStatus(what) ==
    /\ list' = Status(what) /\ marked' = {}
    /\ selected' = IF marked # {} THEN {} ELSE selected
    /\ UNCHANGED <<inventory, selecting, emptied>>

\* Mutant: nothing is dropped from the selection.
PrunedNone(sel, shown) == sel

\* prune_hidden_selection
Pruned(sel, shown) == sel \cap (shown \ External)

Empties(inv) == inv.snaps = {} /\ inv.fs \in Bare

\* render_inventory, as the filters and the select mode are afterwards.  Without
\* any subvolume it returns early.
Render(inv, query, sel, mode, through) ==
    IF Empties(inv)
    THEN /\ list' = [Status("status") EXCEPT !.fs = inv.fs]
         /\ marked' = {} /\ selected' = sel /\ emptied' = TRUE
    ELSE LET shown == inv.snaps \cap through \cap query
             kept == IF mode THEN Pruned(sel, shown) ELSE sel
         IN  /\ list' = [what |-> "rows", fs |-> inv.fs, shown |-> shown]
             /\ selected' = kept
             /\ marked' = IF mode THEN kept \cap shown ELSE {}
             /\ emptied' = FALSE

\* The controls draw the inventory again when there is one.
Redraw(query, sel, mode, through) ==
    IF inventory.fs = None
    THEN selected' = sel /\ UNCHANGED <<list, marked, emptied>>
    ELSE Render(inventory, query, sel, mode, through)

-----------------------------------------------------------------------------
(* Requests *)

Start(t, step, j) ==
    /\ pc[t] = "idle" /\ pc' = [pc EXCEPT ![t] = step]
    /\ job' = [job EXCEPT ![t] = j]

\* discover_and_load: the search text is the one of the call.
Discover(t) ==
    /\ Start(t, "discover", [NoJob EXCEPT !.query = search]) /\ ShowStatus("loading")
    /\ selector' = [selector EXCEPT !.sensitive = FALSE]

\* load_mountpoint captures the search text for when the answer comes.
Load(t, fs, query) ==
    /\ Start(t, "list", [fs |-> fs, query |-> query])
    /\ ShowStatus("loading")

-----------------------------------------------------------------------------
(* Answers *)

Finish(t) == pc' = [pc EXCEPT ![t] = "idle"] /\ job' = [job EXCEPT ![t] = NoJob]

\* preferred_filesystem_index: the active root, else the first of all.
Preferred(found) ==
    IF Root \in found THEN Root ELSE CHOOSE fs \in found : TRUE

\* Mutant: an entry that is still there stays active.
ChosenKept(found) == IF selector.active \in found THEN selector.active ELSE Preferred(found)

\* The entry apply_discovery activates.
Chosen(found) == Preferred(found)

\* apply_discovery: the future goes on with load_mountpoint.  (Each filesystem that
\* is found has at least a mount.)
ApplyDiscovery(t) ==
    /\ pc[t] = "discover"
    /\ \/ /\ selector' = [selector EXCEPT !.sensitive = TRUE]
          /\ ShowStatus("status") /\ Finish(t) /\ Troubled
       \/ /\ selector' = [entries |-> {}, active |-> None, sensitive |-> TRUE]
          /\ ShowStatus("status") /\ Finish(t) /\ Troubled
       \/ \E found \in (SUBSET Filesystems) \ {{}} :
             /\ selector' = [entries |-> found, active |-> Chosen(found), sensitive |-> TRUE]
             /\ pc' = [pc EXCEPT ![t] = "list"]
             /\ job' = [job EXCEPT ![t] = [job[t] EXCEPT !.fs = Preferred(found)]]
             /\ ShowStatus("loading")
             /\ IF found = Filesystems THEN UNCHANGED trouble ELSE Troubled
    /\ dialog' = Stale(dialog)
    /\ UNCHANGED <<search, filter, hasty>>

\* The answer of load_mountpoint becomes the inventory.
ShowInventory(t) ==
    /\ pc[t] = "list"
    /\ \/ /\ \E snaps \in SUBSET Paths : inventory' = [fs |-> job[t].fs, snaps |-> snaps]
          /\ Render(inventory', job[t].query, selected, selecting, filter)
          /\ UNCHANGED <<selecting, trouble>>
       \/ ShowStatus("status") /\ Troubled
    /\ Finish(t) /\ dialog' = Stale(dialog)
    /\ UNCHANGED <<selector, search, filter, hasty>>

\* The batch is done, well or not: the select mode is left, and everything is
\* discovered again (the list is drawn in between, which does not last).
Deleted(t) ==
    /\ pc[t] = "delete" /\ pc' = [pc EXCEPT ![t] = "discover"]
    /\ job' = [job EXCEPT ![t].query = search]
    /\ selecting' = FALSE
    /\ list' = Status("loading") /\ marked' = {}
    /\ selected' = IF selecting \/ marked # {} THEN {} ELSE selected
    /\ selector' = [selector EXCEPT !.sensitive = FALSE]
    /\ emptied' = IF selecting THEN Empties(inventory) ELSE emptied
    /\ dialog' = Stale(dialog)
    /\ UNCHANGED <<inventory, search, filter, trouble, hasty>>

-----------------------------------------------------------------------------
(* The user; a dialog that is open takes all input *)

Free == dialog = NoDialog
Asks == hasty' = (hasty \/ ~Quiet)

Refresh(t) ==
    /\ Free /\ Asks /\ Discover(t)
    /\ UNCHANGED <<trouble, search, filter, dialog>>

\* The selector's changed signal; apply_discovery suppresses it.
Select(t, fs) ==
    /\ Free /\ Asks /\ selector.sensitive /\ fs \in selector.entries \ {selector.active}
    /\ selector' = [selector EXCEPT !.active = fs]
    /\ Load(t, fs, search)
    /\ UNCHANGED <<trouble, search, filter, dialog>>

Search(text) ==
    /\ Free /\ text # search /\ search' = text
    /\ Redraw(text, selected, selecting, filter)
    /\ UNCHANGED <<trouble, selector, inventory, selecting, filter, dialog, pc, job, hasty>>

Filter(through) ==
    /\ Free /\ through # filter /\ filter' = through
    /\ Redraw(search, selected, selecting, through)
    /\ UNCHANGED <<trouble, selector, inventory, selecting, search, dialog, pc, job, hasty>>

\* The toggle drops the selection, then draws.
Toggle ==
    /\ Free /\ selecting' = ~selecting
    /\ IF inventory.fs = None
       THEN selected' = {} /\ marked' = {} /\ UNCHANGED <<list, emptied>>
       ELSE Redraw(search, {}, ~selecting, filter)
    /\ UNCHANGED <<trouble, selector, inventory, search, filter, dialog, pc, job, hasty>>

\* Click, ctrl-click, ctrl+A...: external snapshots cannot be selected.
Mark(rows) ==
    /\ Free /\ selecting /\ list.what = "rows" /\ rows # marked
    /\ marked' = rows /\ selected' = rows
    /\ UNCHANGED <<trouble, selector, inventory, list, selecting, search, filter, dialog, pc, job,
                   hasty, emptied>>

Ask(kind, fs, paths) ==
    /\ Free /\ dialog' = [kind |-> kind, fs |-> fs, paths |-> paths, fresh |-> kind = "delete"]
    /\ Asks /\ UNCHANGED <<trouble, selector, inventory, view, controls, pc, job, emptied>>

\* Mutant: the filesystem is the one of the selector.
BulkClickSelector ==
    /\ selecting /\ selected # {} /\ inventory.fs # None /\ selector.active # None
    /\ Ask("bulk", selector.active, selected)

\* The batch button: what is selected, on the filesystem of the inventory.
BulkClick ==
    /\ selecting /\ selected # {} /\ inventory.fs # None
    /\ Ask("bulk", inventory.fs, selected)

\* The button of a managed snapshot's row.
DeleteClick(p) ==
    /\ list.what = "rows" /\ p \in list.shown \ External
    /\ Ask("delete", list.fs, {p})

\* The unlock button of such a row, the create button of a subvolume's row.
ReloadClick == list.what = "rows" /\ Ask("reload", list.fs, {})

Cancel ==
    /\ dialog # NoDialog /\ dialog' = NoDialog
    /\ UNCHANGED <<trouble, selector, inventory, view, controls, pc, job, hasty, emptied>>

BulkConfirm(t) ==
    /\ dialog.kind = "bulk" /\ dialog' = NoDialog /\ Asks
    /\ Start(t, "delete", NoJob)
    /\ UNCHANGED <<trouble, selector, inventory, view, controls, emptied>>

\* A call the window waits for; the row goes, the inventory stays.
DeleteConfirm ==
    /\ dialog.kind = "delete" /\ dialog' = NoDialog
    /\ IF dialog.fresh
       THEN /\ list' = [list EXCEPT !.shown = @ \ dialog.paths]
            /\ marked' = marked \ dialog.paths
            /\ selected' = IF marked \cap dialog.paths = {} THEN selected ELSE marked'
       ELSE UNCHANGED view
    /\ UNCHANGED <<trouble, selector, inventory, controls, pc, job, hasty, emptied>>

\* Unlocking, and creating, load the filesystem of the row again, and without the
\* search text.  (Locking does the same, without a dialog; a call that fails changes
\* no more than a dialog that is cancelled.)
ReloadConfirm(t) ==
    /\ dialog.kind = "reload" /\ dialog' = NoDialog /\ Asks
    /\ Load(t, dialog.fs, All)
    /\ UNCHANGED <<trouble, selector, search, filter>>

-----------------------------------------------------------------------------

Future(t) ==
    \/ ApplyDiscovery(t) \/ ShowInventory(t) \/ Deleted(t)

User ==
    \/ \E t \in Tasks : Refresh(t) \/ BulkConfirm(t) \/ ReloadConfirm(t)
                        \/ \E fs \in Filesystems : Select(t, fs)
    \/ \E text \in Searches : Search(text)
    \/ \E through \in Filters : Filter(through)
    \/ \E rows \in SUBSET (list.shown \ External) : Mark(rows)
    \/ \E p \in Paths : DeleteClick(p)
    \/ Toggle \/ BulkClick \/ ReloadClick \/ Cancel \/ DeleteConfirm

Next == User \/ \E t \in Tasks : Future(t)

Spec == Init /\ [][Next]_vars

-----------------------------------------------------------------------------
(* Properties *)

\* What is queued for deletion is what the user sees selected, whatever was
\* filtered, searched, reloaded or deleted meanwhile (inventory.rs:107-125,
\* bulk.rs:113-129); only a listing without any subvolume hides it (it returns
\* before the pruning, inventory.rs:36-48).
SelectedIsVisible == selecting => selected = marked \/ emptied

\* A batch is asked for on snapshots that were rows of the list, of the filesystem
\* they were shown for, when the button was pressed (bulk.rs:146-158).
BulkDeleteWasShown ==
    [][(dialog = NoDialog /\ dialog'.kind = "bulk" /\ ~emptied) =>
            /\ list.what = "rows" /\ dialog'.fs = list.fs
            /\ dialog'.paths \subseteq list.shown \ External]_dialog

\* With no request under way the list does not say "loading"; and of a user who
\* waits for answers, while no request fails, it shows the filesystem of the
\* selector, and the one the buttons act upon (discovery.rs:57-134).  (After a
\* failure the next search or filter draws the old inventory again.)
ShownIsCurrent ==
    Quiet => /\ list.what # "loading"
             /\ (~hasty /\ trouble = 0) =>
                   list.fs = selector.active /\ list.fs = inventory.fs


-----------------------------------------------------------------------------
(* Inductive strengthening *)

\* Only rows show snapshots, those of the inventory's filesystem.
RowsOfInventory ==
    /\ list.what # "rows" => list.shown = {}
    /\ list.what = "rows" => list.fs = inventory.fs

\* The list says "loading" only while a future will draw it again.
LoadingEnds == list.what = "loading" => ~Quiet

\* A user who waits has one future under way or one dialog open.
OneRequest ==
    ~hasty =>
        /\ \A t, u \in Tasks : pc[t] # "idle" /\ pc[u] # "idle" => t = u
        /\ dialog # NoDialog => Quiet

\* What such a user is shown, is asked about and waits for is of the filesystem that
\* the selector names.
OneFilesystem ==
    ~hasty /\ trouble = 0 =>
        /\ Quiet => list.fs = selector.active /\ list.fs = inventory.fs
        /\ dialog.kind = "reload" => dialog.fs = selector.active
        /\ \A t \in Tasks : pc[t] = "list" => job[t].fs = selector.active

ListInv ==
    /\ TypeOK /\ SelectedIsVisible /\ RowsOfInventory
    /\ LoadingEnds /\ OneRequest /\ OneFilesystem
==============================================================================
