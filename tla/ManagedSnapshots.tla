-------------------------- MODULE ManagedSnapshots --------------------------
(***************************************************************************)
(* Managed snapshots: the subvolumes on disk and their rows in SQLite      *)
(* (crates/helper/src/snapshot.rs, the reconcile pass of subvolume.rs and  *)
(* state/snapshot.rs).                                                     *)
(*                                                                         *)
(* A snapshot lives in two places that no transaction joins.  Requests run *)
(* on separate threads and every btrfs command and SQL statement is a step *)
(* of its own, so a row can outlive its subvolume, a subvolume its row,    *)
(* and both can change between two steps of a request.                     *)
(***************************************************************************)
EXTENDS Integers

CONSTANTS
    Clients,     \* threads that run requests
    Names,       \* paths of snapshots under a snapshot root
    Anchors,     \* return paths of staged rollbacks
    Top,         \* the other subvolumes: "@", "@home", "@btrfs-manager"
    MaxIds,      \* bound: rows ever inserted
    MaxGone,     \* bound: subvolumes deleted by other tools
    MaxFaults,   \* bound: commands or statements that fail
    MaxCrashes   \* bound: requests cut short

ASSUME PathsAssumption ==
    /\ Names \cap Anchors = {} /\ Top \notin Names \cup Anchors

ASSUME LimitsAssumption ==
    MaxIds \in Nat /\ MaxGone \in Nat /\ MaxFaults \in Nat /\ MaxCrashes \in Nat

Paths == Names \cup Anchors
NoId == 0
NoRow == [id |-> NoId, state |-> "none"]

VARIABLES
    disk,        \* path -> "absent", "ro" or "rw"
    nested,      \* paths of snapshots that hold a subvolume of their own
    container,   \* the snapshot root exists
    rows,        \* path -> its row (the path column is UNIQUE)
    nextId,      \* a fresh uuid
    pc,          \* client -> step it is about to take
    job,         \* client -> the local variables of its request
    gone, faults, crashes

bounds == <<gone, faults, crashes>>
vars == <<disk, nested, container, rows, nextId, pc, job, bounds>>

Jobs == [path : Paths \cup {Top},          \* path the request works on
         id : Nat,                         \* id of the row that it read
         target : {"readonly", "unlocked"},\* state that a lock or unlock records
         todo : SUBSET Paths,              \* items of a batch delete to come
         listing : SUBSET (Paths \cup {Top}), \* what "btrfs subvolume list" printed
         stale : SUBSET Nat]               \* ids of the rows it will prune
NoJob == [path |-> Top, id |-> NoId, target |-> "readonly", todo |-> {},
          listing |-> {}, stale |-> {}]

RowStates == {"readonly", "unlocked", "rollback_anchor"}
Rows == [id : Nat, state : RowStates \cup {NoRow.state}]
Steps == {"idle", "container", "snapshot", "insert",
          "delete_find", "delete_check", "delete_subvolume", "delete_row",
          "set_property", "set_state", "list_rows", "list_prune"}

TypeOK ==
    /\ disk \in [Paths -> {"absent", "ro", "rw"}]
    /\ nested \subseteq Paths
    /\ container \in BOOLEAN
    /\ rows \in [Paths -> Rows]
    /\ nextId \in Nat \ {NoId}
    /\ pc \in [Clients -> Steps]
    /\ job \in [Clients -> Jobs]
    /\ gone \in 0..MaxGone /\ faults \in 0..MaxFaults /\ crashes \in 0..MaxCrashes

Init ==
    /\ disk = [q \in Paths |-> "absent"]
    /\ nested = {}
    /\ container = FALSE
    /\ rows = [q \in Paths |-> NoRow]
    /\ nextId = 1
    /\ pc = [c \in Clients |-> "idle"]
    /\ job = [c \in Clients |-> NoJob]
    /\ gone = 0 /\ faults = 0 /\ crashes = 0

-----------------------------------------------------------------------------
(* Helpers *)

\* The request of client c goes on; its locals change; it ends and they vanish.
Goto(c, step) == pc' = [pc EXCEPT ![c] = step] /\ UNCHANGED job
With(c, locals, step) == /\ pc' = [pc EXCEPT ![c] = step]
                         /\ job' = [job EXCEPT ![c] = locals]
End(c) == With(c, NoJob, "idle")
P(c) == job[c].path

Fault == faults < MaxFaults /\ faults' = faults + 1 /\ UNCHANGED <<gone, crashes>>

HasRow(q) == rows[q] # NoRow
OnDisk(q) == disk[q] # "absent"
IsAnchor(q) == rows[q].state = "rollback_anchor"

\* INSERT OR REPLACE: a row of the same path gives way.
Insert(q, st) ==
    /\ nextId <= MaxIds
    /\ rows' = [rows EXCEPT ![q] = [id |-> nextId, state |-> st]]
    /\ nextId' = nextId + 1

\* Mutant: DELETE ... WHERE path, which also hits the row of a successor.
DeleteRowByPath(c, i) ==
    rows' = [q \in Paths |-> IF q = P(c) THEN NoRow ELSE rows[q]]

\* DELETE ... WHERE id: nothing happens when the row was replaced or deleted.
DeleteRow(c, i) ==
    rows' = [q \in Paths |-> IF rows[q].id = i THEN NoRow ELSE rows[q]]

-----------------------------------------------------------------------------
(* create_managed_snapshot_impl *)

\* The destination name is a local time stamp with a resolution of one second:
\* two creations of the same second, or of the hour that the end of summer time
\* repeats, get the same path.
CreateBegin(c, n) ==
    /\ pc[c] = "idle"
    /\ With(c, [NoJob EXCEPT !.path = n], IF container THEN "snapshot" ELSE "container")
    /\ UNCHANGED <<disk, nested, container, rows, nextId, bounds>>

CreateContainer(c) ==
    /\ pc[c] = "container"
    /\ \/ /\ ~container /\ container' = TRUE
          /\ Goto(c, "snapshot") /\ UNCHANGED bounds
       \/ /\ container /\ End(c) /\ UNCHANGED <<container, bounds>>
       \/ Fault /\ End(c) /\ UNCHANGED container
    /\ UNCHANGED <<disk, nested, rows, nextId>>

\* btrfs subvolume snapshot -r: a read-only snapshot at the destination refuses
\* the new one; an unlocked one takes it as a child of its own.
CreateSnapshot(c) ==
    /\ pc[c] = "snapshot"
    /\ \/ /\ disk[P(c)] = "absent" /\ disk' = [disk EXCEPT ![P(c)] = "ro"]
          /\ Goto(c, "insert") /\ UNCHANGED <<nested, bounds>>
       \/ /\ disk[P(c)] = "rw" /\ nested' = nested \cup {P(c)}
          /\ Goto(c, "insert") /\ UNCHANGED <<disk, bounds>>
       \/ disk[P(c)] = "ro" /\ End(c) /\ UNCHANGED <<disk, nested, bounds>>
       \/ Fault /\ End(c) /\ UNCHANGED <<disk, nested>>
    /\ UNCHANGED <<container, rows, nextId>>

CreateInsert(c) ==
    /\ pc[c] = "insert"
    /\ \/ Insert(P(c), "readonly") /\ UNCHANGED bounds
       \/ Fault /\ UNCHANGED <<rows, nextId>>
    /\ End(c)
    /\ UNCHANGED <<disk, nested, container>>

-----------------------------------------------------------------------------
(* delete_managed_snapshots_impl; a single delete is a batch of one *)

DeleteBegin(c, batch) ==
    /\ pc[c] = "idle" /\ batch # {}
    /\ With(c, [NoJob EXCEPT !.todo = batch], "delete_find")
    /\ UNCHANGED <<disk, nested, container, rows, nextId, bounds>>

\* An item that is worked on, and one that is reported and passed over.
Visit(c, q) == With(c, [job[c] EXCEPT !.todo = @ \ {q}, !.path = q, !.id = rows[q].id],
                    "delete_check")
PassOver(c, q) == With(c, [job[c] EXCEPT !.todo = @ \ {q}], "delete_find")

\* Mutant: the state of the row is not looked at.
DeleteFindAny(c) ==
    /\ pc[c] = "delete_find"
    /\ \/ \E q \in job[c].todo : IF HasRow(q) THEN Visit(c, q) ELSE PassOver(c, q)
       \/ job[c].todo = {} /\ End(c)
    /\ UNCHANGED <<disk, nested, container, rows, nextId, bounds>>

\* The next item of the batch; an unknown path and an anchor are refused.
DeleteFind(c) ==
    /\ pc[c] = "delete_find"
    /\ \/ \E q \in job[c].todo :
            IF HasRow(q) /\ ~IsAnchor(q) THEN Visit(c, q) ELSE PassOver(c, q)
       \/ job[c].todo = {} /\ End(c)
    /\ UNCHANGED <<disk, nested, container, rows, nextId, bounds>>

DeleteCheck(c) ==
    /\ pc[c] = "delete_check"
    /\ Goto(c, IF OnDisk(P(c)) THEN "delete_subvolume" ELSE "delete_row")
    /\ UNCHANGED <<disk, nested, container, rows, nextId, bounds>>

\* The command fails on a path that is gone and on a subvolume that holds
\* another; the failure ends the item and leaves its row.
Deletable(q) == OnDisk(q) /\ q \notin nested
DeleteSubvolume(c) ==
    /\ pc[c] = "delete_subvolume"
    /\ \/ /\ Deletable(P(c)) /\ disk' = [disk EXCEPT ![P(c)] = "absent"]
          /\ Goto(c, "delete_row") /\ UNCHANGED bounds
       \/ ~Deletable(P(c)) /\ Goto(c, "delete_find") /\ UNCHANGED <<disk, bounds>>
       \/ Fault /\ Goto(c, "delete_find") /\ UNCHANGED disk
    /\ UNCHANGED <<nested, container, rows, nextId>>

DeleteRowOf(c) ==
    /\ pc[c] = "delete_row"
    /\ \/ DeleteRow(c, job[c].id) /\ UNCHANGED bounds
       \/ Fault /\ UNCHANGED rows
    /\ Goto(c, "delete_find")
    /\ UNCHANGED <<disk, nested, container, nextId>>

-----------------------------------------------------------------------------
(* set_managed_snapshot_ro *)

SetRoBegin(c, q, st) ==
    /\ pc[c] = "idle" /\ HasRow(q) /\ ~IsAnchor(q)
    /\ With(c, [NoJob EXCEPT !.path = q, !.id = rows[q].id, !.target = st],
            "set_property")
    /\ UNCHANGED <<disk, nested, container, rows, nextId, bounds>>

SetProperty(c) ==
    /\ pc[c] = "set_property"
    /\ \/ /\ OnDisk(P(c))
          /\ disk' = [disk EXCEPT ![P(c)] = IF job[c].target = "readonly" THEN "ro" ELSE "rw"]
          /\ Goto(c, "set_state") /\ UNCHANGED bounds
       \/ ~OnDisk(P(c)) /\ End(c) /\ UNCHANGED <<disk, bounds>>
       \/ Fault /\ End(c) /\ UNCHANGED disk
    /\ UNCHANGED <<nested, container, rows, nextId>>

\* Mutant: only an unlock is recorded.
SetStateOnUnlock(c) ==
    /\ pc[c] = "set_state"
    /\ rows' = [q \in Paths |->
                  IF rows[q].id = job[c].id /\ job[c].target = "unlocked"
                    THEN [rows[q] EXCEPT !.state = job[c].target] ELSE rows[q]]
    /\ End(c)
    /\ UNCHANGED <<disk, nested, container, nextId, bounds>>

\* Mutant: an unlock records the other state that the schema knows.
SetStateDirty(c) ==
    /\ pc[c] = "set_state"
    /\ rows' = [q \in Paths |->
                  IF rows[q].id = job[c].id
                    THEN [rows[q] EXCEPT !.state = "dirty_unlocked"] ELSE rows[q]]
    /\ End(c)
    /\ UNCHANGED <<disk, nested, container, nextId, bounds>>

\* UPDATE ... WHERE id.
SetState(c) ==
    /\ pc[c] = "set_state"
    /\ \/ /\ rows' = [q \in Paths |->
                        IF rows[q].id = job[c].id
                          THEN [rows[q] EXCEPT !.state = job[c].target] ELSE rows[q]]
          /\ UNCHANGED bounds
       \/ Fault /\ UNCHANGED rows
    /\ End(c)
    /\ UNCHANGED <<disk, nested, container, nextId>>

-----------------------------------------------------------------------------
(* list_subvolumes and its reconcile pass *)

\* A stale top-level mount lists nothing at all.
ListBegin(c) ==
    /\ pc[c] = "idle"
    /\ \E printed \in {{}, {q \in Paths : OnDisk(q)} \cup {Top}} :
         /\ With(c, [NoJob EXCEPT !.listing = printed], "list_rows")
         /\ IF printed = {} THEN Fault ELSE UNCHANGED bounds
    /\ UNCHANGED <<disk, nested, container, rows, nextId>>

\* Mutants: an empty listing is believed; anchors are not spared; rows of
\* unlocked snapshots are spared too.
StaleRowsOfEmptyListing(c) ==
    {rows[q].id : q \in {t \in Paths : HasRow(t) /\ t \notin job[c].listing /\ ~IsAnchor(t)}}
StaleRowsWithAnchors(c) ==
    IF job[c].listing = {} THEN {}
    ELSE {rows[q].id : q \in {t \in Paths : HasRow(t) /\ t \notin job[c].listing}}
StaleRowsReadonly(c) ==
    IF job[c].listing = {} THEN {}
    ELSE {rows[q].id : q \in {t \in Paths : rows[t].state = "readonly" /\ t \notin job[c].listing}}

\* The rows to prune: not in the listing, not an anchor, and none at all when
\* the listing is empty.
StaleRows(c) ==
    IF job[c].listing = {} THEN {}
    ELSE {rows[q].id : q \in {t \in Paths : HasRow(t) /\ t \notin job[c].listing /\ ~IsAnchor(t)}}

\* When the rows cannot be read the inventory goes out without them.
ListRows(c) ==
    /\ pc[c] = "list_rows"
    /\ \/ With(c, [job[c] EXCEPT !.stale = StaleRows(c)], "list_prune") /\ UNCHANGED bounds
       \/ Fault /\ End(c)
    /\ UNCHANGED <<disk, nested, container, rows, nextId>>

\* A row that cannot be deleted is logged and left for the next listing.
ListPrune(c) ==
    /\ pc[c] = "list_prune"
    /\ \/ \E i \in job[c].stale :
            /\ With(c, [job[c] EXCEPT !.stale = @ \ {i}], "list_prune")
            /\ \/ DeleteRow(c, i) /\ UNCHANGED bounds
               \/ Fault /\ UNCHANGED rows
       \/ job[c].stale = {} /\ End(c) /\ UNCHANGED <<rows, bounds>>
    /\ UNCHANGED <<disk, nested, container, nextId>>

-----------------------------------------------------------------------------
(* The environment *)

\* stage_rollback, in two of its steps: the root goes to the return path, and
\* the path gets its anchor row (module Rollback has the whole request).
AnchorRename(a) ==
    /\ disk[a] = "absent" /\ ~HasRow(a)
    /\ disk' = [disk EXCEPT ![a] = "rw"]
    /\ UNCHANGED <<nested, container, rows, nextId, pc, job, bounds>>

AnchorRow(a) ==
    /\ disk[a] = "rw" /\ ~HasRow(a)
    /\ Insert(a, "rollback_anchor")
    /\ UNCHANGED <<disk, nested, container, pc, job, bounds>>

\* revert_rollback moves the root back; the row stays.
AnchorRevert(a) ==
    /\ disk[a] = "rw" /\ HasRow(a)
    /\ disk' = [disk EXCEPT ![a] = "absent"]
    /\ UNCHANGED <<nested, container, rows, nextId, pc, job, bounds>>

\* "btrfs subvolume delete" outside the app.
GoneOutside(n) ==
    /\ gone < MaxGone /\ gone' = gone + 1
    /\ Deletable(n) /\ disk' = [disk EXCEPT ![n] = "absent"]
    /\ UNCHANGED <<nested, container, rows, nextId, pc, job, faults, crashes>>

Crash(c) ==
    /\ pc[c] # "idle" /\ crashes < MaxCrashes
    /\ crashes' = crashes + 1
    /\ End(c)
    /\ UNCHANGED <<disk, nested, container, rows, nextId, gone, faults>>

-----------------------------------------------------------------------------
Create(c) == nextId <= MaxIds /\ \E n \in Names : CreateBegin(c, n)
Delete(c) == \E batch \in SUBSET Paths : DeleteBegin(c, batch)
SetRo(c) == \E q \in Paths, st \in {"readonly", "unlocked"} : SetRoBegin(c, q, st)

Continue(c) ==
    \/ CreateContainer(c) \/ CreateSnapshot(c) \/ CreateInsert(c)
    \/ DeleteFind(c) \/ DeleteCheck(c) \/ DeleteSubvolume(c) \/ DeleteRowOf(c)
    \/ SetProperty(c) \/ SetState(c)
    \/ ListRows(c) \/ ListPrune(c)

Environment ==
    \/ \E a \in Anchors : AnchorRename(a) \/ AnchorRow(a) \/ AnchorRevert(a)
    \/ \E n \in Names : GoneOutside(n)
    \/ \E c \in Clients : Crash(c)

\* What the helper allows: every request at any time.
Next ==
    \/ Environment
    \/ \E c \in Clients :
         Create(c) \/ Delete(c) \/ SetRo(c) \/ ListBegin(c) \/ Continue(c)

Spec == Init /\ [][Next]_vars

\* Creations and deletions overlap freely, but a listing and a lock or unlock
\* have the helper for themselves.  The code does not see to it.
Quiet == \A c \in Clients : pc[c] = "idle"
CreateOrDelete == {"idle", "container", "snapshot", "insert",
                   "delete_find", "delete_check", "delete_subvolume", "delete_row"}
OrderlyNext ==
    \/ Environment
    \/ \E c \in Clients :
         \/ Quiet /\ (ListBegin(c) \/ SetRo(c))
         \/ /\ \A d \in Clients : pc[d] \in CreateOrDelete
            /\ Create(c) \/ Delete(c)
         \/ Continue(c)

OrderlySpec == Init /\ [][OrderlyNext]_vars

-----------------------------------------------------------------------------
(* Properties *)

\* However requests interleave, fail or die, none of them removes or rewrites
\* the row of a rollback anchor or takes its subvolume away: only the revert of
\* the rollback does (snapshot.rs:51, snapshot.rs:187, subvolume.rs:37).
AnchorStays(a) ==
    /\ HasRow(a) => rows'[a] = rows[a]
    /\ HasRow(a) /\ disk'[a] # disk[a] => AnchorRevert(a)
AnchorsStay == [][\A a \in Anchors : AnchorStays(a)]_vars

\* A reconcile pass prunes only rows whose subvolume is gone ("prune DB rows
\* whose subvolume was deleted outside the app", subvolume.rs:36).
PruneOnlyDeleted ==
    [][\A c \in Clients, n \in Names :
         pc[c] = "list_prune" /\ pc'[c] = pc[c] /\ HasRow(n) /\ rows'[n] = NoRow
             => ~OnDisk(n)]_vars

\* A reconcile pass that ends undisturbed leaves no row without a subvolume in
\* its listing, so the inventory shows what is on disk.
ListReconciles ==
    [][\A c \in Clients, n \in Names :
         pc[c] = "list_prune" /\ pc'[c] = "idle" /\ crashes' = crashes
           /\ faults = 0 /\ HasRow(n)
             => n \in job[c].listing]_vars

\* While nothing fails, every snapshot that the app created is recorded once its
\* requests have ended: a delete that races a creation on the same path removes
\* the row it read and not the new one.
NoOrphans ==
    Quiet /\ faults = 0 /\ crashes = 0 => \A n \in Names : OnDisk(n) => HasRow(n)

\* While nothing fails, the recorded state tells a read-only snapshot from an
\* unlocked one, save where a creation landed inside an unlocked snapshot.
LockTruthful ==
    Quiet /\ faults = 0 /\ crashes = 0 =>
        \A n \in Names \ nested : HasRow(n) /\ OnDisk(n)
                            => (disk[n] = "ro" <=> rows[n].state = "readonly")

\* A writable snapshot is marked ("unlocking a snapshot sets ro=false and must
\* mark the snapshot as dirty/unlocked in state", docs/architecture.md:33).
UnlockedIsMarked ==
    Quiet => \A n \in Names \ nested :
                disk[n] = "rw" /\ HasRow(n) => rows[n].state = "unlocked"

-----------------------------------------------------------------------------
(* Inductive invariant *)

Targeting == {"container", "snapshot", "insert", "delete_check", "delete_subvolume",
              "delete_row", "set_property", "set_state"}
ByRow == {"delete_check", "delete_subvolume", "delete_row", "set_property", "set_state"}

\* Ids are handed out once, and only a stage gives a return path its row.
RowsInv ==
    /\ \A q \in Paths : rows[q].id < nextId /\ (HasRow(q) => rows[q].id # NoId)
    /\ \A q, t \in Paths : HasRow(q) /\ rows[q].id = rows[t].id => q = t
    /\ \A a \in Anchors : HasRow(a) => IsAnchor(a)

\* A request can only name rows that were there when it looked, and none of
\* them was an anchor.
Safe(locals, step) ==
    /\ locals.id < nextId /\ (\A i \in locals.stale : i # NoId /\ i < nextId)
    /\ step \in Targeting => locals.path \in Names
    /\ step \in ByRow => locals.id # NoId
    /\ \A a \in Anchors :
         HasRow(a) => rows[a].id # locals.id /\ rows[a].id \notin locals.stale

AnchorInv == RowsInv /\ \A c \in Clients : Safe(job[c], pc[c])

-----------------------------------------------------------------------------
(* Inductive invariant of OrderlySpec *)

Creating(n) == \E c \in Clients : pc[c] = "insert" /\ P(c) = n
Setting(n) == \E c \in Clients : pc[c] = "set_state" /\ P(c) = n

\* A listing, a lock and an unlock have the helper for themselves.
Alone ==
    \A c, d \in Clients :
        pc[c] \in {"list_rows", "list_prune", "set_property", "set_state"} /\ pc[d] # "idle"
            => c = d

\* The id that a request read belongs to the row of its path, or to none any more.
IdsOfPaths ==
    /\ \A n \in Names : HasRow(n) => ~IsAnchor(n)
    /\ \A c \in Clients : pc[c] \in ByRow =>
         \A n \in Names : HasRow(n) /\ rows[n].id = job[c].id => n = P(c)
    /\ \A c \in Clients : pc[c] \in {"set_property", "set_state"} =>
         HasRow(P(c)) /\ rows[P(c)].id = job[c].id

\* A reconcile pass knows all that is on disk, prunes nothing of it, and misses no row.
ListingInv ==
    \A c \in Clients :
      /\ pc[c] = "list_rows" =>
           IF job[c].listing = {} THEN faults > 0
           ELSE \A n \in Names : OnDisk(n) => n \in job[c].listing
      /\ pc[c] = "list_prune" => \A n \in Names : HasRow(n) =>
           /\ rows[n].id \in job[c].stale => ~OnDisk(n)
           /\ faults = 0 => n \in job[c].listing \/ rows[n].id \in job[c].stale

\* What is on disk without a row is about to get one, even from under the delete of the
\* row it had; and a row tells how its snapshot is, unless a request is about to say so.
RecordsInv ==
    faults = 0 /\ crashes = 0 => \A n \in Names : OnDisk(n) =>
        /\ HasRow(n) \/ Creating(n)
        /\ \A c \in Clients :
             pc[c] = "delete_row" /\ P(c) = n => rows[n].id # job[c].id \/ Creating(n)
        /\ n \notin nested =>
             /\ Creating(n) => disk[n] = "ro"
             /\ \/ HasRow(n) => (disk[n] = "ro" <=> rows[n].state = "readonly")
                \/ Creating(n) \/ Setting(n)
             /\ \A c \in Clients : pc[c] = "set_state" /\ P(c) = n =>
                  (disk[n] = "ro" <=> job[c].target = "readonly")

OrderlyInv == Alone /\ IdsOfPaths /\ ListingInv /\ RecordsInv
=============================================================================
