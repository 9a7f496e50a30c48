---------------------------- MODULE RetentionRun ----------------------------
(***************************************************************************)
(* Scheduled snapshots and their retention (crates/helper/src/retention.rs)*)
(* on one filesystem and one policy.  The systemd timer and the GUI run    *)
(* the policy at the same time, each run a sequence of system calls and    *)
(* statements; commands fail, processes die, and other requests or tools   *)
(* remove subvolumes and rows.                                             *)
(*                                                                         *)
(* A row is its creation time, which also stands for its id: every reading *)
(* of the clock differs.  A path is the local time in its name, to the     *)
(* second, so readings may share it (CONSTANT Name).  Snapshots stay       *)
(* read-only here; ManagedSnapshots models what unlocking does.            *)
(***************************************************************************)
EXTENDS RetentionRules

CONSTANTS
    Clients,     \* threads and processes that run the policy
    Paths,       \* snapshot paths
    MaxTime,     \* bound: last reading of the clock
    Past,        \* readings before the behaviour starts
    Name,        \* reading -> the path a snapshot created then gets
    Bucket,      \* class -> reading -> bucket
    Limit,       \* class -> buckets the policy keeps
    MaxTrouble   \* bound: failing commands and statements, dying processes,
                 \*        subvolumes and rows removed by others, together

Times == 1..MaxTime
None == 0

ASSUME ClockAssumption == MaxTime \in Nat /\ Past \in 0..MaxTime
ASSUME NameAssumption == Name \in [Times -> Paths] /\ None \notin Paths
ASSUME PolicyAssumption ==
    /\ \A k \in DOMAIN Bucket : Bucket[k] \in [Times -> Int] /\ Limit[k] \in Nat
ASSUME BoundAssumption == MaxTrouble \in Nat

VARIABLES
    now,        \* next reading of the clock
    container,  \* the snapshot container exists
    disk,       \* path -> when its subvolume was created, or None
    rows,       \* path -> created_at of its row, or None
    pc, job,    \* client -> its next step, its local state
    killed,     \* path -> how often a run deleted its subvolume
    told,       \* path -> how many logs list it as deleted
    announced,  \* paths that logs list as created
    ever,       \* history: every created_at ever recorded
    faults, crashes, outside, lostLogs

counters == <<faults, crashes, outside, lostLogs>>
reports == <<told, announced>>
vars == <<now, container, disk, rows, pc, job, killed, reports, ever, counters>>

\* A row a run selected for deletion.
Candidates == [path : Paths, at : Times]

\* todo: rows still to delete; path: snapshot under creation; created, deleted:
\* the outcome; since: the clock when the run read the rows.
Jobs == [todo : SUBSET Candidates, path : Paths \cup {None},
         created : SUBSET Paths, deleted : SUBSET Paths, since : 0..MaxTime + 1]
NoJob == [todo |-> {}, path |-> None, created |-> {}, deleted |-> {}, since |-> 0]
Steps == {"idle", "prepare", "container", "snapshot", "insert", "cleanup",
          "check", "remove", "row", "log"}

TypeOK ==
    /\ now \in 1..MaxTime + 1 /\ container \in BOOLEAN
    /\ disk \in [Paths -> Times \cup {None}]
    /\ rows \in [Paths -> Times \cup {None}]
    /\ pc \in [Clients -> Steps] /\ job \in [Clients -> Jobs]
    /\ \A c \in Clients : pc[c] \in {"insert", "cleanup"} => job[c].path # None
    /\ \A c \in Clients : pc[c] \in {"remove", "row"} => job[c].todo # {}
    /\ killed \in [Paths -> Nat] /\ told \in [Paths -> Nat]
    /\ announced \subseteq Paths /\ ever \subseteq Times
    /\ faults \in Nat /\ crashes \in Nat /\ outside \in Nat /\ lostLogs \in 0..faults
    /\ faults + crashes + outside <= MaxTrouble

\* Earlier runs recorded some snapshots, each a reading after it was created.
Init ==
    /\ now = Past + 1
    /\ ever \in {S \in SUBSET (2..Past) :
                  \A t, u \in S : Name[t - 1] = Name[u - 1] => t = u}
    /\ rows = [p \in Paths |->
                 IF \E t \in ever : Name[t - 1] = p
                   THEN CHOOSE t \in ever : Name[t - 1] = p ELSE None]
    /\ disk = [p \in Paths |-> IF rows[p] = None THEN None ELSE rows[p] - 1]
    /\ container = (ever # {})
    /\ pc = [c \in Clients |-> "idle"] /\ job = [c \in Clients |-> NoJob]
    /\ killed = [p \in Paths |-> 0] /\ told = [p \in Paths |-> 0] /\ announced = {}
    /\ faults = 0 /\ crashes = 0 /\ outside = 0 /\ lostLogs = 0

-----------------------------------------------------------------------------
(* Steps of a run *)

Goto(c, step) == pc' = [pc EXCEPT ![c] = step]
Trouble == faults + crashes + outside < MaxTrouble
Fault == Trouble /\ faults' = faults + 1 /\ UNCHANGED <<crashes, outside, lostLogs>>
Recorded == {rows[p] : p \in Paths} \ {None}

\* Mutant: the rule is applied to the rows but the newest one.
SelectDropsNewest ==
    {o \in Candidates : rows[o.path] = o.at
        /\ o.at \notin KeepSet({t \in Recorded : \E u \in Recorded : u > t}, Bucket, Limit)}

\* Rows of the policy that no class keeps (retention_keep_set over all of them).
Select ==
    {o \in Candidates : rows[o.path] = o.at /\ o.at \notin KeepSet(Recorded, Bucket, Limit)}

\* The policy is loaded and the rows are read; or the policy is gone or disabled.
Begin(c) ==
    /\ pc[c] = "idle"
    /\ \/ /\ Goto(c, "prepare")
          /\ job' = [job EXCEPT ![c] = [NoJob EXCEPT !.todo = Select, !.since = now]]
       \/ Goto(c, "log") /\ UNCHANGED job
    /\ UNCHANGED <<now, container, disk, rows, killed, reports, ever, counters>>

\* if !container.exists()
Prepare(c) ==
    /\ pc[c] = "prepare"
    /\ Goto(c, IF container THEN "snapshot" ELSE "container")
    /\ UNCHANGED <<now, container, disk, rows, job, killed, reports, ever, counters>>

\* btrfs subvolume create; another run may have been faster.
CreateContainer(c) ==
    /\ pc[c] = "container"
    /\ \/ ~container /\ container' = TRUE /\ Goto(c, "snapshot") /\ UNCHANGED counters
       \/ container /\ Goto(c, "log") /\ UNCHANGED <<container, counters>>
       \/ Fault /\ Goto(c, "log") /\ UNCHANGED container
    /\ UNCHANGED <<now, disk, rows, job, killed, reports, ever>>

\* create_dir_all and btrfs subvolume snapshot -r; a read-only snapshot of the
\* same name refuses the new one.
Snapshot(c) ==
    /\ pc[c] = "snapshot" /\ now <= MaxTime
    /\ LET p == Name[now] IN
         \/ /\ disk[p] = None
            /\ disk' = [disk EXCEPT ![p] = now] /\ now' = now + 1
            /\ job' = [job EXCEPT ![c].path = p, ![c].created = {p}]
            /\ Goto(c, "insert") /\ UNCHANGED counters
         \/ /\ disk[p] # None
            /\ Goto(c, "log") /\ UNCHANGED <<disk, now, job, counters>>
         \/ Fault /\ Goto(c, "log") /\ UNCHANGED <<disk, now, job>>
    /\ UNCHANGED <<container, rows, killed, reports, ever>>

\* Mutant: the candidates are selected again once the new snapshot is recorded.
InsertReselects(c) ==
    /\ pc[c] = "insert" /\ now <= MaxTime
    /\ \/ /\ rows' = [rows EXCEPT ![job[c].path] = now] /\ now' = now + 1
          /\ ever' = ever \cup {now}
          /\ job' = [job EXCEPT ![c].todo = Select']
          /\ Goto(c, "check") /\ UNCHANGED counters
       \/ Fault /\ Goto(c, "cleanup") /\ UNCHANGED <<rows, now, ever, job>>
    /\ UNCHANGED <<container, disk, killed, reports>>

\* insert_managed_snapshot: INSERT OR REPLACE, the path is UNIQUE.
Insert(c) ==
    /\ pc[c] = "insert" /\ now <= MaxTime
    /\ \/ /\ rows' = [rows EXCEPT ![job[c].path] = now] /\ now' = now + 1
          /\ ever' = ever \cup {now}
          /\ Goto(c, "check") /\ UNCHANGED counters
       \/ Fault /\ Goto(c, "cleanup") /\ UNCHANGED <<rows, now, ever>>
    /\ UNCHANGED <<container, disk, job, killed, reports>>

\* Mutant: the outcome forgets the snapshot whatever the removal answers.
CleanupForgets(c) ==
    /\ pc[c] = "cleanup"
    /\ LET p == job[c].path IN
         \/ disk' = [disk EXCEPT ![p] = None] /\ UNCHANGED counters
         \/ Fault /\ UNCHANGED disk
    /\ job' = [job EXCEPT ![c].created = {}]
    /\ Goto(c, "log")
    /\ UNCHANGED <<now, container, rows, killed, reports, ever>>

\* The unrecorded snapshot is removed.  When it vanished, exists() said so, or
\* the removal failed after it did not.
Cleanup(c) ==
    /\ pc[c] = "cleanup"
    /\ LET p == job[c].path IN
         \/ /\ disk' = [disk EXCEPT ![p] = None]
            /\ job' = [job EXCEPT ![c].created = {}] /\ UNCHANGED counters
         \/ disk[p] = None /\ UNCHANGED <<disk, job, counters>>
         \/ Fault /\ UNCHANGED <<disk, job>>
    /\ Goto(c, "log")
    /\ UNCHANGED <<now, container, rows, killed, reports, ever>>

\* The rows come ORDER BY created_at DESC.
IsFirst(c, o) == o \in job[c].todo /\ \A q \in job[c].todo : q.at <= o.at

\* for old in delete_candidates: if !abs_path.exists(), or the end of the loop.
Check(c) ==
    /\ pc[c] = "check"
    /\ \/ job[c].todo = {} /\ Goto(c, "log")
       \/ \E o \in job[c].todo :
            /\ IsFirst(c, o)
            /\ Goto(c, IF disk[o.path] = None THEN "row" ELSE "remove")
    /\ UNCHANGED <<now, container, disk, rows, job, killed, reports, ever, counters>>

\* Mutant: a failed removal of what another run removed is reported as done.
RemoveClaims(c) ==
    /\ pc[c] = "remove"
    /\ \E o \in job[c].todo :
         /\ IsFirst(c, o)
         /\ \/ /\ job' = [job EXCEPT ![c].deleted = @ \cup {o.path}]
               /\ disk' = [disk EXCEPT ![o.path] = None]
               /\ killed' = [killed EXCEPT ![o.path] =
                               @ + (IF disk[o.path] = None THEN 0 ELSE 1)]
               /\ Goto(c, "row") /\ UNCHANGED counters
            \/ Fault /\ Goto(c, "log") /\ UNCHANGED <<disk, job, killed>>
    /\ UNCHANGED <<now, container, rows, reports, ever>>

\* btrfs subvolume delete.  An error counts only while the path is still there.
Remove(c) ==
    /\ pc[c] = "remove"
    /\ \E o \in job[c].todo :
         /\ IsFirst(c, o)
         /\ \/ /\ disk[o.path] # None
               /\ disk' = [disk EXCEPT ![o.path] = None]
               /\ killed' = [killed EXCEPT ![o.path] = @ + 1]
               /\ job' = [job EXCEPT ![c].deleted = @ \cup {o.path}]
               /\ Goto(c, "row") /\ UNCHANGED counters
            \/ /\ disk[o.path] = None
               /\ Goto(c, "row") /\ UNCHANGED <<disk, job, killed, counters>>
            \/ /\ disk[o.path] # None /\ Fault
               /\ Goto(c, "log") /\ UNCHANGED <<disk, job, killed>>
    /\ UNCHANGED <<now, container, rows, reports, ever>>

\* Mutant: the loop goes on without looking for the end of the list.
RowLoops(c) ==
    /\ pc[c] = "row"
    /\ \E o \in job[c].todo :
         /\ IsFirst(c, o)
         /\ \/ /\ rows' = [p \in Paths |-> IF rows[p] = o.at THEN None ELSE rows[p]]
               /\ job' = [job EXCEPT ![c].todo = @ \ {o}]
               /\ Goto(c, "remove") /\ UNCHANGED counters
            \/ Fault /\ Goto(c, "log") /\ UNCHANGED <<rows, job>>
    /\ UNCHANGED <<now, container, disk, killed, reports, ever>>

\* delete_managed_snapshot: DELETE ... WHERE id.
Row(c) ==
    /\ pc[c] = "row"
    /\ \E o \in job[c].todo :
         /\ IsFirst(c, o)
         /\ \/ /\ rows' = [p \in Paths |-> IF rows[p] = o.at THEN None ELSE rows[p]]
               /\ job' = [job EXCEPT ![c].todo = @ \ {o}]
               /\ Goto(c, "check") /\ UNCHANGED counters
            \/ Fault /\ Goto(c, "log") /\ UNCHANGED <<rows, job>>
    /\ UNCHANGED <<now, container, disk, killed, reports, ever>>

\* run_retention_policy writes the log of a run that succeeded or failed.
Log(c) ==
    /\ pc[c] = "log"
    /\ \/ /\ told' = [p \in Paths |-> told[p] + (IF p \in job[c].deleted THEN 1 ELSE 0)]
          /\ announced' = announced \cup job[c].created
          /\ UNCHANGED counters
       \/ /\ Trouble /\ faults' = faults + 1 /\ lostLogs' = lostLogs + 1
          /\ UNCHANGED <<crashes, outside, reports>>
    /\ Goto(c, "idle") /\ job' = [job EXCEPT ![c] = NoJob]
    /\ UNCHANGED <<now, container, disk, rows, killed, ever>>

Run(c) ==
    \/ Begin(c) \/ Prepare(c) \/ CreateContainer(c) \/ Snapshot(c) \/ Insert(c)
    \/ Cleanup(c) \/ Check(c) \/ Remove(c) \/ Row(c) \/ Log(c)

-----------------------------------------------------------------------------
(* The rest of the system *)

Tick ==
    /\ now <= MaxTime /\ now' = now + 1
    /\ UNCHANGED <<container, disk, rows, pc, job, killed, reports, ever, counters>>

\* A subvolume is deleted outside the run.
GoneOutside(p) ==
    /\ Trouble /\ outside' = outside + 1
    /\ disk[p] # None /\ disk' = [disk EXCEPT ![p] = None]
    /\ UNCHANGED <<now, container, rows, pc, job, killed, reports, ever,
                   faults, crashes, lostLogs>>

\* A row is deleted by another request: a listing prunes it (ManagedSnapshots).
RowGone(p) ==
    /\ Trouble /\ outside' = outside + 1
    /\ rows[p] # None /\ rows' = [rows EXCEPT ![p] = None]
    /\ UNCHANGED <<now, container, disk, pc, job, killed, reports, ever,
                   faults, crashes, lostLogs>>

Crash(c) ==
    /\ Trouble /\ crashes' = crashes + 1
    /\ pc[c] # "idle" /\ Goto(c, "idle") /\ job' = [job EXCEPT ![c] = NoJob]
    /\ UNCHANGED <<now, container, disk, rows, killed, reports, ever,
                   faults, outside, lostLogs>>

Next ==
    \/ \E c \in Clients : Run(c) \/ Crash(c)
    \/ Tick
    \/ \E p \in Paths : GoneOutside(p) \/ RowGone(p)

Spec == Init /\ [][Next]_vars

-----------------------------------------------------------------------------
(* Properties *)

Quiet == \A c \in Clients : pc[c] = "idle"

\* Names of the clock are used up once a snapshot is recorded: a second does not
\* outlast the recording, and local time does not repeat.
NamesUsedUp == \A t, u \in Times : u > t + 1 => Name[t] # Name[u]

\* Whatever the policy keeps of all snapshots it ever recorded is recorded and on
\* disk, in every state of overlapping, failing and dying runs: a run decides on
\* rows it read before others added and removed some.
BucketsKept ==
    outside = 0 =>
        \A t \in KeepSet(ever, Bucket, Limit) : \E p \in Paths : rows[p] = t /\ disk[p] # None

\* One failure is recovered from: no subvolume is left without a row
\* (retention.rs:173-175); more failures leave only what a log names.
NothingLeftUnsaid ==
    Quiet /\ crashes = 0 /\ outside = 0 /\ lostLogs = 0 =>
        \A p \in Paths : disk[p] # None /\ rows[p] = None => faults > 1 /\ p \in announced

\* The logs list each deletion exactly once, also when runs overlap, fail half way
\* or find the work of another one.
DeletionsLogged == Quiet /\ crashes = 0 /\ lostLogs = 0 => told = killed

\* A run only deletes subvolumes that were there when it read the rows
\* (retention.rs:246-247), apart from its own unrecorded one.
OnlyPreRunDeleted ==
    [][\A c \in Clients : pc[c] = "remove" /\ pc'[c] = "row" =>
         \A p \in Paths : disk[p] # disk'[p] => disk[p] < job[c].since]_vars

-----------------------------------------------------------------------------
(* Inductive strengthening of BucketsKept *)

\* No later reading gives this name again.
UsedUp(p) == \A u \in Times : u >= now => Name[u] # p

\* A row stands for one recorded snapshot, under a name that is used up.
RowsSound ==
    /\ ever \subseteq 1..now - 1
    /\ \A p \in Paths : rows[p] # None => rows[p] \in ever /\ UsedUp(p)

\* What a run is about to delete is beyond the rule for good, and its path can
\* hold nothing else any more.
CandidatesSound ==
    \A c \in Clients : \A o \in job[c].todo :
        /\ o.at \in ever \ KeepSet(ever, Bucket, Limit)
        /\ rows[o.path] \in {None, o.at}
        /\ UsedUp(o.path)

\* A snapshot not yet recorded is on disk, without a row, and of no other run.
Creating(c) == pc[c] \in {"insert", "cleanup"}
CreationsSound ==
    \A c \in Clients : Creating(c) =>
        /\ job[c].path \in Paths
        /\ disk[job[c].path] # None /\ rows[job[c].path] = None
        /\ \E t \in Times : t < now /\ Name[t] = job[c].path
        /\ \A d \in Clients :
             /\ \A o \in job[d].todo : o.path # job[c].path
             /\ Creating(d) /\ d # c => job[d].path # job[c].path

CalmInv == outside = 0 => RowsSound /\ CandidatesSound /\ CreationsSound /\ BucketsKept

-----------------------------------------------------------------------------
(* Inductive strengthening of NothingLeftUnsaid *)

Calm == crashes = 0 /\ outside = 0 /\ lostLogs = 0
Unrecorded(p) == disk[p] # None /\ rows[p] = None

\* A candidate's time is that of no other row, and when its row is next to be
\* deleted its subvolume is gone.
RowsLast ==
    \A c \in Clients : \A o \in job[c].todo :
        /\ \A p \in Paths : rows[p] = o.at => p = o.path
        /\ pc[c] = "row" /\ IsFirst(c, o) => disk[o.path] = None

\* A run at its snapshot would name it, and removes it because of a failure.
CreationsNamed ==
    \A c \in Clients : Creating(c) =>
        /\ job[c].created = {job[c].path}
        /\ pc[c] = "cleanup" => faults > 0

\* Every unrecorded subvolume is in the hands of its run, or two failures have left
\* it and a log names it or is about to.
UnrecordedSaid ==
    \A p \in Paths : Unrecorded(p) =>
        \/ \E c \in Clients : Creating(c) /\ job[c].path = p
        \/ /\ faults > 1
           /\ p \in announced \/ \E c \in Clients : pc[c] = "log" /\ p \in job[c].created

SaidInv == Calm => RowsLast /\ CreationsNamed /\ UnrecordedSaid
=============================================================================
