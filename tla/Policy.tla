------------------------------- MODULE Policy -------------------------------
(***************************************************************************)
(* Snapshot policies (crates/helper/src/policy.rs).  A policy lives in     *)
(* three places that no transaction joins: its row in the database, its    *)
(* two unit files, and what systemd has read, linked and started.  A       *)
(* request changes them one call after the other and, when a call fails,   *)
(* takes the earlier ones back.                                            *)
(***************************************************************************)
EXTENDS Naturals

CONSTANTS
    Clients,     \* threads and processes of the helper
    Policies,    \* policy ids
    Subvols,     \* source subvolumes
    Schedules,   \* values of OnCalendar
    Plans,       \* the fields no unit file contains: snapshot root and limits
    Invalid,     \* the plans validate_policy refuses: all limits 0, a bad path
    NoPolicy, NoFile, Torn,  \* no row; no file; a file that was half written
    MaxTrouble   \* bound: failing calls; a death or a restart of the machine counts for two

ASSUME ValueAssumption == NoFile \notin Schedules /\ Torn \notin Schedules /\ NoFile # Torn
ASSUME BoundAssumption == MaxTrouble \in Nat

Policy == [subvol : Subvols, schedule : Schedules, plan : Plans, enabled : BOOLEAN]

\* What validate_policy lets through.
Saved == {policy \in Policy : policy.plan \notin Invalid}

ASSUME RowAssumption == NoPolicy \notin Policy
ASSUME SomeAssumption == Policies # {} /\ Saved # {}

Files == Schedules \cup {NoFile, Torn}

VARIABLES
    rows,       \* id -> row of snapshot_policies
    service,    \* id -> service file: NoFile, Torn or "whole"
    timer,      \* id -> OnCalendar of the timer file
    loaded,     \* id -> OnCalendar systemd read at its last reload, or NoFile
    linked,     \* ids whose timer is linked into timers.target
    started,    \* ids whose timer was started
    pc, job,    \* client -> its next step, its local variables
    faults, crashes

units == <<service, timer, loaded, linked, started>>
counters == <<faults, crashes>>
vars == <<rows, units, pc, job, counters>>

\* id: the policy written; new: the wanted policy; prev: the one found before;
\* back: a failure is being taken back.
Jobs == [id : Policies, new : Saved, prev : Saved \cup {NoPolicy}, back : BOOLEAN]
NoJob == [id |-> CHOOSE p \in Policies : TRUE, new |-> CHOOSE r \in Saved : TRUE,
          prev |-> NoPolicy, back |-> FALSE]
Writing == {"row", "service", "timer", "reload", "switch"}
Removing == {"removeService", "removeTimer", "removeReload"}
Answers == {"ok", "error"}
Running == Writing \cup Removing \cup {"restore"}

TypeOK ==
    /\ rows \in [Policies -> Saved \cup {NoPolicy}]
    /\ service \in [Policies -> {"whole", NoFile, Torn}]
    /\ timer \in [Policies -> Files] /\ loaded \in [Policies -> Schedules \cup {NoFile}]
    /\ linked \subseteq Policies /\ started \subseteq Policies
    /\ pc \in [Clients -> Running \cup Answers \cup {"idle"}] /\ job \in [Clients -> Jobs]
    /\ \A c \in Clients : job[c].back /\ pc[c] \in Writing => job[c].prev # NoPolicy
    /\ faults \in Nat /\ crashes \in Nat /\ faults + 2 * crashes <= MaxTrouble

Init ==
    /\ rows = [p \in Policies |-> NoPolicy]
    /\ service = [p \in Policies |-> NoFile] /\ timer = [p \in Policies |-> NoFile]
    /\ loaded = [p \in Policies |-> NoFile] /\ linked = {} /\ started = {}
    /\ pc = [c \in Clients |-> "idle"] /\ job = [c \in Clients |-> NoJob]
    /\ faults = 0 /\ crashes = 0

-----------------------------------------------------------------------------
(* Requests *)

Goto(c, step) == pc' = [pc EXCEPT ![c] = step]
Fault == faults + 2 * crashes < MaxTrouble /\ faults' = faults + 1 /\ UNCHANGED crashes
Death == faults + 2 * crashes + 1 < MaxTrouble /\ crashes' = crashes + 1 /\ UNCHANGED faults

\* list_snapshot_policies only reads; it can fail.
ListFails ==
    Fault /\ UNCHANGED <<rows, units, pc, job>>

\* upsert_snapshot_policy: validate, read the row that is about to be replaced.
Upsert(c, p, policy) ==
    /\ pc[c] = "idle"
    /\ \/ /\ policy \in Saved
          /\ job' = [job EXCEPT ![c] =
                       [id |-> p, new |-> policy, prev |-> rows[p], back |-> FALSE]]
          /\ Goto(c, "row") /\ UNCHANGED counters
       \/ policy \notin Saved /\ Goto(c, "error") /\ UNCHANGED <<job, counters>>
       \/ Fault /\ Goto(c, "error") /\ UNCHANGED job
    /\ UNCHANGED <<rows, units>>

\* set_snapshot_policy_enabled: the whole row is read and will be written back.
SetEnabled(c, p, on) ==
    /\ pc[c] = "idle"
    /\ \/ /\ rows[p] # NoPolicy
          /\ job' = [job EXCEPT ![c] = [id |-> p, new |-> [rows[p] EXCEPT !.enabled = on],
                                        prev |-> rows[p], back |-> FALSE]]
          /\ Goto(c, "row") /\ UNCHANGED counters
       \/ rows[p] = NoPolicy /\ Goto(c, "error") /\ UNCHANGED <<job, counters>>
       \/ Fault /\ Goto(c, "error") /\ UNCHANGED job
    /\ UNCHANGED <<rows, units>>

\* INSERT OR REPLACE INTO snapshot_policies.
WriteRow(c) ==
    /\ pc[c] = "row"
    /\ \/ /\ rows' = [rows EXCEPT ![job[c].id] = job[c].new]
          /\ Goto(c, "service") /\ UNCHANGED counters
       \/ Fault /\ Goto(c, "error") /\ UNCHANGED rows
    /\ UNCHANGED <<units, job>>

-----------------------------------------------------------------------------
(* write_systemd_policy_units, for the wanted policy or for the previous one *)

\* Mutant: the recovery writes the units of the policy that failed.
TargetNew(c) == job[c].new

Target(c) == IF job[c].back THEN job[c].prev ELSE job[c].new

\* A failure starts the recovery; one inside the recovery is only logged.
OnError(c) == Goto(c, IF job[c].back THEN "error" ELSE "restore")

\* create_dir_all and fs::write, which empties the file before it fills it.
WriteService(c) ==
    /\ pc[c] = "service"
    /\ \/ /\ service' = [service EXCEPT ![job[c].id] = "whole"]
          /\ Goto(c, "timer") /\ UNCHANGED counters
       \/ /\ Fault /\ OnError(c)
          /\ \/ UNCHANGED service
             \/ service' = [service EXCEPT ![job[c].id] = Torn]
    /\ UNCHANGED <<rows, timer, loaded, linked, started, job>>

WriteTimer(c) ==
    /\ pc[c] = "timer"
    /\ \/ /\ timer' = [timer EXCEPT ![job[c].id] = Target(c).schedule]
          /\ Goto(c, "reload") /\ UNCHANGED counters
       \/ /\ Fault /\ OnError(c)
          /\ \/ UNCHANGED timer
             \/ timer' = [timer EXCEPT ![job[c].id] = Torn]
    /\ UNCHANGED <<rows, service, loaded, linked, started, job>>

\* systemd reads every unit file again; a timer without OnCalendar is refused.
ReadUnits == loaded' = [p \in Policies |-> IF timer[p] \in Schedules THEN timer[p] ELSE NoFile]

\* systemctl daemon-reload, after the files are written or removed.
Reload(c) ==
    /\ pc[c] \in {"reload", "removeReload"}
    /\ \/ /\ ReadUnits /\ UNCHANGED counters
          /\ Goto(c, IF pc[c] = "reload" THEN "switch" ELSE "error")
       \/ /\ Fault /\ UNCHANGED loaded
          /\ IF pc[c] = "reload" THEN OnError(c) ELSE Goto(c, "error")
    /\ UNCHANGED <<rows, service, timer, linked, started, job>>

\* systemctl enable --now links and then starts the timer; disable --now undoes both.
Enable(p) ==
    /\ timer[p] \in Schedules /\ loaded[p] \in Schedules
    /\ linked' = linked \cup {p} /\ started' = started \cup {p}
Disable(p) == timer[p] # NoFile /\ linked' = linked \ {p} /\ started' = started \ {p}

\* systemctl refuses to enable what it could not read, and to disable what is not there.
Refused(p, on) == IF on THEN timer[p] \notin Schedules \/ loaded[p] = NoFile ELSE timer[p] = NoFile

\* A command that fails may have done its first half.
HalfDone(p, on) ==
    \/ UNCHANGED <<linked, started>>
    \/ linked' = (IF on THEN linked \cup {p} ELSE linked \ {p}) /\ UNCHANGED started

\* Mutant: a disabled policy's timer is left alone.
AppliedEnableOnly(c, p, on) == IF on THEN Enable(p) ELSE UNCHANGED <<linked, started>>

Applied(c, p, on) == IF on THEN Enable(p) ELSE Disable(p)

\* The answer is the outcome of the request, not of its recovery.
Switch(c) ==
    /\ pc[c] = "switch"
    /\ LET p == job[c].id
           on == Target(c).enabled
       IN  \/ /\ Applied(c, p, on)
              /\ Goto(c, IF job[c].back THEN "error" ELSE "ok") /\ UNCHANGED counters
           \/ /\ \/ Fault
                 \/ UNCHANGED counters /\ Refused(p, on)
              /\ HalfDone(p, on) /\ OnError(c)
    /\ UNCHANGED <<rows, service, timer, loaded, job>>

-----------------------------------------------------------------------------
(* recover_policy_after_scheduler_failure and remove_systemd_policy_units *)

\* Mutant: the units are written again also for a policy that did not exist.
RestoreRewrites(c) ==
    /\ pc[c] = "restore"
    /\ rows' = [rows EXCEPT ![job[c].id] = job[c].prev]
    /\ job' = [job EXCEPT ![c].back = TRUE]
    /\ Goto(c, "service") /\ UNCHANGED <<units, counters>>

\* The row first, whatever happens to it; then the unit files.
Restore(c) ==
    /\ pc[c] = "restore"
    /\ \/ rows' = [rows EXCEPT ![job[c].id] = job[c].prev] /\ UNCHANGED counters
       \/ Fault /\ UNCHANGED rows
    /\ job' = [job EXCEPT ![c].back = TRUE]
    /\ Goto(c, IF job[c].prev = NoPolicy THEN "removeService" ELSE "service")
    /\ UNCHANGED units

\* Mutant: removing a file that is not there is tried again.
RemoveServiceRetries(c) ==
    /\ pc[c] = "removeService" /\ service[job[c].id] # NoFile
    /\ service' = [service EXCEPT ![job[c].id] = NoFile]
    /\ Goto(c, "removeTimer")
    /\ UNCHANGED <<rows, timer, loaded, linked, started, job, counters>>

\* A file that is not there counts as removed.
RemoveService(c) ==
    /\ pc[c] = "removeService"
    /\ \/ /\ service' = [service EXCEPT ![job[c].id] = NoFile]
          /\ Goto(c, "removeTimer") /\ UNCHANGED counters
       \/ Fault /\ Goto(c, "error") /\ UNCHANGED service
    /\ UNCHANGED <<rows, timer, loaded, linked, started, job>>

RemoveTimer(c) ==
    /\ pc[c] = "removeTimer"
    /\ \/ /\ timer' = [timer EXCEPT ![job[c].id] = NoFile]
          /\ Goto(c, "removeReload") /\ UNCHANGED counters
       \/ Fault /\ Goto(c, "error") /\ UNCHANGED timer
    /\ UNCHANGED <<rows, service, loaded, linked, started, job>>

-----------------------------------------------------------------------------
(* The environment *)

\* The helper process dies; a file it was writing may stay half written.
Crash(c) ==
    /\ pc[c] \in Running /\ Death /\ Goto(c, "error")
    /\ \/ UNCHANGED <<service, timer>>
       \/ /\ pc[c] = "service" /\ service' = [service EXCEPT ![job[c].id] = Torn]
          /\ UNCHANGED timer
       \/ /\ pc[c] = "timer" /\ timer' = [timer EXCEPT ![job[c].id] = Torn]
          /\ UNCHANGED service
    /\ UNCHANGED <<rows, loaded, linked, started, job>>

\* The machine starts again: files are read, linked timers are started.
Reboot ==
    /\ Death
    /\ pc' = [c \in Clients |-> "idle"] /\ job' = [c \in Clients |-> NoJob]
    /\ ReadUnits
    /\ started' = {p \in linked : timer[p] \in Schedules}
    /\ UNCHANGED <<rows, service, timer, linked>>

\* The caller takes the answer.
Answered(c) ==
    /\ pc[c] \in Answers /\ Goto(c, "idle") /\ job' = [job EXCEPT ![c] = NoJob]
    /\ UNCHANGED <<rows, units, counters>>

-----------------------------------------------------------------------------

Step(c) ==
    \/ WriteRow(c) \/ WriteService(c) \/ WriteTimer(c) \/ Reload(c) \/ Switch(c)
    \/ Restore(c) \/ RemoveService(c) \/ RemoveTimer(c)

Request(c) ==
    \E p \in Policies :
        \/ \E policy \in Policy : Upsert(c, p, policy)
        \/ \E on \in BOOLEAN : SetEnabled(c, p, on)

Next == Reboot \/ ListFails \/ \E c \in Clients : Request(c) \/ Step(c) \/ Crash(c) \/ Answered(c)

Spec == Init /\ [][Next]_vars

\* One request at a time.  The helper does not enforce it.
Alone(c) == \A d \in Clients \ {c} : pc[d] = "idle"

SerialNext ==
    \/ Reboot \/ ListFails
    \/ \E c \in Clients : Alone(c) /\ Request(c)
    \/ \E c \in Clients : Step(c) \/ Crash(c) \/ Answered(c)

SerialSpec == Init /\ [][SerialNext]_vars

-----------------------------------------------------------------------------
(* Properties *)

\* The timer runs the policy, now and after a restart.
Runs(p, schedule) ==
    /\ p \in started /\ loaded[p] = schedule
    /\ p \in linked /\ timer[p] = schedule /\ service[p] = "whole"

\* The timer does not run the policy, neither now nor after a restart.
Rests(p) ==
    /\ p \in started => loaded[p] = NoFile
    /\ p \in linked => timer[p] = NoFile

\* The units do what the row says.
Agree(p) ==
    IF rows[p] # NoPolicy /\ rows[p].enabled THEN Runs(p, rows[p].schedule) ELSE Rests(p)

\* An answer that reports success means that the row is the wanted one and that
\* the timer runs it, or rests when it is disabled, whatever failed or died in
\* earlier requests (policy.rs:18-62, no two requests at a time).
SuccessIsScheduled ==
    \A c \in Clients : pc[c] = "ok" => rows[job[c].id] = job[c].new /\ Agree(job[c].id)

\* With at most one failing call and no dead process, row, files and timer agree
\* whenever no request is under way: the recovery of policy.rs:64-93 brings back
\* all that the failed request had changed.
TimerFollowsRow ==
    (faults <= 1 /\ crashes = 0 /\ \A c \in Clients : pc[c] \notin Running)
        => \A p \in Policies : Agree(p)

=============================================================================
