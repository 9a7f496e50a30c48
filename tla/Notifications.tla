---------------------------- MODULE Notifications ----------------------------
(***************************************************************************)
(* What a user is told of scheduled runs (crates/app/src/gui/              *)
(* notifications.rs).  The timer's runs log when they started and finished;*)
(* each window of the GUI, when it is built, reads when was last checked,  *)
(* lists the policies and, one request after another, their logs, tells of *)
(* each run that finished since, and stores when this check began.  Every  *)
(* reading of the clock is later than the one before.                      *)
(***************************************************************************)
EXTENDS Integers, FiniteSets

CONSTANTS
    Windows,      \* of the program
    Policies,
    Runs,         \* numbers, in the order of their start
    Limit,        \* list_policy_logs: LIMIT 50
    Hour,         \* what a first check looks back, as readings of the clock
    MaxTime,      \* bound: readings of the clock
    MaxFaults     \* bound: failing requests, files, killed programs, second and closed windows

VARIABLES
    clock,
    run,          \* run -> its policy, its state and its two times
    file,         \* last-policy-check: a time, or Never
    check,        \* window -> its check: its step, since, now, policies left, runs found
    told,         \* run -> the user was not told, once, more than once
    faults,
    excused,      \* history: runs a check could not see, or will not see
    twice         \* history: runs that finished while a check went on, or were told by
                  \* a check that could not store its time, or were there when checks overlapped

vars == <<clock, run, file, check, told, faults, excused, twice>>

Never == -1
Idle == [step |-> "idle", since |-> 0, now |-> 0, left |-> {}, found |-> {}]
NewRun == [policy |-> "none", state |-> "new", started |-> 0, finished |-> 0]
Times == (-Hour)..MaxTime

TypeOK ==
    /\ clock \in 0..MaxTime
    /\ run \in [Runs -> [policy : Policies \cup {"none"}, started : 0..MaxTime, finished : 0..MaxTime,
                         state : {"new", "running", "finished", "logged", "lost"}]]
    /\ file \in Times
    /\ check \in [Windows -> [step : {"idle", "policies", "logs"}, since : Times, now : 0..MaxTime,
                              left : SUBSET Policies, found : SUBSET Runs]]
    /\ told \in [Runs -> 0..2]
    /\ faults \in 0..MaxFaults /\ excused \subseteq Runs /\ twice \subseteq Runs

Init ==
    /\ clock = 0 /\ run = [r \in Runs |-> NewRun]
    /\ file = Never /\ check = [w \in Windows |-> Idle] /\ told = [r \in Runs |-> 0]
    /\ faults = 0 /\ excused = {} /\ twice = {}

Reading == clock < MaxTime /\ clock' = clock + 1
Fault == faults < MaxFaults /\ faults' = faults + 1
Checking(w) == check[w].step # "idle"
Ended(r) == run[r].state \in {"finished", "logged", "lost"}
Logged(p) == {r \in Runs : run[r].state = "logged" /\ run[r].policy = p}

-----------------------------------------------------------------------------
(* run_retention_policy, on its own *)

Start(r, p) ==
    /\ run[r].state = "new" /\ Reading
    /\ \A o \in Runs : run[o].state = "new" => r <= o
    /\ run' = [run EXCEPT ![r] = [NewRun EXCEPT !.policy = p, !.state = "running", !.started = clock']]
    /\ UNCHANGED <<file, check, told, faults, excused, twice>>

FinishRun(r) ==
    /\ run[r].state = "running" /\ Reading
    /\ run' = [run EXCEPT ![r].state = "finished", ![r].finished = clock']
    /\ twice' = IF \E w \in Windows : Checking(w) THEN twice \cup {r} ELSE twice
    /\ UNCHANGED <<file, check, told, faults, excused>>

\* The check that this run belongs to has read its policy's logs, or does not look back
\* to it.
PassedOver(r, w) ==
    /\ Checking(w) /\ run[r].finished < check[w].now
    /\ \/ run[r].finished <= check[w].since
       \/ check[w].step = "logs" /\ run[r].policy \notin check[w].left

\* A run that is inserted then is of the past for the next check.
Insert(r) ==
    /\ run[r].state = "finished"
    /\ \/ run' = [run EXCEPT ![r].state = "logged"] /\ UNCHANGED faults
       \/ run' = [run EXCEPT ![r].state = "lost"] /\ Fault
    /\ excused' = IF run[r].finished < file \/ \E w \in Windows : PassedOver(r, w)
                  THEN excused \cup {r} ELSE excused
    /\ UNCHANGED <<clock, file, check, told, twice>>

-----------------------------------------------------------------------------
(* check_recent_policy_runs, once for each window *)

\* read_last_check: an hour ago when there is no file; then the time of this check.  A
\* second window may begin while the check of the first goes on.
Begin(w) ==
    /\ ~Checking(w) /\ Reading
    /\ check' = [check EXCEPT ![w] = [Idle EXCEPT !.step = "policies", !.now = clock',
                                          !.since = IF file = Never THEN clock' - Hour ELSE file]]
    /\ excused' = IF file # Never THEN excused
                  ELSE excused \cup {r \in Runs : run[r].finished \in 1..(clock' - Hour)}
    /\ IF \E o \in Windows : Checking(o)
       THEN Fault /\ twice' = twice \cup {r \in Runs : Ended(r)}
       ELSE UNCHANGED <<faults, twice>>
    /\ UNCHANGED <<run, file, told>>

Since(rs, w) == {r \in rs : run[r].finished > check[w].since}
Due(rs, w) == {r \in Since(rs, w) : run[r].finished < check[w].now}   \* this check's to tell

\* ListSnapshotPolicies; without it nothing is found.
ReadPolicies(w) ==
    /\ check[w].step = "policies"
    /\ \/ /\ check' = [check EXCEPT ![w].step = "logs", ![w].left = Policies]
          /\ UNCHANGED <<faults, excused>>
       \/ /\ Fault /\ check' = [check EXCEPT ![w].step = "logs"]
          /\ excused' = excused \cup Due(UNION {Logged(p) : p \in Policies}, w)
    /\ UNCHANGED <<clock, run, file, told, twice>>

\* list_policy_logs: the newest by when they started.
Newest(p) == {r \in Logged(p) : Cardinality({o \in Logged(p) : run[o].started > run[r].started}) < Limit}

\* ListPolicyRunLogs; a policy whose logs cannot be read is skipped.
ReadLogs(w, p) ==
    /\ check[w].step = "logs" /\ p \in check[w].left
    /\ \/ /\ check' = [check EXCEPT ![w].left = @ \ {p}, ![w].found = @ \cup Since(Newest(p), w)]
          /\ excused' = excused \cup Due(Logged(p) \ Newest(p), w) /\ UNCHANGED faults
       \/ /\ Fault /\ check' = [check EXCEPT ![w].left = @ \ {p}]
          /\ excused' = excused \cup Due(Logged(p), w)
    /\ UNCHANGED <<clock, run, file, told, twice>>

\* Mutant: the time the check ends.
StampLate(w) == clock

\* The time that is stored.
Stamp(w) == check[w].now

\* A toast for each, then write_last_check, whose failure is ignored; toasts of a window
\* that was closed meanwhile, while another keeps the program running, nobody sees.
Tell(w) ==
    /\ check[w].step = "logs" /\ check[w].left = {} /\ check' = [check EXCEPT ![w] = Idle]
    /\ \/ /\ told' = [r \in Runs |-> IF r \in check[w].found /\ told[r] < 2 THEN told[r] + 1 ELSE told[r]]
          /\ UNCHANGED excused
          /\ \/ file' = Stamp(w) /\ UNCHANGED <<faults, twice>>
             \/ Fault /\ UNCHANGED file /\ twice' = twice \cup check[w].found
       \/ /\ Fault /\ file' = Stamp(w) /\ excused' = excused \cup check[w].found
          /\ UNCHANGED <<told, twice>>
    /\ UNCHANGED <<clock, run>>

\* The program ends while a request is under way.
Quit ==
    /\ \E w \in Windows : Checking(w)
    /\ Fault /\ check' = [w \in Windows |-> Idle]
    /\ UNCHANGED <<clock, run, file, told, excused, twice>>

-----------------------------------------------------------------------------

Next ==
    \/ \E r \in Runs : FinishRun(r) \/ Insert(r) \/ \E p \in Policies : Start(r, p)
    \/ \E w \in Windows : Begin(w) \/ ReadPolicies(w) \/ Tell(w) \/ \E p \in Policies : ReadLogs(w, p)
    \/ Quit

Spec == Init /\ [][Next]_vars

-----------------------------------------------------------------------------
(* Properties *)

\* Each logged run that had finished when a check began whose time is stored has been
\* told of, and no run is told twice: but for a run that ended an hour before the first
\* check, that a failing request or the limit hid, that was inserted after its policy's
\* logs had been read, or whose toast went to a closed window (excused), and for one
\* that finished during a check, whose check was not stored, or that was there when a
\* second window's check overlapped the first's (twice) (notifications.rs:1-65).
ToldOnce ==
    \A r \in Runs :
        /\ told[r] > 1 => r \in twice
        /\ (run[r].state = "logged" /\ run[r].finished < file)
              => told[r] > 0 \/ r \in excused

-----------------------------------------------------------------------------
(* Inductive strengthening of ToldOnce *)

\* Checks overlap, or did while one of them still goes on.
Blurred == \A r \in Runs : Ended(r) => r \in twice

\* A check lies between two readings of the clock and, unless checks overlap, takes over
\* where the last one that was stored left off.
CheckInOrder ==
    /\ file <= clock /\ (file = Never \/ file > 0)
    /\ \A w \in Windows :
         /\ Checking(w) =>
              /\ check[w].now \in 1..clock /\ check[w].since < check[w].now
              /\ \/ Blurred
                 \/ /\ file < check[w].now /\ (file # Never => check[w].since = file)
                    /\ \A o \in Windows \ {w} : ~Checking(o)
         /\ check[w].step = "policies" => check[w].left = {}
         /\ check[w].step \in {"idle", "policies"} => check[w].found = {}

\* Each reading of the clock is one event's own.
ReadingsApart(r) ==
    /\ run[r].state # "new" => run[r].policy \in Policies
    /\ Ended(r) => run[r].finished > 0
    /\ run[r].finished <= clock /\ run[r].finished # file
    /\ \A w \in Windows : Checking(w) => run[r].finished # check[w].now

\* Of what had finished when a check began, the user knows it, will be told of it by
\* this check, or is never told for a reason.
NotMissed(r) ==
    run[r].state = "logged" /\ r \notin excused =>
        /\ run[r].finished < file => told[r] > 0
        /\ \A w \in Windows : Checking(w) /\ run[r].finished < check[w].now =>
             \/ told[r] > 0
             \/ /\ run[r].finished > check[w].since
                /\ \/ check[w].step = "policies"
                   \/ run[r].policy \in check[w].left
                   \/ r \in check[w].found

\* What was told lies before the time that is stored, and what a check has found
\* behind it.
NotRepeated(r) ==
    /\ told[r] > 0 => Ended(r)
    /\ told[r] > 1 => r \in twice
    /\ told[r] > 0 /\ r \notin twice => run[r].finished < file
    /\ \A w \in Windows :
         /\ Checking(w) /\ Ended(r) /\ run[r].finished > check[w].now => r \in twice
         /\ r \in check[w].found => run[r].state = "logged" /\ run[r].finished > check[w].since

ToldInv ==
    /\ TypeOK /\ CheckInOrder
    /\ \A r \in Runs : ReadingsApart(r) /\ NotMissed(r) /\ NotRepeated(r)
=============================================================================
