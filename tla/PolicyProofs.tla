----------------------------- MODULE PolicyProofs -----------------------------
(***************************************************************************)
(* Proofs about policies, their units and the dialog, for any number of    *)
(* clients, policies, schedules and troubles.                              *)
(***************************************************************************)
EXTENDS PolicyDialog, TLAPS

Steps == Running \cup Answers \cup {"idle"}

-----------------------------------------------------------------------------
(* Types *)

\* The fields of a row and of a job.
LEMMA RowFields ==
    ASSUME NEW r \in Policy
    PROVE  /\ r.subvol \in Subvols /\ r.schedule \in Schedules
           /\ r.plan \in Plans /\ r.enabled \in BOOLEAN
           /\ \A on \in BOOLEAN : [r EXCEPT !.enabled = on] \in Policy
           /\ \A plan \in Plans : [r EXCEPT !.plan = plan] \in Policy
           /\ \A x \in Schedules : [r EXCEPT !.schedule = x] \in Policy
           /\ \A s \in Subvols : [r EXCEPT !.subvol = s] \in Policy
           /\ r # NoPolicy
  BY RowAssumption DEF Policy

LEMMA SavedRows ==
    ASSUME NEW r \in Saved, NEW on \in BOOLEAN
    PROVE  r \in Policy /\ [r EXCEPT !.enabled = on] \in Saved
<1>1. r \in Policy /\ r.plan \notin Invalid
  BY DEF Saved
<1>2. [r EXCEPT !.enabled = on].plan = r.plan
  BY <1>1 DEF Policy
<1> QED
  BY <1>1, <1>2, RowFields DEF Saved

LEMMA JobFields ==
    ASSUME NEW j \in Jobs
    PROVE  /\ j.id \in Policies /\ j.new \in Saved /\ j.prev \in Saved \cup {NoPolicy}
           /\ j.back \in BOOLEAN
           /\ [j EXCEPT !.back = TRUE] \in Jobs
           /\ [j EXCEPT !.back = TRUE].id = j.id /\ [j EXCEPT !.back = TRUE].new = j.new
           /\ [j EXCEPT !.back = TRUE].prev = j.prev /\ [j EXCEPT !.back = TRUE].back = TRUE
  BY DEF Jobs

LEMMA NoJobTypes == NoJob \in Jobs /\ NoJob.id \in Policies /\ NoJob.back = FALSE
  BY SomeAssumption DEF NoJob, Jobs

\* A step that concerns client c only.
LEMMA LocalTypes ==
    ASSUME TypeOK, NEW c \in Clients, NEW s \in Steps, Goto(c, s),
           job' \in [Clients -> Jobs], \A d \in Clients \ {c} : job'[d] = job[d],
           job'[c].back /\ s \in Writing => job'[c].prev # NoPolicy
    PROVE  /\ pc' \in [Clients -> Steps] /\ job' \in [Clients -> Jobs] /\ pc'[c] = s
           /\ \A d \in Clients \ {c} : pc'[d] = pc[d]
           /\ \A d \in Clients : job'[d].back /\ pc'[d] \in Writing => job'[d].prev # NoPolicy
<1>1. /\ pc' \in [Clients -> Steps] /\ pc'[c] = s
      /\ \A d \in Clients \ {c} : pc'[d] = pc[d]
  BY DEF Goto, TypeOK, Steps
<1>2. ASSUME NEW d \in Clients, job'[d].back, pc'[d] \in Writing
      PROVE  job'[d].prev # NoPolicy
  BY <1>1, <1>2 DEF TypeOK
<1> QED
  BY <1>1, <1>2

\* The counters of trouble stay in their bounds.
LEMMA FaultTypes ==
    ASSUME TypeOK, Fault
    PROVE  /\ faults' \in Nat /\ crashes' \in Nat /\ faults' + 2 * crashes' <= MaxTrouble
           /\ faults' = faults + 1 /\ crashes' = crashes
  BY BoundAssumption DEF TypeOK, Fault

\* The policy whose units are written.
LEMMA TargetTypes ==
    ASSUME TypeOK, NEW c \in Clients, pc[c] \in Writing
    PROVE  Target(c) \in Saved /\ Target(c).schedule \in Schedules /\ Target(c).enabled \in BOOLEAN
<1>1. job[c] \in Jobs /\ (job[c].back => job[c].prev # NoPolicy)
  BY DEF TypeOK
<1>2. Target(c) \in Saved
  BY <1>1, JobFields DEF Target
<1> QED
  BY <1>2, RowFields DEF Saved

LEMMA InitTypes == Init => TypeOK
<1> SUFFICES ASSUME Init PROVE TypeOK
  OBVIOUS
<1>1. /\ rows \in [Policies -> Saved \cup {NoPolicy}]
      /\ service \in [Policies -> {"whole", NoFile, Torn}]
      /\ timer \in [Policies -> Files] /\ loaded \in [Policies -> Schedules \cup {NoFile}]
      /\ linked \subseteq Policies /\ started \subseteq Policies
  BY DEF Init, Files
<1>2. /\ pc \in [Clients -> Running \cup Answers \cup {"idle"}] /\ job \in [Clients -> Jobs]
      /\ \A c \in Clients : job[c].back = FALSE
  BY NoJobTypes DEF Init
<1>3. faults \in Nat /\ crashes \in Nat /\ faults + 2 * crashes <= MaxTrouble
  BY BoundAssumption DEF Init
<1> QED
  BY <1>1, <1>2, <1>3 DEF TypeOK

\* Every request keeps the types.
LEMMA RequestTypes ==
    ASSUME TypeOK, NEW c \in Clients, Request(c) PROVE TypeOK'
<1>1. PICK p \in Policies : \/ \E policy \in Policy : Upsert(c, p, policy)
                            \/ \E on \in BOOLEAN : SetEnabled(c, p, on)
  BY DEF Request
<1>2. UNCHANGED <<rows, units>> /\ (Fault \/ UNCHANGED counters)
  BY <1>1 DEF Upsert, SetEnabled
<1>3. CASE Goto(c, "error") /\ UNCHANGED job
  <2>1. "error" \in Steps /\ "error" \notin Writing
    BY DEF Steps, Answers, Writing
  <2> QED
    BY <1>2, <1>3, <2>1, LocalTypes, FaultTypes DEF TypeOK, units, counters, Steps
<1>4. CASE /\ Goto(c, "row")
           /\ \E policy \in Saved :
                 job' = [job EXCEPT ![c] = [id |-> p, new |-> policy, prev |-> rows[p], back |-> FALSE]]
  <2>1. PICK policy \in Saved :
           job' = [job EXCEPT ![c] = [id |-> p, new |-> policy, prev |-> rows[p], back |-> FALSE]]
    BY <1>4
  <2>2. [id |-> p, new |-> policy, prev |-> rows[p], back |-> FALSE] \in Jobs
    BY DEF TypeOK, Jobs
  <2>3. /\ job' \in [Clients -> Jobs] /\ \A d \in Clients \ {c} : job'[d] = job[d]
        /\ job'[c].back = FALSE
    BY <2>1, <2>2 DEF TypeOK
  <2>4. "row" \in Steps
    BY DEF Steps, Running, Writing
  <2> QED
    BY <1>2, <1>4, <2>3, <2>4, LocalTypes, FaultTypes DEF TypeOK, units, counters, Steps
<1>5. rows[p] # NoPolicy => \A on \in BOOLEAN : [rows[p] EXCEPT !.enabled = on] \in Saved
  BY SavedRows DEF TypeOK
<1>6. CASE \E policy \in Policy : Upsert(c, p, policy)
  BY <1>3, <1>4, <1>6 DEF Upsert
<1>7. CASE \E on \in BOOLEAN : SetEnabled(c, p, on)
  BY <1>3, <1>4, <1>5, <1>7 DEF SetEnabled
<1> QED
  BY <1>1, <1>6, <1>7

\* Every step of a request keeps the types.
LEMMA StepTypes ==
    ASSUME TypeOK, NEW c \in Clients, Step(c) PROVE TypeOK'
<1> USE DEF units, counters
<1>1. /\ job[c] \in Jobs /\ job[c].id \in Policies /\ job[c].new \in Saved
      /\ job[c].prev \in Saved \cup {NoPolicy}
  BY JobFields DEF TypeOK
<1>2. /\ {"restore", "error", "ok"} \subseteq Steps
      /\ Writing \subseteq Steps /\ Removing \subseteq Steps
      /\ \A s \in {"restore", "error", "ok"} \cup Removing : s \notin Writing
      /\ Removing = {"removeService", "removeTimer", "removeReload"}
      /\ Writing = {"row", "service", "timer", "reload", "switch"}
  BY DEF Steps, Running, Answers, Writing, Removing
\* A step that keeps the job, whatever else it does.
<1>3. ASSUME NEW s \in Steps, Goto(c, s), UNCHANGED job, s \in Writing => pc[c] \in Writing,
             rows' \in [Policies -> Saved \cup {NoPolicy}],
             service' \in [Policies -> {"whole", NoFile, Torn}],
             timer' \in [Policies -> Files], loaded' \in [Policies -> Schedules \cup {NoFile}],
             linked' \subseteq Policies, started' \subseteq Policies,
             Fault \/ UNCHANGED counters
      PROVE  TypeOK'
  <2>1. job' \in [Clients -> Jobs] /\ (job'[c].back /\ s \in Writing => job'[c].prev # NoPolicy)
    BY <1>3 DEF TypeOK
  <2>2. /\ pc' \in [Clients -> Steps]
        /\ \A d \in Clients : job'[d].back /\ pc'[d] \in Writing => job'[d].prev # NoPolicy
    BY <1>3, <2>1, LocalTypes
  <2>3. faults' \in Nat /\ crashes' \in Nat /\ faults' + 2 * crashes' <= MaxTrouble
    BY <1>3, FaultTypes DEF TypeOK
  <2> QED
    BY <1>3, <2>1, <2>2, <2>3 DEF TypeOK, Steps
<1>4. CASE WriteRow(c)
  <2>1. PICK s \in {"service", "error"} : Goto(c, s)
    BY <1>4 DEF WriteRow
  <2>2. rows' \in [Policies -> Saved \cup {NoPolicy}]
    BY <1>1, <1>4 DEF WriteRow, TypeOK
  <2> QED
    BY <1>2, <1>3, <1>4, <2>1, <2>2 DEF WriteRow, TypeOK
<1>5. CASE WriteService(c)
  <2>1. PICK s \in {"timer", "error", "restore"} : Goto(c, s)
    BY <1>5 DEF WriteService, OnError
  <2>2. service' \in [Policies -> {"whole", NoFile, Torn}]
    BY <1>1, <1>5 DEF WriteService, TypeOK
  <2> QED
    BY <1>2, <1>3, <1>5, <2>1, <2>2 DEF WriteService, TypeOK
<1>6. CASE WriteTimer(c)
  <2>1. PICK s \in {"reload", "error", "restore"} : Goto(c, s)
    BY <1>6 DEF WriteTimer, OnError
  <2>2. Target(c).schedule \in Files /\ Torn \in Files
    BY <1>2, <1>6, TargetTypes DEF WriteTimer, Files
  <2>3. timer' \in [Policies -> Files]
    BY <1>1, <1>6, <2>2 DEF WriteTimer, TypeOK
  <2> QED
    BY <1>2, <1>3, <1>6, <2>1, <2>3 DEF WriteTimer, TypeOK
<1>7. CASE Reload(c)
  <2>1. PICK s \in {"switch", "error", "restore"} : Goto(c, s) /\ (s = "switch" => pc[c] = "reload")
    BY <1>7 DEF Reload, OnError
  <2>2. loaded' \in [Policies -> Schedules \cup {NoFile}]
    BY <1>7 DEF Reload, ReadUnits, TypeOK
  <2> QED
    BY <1>2, <1>3, <1>7, <2>1, <2>2 DEF Reload, TypeOK
<1>8. CASE Switch(c)
  <2>1. PICK s \in {"ok", "error", "restore"} : Goto(c, s)
    BY <1>8 DEF Switch, OnError
  <2>2. linked' \subseteq Policies /\ started' \subseteq Policies
    BY <1>1, <1>8 DEF Switch, Applied, Enable, Disable, HalfDone, TypeOK
  <2>3. Fault \/ UNCHANGED counters
    BY <1>8 DEF Switch
  <2> QED
    BY <1>2, <1>3, <1>8, <2>1, <2>2, <2>3 DEF Switch, TypeOK
<1>9. CASE Restore(c)
  <2>1. PICK s \in {"removeService", "service"} :
           Goto(c, s) /\ (s = "service" => job[c].prev # NoPolicy)
    BY <1>9 DEF Restore
  <2>2. /\ job' = [job EXCEPT ![c] = [job[c] EXCEPT !.back = TRUE]]
        /\ [job[c] EXCEPT !.back = TRUE] \in Jobs
        /\ [job[c] EXCEPT !.back = TRUE].prev = job[c].prev
    BY <1>1, <1>9, JobFields DEF Restore
  <2>3. /\ job' \in [Clients -> Jobs] /\ job'[c].prev = job[c].prev
        /\ \A d \in Clients \ {c} : job'[d] = job[d]
    BY <2>2 DEF TypeOK
  <2>4. /\ pc' \in [Clients -> Steps]
        /\ \A d \in Clients : job'[d].back /\ pc'[d] \in Writing => job'[d].prev # NoPolicy
    BY <1>2, <2>1, <2>3, LocalTypes
  <2>5. rows' \in [Policies -> Saved \cup {NoPolicy}]
    BY <1>1, <1>9 DEF Restore, TypeOK
  <2>6. faults' \in Nat /\ crashes' \in Nat /\ faults' + 2 * crashes' <= MaxTrouble
    BY <1>9, FaultTypes DEF Restore, TypeOK
  <2> QED
    BY <1>9, <2>3, <2>4, <2>5, <2>6 DEF Restore, TypeOK, Steps
<1>10. CASE RemoveService(c)
  <2>1. PICK s \in {"removeTimer", "error"} : Goto(c, s)
    BY <1>10 DEF RemoveService
  <2>2. service' \in [Policies -> {"whole", NoFile, Torn}]
    BY <1>1, <1>10 DEF RemoveService, TypeOK
  <2> QED
    BY <1>2, <1>3, <1>10, <2>1, <2>2 DEF RemoveService, TypeOK
<1>11. CASE RemoveTimer(c)
  <2>1. PICK s \in {"removeReload", "error"} : Goto(c, s)
    BY <1>11 DEF RemoveTimer
  <2>2. timer' \in [Policies -> Files]
    BY <1>1, <1>11 DEF RemoveTimer, TypeOK, Files
  <2> QED
    BY <1>2, <1>3, <1>11, <2>1, <2>2 DEF RemoveTimer, TypeOK
<1> QED
  BY <1>4, <1>5, <1>6, <1>7, <1>8, <1>9, <1>10, <1>11 DEF Step

\* Deaths, restarts and answers keep the types.
LEMMA CrashTypes ==
    ASSUME TypeOK, NEW c \in Clients, Crash(c) PROVE TypeOK'
<1> USE DEF units, counters
<1>1. "error" \in Steps /\ "error" \notin Writing
  BY DEF Steps, Answers, Writing
<1>2. job[c].id \in Policies
  BY JobFields DEF TypeOK
<1>3. /\ service' \in [Policies -> {"whole", NoFile, Torn}] /\ timer' \in [Policies -> Files]
  BY <1>2 DEF Crash, TypeOK, Files
<1>4. faults' \in Nat /\ crashes' \in Nat /\ faults' + 2 * crashes' <= MaxTrouble
  BY BoundAssumption DEF Crash, TypeOK, Death
<1>5. /\ pc' \in [Clients -> Steps] /\ job' \in [Clients -> Jobs]
      /\ \A d \in Clients : job'[d].back /\ pc'[d] \in Writing => job'[d].prev # NoPolicy
  BY <1>1, LocalTypes DEF Crash, TypeOK
<1> QED
  BY <1>3, <1>4, <1>5 DEF Crash, TypeOK, Steps

LEMMA RebootTypes == TypeOK /\ Reboot => TypeOK'
<1> SUFFICES ASSUME TypeOK, Reboot PROVE TypeOK'
  OBVIOUS
<1>1. /\ pc' \in [Clients -> {"idle"}] /\ job' \in [Clients -> Jobs] /\ "idle" \notin Writing
  BY NoJobTypes DEF Reboot, Writing
<1>2. faults' \in Nat /\ crashes' \in Nat /\ faults' + 2 * crashes' <= MaxTrouble
  BY BoundAssumption DEF Reboot, TypeOK, Death
<1>3. loaded' \in [Policies -> Schedules \cup {NoFile}] /\ started' \subseteq Policies
  BY DEF Reboot, ReadUnits, TypeOK
<1> QED
  BY <1>1, <1>2, <1>3 DEF Reboot, TypeOK

LEMMA AnsweredTypes ==
    ASSUME TypeOK, NEW c \in Clients, Answered(c) PROVE TypeOK'
<1>1. "idle" \in Steps /\ "idle" \notin Writing
  BY DEF Steps, Writing
<1>2. job' \in [Clients -> Jobs] /\ \A d \in Clients \ {c} : job'[d] = job[d]
  BY NoJobTypes DEF Answered, TypeOK
<1>3. /\ pc' \in [Clients -> Steps]
      /\ \A d \in Clients : job'[d].back /\ pc'[d] \in Writing => job'[d].prev # NoPolicy
  BY <1>1, <1>2, LocalTypes DEF Answered
<1> QED
  BY <1>2, <1>3 DEF Answered, TypeOK, Steps, units, counters

LEMMA NextTypes == TypeOK /\ [Next]_vars => TypeOK'
<1> SUFFICES ASSUME TypeOK, [Next]_vars PROVE TypeOK'
  OBVIOUS
<1>1. CASE ListFails
  BY <1>1, FaultTypes DEF ListFails, TypeOK, units
<1>2. CASE UNCHANGED vars
  BY <1>2 DEF vars, units, counters, TypeOK
<1> QED
  BY <1>1, <1>2, RebootTypes, RequestTypes, StepTypes, CrashTypes, AnsweredTypes DEF Next

-----------------------------------------------------------------------------
(* One request at a time: the timer follows the row *)

OneRequest == \A c, d \in Clients : pc[c] # "idle" /\ pc[d] # "idle" => c = d

\* What a request has written of its policy when it comes to its next step.
Progress(c) ==
    /\ pc[c] = "row" => ~job[c].back
    /\ pc[c] \in {"service", "timer", "reload", "switch"} /\ ~job[c].back
            => rows[job[c].id] = job[c].new
    /\ pc[c] \in {"timer", "reload", "switch"} => service[job[c].id] = "whole"
    /\ pc[c] \in {"reload", "switch"} => timer[job[c].id] = Target(c).schedule
    /\ pc[c] = "switch" => loaded[job[c].id] = Target(c).schedule
    /\ pc[c] = "ok" => rows[job[c].id] = job[c].new /\ Agree(job[c].id)

SerialInv == OneRequest /\ \A c \in Clients : Progress(c)

\* The trouble that the recovery is made for.
Mild == faults <= 1 /\ crashes = 0

\* What the recovery of a request has brought back.
Restoring(c) ==
    /\ job[c].back \/ pc[c] \in Removing \cup {"restore"} => faults >= 1
    /\ job[c].back /\ pc[c] \in Writing => rows[job[c].id] = job[c].prev
    /\ pc[c] \in Removing => rows[job[c].id] = NoPolicy
    /\ pc[c] = "removeReload" => timer[job[c].id] = NoFile

\* Row and units agree, and still will after systemd has read the files again.
Settled(p) ==
    IF rows[p] # NoPolicy /\ rows[p].enabled
    THEN Runs(p, rows[p].schedule)
    ELSE p \in started \cup linked => timer[p] = NoFile /\ loaded[p] = NoFile

\* A request disturbs its policy from the row to the answer.
Disturbs(c, p) == pc[c] \in Running \ {"row"} /\ job[c].id = p

RecoveryInv ==
    Mild => /\ \A c \in Clients : Restoring(c)
            /\ \A p \in Policies : (\A c \in Clients : ~Disturbs(c, p)) => Settled(p)

LEMMA SettledAgree == ASSUME NEW p \in Policies, Settled(p) PROVE Agree(p)
  BY DEF Settled, Agree, Rests

\* While client c acts, all others are idle.
LEMMA Focus ==
    ASSUME TypeOK, OneRequest, RecoveryInv, Mild, NEW c \in Clients, pc[c] # "idle" \/ Alone(c)
    PROVE  /\ Restoring(c)
           /\ \A p \in Policies : ~Disturbs(c, p) => Settled(p)
<1>1. \A d \in Clients \ {c} : pc[d] = "idle"
  BY DEF OneRequest, Alone
<1>2. "idle" \notin Running
  BY DEF Running, Writing, Removing
<1>3. \A d \in Clients \ {c}, p \in Policies : ~Disturbs(d, p)
  BY <1>1, <1>2 DEF Disturbs
<1> QED
  BY <1>3 DEF RecoveryInv

\* A step of client c has to be looked at from client c only.
LEMMA LocalStep ==
    ASSUME TypeOK, SerialInv, RecoveryInv, NEW c \in Clients, pc[c] # "idle" \/ Alone(c),
           NEW s \in Steps, Goto(c, s), \A d \in Clients \ {c} : job'[d] = job[d],
           faults' \in Nat, faults' >= faults,
           Progress(c)',
           Mild' => /\ Mild /\ Restoring(c)'
                    /\ \A p \in Policies : ~Disturbs(c, p)' => Settled(p)'
    PROVE  SerialInv' /\ RecoveryInv'
<1>1. \A d \in Clients \ {c} : pc[d] = "idle"
  BY DEF SerialInv, OneRequest, Alone
<1>2. \A d \in Clients \ {c} : pc'[d] = "idle"
  BY <1>1 DEF Goto, TypeOK
<1>3. OneRequest'
  BY <1>2 DEF OneRequest
<1>4. ASSUME NEW d \in Clients \ {c} PROVE Progress(d)'
  BY <1>2, <1>4 DEF Progress
<1>5. ASSUME Mild', NEW d \in Clients \ {c} PROVE Restoring(d)'
  <2>1. job[d].back => faults >= 1
    BY <1>5 DEF RecoveryInv, Restoring
  <2>2. pc'[d] \notin Removing \cup {"restore"} /\ pc'[d] \notin Writing
    BY <1>2, <1>5 DEF Removing, Writing
  <2>3. job'[d].back => faults' >= 1
    BY <2>1, <1>5 DEF TypeOK
  <2>4. pc'[d] # "removeReload"
    BY <1>2, <1>5
  <2> QED
    BY <2>2, <2>3, <2>4 DEF Restoring
<1> QED
  BY <1>3, <1>4, <1>5 DEF SerialInv, RecoveryInv

\* The facts every step of a client starts from.
LEMMA StepFacts ==
    ASSUME TypeOK, SerialInv, RecoveryInv, NEW c \in Clients, pc[c] # "idle" \/ Alone(c)
    PROVE  /\ Progress(c)
           /\ job[c] \in Jobs /\ job[c].id \in Policies /\ job[c].new \in Saved
           /\ job[c].prev \in Saved \cup {NoPolicy} /\ job[c].back \in BOOLEAN
           /\ faults \in Nat /\ crashes \in Nat
           /\ Mild => Restoring(c) /\ \A p \in Policies : ~Disturbs(c, p) => Settled(p)
           /\ \A s \in {"row", "service", "timer", "reload", "switch", "restore", "ok", "error", "idle",
                         "removeService", "removeTimer", "removeReload"} : s \in Steps
  BY JobFields, Focus DEF TypeOK, SerialInv, Steps, Running, Answers, Writing, Removing

\* A failing call leaves a mild history mild only when it is the first.
LEMMA FaultFacts ==
    ASSUME TypeOK, Fault \/ UNCHANGED counters
    PROVE  /\ faults' \in Nat /\ faults' >= faults /\ (Mild' => Mild)
           /\ Fault /\ Mild' => faults = 0 /\ faults' = 1
  BY FaultTypes DEF TypeOK, Mild, Fault, counters

LEMMA RequestSerial ==
    ASSUME TypeOK, SerialInv, RecoveryInv, NEW c \in Clients, Alone(c), Request(c)
    PROVE  SerialInv' /\ RecoveryInv'
<1>1. PICK p \in Policies : \/ \E policy \in Policy : Upsert(c, p, policy)
                            \/ \E on \in BOOLEAN : SetEnabled(c, p, on)
  BY DEF Request
<1>2. UNCHANGED <<rows, units>> /\ (Fault \/ UNCHANGED counters) /\ pc[c] = "idle"
  BY <1>1 DEF Upsert, SetEnabled
<1>3. ASSUME Mild'
      PROVE  Mild /\ \A q \in Policies : Settled(q)'
  <2>1. Mild
    BY <1>2, <1>3, FaultFacts
  <2>2. \A q \in Policies : Settled(q)
    BY <1>2, <2>1, StepFacts DEF Disturbs, Running, Writing, Removing
  <2> QED
    BY <1>2, <2>1, <2>2 DEF Settled, Runs, units
<1>4. CASE Goto(c, "error") /\ UNCHANGED job
  <2>1. pc'[c] = "error"
    BY <1>4 DEF Goto, TypeOK
  <2>2. Progress(c)'
    BY <2>1 DEF Progress
  <2>3. Mild' => Restoring(c)'
    BY <1>2, <1>3, <1>4, <2>1, StepFacts, FaultFacts DEF Restoring, Removing, Writing
  <2> QED
    BY <1>2, <1>3, <1>4, <2>2, <2>3, StepFacts, FaultFacts, LocalStep
<1>5. CASE /\ Goto(c, "row")
           /\ \E policy \in Saved :
                 job' = [job EXCEPT ![c] = [id |-> p, new |-> policy, prev |-> rows[p], back |-> FALSE]]
  <2>1. /\ pc'[c] = "row" /\ job'[c].back = FALSE
        /\ \A d \in Clients \ {c} : job'[d] = job[d]
    BY <1>5 DEF Goto, TypeOK
  <2>2. Progress(c)'
    BY <2>1 DEF Progress
  <2>3. Mild' => Restoring(c)'
    BY <2>1 DEF Restoring, Removing
  <2> QED
    BY <1>2, <1>3, <1>5, <2>1, <2>2, <2>3, StepFacts, FaultFacts, LocalStep
<1>6. rows[p] # NoPolicy => \A on \in BOOLEAN : [rows[p] EXCEPT !.enabled = on] \in Saved
  BY SavedRows DEF TypeOK
<1>7. CASE \E policy \in Policy : Upsert(c, p, policy)
  BY <1>4, <1>5, <1>7 DEF Upsert
<1>8. CASE \E on \in BOOLEAN : SetEnabled(c, p, on)
  BY <1>4, <1>5, <1>6, <1>8 DEF SetEnabled
<1> QED
  BY <1>1, <1>7, <1>8

LEMMA WriteRowSerial ==
    ASSUME TypeOK, SerialInv, RecoveryInv, NEW c \in Clients, WriteRow(c)
    PROVE  SerialInv' /\ RecoveryInv'
<1> DEFINE p == job[c].id
<1>1. pc[c] = "row" /\ UNCHANGED <<units, job>> /\ (Fault \/ UNCHANGED counters)
  BY DEF WriteRow
<1>2. ~job[c].back /\ p \in Policies
  BY <1>1, StepFacts DEF Progress
<1>3. Mild => \A q \in Policies : Settled(q)
  BY <1>1, StepFacts DEF Disturbs
<1>4. CASE rows' = [rows EXCEPT ![p] = job[c].new] /\ Goto(c, "service")
  <2>1. /\ pc'[c] = "service" /\ rows'[p] = job[c].new
        /\ \A q \in Policies \ {p} : rows'[q] = rows[q]
    BY <1>2, <1>4 DEF Goto, TypeOK
  <2>2. Progress(c)'
    BY <1>1, <2>1 DEF Progress
  <2>3. Restoring(c)'
    BY <1>1, <1>2, <2>1 DEF Restoring, Removing
  <2>4. \A q \in Policies : ~Disturbs(c, q)' => q # p
    BY <1>1, <2>1 DEF Disturbs, Running, Writing
  <2>5. Mild => \A q \in Policies \ {p} : Settled(q)'
    BY <1>1, <1>3, <2>1 DEF Settled, Runs, units
  <2> QED
    BY <1>1, <1>4, <2>2, <2>3, <2>4, <2>5, StepFacts, FaultFacts, LocalStep
<1>5. CASE Goto(c, "error") /\ UNCHANGED rows
  <2>1. pc'[c] = "error"
    BY <1>5 DEF Goto, TypeOK
  <2>2. Progress(c)' /\ Restoring(c)'
    BY <1>1, <1>2, <2>1 DEF Progress, Restoring, Removing
  <2>3. Mild => \A q \in Policies : Settled(q)'
    BY <1>1, <1>3, <1>5 DEF Settled, Runs, units
  <2> QED
    BY <1>1, <1>5, <2>2, <2>3, StepFacts, FaultFacts, LocalStep
<1> QED
  BY <1>4, <1>5 DEF WriteRow

\* The units of every policy but p are left alone.
Only(p) ==
    \A q \in Policies \ {p} :
        /\ service'[q] = service[q] /\ timer'[q] = timer[q] /\ loaded'[q] = loaded[q]
        /\ (q \in linked' <=> q \in linked) /\ (q \in started' <=> q \in started)

LEMMA OnlySettled ==
    ASSUME NEW p \in Policies, NEW q \in Policies \ {p}, Only(p), rows'[q] = rows[q], Settled(q)
    PROVE  Settled(q)'
  BY DEF Only, Settled, Runs

\* A unit step that fails starts the recovery; in a mild history the recovery itself
\* does not fail.
LEMMA ErrorSerial ==
    ASSUME TypeOK, SerialInv, RecoveryInv, NEW c \in Clients,
           pc[c] \in {"service", "timer", "reload", "switch"}, OnError(c), Fault,
           UNCHANGED <<rows, job>>, Only(job[c].id)
    PROVE  SerialInv' /\ RecoveryInv'
<1> DEFINE p == job[c].id
<1>1. p \in Policies /\ pc[c] # "idle" /\ pc[c] \in Running /\ pc[c] # "row"
  BY StepFacts DEF Running, Writing
<1>2. PICK s \in {"error", "restore"} : Goto(c, s) /\ s = IF job[c].back THEN "error" ELSE "restore"
  BY DEF OnError
<1>3. pc'[c] = s
  BY <1>2 DEF Goto, TypeOK
<1>4. Progress(c)'
  BY <1>2, <1>3 DEF Progress
<1>5. ASSUME Mild'
      PROVE  Mild /\ Restoring(c)' /\ \A q \in Policies : ~Disturbs(c, q)' => Settled(q)'
  <2>1. Mild /\ faults = 0 /\ faults' = 1
    BY <1>5, FaultFacts
  <2>2. ~job[c].back
    BY <1>1, <2>1, StepFacts DEF Restoring
  <2>3. s = "restore"
    BY <1>2, <2>2
  <2>4. Restoring(c)'
    BY <1>3, <2>1, <2>2, <2>3 DEF Restoring, Removing
  <2>5. \A q \in Policies : ~Disturbs(c, q)' => q # p
    BY <1>3, <2>3 DEF Disturbs, Running
  <2>6. \A q \in Policies \ {p} : Settled(q)
    BY <1>1, <2>1, StepFacts DEF Disturbs
  <2>7. \A q \in Policies \ {p} : Settled(q)'
    BY <1>1, <2>6, OnlySettled
  <2> QED
    BY <2>1, <2>4, <2>5, <2>7
<1> QED
  BY <1>1, <1>2, <1>4, <1>5, StepFacts, FaultFacts, LocalStep

\* A unit step that succeeds and is not the last one.
LEMMA UnitSerial ==
    ASSUME TypeOK, SerialInv, RecoveryInv, NEW c \in Clients,
           pc[c] \in {"service", "timer", "reload"}, NEW s \in {"timer", "reload", "switch"},
           Goto(c, s), UNCHANGED <<rows, job, counters>>, Progress(c)',
           \A q \in Policies \ {job[c].id} : Mild /\ Settled(q) => Settled(q)'
    PROVE  SerialInv' /\ RecoveryInv'
<1> DEFINE p == job[c].id
<1>1. p \in Policies /\ pc[c] # "idle" /\ pc'[c] = s /\ pc[c] \in Writing
  BY StepFacts DEF Writing, Goto, TypeOK
<1>2. faults' = faults /\ crashes' = crashes /\ (Mild' <=> Mild)
  BY DEF counters, Mild
<1>3. Mild => Restoring(c)'
  BY <1>1, <1>2, StepFacts DEF Restoring, Removing
<1>4. \A q \in Policies : ~Disturbs(c, q)' => q # p
  BY <1>1 DEF Disturbs, Running, Writing
<1>5. Mild => \A q \in Policies \ {p} : Settled(q)
  BY <1>1, StepFacts DEF Disturbs
<1> QED
  BY <1>1, <1>2, <1>3, <1>4, <1>5, StepFacts, FaultFacts, LocalStep

LEMMA WriteServiceSerial ==
    ASSUME TypeOK, SerialInv, RecoveryInv, NEW c \in Clients, WriteService(c)
    PROVE  SerialInv' /\ RecoveryInv'
<1> DEFINE p == job[c].id
<1>1. pc[c] = "service" /\ UNCHANGED <<rows, timer, loaded, linked, started, job>> /\ p \in Policies
  BY StepFacts DEF WriteService
<1>2. Only(p)
  BY <1>1 DEF WriteService, Only, TypeOK
<1>3. CASE service' = [service EXCEPT ![p] = "whole"] /\ Goto(c, "timer") /\ UNCHANGED counters
  <2>1. pc'[c] = "timer" /\ service'[p] = "whole"
    BY <1>1, <1>3 DEF Goto, TypeOK
  <2>2. Progress(c)'
    BY <1>1, <2>1, StepFacts DEF Progress
  <2>3. \A q \in Policies \ {p} : Settled(q) => Settled(q)'
    BY <1>1, <1>2, OnlySettled
  <2> QED
    BY <1>1, <1>3, <2>2, <2>3, UnitSerial
<1>4. CASE Fault /\ OnError(c)
  BY <1>1, <1>2, <1>4, ErrorSerial
<1> QED
  BY <1>3, <1>4 DEF WriteService

LEMMA WriteTimerSerial ==
    ASSUME TypeOK, SerialInv, RecoveryInv, NEW c \in Clients, WriteTimer(c)
    PROVE  SerialInv' /\ RecoveryInv'
<1> DEFINE p == job[c].id
<1>1. pc[c] = "timer" /\ UNCHANGED <<rows, service, loaded, linked, started, job>> /\ p \in Policies
  BY StepFacts DEF WriteTimer
<1>2. Only(p)
  BY <1>1 DEF WriteTimer, Only, TypeOK
<1>3. CASE timer' = [timer EXCEPT ![p] = Target(c).schedule] /\ Goto(c, "reload") /\ UNCHANGED counters
  <2>1. pc'[c] = "reload" /\ timer'[p] = Target(c).schedule
    BY <1>1, <1>3 DEF Goto, TypeOK
  <2>2. Target(c)' = Target(c)
    BY <1>1 DEF Target
  <2>3. Progress(c)'
    BY <1>1, <2>1, <2>2, StepFacts DEF Progress
  <2>4. \A q \in Policies \ {p} : Settled(q) => Settled(q)'
    BY <1>1, <1>2, OnlySettled
  <2> QED
    BY <1>1, <1>3, <2>3, <2>4, UnitSerial
<1>4. CASE Fault /\ OnError(c)
  BY <1>1, <1>2, <1>4, ErrorSerial
<1> QED
  BY <1>3, <1>4 DEF WriteTimer

\* Reading the files again changes nothing for a policy that is settled.
LEMMA ReadSettled ==
    ASSUME TypeOK, ReadUnits, UNCHANGED <<rows, service, timer, linked, started>>,
           NEW q \in Policies, Settled(q)
    PROVE  Settled(q)'
<1>1. loaded'[q] = IF timer[q] \in Schedules THEN timer[q] ELSE NoFile
  BY DEF ReadUnits
<1>2. rows[q] # NoPolicy => rows[q].schedule \in Schedules
  BY RowFields DEF TypeOK, Saved
<1> QED
  BY <1>1, <1>2, ValueAssumption DEF Settled, Runs

LEMMA ReloadSerial ==
    ASSUME TypeOK, SerialInv, RecoveryInv, NEW c \in Clients, Reload(c)
    PROVE  SerialInv' /\ RecoveryInv'
<1> DEFINE p == job[c].id
<1>1. UNCHANGED <<rows, service, timer, linked, started, job>> /\ p \in Policies
  BY StepFacts DEF Reload
<1>2. CASE pc[c] = "reload" /\ ReadUnits /\ Goto(c, "switch") /\ UNCHANGED counters
  <2>1. pc'[c] = "switch" /\ Target(c)' = Target(c)
    BY <1>1, <1>2 DEF Goto, TypeOK, Target
  <2>2. timer[p] = Target(c).schedule /\ timer[p] \in Schedules
    BY <1>2, StepFacts, TargetTypes DEF Progress, Writing
  <2>3. loaded'[p] = Target(c).schedule
    BY <1>1, <1>2, <2>2 DEF ReadUnits
  <2>4. Progress(c)'
    BY <1>1, <1>2, <2>1, <2>2, <2>3, StepFacts DEF Progress
  <2> QED
    BY <1>1, <1>2, <2>4, ReadSettled, UnitSerial
<1>3. CASE pc[c] = "reload" /\ Fault /\ UNCHANGED loaded /\ OnError(c)
  BY <1>1, <1>3, ErrorSerial DEF Only
<1>4. CASE pc[c] = "removeReload" /\ Goto(c, "error") /\ ((ReadUnits /\ UNCHANGED counters) \/ (Fault /\ UNCHANGED loaded))
  <2>1. pc'[c] = "error" /\ pc[c] \in Removing
    BY <1>4 DEF Goto, TypeOK, Removing
  <2>2. Progress(c)'
    BY <2>1 DEF Progress
  <2>3. ASSUME Mild'
        PROVE  Mild /\ Restoring(c)' /\ \A q \in Policies : Settled(q)'
    <3>1. Mild /\ faults >= 1 /\ rows[p] = NoPolicy /\ timer[p] = NoFile
      BY <1>4, <2>1, <2>3, StepFacts, FaultFacts DEF Restoring
    <3>2. ReadUnits /\ UNCHANGED counters
      BY <1>4, <2>3, <3>1, FaultFacts
    <3>3. Restoring(c)'
      BY <1>1, <2>1, <3>1, <3>2 DEF Restoring, Removing, Writing, counters
    <3>4. Settled(p)'
      BY <1>1, <3>1, <3>2, ValueAssumption DEF Settled, ReadUnits
    <3>5. \A q \in Policies \ {p} : Settled(q)
      BY <1>4, <3>1, StepFacts DEF Disturbs
    <3>6. \A q \in Policies \ {p} : Settled(q)'
      BY <1>1, <3>2, <3>5, ReadSettled
    <3> QED
      BY <1>1, <3>1, <3>3, <3>4, <3>6
  <2>4. pc[c] # "idle" /\ "error" \in Steps /\ faults' \in Nat /\ faults' >= faults
    BY <1>4, StepFacts, FaultFacts
  <2>5. \A d \in Clients \ {c} : job'[d] = job[d]
    BY <1>1
  <2>6. Mild' => /\ Mild /\ Restoring(c)'
                 /\ \A q \in Policies : ~Disturbs(c, q)' => Settled(q)'
    BY <2>3
  <2>7. Goto(c, "error")
    BY <1>4
  <2> QED
    BY <2>2, <2>4, <2>5, <2>6, <2>7, LocalStep
<1>5. CASE pc[c] = "reload"
  <2>1. \/ Goto(c, "switch") /\ ReadUnits /\ UNCHANGED counters
        \/ Fault /\ UNCHANGED loaded /\ OnError(c)
    BY <1>5 DEF Reload, Goto
  <2> QED
    BY <1>2, <1>3, <1>5, <2>1
<1>6. CASE pc[c] = "removeReload"
  <2>1. pc[c] # "reload"
    BY <1>6
  <2>2. (IF pc[c] = "reload" THEN "switch" ELSE "error") = "error"
    BY <2>1
  <2>3. Goto(c, "error")
    BY <2>1, <2>2 DEF Reload
  <2>4. (ReadUnits /\ UNCHANGED counters) \/ (Fault /\ UNCHANGED loaded)
    BY DEF Reload
  <2> QED
    BY <1>4, <1>6, <2>3, <2>4
<1> QED
  BY <1>5, <1>6 DEF Reload

LEMMA SwitchSerial ==
    ASSUME TypeOK, SerialInv, RecoveryInv, NEW c \in Clients, Switch(c)
    PROVE  SerialInv' /\ RecoveryInv'
<1> DEFINE p == job[c].id
           on == Target(c).enabled
<1>1. /\ pc[c] = "switch" /\ UNCHANGED <<rows, service, timer, loaded, job>> /\ p \in Policies
      /\ Target(c)' = Target(c)
  BY StepFacts DEF Switch, Target
<1>2. /\ service[p] = "whole" /\ timer[p] = Target(c).schedule /\ loaded[p] = Target(c).schedule
      /\ timer[p] \in Schedules /\ on \in BOOLEAN /\ Target(c) \in Policy
  BY <1>1, StepFacts, TargetTypes DEF Progress, Writing, Saved
<1>3. CASE Applied(c, p, on) /\ Goto(c, IF job[c].back THEN "error" ELSE "ok") /\ UNCHANGED counters
  <2>1. Only(p) /\ (IF on THEN p \in started' /\ p \in linked' ELSE p \notin started' /\ p \notin linked')
    BY <1>1, <1>3 DEF Applied, Enable, Disable, Only
  <2>2. PICK s \in {"ok", "error"} : Goto(c, s) /\ (s = "ok" => ~job[c].back)
    BY <1>3
  <2>3. pc'[c] = s /\ s \in Steps
    BY <2>2, StepFacts DEF Goto, TypeOK, Steps, Answers
  <2>4. rows[p] = Target(c) => Settled(p)'
    BY <1>1, <1>2, <2>1, RowFields DEF Settled, Runs
  <2>5. Progress(c)'
    <3>1. CASE s = "ok"
      <4>1. rows[p] = job[c].new /\ Target(c) = job[c].new
        BY <1>1, <2>2, <3>1, StepFacts DEF Progress, Target
      <4>2. Agree(p)'
        BY <1>1, <1>2, <2>1, <4>1, RowFields DEF Agree, Runs, Rests
      <4> QED
        BY <1>1, <2>3, <3>1, <4>1, <4>2 DEF Progress
    <3>2. CASE s = "error"
      BY <2>3, <3>2 DEF Progress
    <3> QED
      BY <3>1, <3>2
  <2>6. ASSUME Mild'
        PROVE  Mild /\ Restoring(c)' /\ \A q \in Policies : Settled(q)'
    <3>1. Mild /\ Restoring(c) /\ faults' = faults
      BY <1>1, <1>3, <2>6, StepFacts DEF Mild, counters
    <3>2. rows[p] = Target(c)
      BY <1>1, <3>1, StepFacts DEF Progress, Restoring, Target, Writing
    <3>3. Restoring(c)'
      BY <1>1, <2>3, <3>1 DEF Restoring, Removing, Writing
    <3>4. \A q \in Policies \ {p} : Settled(q)
      BY <1>1, <3>1, StepFacts DEF Disturbs
    <3>5. \A q \in Policies \ {p} : Settled(q)'
      BY <1>1, <2>1, <3>4, OnlySettled
    <3> QED
      BY <1>1, <2>4, <3>1, <3>2, <3>3, <3>5
  <2>7. Mild' => /\ Mild /\ Restoring(c)'
                 /\ \A q \in Policies : ~Disturbs(c, q)' => Settled(q)'
    BY <2>6
  <2>8. faults' \in Nat /\ faults' >= faults
    BY <1>3, FaultFacts
  <2> QED
    BY <1>1, <2>2, <2>3, <2>5, <2>7, <2>8, LocalStep
<1>4. CASE Fault /\ HalfDone(p, on) /\ OnError(c)
  <2>1. Only(p)
    BY <1>1, <1>4 DEF HalfDone, Only
  <2> QED
    BY <1>1, <1>4, <2>1, ErrorSerial
<1>5. ~Refused(p, on)
  BY <1>2, ValueAssumption DEF Refused
<1> QED
  BY <1>3, <1>4, <1>5 DEF Switch

LEMMA RestoreSerial ==
    ASSUME TypeOK, SerialInv, RecoveryInv, NEW c \in Clients, Restore(c)
    PROVE  SerialInv' /\ RecoveryInv'
<1> DEFINE p == job[c].id
<1>1. /\ pc[c] = "restore" /\ UNCHANGED units /\ p \in Policies
      /\ (Fault /\ UNCHANGED rows) \/ (UNCHANGED counters /\ rows' = [rows EXCEPT ![p] = job[c].prev])
  BY StepFacts DEF Restore
<1>2. /\ job' = [job EXCEPT ![c] = [job[c] EXCEPT !.back = TRUE]]
      /\ [job[c] EXCEPT !.back = TRUE].prev = job[c].prev
      /\ [job[c] EXCEPT !.back = TRUE].id = job[c].id
      /\ [job[c] EXCEPT !.back = TRUE].back = TRUE
  BY JobFields, StepFacts, <1>1 DEF Restore
<1>3. /\ job'[c].prev = job[c].prev /\ job'[c].id = p /\ job'[c].back = TRUE
      /\ \A d \in Clients \ {c} : job'[d] = job[d]
  BY <1>2 DEF TypeOK
<1>4. PICK s \in {"removeService", "service"} :
         Goto(c, s) /\ (s = "removeService" <=> job[c].prev = NoPolicy)
  BY DEF Restore
<1>5. pc'[c] = s /\ s \in Steps
  BY <1>1, <1>4, StepFacts DEF Goto, TypeOK
<1>6. Progress(c)'
  BY <1>3, <1>5 DEF Progress
<1>7. ASSUME Mild'
      PROVE  /\ Mild /\ Restoring(c)'
             /\ \A q \in Policies : ~Disturbs(c, q)' => Settled(q)'
  <2>1. Mild /\ faults >= 1 /\ UNCHANGED counters /\ rows' = [rows EXCEPT ![p] = job[c].prev]
    BY <1>1, <1>7, StepFacts, FaultFacts DEF Restoring
  <2>2. rows'[p] = job[c].prev /\ \A q \in Policies \ {p} : rows'[q] = rows[q]
    BY <1>1, <2>1 DEF TypeOK
  <2>3. Restoring(c)'
    BY <1>3, <1>4, <1>5, <2>1, <2>2 DEF Restoring, Removing, Writing, counters
  <2>4. \A q \in Policies \ {p} : Settled(q)
    BY <1>1, <2>1, StepFacts DEF Disturbs
  <2>5. \A q \in Policies \ {p} : Settled(q)'
    BY <1>1, <2>2, <2>4 DEF Settled, Runs, units
  <2>6. \A q \in Policies : ~Disturbs(c, q)' => q # p
    BY <1>3, <1>5 DEF Disturbs, Running, Writing, Removing
  <2> QED
    BY <2>1, <2>3, <2>5, <2>6
<1>8. Mild' => /\ Mild /\ Restoring(c)'
               /\ \A q \in Policies : ~Disturbs(c, q)' => Settled(q)'
  BY <1>7
<1>9. faults' \in Nat /\ faults' >= faults
  BY <1>1, FaultFacts
<1> QED
  BY <1>1, <1>3, <1>4, <1>5, <1>6, <1>8, <1>9, LocalStep

LEMMA RemoveSerial ==
    ASSUME TypeOK, SerialInv, RecoveryInv, NEW c \in Clients, RemoveService(c) \/ RemoveTimer(c)
    PROVE  SerialInv' /\ RecoveryInv'
<1> DEFINE p == job[c].id
<1>1. /\ pc[c] \in {"removeService", "removeTimer"} /\ pc[c] \in Removing /\ p \in Policies
      /\ UNCHANGED <<rows, loaded, linked, started, job>>
  BY StepFacts DEF RemoveService, RemoveTimer, Removing
<1>2. Only(p)
  BY <1>1 DEF RemoveService, RemoveTimer, Only, TypeOK
<1>3. PICK s \in {"removeTimer", "removeReload", "error"} :
         /\ Goto(c, s) /\ (s = "error" => Fault)
         /\ s # "error" => UNCHANGED counters
         /\ s = "removeReload" => timer' = [timer EXCEPT ![p] = NoFile]
  BY DEF RemoveService, RemoveTimer
<1>4. pc'[c] = s /\ s \in Steps
  BY <1>1, <1>3, StepFacts DEF Goto, TypeOK
<1>5. Progress(c)'
  BY <1>4 DEF Progress
<1>6. ASSUME Mild'
      PROVE  /\ Mild /\ Restoring(c)'
             /\ \A q \in Policies : ~Disturbs(c, q)' => Settled(q)'
  <2>1. Mild /\ faults >= 1 /\ rows[p] = NoPolicy /\ s # "error" /\ UNCHANGED counters
    BY <1>1, <1>3, <1>6, StepFacts, FaultFacts DEF Restoring
  <2>2. s = "removeReload" => timer'[p] = NoFile
    BY <1>1, <1>3 DEF TypeOK
  <2>3. Restoring(c)'
    BY <1>1, <1>4, <2>1, <2>2 DEF Restoring, Writing, counters
  <2>4. \A q \in Policies \ {p} : Settled(q)
    BY <1>1, <2>1, StepFacts DEF Disturbs
  <2>5. \A q \in Policies \ {p} : Settled(q)'
    BY <1>1, <1>2, <2>4, OnlySettled
  <2>6. \A q \in Policies : ~Disturbs(c, q)' => q # p
    BY <1>1, <1>4, <2>1 DEF Disturbs, Running, Removing
  <2> QED
    BY <2>1, <2>3, <2>5, <2>6
<1>7. Mild' => /\ Mild /\ Restoring(c)'
               /\ \A q \in Policies : ~Disturbs(c, q)' => Settled(q)'
  BY <1>6
<1>8. faults' \in Nat /\ faults' >= faults
  BY <1>3, FaultFacts
<1> QED
  BY <1>1, <1>3, <1>4, <1>5, <1>7, <1>8, LocalStep

LEMMA CrashSerial ==
    ASSUME TypeOK, SerialInv, RecoveryInv, NEW c \in Clients, Crash(c)
    PROVE  SerialInv' /\ RecoveryInv'
<1>1. /\ pc[c] # "idle" /\ Goto(c, "error") /\ crashes' = crashes + 1 /\ UNCHANGED <<job, faults>>
  BY DEF Crash, Death, Running, Writing, Removing
<1>2. pc'[c] = "error" /\ "error" \in Steps
  BY <1>1, StepFacts DEF Goto, TypeOK
<1>3. Progress(c)'
  BY <1>2 DEF Progress
<1>4. ~Mild'
  BY <1>1 DEF Mild, TypeOK
<1> QED
  BY <1>1, <1>2, <1>3, <1>4, StepFacts, LocalStep

LEMMA AnsweredSerial ==
    ASSUME TypeOK, SerialInv, RecoveryInv, NEW c \in Clients, Answered(c)
    PROVE  SerialInv' /\ RecoveryInv'
<1>1. /\ pc[c] # "idle" /\ pc[c] \notin Running /\ Goto(c, "idle")
      /\ UNCHANGED <<rows, units, counters>> /\ job' = [job EXCEPT ![c] = NoJob]
  BY DEF Answered, Answers, Running, Writing, Removing
<1>2. /\ pc'[c] = "idle" /\ job'[c].back = FALSE
      /\ \A d \in Clients \ {c} : job'[d] = job[d]
  BY <1>1, NoJobTypes DEF Goto, TypeOK
<1>3. Progress(c)' /\ Restoring(c)'
  BY <1>2 DEF Progress, Restoring, Removing
<1>4. Mild' => Mild /\ \A q \in Policies : Settled(q)'
  <2>1. Mild => \A q \in Policies : Settled(q)
    BY <1>1, StepFacts DEF Disturbs
  <2> QED
    BY <1>1, <2>1 DEF Mild, Settled, Runs, units, counters
<1> QED
  BY <1>1, <1>2, <1>3, <1>4, StepFacts, FaultFacts, LocalStep

LEMMA RebootSerial ==
    ASSUME TypeOK, Reboot
    PROVE  SerialInv' /\ RecoveryInv'
<1>1. (\A c \in Clients : pc'[c] = "idle") /\ ~Mild'
  BY DEF Reboot, Death, Mild, TypeOK
<1> QED
  BY <1>1 DEF SerialInv, OneRequest, Progress, RecoveryInv

\* A step that only counts a failure, or nothing.
LEMMA ListSerial ==
    ASSUME TypeOK, SerialInv, RecoveryInv, ListFails \/ UNCHANGED vars
    PROVE  SerialInv' /\ RecoveryInv'
<1>1. UNCHANGED <<rows, service, timer, loaded, linked, started, pc, job>> /\ (Fault \/ UNCHANGED counters)
  BY DEF ListFails, vars, units
<1>2. SerialInv'
  BY <1>1 DEF SerialInv, OneRequest, Progress, Target, Agree, Runs, Rests
<1>3. ASSUME Mild' PROVE RecoveryInv'
  <2>1. Mild /\ faults \in Nat /\ faults' \in Nat /\ faults' >= faults
    BY <1>1, <1>3, FaultFacts DEF TypeOK
  <2>2. \A c \in Clients : Restoring(c)'
    BY <1>1, <2>1 DEF RecoveryInv, Restoring
  <2>3. \A p \in Policies : (\A c \in Clients : ~Disturbs(c, p)') => Settled(p)'
    BY <1>1, <2>1 DEF RecoveryInv, Disturbs, Settled, Runs
  <2> QED
    BY <2>2, <2>3 DEF RecoveryInv
<1> QED
  BY <1>2, <1>3 DEF RecoveryInv

LEMMA InitSerial == Init => SerialInv /\ RecoveryInv
<1> SUFFICES ASSUME Init PROVE SerialInv /\ RecoveryInv
  OBVIOUS
<1>1. \A c \in Clients : pc[c] = "idle" /\ job[c].back = FALSE
  BY NoJobTypes DEF Init
<1>2. \A c \in Clients : Progress(c) /\ Restoring(c)
  BY <1>1 DEF Progress, Restoring, Removing
<1>3. \A p \in Policies : Settled(p)
  BY DEF Init, Settled
<1> QED
  BY <1>1, <1>2, <1>3 DEF SerialInv, OneRequest, RecoveryInv

LEMMA SerialSteps ==
    TypeOK /\ SerialInv /\ RecoveryInv /\ [SerialNext]_vars => SerialInv' /\ RecoveryInv'
<1> SUFFICES ASSUME TypeOK, SerialInv, RecoveryInv, [SerialNext]_vars
             PROVE  SerialInv' /\ RecoveryInv'
  OBVIOUS
<1>1. ASSUME NEW c \in Clients, Step(c) PROVE SerialInv' /\ RecoveryInv'
  BY <1>1, WriteRowSerial, WriteServiceSerial, WriteTimerSerial, ReloadSerial, SwitchSerial,
     RestoreSerial, RemoveSerial DEF Step
<1> QED
  BY <1>1, RequestSerial, CrashSerial, AnsweredSerial, RebootSerial, ListSerial DEF SerialNext

LEMMA SerialIsNext == SerialNext => Next
  BY DEF SerialNext, Next

\* Of requests that come one at a time, any number of clients, policies, schedules and
\* troubles: a reported success has saved the wanted policy, and its timer runs it, or
\* rests when it is disabled.
THEOREM SuccessScheduled == SerialSpec => []SuccessIsScheduled
<1>1. Init => TypeOK /\ SerialInv /\ RecoveryInv
  BY InitTypes, InitSerial
<1>2. TypeOK /\ SerialInv /\ RecoveryInv /\ [SerialNext]_vars => (TypeOK /\ SerialInv /\ RecoveryInv)'
  BY SerialIsNext, NextTypes, SerialSteps
<1>3. SerialInv => SuccessIsScheduled
  BY DEF SerialInv, Progress, SuccessIsScheduled
<1> QED
  BY <1>1, <1>2, <1>3, PTL DEF SerialSpec

\* And whatever call of whatever request fails, as long as it is the only one and
\* nothing dies: row, unit files and timer agree between requests.
THEOREM TimersFollowRows == SerialSpec => []TimerFollowsRow
<1>1. Init => TypeOK /\ SerialInv /\ RecoveryInv
  BY InitTypes, InitSerial
<1>2. TypeOK /\ SerialInv /\ RecoveryInv /\ [SerialNext]_vars => (TypeOK /\ SerialInv /\ RecoveryInv)'
  BY SerialIsNext, NextTypes, SerialSteps
<1>3. RecoveryInv => TimerFollowsRow
  BY SettledAgree DEF RecoveryInv, Mild, Disturbs, TimerFollowsRow
<1> QED
  BY <1>1, <1>2, <1>3, PTL DEF SerialSpec

-----------------------------------------------------------------------------
(* The dialog *)

\* What the buttons are sensitive for is what was previewed.
GateInv == DialogTypeOK /\ (valid => previewed = form)

LEMMA GateInit == DialogInit => GateInv
  BY InitTypes, NoJobTypes, DefaultAssumption
  DEF DialogInit, GateInv, DialogTypeOK, Saved

\* Every step of the dialog is one of requests that come one at a time.
LEMMA DialogIsSerial ==
    ASSUME DialogTypeOK, [DialogNext]_dvars PROVE [SerialNext]_vars
<1> USE GuiAssumption
<1>1. CASE Close \/ Edit \/ Preview \/ UNCHANGED dvars
  BY <1>1 DEF Close, Edit, Preview, dvars
<1>2. CASE Shown
  BY <1>2 DEF Shown, SerialNext
<1>3. ASSUME NEW s \in Subvols, Open(s) PROVE [SerialNext]_vars
  BY <1>3 DEF Open, vars, SerialNext
<1>4. ASSUME NEW button \in {"save", "run"}, Alone(Gui), Press(button) PROVE [SerialNext]_vars
  <2>1. id \in Policies /\ form \in Policy /\ Upsert(Gui, id, form)
    BY <1>4 DEF Press, DialogTypeOK
  <2> QED
    BY <1>4, <2>1 DEF SerialNext, Request
<1>5. CASE Elsewhere
  BY <1>5, GivenAssumption DEF Elsewhere, Proceed, ElsewhereAsked, SerialNext, Request
<1>6. CASE DialogReboot
  BY <1>6 DEF DialogReboot, SerialNext
<1> QED
  BY <1>1, <1>2, <1>3, <1>4, <1>5, <1>6 DEF DialogNext, Dialog

LEMMA GateStep == GateInv /\ [DialogNext]_dvars => GateInv'
<1> SUFFICES ASSUME GateInv, [DialogNext]_dvars PROVE GateInv'
  OBVIOUS
<1> USE GuiAssumption
<1>1. TypeOK'
  BY DialogIsSerial, SerialIsNext, NextTypes DEF GateInv, DialogTypeOK
<1>2. CASE UNCHANGED dvars \/ Elsewhere
  BY <1>1, <1>2 DEF dvars, dialog, Elsewhere, Proceed, GateInv, DialogTypeOK
<1>3. CASE Close \/ DialogReboot
  BY <1>1, <1>3, NoJobTypes, DefaultAssumption
  DEF Close, DialogReboot, Gone, GateInv, DialogTypeOK, Saved
<1>4. CASE Edit
  <2>1. form' \in Policy
    BY <1>4, RowFields DEF Edit, GateInv, DialogTypeOK
  <2> QED
    BY <1>1, <1>4, <2>1 DEF Edit, GateInv, DialogTypeOK
<1>5. CASE Preview
  BY <1>1, <1>5 DEF Preview, GateInv, DialogTypeOK
<1>6. CASE Shown
  BY <1>1, <1>6 DEF Shown, GateInv, DialogTypeOK
<1>7. ASSUME NEW s \in Subvols, Open(s) PROVE GateInv'
  <2>1. [Default EXCEPT !.subvol = s] \in Policy
    BY DefaultAssumption, RowFields DEF Saved
  <2>2. \A q \in Found(s) : q \in Policies /\ rows[q] \in Policy
    BY DEF Found, Of, GateInv, DialogTypeOK, TypeOK, Saved
  <2>3. id' \in Policies /\ form' \in Policy /\ missed' \subseteq Subvols
    BY <1>7, <2>1, <2>2 DEF Open, GateInv, DialogTypeOK
  <2> QED
    BY <1>1, <1>7, <2>3 DEF Open, GateInv, DialogTypeOK
<1>8. ASSUME NEW button \in {"save", "run"}, Press(button) PROVE GateInv'
  BY <1>1, <1>8 DEF Press, GateInv, DialogTypeOK
<1> QED
  BY <1>2, <1>3, <1>4, <1>5, <1>6, <1>7, <1>8 DEF DialogNext, Dialog

\* Every behaviour of the dialog and of the requests behind and beside it keeps every
\* variable in its type; no row holds limits that validate_policy refuses.
THEOREM DialogTypes == DialogSpec => []DialogTypeOK
<1>1. GateInv => DialogTypeOK
  BY DEF GateInv
<1> QED
  BY <1>1, GateInit, GateStep, PTL DEF DialogSpec

\* The dialog sends its requests one at a time, and so do the others: what is proved
\* of SerialSpec holds behind the dialog, too.
THEOREM DialogImplementsSerial == DialogSpec => SerialSpec
<1>1. DialogInit => Init
  BY DEF DialogInit
<1>2. GateInv /\ [DialogNext]_dvars => [SerialNext]_vars
  BY DialogIsSerial DEF GateInv
<1> QED
  BY <1>1, <1>2, GateInit, GateStep, PTL DEF DialogSpec, SerialSpec

\* A request of the dialog starts with the button, and the button is sensitive only
\* for what was previewed.
LEMMA GateHolds ==
    ASSUME GateInv, [DialogNext]_dvars, pc[Gui] = "idle", pc'[Gui] = "row"
    PROVE  job'[Gui].new = previewed
<1> USE GuiAssumption
<1>1. ~UNCHANGED pc
  OBVIOUS
<1>2. ~(Shown \/ DialogReboot)
  BY DEF Shown, Answered, Answers, DialogReboot, Reboot
<1>3. ~(Step(Gui) \/ Crash(Gui))
  BY DEF Step, Crash, WriteRow, WriteService, WriteTimer, Reload, Switch, Restore, RemoveService,
         RemoveTimer, Running, Writing, Removing
<1>4. ~Elsewhere
  <2>1. ASSUME NEW c \in Clients, NEW s, Goto(c, s) PROVE c = Gui
    BY <2>1 DEF Goto, GateInv, DialogTypeOK, TypeOK
  <2>2. ASSUME NEW c \in Clients, Step(c) \/ Crash(c) PROVE c = Gui
    BY <2>1, <2>2 DEF Step, Crash, WriteRow, WriteService, WriteTimer, OnError, Reload, Switch, Restore,
       RemoveService, RemoveTimer
  <2>3. ASSUME NEW c \in Clients, Answered(c) PROVE c = Gui
    BY <2>1, <2>3 DEF Answered
  <2>4. ASSUME NEW c \in Clients, NEW p, NEW on, SetEnabled(c, p, on) PROVE c = Gui
    BY <2>1, <2>4 DEF SetEnabled
  <2>5. ASSUME NEW c \in Clients, NEW p, NEW policy, Upsert(c, p, policy) PROVE c = Gui
    BY <2>1, <2>5 DEF Upsert
  <2> QED
    BY <1>3, <2>2, <2>3, <2>4, <2>5 DEF Elsewhere, Proceed, ElsewhereAsked
<1>5. PICK button \in {"save", "run"} : Press(button)
  BY <1>1, <1>2, <1>4 DEF DialogNext, Dialog, Close, Edit, Preview, Open, dvars, vars
<1>6. valid /\ Upsert(Gui, id, form)
  BY <1>5 DEF Press
<1>7. ~Goto(Gui, "error")
  BY DEF Goto, GateInv, DialogTypeOK, TypeOK
<1>8. job'[Gui].new = form
  BY <1>6, <1>7 DEF Upsert, GateInv, DialogTypeOK, TypeOK
<1> QED
  BY <1>6, <1>8 DEF GateInv

\* What the dialog saves and runs was previewed after the last edit, whatever other
\* clients do and whatever fails or dies.
THEOREM GateIsSound == DialogSpec => SavedWasPreviewed
<1>1. GateInv /\ [DialogNext]_dvars
        => [pc[Gui] = "idle" /\ pc'[Gui] = "row" => job'[Gui].new = previewed]_dvars
  BY GateHolds
<1> QED
  BY <1>1, GateInit, GateStep, PTL DEF DialogSpec, SavedWasPreviewed

-----------------------------------------------------------------------------
(* One policy for each subvolume *)

\* Where the dialog has missed nothing, subvolume s has no policy but p.
Mine(p, s) == s \in missed \/ Of(s) \subseteq {p}

\* The open dialog has the id of the only policy of its subvolume.
WindowOwns == window # Closed => form.subvol = window /\ Mine(id, window)

\* A request of the dialog saves for the subvolume of the window; the row it may bring
\* back is the only one of its subvolume, too.
SaveOwns ==
    pc[Gui] \in Running =>
        /\ window # Closed /\ id = job[Gui].id /\ job[Gui].new.subvol = window
        /\ job[Gui].prev # NoPolicy => Mine(id, job[Gui].prev.subvol)

SoleInv == OnePerSubvolume /\ WindowOwns /\ SaveOwns

\* A request writes the row of its policy, and no other.
LEMMA RowStep ==
    ASSUME TypeOK, NEW c \in Clients, Step(c)
    PROVE  /\ pc[c] \in Running /\ \A d \in Clients \ {c} : pc'[d] = pc[d]
           /\ job[c].id \in Policies /\ job[c].new \in Policy
           /\ \A q \in Policies \ {job[c].id} : rows'[q] = rows[q]
           /\ rows'[job[c].id] \in {rows[job[c].id], job[c].new, job[c].prev}
           /\ job'[c].id = job[c].id /\ job'[c].new = job[c].new /\ job'[c].prev = job[c].prev
<1>1. job[c].id \in Policies /\ job[c].new \in Policy
  BY JobFields DEF TypeOK, Saved
<1>2. pc[c] \in Running
  BY DEF Step, WriteRow, WriteService, WriteTimer, Reload, Switch, Restore, RemoveService, RemoveTimer,
         Running, Writing, Removing
<1>3. \A d \in Clients \ {c} : pc'[d] = pc[d]
  BY DEF Step, WriteRow, WriteService, WriteTimer, OnError, Reload, Switch, Restore, RemoveService,
         RemoveTimer, Goto, TypeOK
<1>4. CASE WriteRow(c)
  BY <1>1, <1>2, <1>3, <1>4 DEF WriteRow, TypeOK
<1>5. CASE Restore(c)
  <2>1. job'[c].id = job[c].id /\ job'[c].new = job[c].new /\ job'[c].prev = job[c].prev
    BY <1>5, JobFields DEF Restore, TypeOK
  <2> QED
    BY <1>1, <1>2, <1>3, <1>5, <2>1 DEF Restore, TypeOK
<1>6. CASE UNCHANGED <<rows, job>>
  BY <1>1, <1>2, <1>3, <1>6
<1> QED
  BY <1>4, <1>5, <1>6 DEF Step, WriteService, WriteTimer, Reload, Switch, RemoveService, RemoveTimer

\* The dialog's own request adds no policy but its own.
LEMMA SoleOwnStep ==
    ASSUME TypeOK, SoleInv, Proceed(Gui) PROVE SoleInv'
<1> USE GuiAssumption
<1> DEFINE p == job[Gui].id
<1>1. /\ Step(Gui) /\ UNCHANGED <<dialog, missed>> /\ OnePerSubvolume /\ WindowOwns /\ SaveOwns
  BY DEF Proceed, SoleInv
<1>2. /\ p = id /\ window # Closed /\ job[Gui].new.subvol = window /\ Mine(id, window)
      /\ job[Gui].prev # NoPolicy => Mine(id, job[Gui].prev.subvol)
  BY <1>1, RowStep DEF SaveOwns, WindowOwns
<1>3. \A s : Of(s)' \subseteq Of(s) \cup {p}
  BY <1>1, RowStep DEF Of
<1>4. ASSUME NEW s \in Subvols \ missed, p \in Of(s)', p \notin Of(s) PROVE Of(s) \subseteq {p}
  <2>1. rows'[p] # NoPolicy /\ rows'[p].subvol = s /\ rows'[p] # rows[p]
    BY <1>1, <1>4, RowStep DEF Of
  <2>2. rows'[p] = job[Gui].new \/ rows'[p] = job[Gui].prev
    BY <1>1, <2>1, RowStep
  <2> QED
    BY <1>2, <1>4, <2>1, <2>2 DEF Mine
<1>5. OnePerSubvolume'
  <2> SUFFICES ASSUME NEW s \in Subvols \ missed, NEW q \in Of(s)', NEW r \in Of(s)' PROVE q = r
    BY <1>1 DEF OnePerSubvolume
  <2>1. CASE p \in Of(s)' /\ p \notin Of(s)
    BY <1>3, <1>4, <2>1
  <2>2. CASE ~(p \in Of(s)' /\ p \notin Of(s))
    BY <1>1, <1>3, <2>2 DEF OnePerSubvolume
  <2> QED
    BY <2>1, <2>2
<1>6. \A s : Mine(id, s) => Mine(id, s)'
  BY <1>1, <1>2, <1>3 DEF Mine, dialog
<1>7. WindowOwns'
  BY <1>1, <1>2, <1>6 DEF WindowOwns, dialog
<1>8. SaveOwns'
  BY <1>1, <1>2, <1>6, RowStep DEF SaveOwns, dialog
<1> QED
  BY <1>5, <1>7, <1>8 DEF SoleInv

\* What another client adds next to a policy, or behind the dialog, is missed.
LEMMA SoleOtherStep ==
    ASSUME GateInv, SerialInv, SoleInv, NEW c \in Clients \ {Gui}, Proceed(c) PROVE SoleInv'
<1> USE GuiAssumption
<1>1. Step(c) /\ UNCHANGED dialog /\ missed \subseteq missed' /\ OnePerSubvolume /\ WindowOwns
  BY DEF Proceed, SoleInv
<1>2. \A s \in Subvols \ missed' : \A p \in Of(s)' \ Of(s) : s # window /\ \A q \in Of(s)' : q = p
  BY DEF Proceed
<1>3. OnePerSubvolume'
  <2> SUFFICES ASSUME NEW s \in Subvols \ missed', NEW p \in Of(s)', NEW q \in Of(s)' PROVE p = q
    BY DEF OnePerSubvolume
  <2>1. CASE p \in Of(s) /\ q \in Of(s)
    BY <1>1, <2>1 DEF OnePerSubvolume
  <2>2. CASE p \notin Of(s) \/ q \notin Of(s)
    BY <1>2, <2>2
  <2> QED
    BY <2>1, <2>2
<1>4. WindowOwns'
  <2> SUFFICES ASSUME window # Closed PROVE form.subvol = window /\ Mine(id, window)'
    BY <1>1 DEF WindowOwns, dialog
  <2>1. CASE window \in missed'
    BY <1>1, <2>1 DEF WindowOwns, Mine, dialog
  <2>2. CASE window \notin missed'
    <3>1. Mine(id, window) /\ form.subvol = window
      BY <1>1 DEF WindowOwns
    <3>2. window \in Subvols /\ window' = window /\ id' = id
      BY <1>1 DEF dialog, GateInv, DialogTypeOK
    <3>3. \A p \in Of(window)' : p \in Of(window)
      BY <1>2, <2>2, <3>2 DEF Of
    <3> QED
      BY <1>1, <2>2, <3>1, <3>2, <3>3 DEF Mine, Of
  <2> QED
    BY <2>1, <2>2
<1>5. pc'[Gui] \notin Running
  <2>1. TypeOK
    BY DEF GateInv, DialogTypeOK
  <2> QED
    BY <1>1, <2>1, RowStep DEF SerialInv, OneRequest, Running, Writing, Removing
<1> QED
  BY <1>3, <1>4, <1>5 DEF SoleInv, SaveOwns

\* A step that writes no row and starts no request leaves the rest as it was.
LEMMA SoleFrame ==
    ASSUME SoleInv, UNCHANGED rows, missed \subseteq missed', WindowOwns => WindowOwns',
           pc'[Gui] \in Running => /\ pc[Gui] \in Running /\ job'[Gui] = job[Gui]
                                   /\ window' = window /\ id' = id
    PROVE  SoleInv'
<1>1. \A s : Of(s)' = Of(s)
  BY DEF Of
<1>2. OnePerSubvolume'
  BY <1>1 DEF SoleInv, OnePerSubvolume
<1>3. \A p, s : Mine(p, s) => Mine(p, s)'
  BY <1>1 DEF Mine
<1>4. SaveOwns'
  BY <1>3 DEF SoleInv, SaveOwns
<1> QED
  BY <1>2, <1>4 DEF SoleInv

LEMMA SoleStep ==
    ASSUME GateInv, SerialInv, SoleInv, [DialogNext]_dvars PROVE SoleInv'
<1> USE GuiAssumption
<1>1. /\ TypeOK /\ form \in Policy /\ window \in Subvols \cup {Closed}
      /\ "idle" \notin Running /\ "error" \notin Running
  BY DEF GateInv, DialogTypeOK, TypeOK, Running, Writing, Removing
<1>2. CASE UNCHANGED dvars
  BY <1>2, SoleFrame DEF dvars, vars, dialog, WindowOwns, Mine, Of
<1>3. CASE Close
  BY <1>1, <1>3, SoleFrame DEF Close, Gone, Ready, vars, WindowOwns
<1>4. CASE Edit
  <2>1. form'.subvol = form.subvol
    BY <1>1, <1>4 DEF Edit, Policy
  <2> QED
    BY <1>1, <1>4, <2>1, SoleFrame DEF Edit, Ready, vars, WindowOwns, Mine, Of
<1>5. CASE Preview
  BY <1>1, <1>5, SoleFrame DEF Preview, Ready, vars, WindowOwns, Mine, Of
<1>6. CASE Shown
  <2>1. pc'[Gui] \notin Running
    BY <1>1, <1>6 DEF Shown, Answered, Goto, TypeOK
  <2> QED
    BY <1>6, <2>1, SoleFrame DEF Shown, Answered, WindowOwns, Mine, Of
<1>7. CASE DialogReboot
  BY <1>1, <1>7, SoleFrame DEF DialogReboot, Reboot, Gone, WindowOwns
<1>8. ASSUME NEW s \in Subvols, Open(s) PROVE SoleInv'
  <2>1. UNCHANGED <<rows, pc>> /\ window' = s /\ missed \subseteq missed' /\ pc[Gui] = "idle"
    BY <1>8 DEF Open, ListFails
  <2>2. ASSUME form'.subvol = s, Mine(id, s)' PROVE SoleInv'
    BY <1>1, <2>1, <2>2, SoleFrame DEF WindowOwns
  <2>3. CASE ListFails /\ missed' = missed \cup {s} /\ form' = [Default EXCEPT !.subvol = s]
    BY <2>2, <2>3, DefaultAssumption DEF Mine, Saved, Policy
  <2>4. CASE id' \in Found(s) /\ form' = rows[id'] /\ UNCHANGED missed
    <3>1. id' \in Of(s) /\ form'.subvol = s /\ Of(s)' = Of(s)
      BY <2>1, <2>4 DEF Found, Of
    <3>2. Mine(id, s)'
      BY <1>8, <2>1, <2>4, <3>1 DEF SoleInv, OnePerSubvolume, Mine
    <3> QED
      BY <2>2, <3>1, <3>2
  <2>5. CASE Found(s) = {} /\ UNCHANGED missed /\ form' = [Default EXCEPT !.subvol = s]
    <3>1. form'.subvol = s
      BY <2>5, DefaultAssumption DEF Saved, Policy
    <3>2. Of(s)' = {}
      BY <2>1, <2>5 DEF Found, Of
    <3> QED
      BY <2>2, <3>1, <3>2 DEF Mine
  <2> QED
    BY <1>8, <2>3, <2>4, <2>5 DEF Open
<1>9. ASSUME NEW button \in {"save", "run"}, Press(button) PROVE SoleInv'
  <2>1. /\ Upsert(Gui, id, form) /\ UNCHANGED <<rows, window, id, form, missed>> /\ id \in Policies
        /\ window # Closed /\ pc[Gui] = "idle"
    BY <1>9 DEF Press, Ready, Upsert, GateInv, DialogTypeOK
  <2>2. WindowOwns /\ WindowOwns' /\ OnePerSubvolume
    BY <2>1 DEF SoleInv, WindowOwns, Mine, Of
  <2>3. CASE Goto(Gui, "error")
    <3>1. pc'[Gui] = "error"
      BY <1>1, <2>3 DEF Goto, TypeOK
    <3> QED
      BY <1>1, <2>1, <2>2, <3>1, SoleFrame
  <2>4. CASE job' = [job EXCEPT ![Gui] = [id |-> id, new |-> form, prev |-> rows[id], back |-> FALSE]]
    <3>1. job'[Gui].id = id /\ job'[Gui].new = form /\ job'[Gui].prev = rows[id]
      BY <1>1, <2>4 DEF TypeOK
    <3>2. rows[id] # NoPolicy => id \in Of(rows[id].subvol) /\ rows[id].subvol \in Subvols
      BY <1>1, <2>1 DEF Of, TypeOK, Saved, Policy
    <3>3. rows[id] # NoPolicy => Mine(id, rows[id].subvol)
      BY <2>2, <3>2 DEF OnePerSubvolume, Mine
    <3>4. \A q, s : Mine(q, s) => Mine(q, s)'
      BY <2>1 DEF Mine, Of
    <3>5. SaveOwns'
      BY <2>1, <2>2, <3>1, <3>3, <3>4 DEF SaveOwns, WindowOwns
    <3>6. OnePerSubvolume'
      BY <2>1, <2>2 DEF OnePerSubvolume, Of
    <3> QED
      BY <2>2, <3>5, <3>6 DEF SoleInv
  <2> QED
    BY <2>1, <2>3, <2>4 DEF Upsert
<1>10. CASE Elsewhere
  <2>1. ASSUME NEW c \in Clients, Proceed(c) PROVE SoleInv'
    BY <1>1, <2>1, SoleOwnStep, SoleOtherStep
  <2>2. ASSUME UNCHANGED <<rows, dialog, missed>>,
               pc'[Gui] \in Running => pc[Gui] \in Running /\ job'[Gui] = job[Gui]
        PROVE  SoleInv'
    BY <2>2, SoleFrame DEF dialog, WindowOwns, Mine, Of
  <2>3. ASSUME NEW c \in Clients, Crash(c), UNCHANGED <<dialog, missed>> PROVE SoleInv'
    BY <1>1, <2>2, <2>3 DEF Crash, Goto, TypeOK
  <2>4. ASSUME NEW c \in Clients \ {Gui}, Answered(c), UNCHANGED <<dialog, missed>> PROVE SoleInv'
    BY <1>1, <2>2, <2>4 DEF Answered, Goto, TypeOK
  <2>5. ASSUME NEW c \in Clients \ {Gui}, ElsewhereAsked(c), UNCHANGED <<dialog, missed>> PROVE SoleInv'
    <3>1. UNCHANGED rows /\ pc'[Gui] = pc[Gui] /\ job'[Gui] = job[Gui]
      BY <1>1, <2>5 DEF ElsewhereAsked, SetEnabled, Upsert, Goto, TypeOK
    <3> QED
      BY <2>2, <2>5, <3>1
  <2> QED
    BY <1>10, <2>1, <2>3, <2>4, <2>5 DEF Elsewhere
<1> QED
  BY <1>2, <1>3, <1>4, <1>5, <1>6, <1>7, <1>8, <1>9, <1>10 DEF DialogNext, Dialog

LEMMA SoleInit == DialogInit => SoleInv
  BY GuiAssumption
  DEF DialogInit, Init, SoleInv, OnePerSubvolume, Of, WindowOwns, SaveOwns, Running, Writing, Removing

\* For any number of clients, policies and subvolumes: the dialog never makes a second
\* policy for a subvolume, whatever fails or dies, where it has missed none: its list was
\* loaded, and no other client has added a policy behind it or next to another.
THEOREM OnePolicyEach == DialogSpec => []OnePerSubvolume
<1>1. DialogInit => GateInv /\ SerialInv /\ RecoveryInv /\ SoleInv
  BY GateInit, InitSerial, SoleInit DEF DialogInit
<1>2. GateInv /\ SerialInv /\ RecoveryInv /\ [DialogNext]_dvars => SerialInv' /\ RecoveryInv'
  BY DialogIsSerial, SerialSteps DEF GateInv, DialogTypeOK
<1>3. GateInv /\ SerialInv /\ SoleInv /\ [DialogNext]_dvars => SoleInv'
  BY SoleStep
<1>4. SoleInv => OnePerSubvolume
  BY DEF SoleInv
<1> QED
  BY <1>1, <1>2, <1>3, <1>4, GateStep, PTL DEF DialogSpec
=============================================================================
