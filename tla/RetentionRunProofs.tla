------------------------- MODULE RetentionRunProofs -------------------------
(***************************************************************************)
(* Proofs about overlapping retention runs, for any number of clients,     *)
(* paths, classes and troubles.                                            *)
(***************************************************************************)
EXTENDS RetentionRun, RetentionRulesProofs

-----------------------------------------------------------------------------
(* Types *)

\* What a client's step may do to its own local state without leaving the types.
LEMMA GotoTypes ==
    ASSUME pc \in [Clients -> Steps], NEW c \in Clients, NEW s \in Steps, Goto(c, s)
    PROVE  /\ pc' \in [Clients -> Steps] /\ pc'[c] = s
           /\ \A d \in Clients \ {c} : pc'[d] = pc[d]
  BY DEF Goto

\* A type step that concerns client c only.
LEMMA LocalTypes ==
    ASSUME TypeOK, NEW c \in Clients, NEW s \in Steps, Goto(c, s),
           job' \in [Clients -> Jobs], \A d \in Clients \ {c} : job'[d] = job[d],
           s \in {"insert", "cleanup"} => job'[c].path # None,
           s \in {"remove", "row"} => job'[c].todo # {}
    PROVE  /\ pc' \in [Clients -> Steps] /\ job' \in [Clients -> Jobs]
           /\ \A d \in Clients : pc'[d] \in {"insert", "cleanup"} => job'[d].path # None
           /\ \A d \in Clients : pc'[d] \in {"remove", "row"} => job'[d].todo # {}
<1>1. /\ pc' \in [Clients -> Steps] /\ pc'[c] = s
      /\ \A d \in Clients \ {c} : pc'[d] = pc[d]
  BY GotoTypes DEF TypeOK
<1>2. ASSUME NEW d \in Clients, pc'[d] \in {"insert", "cleanup"}
      PROVE  job'[d].path # None
  BY <1>1, <1>2 DEF TypeOK
<1>3. ASSUME NEW d \in Clients, pc'[d] \in {"remove", "row"}
      PROVE  job'[d].todo # {}
  BY <1>1, <1>3 DEF TypeOK
<1> QED
  BY <1>1, <1>2, <1>3

\* The counters of trouble stay in their bounds.
LEMMA FaultTypes ==
    ASSUME TypeOK, Fault
    PROVE  /\ faults' \in Nat /\ crashes' \in Nat /\ outside' \in Nat
           /\ lostLogs' \in 0..faults' /\ faults' + crashes' + outside' <= MaxTrouble
  BY BoundAssumption DEF TypeOK, Fault, Trouble

\* The fields of a job.
LEMMA JobFields ==
    ASSUME NEW j \in Jobs
    PROVE  /\ j.todo \subseteq Candidates /\ j.path \in Paths \cup {None}
           /\ j.created \subseteq Paths /\ j.deleted \subseteq Paths
           /\ j.since \in 0..MaxTime + 1
           /\ j = [todo |-> j.todo, path |-> j.path, created |-> j.created,
                   deleted |-> j.deleted, since |-> j.since]
  BY DEF Jobs

\* The local state of a client without a run.
LEMMA NoJobTypes == NoJob \in Jobs
  BY ClockAssumption DEF NoJob, Jobs

\* The system starts within the types.
LEMMA InitTypes == Init => TypeOK
<1> SUFFICES ASSUME Init PROVE TypeOK
  OBVIOUS
<1>1. now \in 1..MaxTime + 1 /\ ever \subseteq 2..Past /\ 2..Past \subseteq Times
  BY ClockAssumption DEF Init, Times
<1>2. rows \in [Paths -> Times \cup {None}]
  <2>1. \A p \in Paths : (\E t \in ever : Name[t - 1] = p)
          => (CHOOSE t \in ever : Name[t - 1] = p) \in ever
    OBVIOUS
  <2> QED
    BY <1>1, <2>1 DEF Init
<1>3. disk \in [Paths -> Times \cup {None}]
  <2>1. \A p \in Paths : rows[p] # None => rows[p] - 1 \in Times
    <3> SUFFICES ASSUME NEW p \in Paths, rows[p] # None
                 PROVE  rows[p] - 1 \in Times
      OBVIOUS
    <3>1. rows[p] \in ever
      BY DEF Init
    <3>2. \A t \in 2..Past : t - 1 \in Times
      BY ClockAssumption DEF Times
    <3> QED
      BY <1>1, <3>1, <3>2
  <2> QED
    BY <1>2, <2>1 DEF Init
<1>4. /\ container \in BOOLEAN /\ pc \in [Clients -> Steps] /\ job \in [Clients -> Jobs]
      /\ \A c \in Clients : pc[c] = "idle"
  BY NoJobTypes DEF Init, Steps
<1>5. /\ killed \in [Paths -> Nat] /\ told \in [Paths -> Nat] /\ announced \subseteq Paths
      /\ faults \in Nat /\ crashes \in Nat /\ outside \in Nat /\ lostLogs \in 0..faults
      /\ faults + crashes + outside <= MaxTrouble
  BY BoundAssumption DEF Init
<1> QED
  BY <1>1, <1>2, <1>3, <1>4, <1>5 DEF TypeOK

\* Every step keeps the types.
LEMMA StepTypes == TypeOK /\ [Next]_vars => TypeOK'
<1> SUFFICES ASSUME TypeOK, [Next]_vars PROVE TypeOK'
  OBVIOUS
<1> USE DEF reports, counters
<1>1. ASSUME NEW c \in Clients, Begin(c) PROVE TypeOK'
  <2>1. Select \subseteq Candidates /\ now \in 0..MaxTime + 1
    BY ClockAssumption DEF Select, TypeOK
  <2>2. [NoJob EXCEPT !.todo = Select, !.since = now] \in Jobs
    BY <2>1 DEF NoJob, Jobs
  <2>3. CASE Goto(c, "prepare") /\ job' = [job EXCEPT ![c] = [NoJob EXCEPT !.todo = Select, !.since = now]]
    <3>1. job' \in [Clients -> Jobs] /\ \A d \in Clients \ {c} : job'[d] = job[d]
      BY <2>2, <2>3 DEF TypeOK
    <3>2. "prepare" \in Steps
      BY DEF Steps
    <3> QED
      BY <1>1, <2>3, <3>1, <3>2, LocalTypes DEF Begin, TypeOK
  <2>4. CASE Goto(c, "log") /\ UNCHANGED job
    <3>1. "log" \in Steps
      BY DEF Steps
    <3> QED
      BY <1>1, <2>4, <3>1, LocalTypes DEF Begin, TypeOK
  <2> QED
    BY <1>1, <2>3, <2>4 DEF Begin
<1>2. ASSUME NEW c \in Clients, Prepare(c) PROVE TypeOK'
  <2>1. PICK s \in {"snapshot", "container"} : Goto(c, s)
    BY <1>2 DEF Prepare
  <2>2. s \in Steps
    BY DEF Steps
  <2> QED
    BY <1>2, <2>1, <2>2, LocalTypes DEF Prepare, TypeOK
<1>3. ASSUME NEW c \in Clients, CreateContainer(c) PROVE TypeOK'
  <2>1. PICK s \in {"snapshot", "log"} : Goto(c, s)
    BY <1>3 DEF CreateContainer
  <2>2. s \in Steps
    BY DEF Steps
  <2>3. /\ pc' \in [Clients -> Steps] /\ job' \in [Clients -> Jobs]
        /\ \A d \in Clients : pc'[d] \in {"insert", "cleanup"} => job'[d].path # None
        /\ \A d \in Clients : pc'[d] \in {"remove", "row"} => job'[d].todo # {}
    BY <1>3, <2>1, <2>2, LocalTypes DEF CreateContainer, TypeOK
  <2>4. Fault \/ UNCHANGED counters
    BY <1>3 DEF CreateContainer
  <2>5. container' \in BOOLEAN
    BY <1>3 DEF CreateContainer, TypeOK
  <2> QED
    BY <1>3, <2>3, <2>4, <2>5, FaultTypes DEF CreateContainer, TypeOK
<1>4. ASSUME NEW c \in Clients, Snapshot(c) PROVE TypeOK'
  <2> DEFINE p == Name[now]
  <2>1. now \in Times /\ now + 1 \in 1..MaxTime + 1 /\ p \in Paths
    BY <1>4, ClockAssumption, NameAssumption DEF Snapshot, TypeOK, Times
  <2>2. CASE /\ disk[p] = None
             /\ disk' = [disk EXCEPT ![p] = now] /\ now' = now + 1
             /\ job' = [job EXCEPT ![c].path = p, ![c].created = {p}]
             /\ Goto(c, "insert") /\ UNCHANGED counters
    <3>1. [job[c] EXCEPT !.path = p, !.created = {p}] \in Jobs
      BY <2>1 DEF TypeOK, Jobs
    <3>2. /\ job' = [job EXCEPT ![c] = [job[c] EXCEPT !.path = p, !.created = {p}]]
          /\ job'[c].path = p
      BY <2>2 DEF TypeOK, Jobs
    <3>3. job' \in [Clients -> Jobs] /\ \A d \in Clients \ {c} : job'[d] = job[d]
      BY <3>1, <3>2 DEF TypeOK
    <3>4. "insert" \in Steps /\ job'[c].path # None
      BY <2>1, <3>2, NameAssumption DEF Steps
    <3>5. disk' \in [Paths -> Times \cup {None}]
      BY <2>1, <2>2 DEF TypeOK
    <3> QED
      BY <1>4, <2>1, <2>2, <3>3, <3>4, <3>5, LocalTypes DEF Snapshot, TypeOK
  <2>3. CASE Goto(c, "log") /\ (UNCHANGED counters \/ Fault) /\ UNCHANGED <<disk, now, job>>
    <3>1. "log" \in Steps
      BY DEF Steps
    <3> QED
      BY <1>4, <2>3, <3>1, LocalTypes, FaultTypes DEF Snapshot, TypeOK
  <2> QED
    BY <1>4, <2>2, <2>3 DEF Snapshot
<1>5. ASSUME NEW c \in Clients, Insert(c) PROVE TypeOK'
  <2>1. /\ now \in Times /\ now + 1 \in 1..MaxTime + 1
        /\ job[c].path \in Paths /\ UNCHANGED job
    BY <1>5, ClockAssumption, JobFields DEF Insert, TypeOK, Times
  <2>2. CASE /\ rows' = [rows EXCEPT ![job[c].path] = now] /\ now' = now + 1
             /\ ever' = ever \cup {now}
             /\ Goto(c, "check") /\ UNCHANGED counters
    <3>1. rows' \in [Paths -> Times \cup {None}] /\ ever' \subseteq Times
      BY <2>1, <2>2 DEF TypeOK
    <3>2. "check" \in Steps
      BY DEF Steps
    <3> QED
      BY <1>5, <2>1, <2>2, <3>1, <3>2, LocalTypes DEF Insert, TypeOK
  <2>3. CASE Fault /\ Goto(c, "cleanup") /\ UNCHANGED <<rows, now, ever>>
    <3>1. "cleanup" \in Steps /\ job[c].path # None
      BY <1>5 DEF Steps, Insert, TypeOK
    <3> QED
      BY <1>5, <2>1, <2>3, <3>1, LocalTypes, FaultTypes DEF Insert, TypeOK
  <2> QED
    BY <1>5, <2>2, <2>3 DEF Insert
<1>6. ASSUME NEW c \in Clients, Cleanup(c) PROVE TypeOK'
  <2>1. job[c].path \in Paths /\ job[c] \in Jobs
    BY <1>6, JobFields DEF Cleanup, TypeOK
  <2>2. disk' \in [Paths -> Times \cup {None}]
    BY <1>6 DEF Cleanup, TypeOK
  <2>3. job' \in [Clients -> Jobs] /\ \A d \in Clients \ {c} : job'[d] = job[d]
    <3>1. [job[c] EXCEPT !.created = {}] \in Jobs
      BY <2>1 DEF Jobs
    <3>2. job' = [job EXCEPT ![c] = [job[c] EXCEPT !.created = {}]] \/ job' = job
      BY <1>6 DEF Cleanup
    <3> QED
      BY <3>1, <3>2 DEF TypeOK
  <2>4. "log" \in Steps /\ Goto(c, "log")
    BY <1>6 DEF Steps, Cleanup
  <2>5. Fault \/ UNCHANGED counters
    BY <1>6 DEF Cleanup
  <2> QED
    BY <1>6, <2>2, <2>3, <2>4, <2>5, LocalTypes, FaultTypes DEF Cleanup, TypeOK
<1>7. ASSUME NEW c \in Clients, Check(c) PROVE TypeOK'
  <2>1. CASE job[c].todo = {} /\ Goto(c, "log")
    <3>1. "log" \in Steps
      BY DEF Steps
    <3> QED
      BY <1>7, <2>1, <3>1, LocalTypes DEF Check, TypeOK
  <2>2. CASE \E o \in job[c].todo :
               Goto(c, IF disk[o.path] = None THEN "row" ELSE "remove")
    <3>1. PICK s \in {"row", "remove"} : Goto(c, s)
      BY <2>2
    <3>2. s \in Steps /\ job[c].todo # {}
      BY <2>2 DEF Steps
    <3> QED
      BY <1>7, <3>1, <3>2, LocalTypes DEF Check, TypeOK
  <2> QED
    BY <1>7, <2>1, <2>2 DEF Check
<1>8. ASSUME NEW c \in Clients, Remove(c) PROVE TypeOK'
  <2>1. PICK o \in job[c].todo :
          \/ /\ disk' = [disk EXCEPT ![o.path] = None]
             /\ killed' = [killed EXCEPT ![o.path] = @ + 1]
             /\ job' = [job EXCEPT ![c].deleted = @ \cup {o.path}]
             /\ Goto(c, "row") /\ UNCHANGED counters
          \/ Goto(c, "row") /\ UNCHANGED <<disk, job, killed, counters>>
          \/ Fault /\ Goto(c, "log") /\ UNCHANGED <<disk, job, killed>>
    BY <1>8 DEF Remove
  <2>2. o.path \in Paths /\ job[c] \in Jobs
    BY JobFields DEF TypeOK, Candidates
  <2>3. disk' \in [Paths -> Times \cup {None}] /\ killed' \in [Paths -> Nat]
    BY <2>1, <2>2 DEF TypeOK
  <2>4. /\ job' \in [Clients -> Jobs] /\ \A d \in Clients \ {c} : job'[d] = job[d]
        /\ job'[c].todo = job[c].todo
    <3>1. [job[c] EXCEPT !.deleted = @ \cup {o.path}] \in Jobs
      BY <2>2 DEF Jobs
    <3>2. job' = [job EXCEPT ![c] = [job[c] EXCEPT !.deleted = @ \cup {o.path}]] \/ job' = job
      BY <2>1
    <3>3. [job[c] EXCEPT !.deleted = @ \cup {o.path}].todo = job[c].todo
      BY <2>2 DEF Jobs
    <3> QED
      BY <3>1, <3>2, <3>3 DEF TypeOK
  <2>5. PICK s \in {"row", "log"} : Goto(c, s)
    BY <2>1
  <2>6. s \in Steps /\ job'[c].todo # {}
    BY <2>4 DEF Steps
  <2>7. Fault \/ UNCHANGED counters
    BY <2>1
  <2> QED
    BY <1>8, <2>3, <2>4, <2>5, <2>6, <2>7, LocalTypes, FaultTypes DEF Remove, TypeOK
<1>9. ASSUME NEW c \in Clients, Row(c) PROVE TypeOK'
  <2>1. PICK o \in job[c].todo :
          \/ /\ rows' = [p \in Paths |-> IF rows[p] = o.at THEN None ELSE rows[p]]
             /\ job' = [job EXCEPT ![c].todo = @ \ {o}]
             /\ Goto(c, "check") /\ UNCHANGED counters
          \/ Fault /\ Goto(c, "log") /\ UNCHANGED <<rows, job>>
    BY <1>9 DEF Row
  <2>2. rows' \in [Paths -> Times \cup {None}]
    BY <2>1 DEF TypeOK
  <2>3. job' \in [Clients -> Jobs] /\ \A d \in Clients \ {c} : job'[d] = job[d]
    <3>1. [job[c] EXCEPT !.todo = @ \ {o}] \in Jobs
      BY JobFields DEF TypeOK, Jobs
    <3>2. job' = [job EXCEPT ![c] = [job[c] EXCEPT !.todo = @ \ {o}]] \/ job' = job
      BY <2>1
    <3> QED
      BY <3>1, <3>2 DEF TypeOK
  <2>4. PICK s \in {"check", "log"} : Goto(c, s)
    BY <2>1
  <2>5. s \in Steps
    BY DEF Steps
  <2>6. Fault \/ UNCHANGED counters
    BY <2>1
  <2> QED
    BY <1>9, <2>2, <2>3, <2>4, <2>5, <2>6, LocalTypes, FaultTypes DEF Row, TypeOK
<1>10. ASSUME NEW c \in Clients, Log(c) PROVE TypeOK'
  <2>1. job' \in [Clients -> Jobs] /\ \A d \in Clients \ {c} : job'[d] = job[d]
    BY <1>10, NoJobTypes DEF Log, TypeOK
  <2>2. "idle" \in Steps /\ Goto(c, "idle")
    BY <1>10 DEF Steps, Log
  <2>3. job[c] \in Jobs
    BY DEF TypeOK
  <2>4. CASE /\ told' = [p \in Paths |-> told[p] + (IF p \in job[c].deleted THEN 1 ELSE 0)]
             /\ announced' = announced \cup job[c].created
             /\ UNCHANGED counters
    <3>1. told' \in [Paths -> Nat] /\ announced' \subseteq Paths
      BY <2>3, <2>4, JobFields DEF TypeOK
    <3> QED
      BY <1>10, <2>1, <2>2, <2>4, <3>1, LocalTypes DEF Log, TypeOK
  <2>5. CASE /\ Trouble /\ faults' = faults + 1 /\ lostLogs' = lostLogs + 1
             /\ UNCHANGED <<crashes, outside, reports>>
    <3>1. /\ faults' \in Nat /\ crashes' \in Nat /\ outside' \in Nat
          /\ lostLogs' \in 0..faults' /\ faults' + crashes' + outside' <= MaxTrouble
      BY <2>5, BoundAssumption DEF TypeOK, Trouble
    <3> QED
      BY <1>10, <2>1, <2>2, <2>5, <3>1, LocalTypes DEF Log, TypeOK
  <2> QED
    BY <1>10, <2>4, <2>5 DEF Log
<1>11. ASSUME NEW c \in Clients, Crash(c) PROVE TypeOK'
  <2>1. job' \in [Clients -> Jobs] /\ \A d \in Clients \ {c} : job'[d] = job[d]
    BY <1>11, NoJobTypes DEF Crash, TypeOK
  <2>2. "idle" \in Steps /\ Goto(c, "idle")
    BY <1>11 DEF Steps, Crash
  <2>3. /\ crashes' \in Nat /\ faults' + crashes' + outside' <= MaxTrouble
    BY <1>11, BoundAssumption DEF Crash, TypeOK, Trouble
  <2> QED
    BY <1>11, <2>1, <2>2, <2>3, LocalTypes DEF Crash, TypeOK
<1>12. CASE Tick
  <2>1. now' \in 1..MaxTime + 1
    BY <1>12, ClockAssumption DEF Tick, TypeOK
  <2> QED
    BY <1>12, <2>1 DEF Tick, TypeOK
<1>13. ASSUME NEW p \in Paths, GoneOutside(p) PROVE TypeOK'
  <2>1. outside' \in Nat /\ faults' + crashes' + outside' <= MaxTrouble
    BY <1>13, BoundAssumption DEF GoneOutside, TypeOK, Trouble
  <2>2. disk' \in [Paths -> Times \cup {None}]
    BY <1>13 DEF GoneOutside, TypeOK
  <2> QED
    BY <1>13, <2>1, <2>2 DEF GoneOutside, TypeOK
<1>14. ASSUME NEW p \in Paths, RowGone(p) PROVE TypeOK'
  <2>1. outside' \in Nat /\ faults' + crashes' + outside' <= MaxTrouble
    BY <1>14, BoundAssumption DEF RowGone, TypeOK, Trouble
  <2>2. rows' \in [Paths -> Times \cup {None}]
    BY <1>14 DEF RowGone, TypeOK
  <2> QED
    BY <1>14, <2>1, <2>2 DEF RowGone, TypeOK
<1>15. CASE UNCHANGED vars
  BY <1>15 DEF vars, TypeOK
<1> QED
  BY <1>1, <1>2, <1>3, <1>4, <1>5, <1>6, <1>7, <1>8, <1>9, <1>10, <1>11, <1>12,
     <1>13, <1>14, <1>15 DEF Next, Run

\* Every behaviour of overlapping, failing and dying runs keeps the types.
THEOREM RunTypes == Spec => []TypeOK
BY InitTypes, StepTypes, PTL DEF Spec

-----------------------------------------------------------------------------
(* The policy's snapshots survive *)

Sound == RowsSound /\ CandidatesSound /\ CreationsSound /\ BucketsKept

\* Adding a snapshot makes no candidate wanted again, and a rule applied to fewer
\* rows keeps what the rule over all snapshots keeps of them.
LEMMA RuleAntitone ==
    ASSUME TypeOK, NEW T \in SUBSET Int, IsFiniteSet(T), NEW S \in SUBSET T
    PROVE  KeepSet(T, Bucket, Limit) \cap S \subseteq KeepSet(S, Bucket, Limit)
  BY PolicyAssumption, KeepSetAntitone

\* Only finitely many snapshots were ever recorded.
LEMMA EverFinite ==
    ASSUME TypeOK, RowsSound
    PROVE  ever \subseteq Int /\ IsFiniteSet(ever)
<1>1. IsFiniteSet(1..now - 1)
  BY FS_Interval DEF TypeOK
<1>2. IsFiniteSet(ever)
  BY <1>1, FS_Subset DEF RowsSound
<1> QED
  BY <1>2 DEF RowsSound

\* A name used up stays used up.
LEMMA StaysUsedUp ==
    ASSUME TypeOK, now' \in Nat, now' >= now, NEW p, UsedUp(p)
    PROVE  UsedUp(p)'
<1>1. \A u \in Times : u >= now' => u >= now
  BY DEF TypeOK, Times
<1> QED
  BY <1>1 DEF UsedUp

\* Steps that touch neither rows nor subvolumes and select or create nothing.
LEMMA FrameSound ==
    ASSUME TypeOK, Sound, outside' = 0,
           UNCHANGED <<disk, rows, ever, outside>>, now' \in Nat, now' >= now,
           \A d \in Clients : job'[d].todo \subseteq job[d].todo,
           \A d \in Clients : Creating(d)' => Creating(d) /\ job'[d].path = job[d].path
    PROVE  Sound'
<1>1. RowsSound'
  <2>1. ever \subseteq 1..now' - 1
    <3>1. \A m, n \in Nat : n >= m => 1..m - 1 \subseteq 1..n - 1
      OBVIOUS
    <3>2. now \in Nat
      BY ClockAssumption DEF TypeOK
    <3>3. 1..now - 1 \subseteq 1..now' - 1
      BY <3>1, <3>2
    <3> QED
      BY <3>3 DEF Sound, RowsSound
  <2>2. \A p \in Paths : rows[p] # None => UsedUp(p)'
    BY StaysUsedUp DEF Sound, RowsSound
  <2> QED
    BY <2>1, <2>2 DEF Sound, RowsSound
<1>2. CandidatesSound'
  <2> SUFFICES ASSUME NEW c \in Clients, NEW o \in job'[c].todo
               PROVE  /\ o.at \in ever \ KeepSet(ever, Bucket, Limit)
                      /\ rows[o.path] \in {None, o.at}
                      /\ UsedUp(o.path)'
    BY DEF CandidatesSound
  <2>1. o \in job[c].todo
    OBVIOUS
  <2> QED
    BY <2>1, StaysUsedUp DEF Sound, CandidatesSound
<1>3. CreationsSound'
  <2> SUFFICES ASSUME NEW c \in Clients, Creating(c)'
               PROVE  /\ job'[c].path \in Paths
                      /\ disk[job'[c].path] # None /\ rows[job'[c].path] = None
                      /\ \E t \in Times : t < now' /\ Name[t] = job'[c].path
                      /\ \A d \in Clients :
                           /\ \A o \in job'[d].todo : o.path # job'[c].path
                           /\ Creating(d)' /\ d # c => job'[d].path # job'[c].path
    BY DEF CreationsSound
  <2>1. Creating(c) /\ job'[c].path = job[c].path
    OBVIOUS
  <2>2. \E t \in Times : t < now' /\ Name[t] = job[c].path
    <3>1. PICK t \in Times : t < now /\ Name[t] = job[c].path
      BY <2>1 DEF Sound, CreationsSound
    <3>2. t < now'
      BY <3>1 DEF TypeOK, Times
    <3> QED
      BY <3>1, <3>2
  <2>3. /\ job[c].path \in Paths
        /\ disk[job[c].path] # None /\ rows[job[c].path] = None
        /\ \A d \in Clients :
             /\ \A o \in job[d].todo : o.path # job[c].path
             /\ Creating(d) /\ d # c => job[d].path # job[c].path
    BY <2>1 DEF Sound, CreationsSound
  <2> QED
    BY <2>1, <2>2, <2>3
<1>4. BucketsKept'
  BY DEF Sound, BucketsKept
<1> QED
  BY <1>1, <1>2, <1>3, <1>4 DEF Sound

\* The rows a run reads and the rule gives up are given up for good.
LEMMA BeginSound ==
    ASSUME NamesUsedUp, TypeOK, Sound, outside = 0, NEW c \in Clients, Begin(c)
    PROVE  Sound'
<1>1. UNCHANGED <<now, disk, rows, ever, outside>>
  BY DEF Begin, counters
<1>2. ASSUME NEW d \in Clients
      PROVE  Creating(d)' => Creating(d) /\ job'[d].path = job[d].path /\ d # c
  BY DEF Begin, Goto, Creating, TypeOK
<1>3. CASE UNCHANGED job
  BY <1>1, <1>2, <1>3, FrameSound DEF TypeOK
<1>4. CASE job' = [job EXCEPT ![c] = [NoJob EXCEPT !.todo = Select, !.since = now]]
  <2>1. job'[c].todo = Select /\ \A d \in Clients \ {c} : job'[d] = job[d]
    BY <1>4 DEF TypeOK, NoJob
  <2>2. ASSUME NEW o \in Select
        PROVE  /\ o.at \in ever \ KeepSet(ever, Bucket, Limit)
               /\ rows[o.path] = o.at /\ o.path \in Paths /\ UsedUp(o.path)
    <3>1. /\ o \in Candidates /\ rows[o.path] = o.at
          /\ o.at \notin KeepSet(Recorded, Bucket, Limit)
      BY DEF Select
    <3>2. o.path \in Paths /\ o.at \in Times /\ o.at # None
      BY <3>1 DEF Candidates, Times, None
    <3>3. o.at \in ever /\ UsedUp(o.path)
      BY <3>1, <3>2 DEF Sound, RowsSound
    <3>4. o.at \in Recorded /\ Recorded \subseteq ever
      BY <3>1, <3>2 DEF Recorded, Sound, RowsSound
    <3>5. o.at \notin KeepSet(ever, Bucket, Limit)
      BY <3>1, <3>4, EverFinite, RuleAntitone DEF Sound
    <3> QED
      BY <3>1, <3>2, <3>3, <3>5
  <2>3. RowsSound' /\ BucketsKept'
    BY <1>1 DEF Sound, RowsSound, UsedUp, BucketsKept
  <2>4. CandidatesSound'
    <3> SUFFICES ASSUME NEW d \in Clients, NEW o \in job'[d].todo
                 PROVE  /\ o.at \in ever \ KeepSet(ever, Bucket, Limit)
                        /\ rows[o.path] \in {None, o.at} /\ UsedUp(o.path)
      BY <1>1 DEF CandidatesSound, UsedUp
    <3>1. CASE d = c
      BY <2>1, <2>2, <3>1
    <3>2. CASE d # c
      BY <2>1, <3>2 DEF Sound, CandidatesSound
    <3> QED
      BY <3>1, <3>2
  <2>5. CreationsSound'
    <3> SUFFICES ASSUME NEW d \in Clients, Creating(d)'
                 PROVE  /\ job'[d].path \in Paths
                        /\ disk[job'[d].path] # None /\ rows[job'[d].path] = None
                        /\ \E t \in Times : t < now /\ Name[t] = job'[d].path
                        /\ \A e \in Clients :
                             /\ \A o \in job'[e].todo : o.path # job'[d].path
                             /\ Creating(e)' /\ e # d => job'[e].path # job'[d].path
      BY <1>1 DEF CreationsSound
    <3>1. Creating(d) /\ job'[d].path = job[d].path
      BY <1>2
    <3>2. /\ job[d].path \in Paths
          /\ disk[job[d].path] # None /\ rows[job[d].path] = None
          /\ \E t \in Times : t < now /\ Name[t] = job[d].path
          /\ \A e \in Clients :
               /\ \A o \in job[e].todo : o.path # job[d].path
               /\ Creating(e) /\ e # d => job[e].path # job[d].path
      BY <3>1 DEF Sound, CreationsSound
    <3>3. ASSUME NEW o \in Select PROVE o.path # job[d].path
      <4>1. rows[o.path] = o.at /\ o.at # None
        BY <2>2 DEF Select, Candidates, Times, None
      <4> QED
        BY <3>2, <4>1
    <3>4. \A e \in Clients : \A o \in job'[e].todo : o.path # job[d].path
      BY <2>1, <3>2, <3>3
    <3> QED
      BY <1>2, <3>1, <3>2, <3>4
  <2> QED
    BY <2>3, <2>4, <2>5 DEF Sound
<1> QED
  BY <1>3, <1>4 DEF Begin

\* A new snapshot takes a path no row, no candidate and no other run can name.
LEMMA SnapshotSound ==
    ASSUME NamesUsedUp, TypeOK, Sound, outside = 0, NEW c \in Clients, Snapshot(c)
    PROVE  Sound'
<1> DEFINE p == Name[now]
<1>1. now \in Times /\ p \in Paths /\ UNCHANGED <<rows, ever>> /\ now \in Nat
  BY NameAssumption, ClockAssumption DEF Snapshot, TypeOK, Times
<1>2. ~UsedUp(p)
  BY <1>1 DEF UsedUp, TypeOK
<1>3. CASE Goto(c, "log") /\ UNCHANGED <<disk, now, job>>
  <2>1. outside' = outside
    BY DEF Snapshot, Fault, counters
  <2>2. \A d \in Clients : Creating(d)' => Creating(d)
    BY <1>3, GotoTypes DEF Creating, Goto, TypeOK
  <2> QED
    BY <1>1, <1>3, <2>1, <2>2, FrameSound DEF TypeOK
<1>4. CASE /\ disk[p] = None
           /\ disk' = [disk EXCEPT ![p] = now] /\ now' = now + 1
           /\ job' = [job EXCEPT ![c].path = p, ![c].created = {p}]
           /\ Goto(c, "insert") /\ UNCHANGED counters
  <2> HIDE DEF p
  <2>1. /\ job'[c].path = p /\ job'[c].todo = job[c].todo
        /\ \A d \in Clients \ {c} : job'[d] = job[d]
        /\ \A d \in Clients : job'[d].todo = job[d].todo
    BY <1>4 DEF TypeOK, Jobs
  <2>2. Creating(c)' /\ \A d \in Clients \ {c} : Creating(d)' <=> Creating(d)
    BY <1>4, GotoTypes DEF Creating, TypeOK, Goto
  <2>3. now' \in Nat /\ now' >= now /\ now < now'
    BY <1>1, <1>4
  <2>4. \A q \in Paths : disk[q] # None => disk'[q] # None
    BY <1>4, <1>1 DEF TypeOK, Times, None
  <2>5. RowsSound'
    <3>1. \A m \in Nat : 1..m - 1 \subseteq 1..(m + 1) - 1
      OBVIOUS
    <3>2. ever \subseteq 1..now' - 1
      BY <1>1, <1>4, <3>1 DEF Sound, RowsSound
    <3>3. \A q \in Paths : rows[q] # None => rows[q] \in ever /\ UsedUp(q)'
      BY <2>3, StaysUsedUp DEF Sound, RowsSound
    <3> QED
      BY <1>1, <3>2, <3>3 DEF RowsSound
  <2>6. CandidatesSound'
    BY <1>1, <2>1, <2>3, StaysUsedUp DEF Sound, CandidatesSound
  <2>7. BucketsKept'
    BY <1>1, <2>4 DEF Sound, BucketsKept, counters, Snapshot
  <2>8. rows[p] = None
    BY <1>1, <1>2 DEF Sound, RowsSound
  <2>9. ASSUME NEW d \in Clients, NEW o \in job[d].todo PROVE o.path # p
    BY <1>2 DEF Sound, CandidatesSound
  <2>10. ASSUME NEW d \in Clients \ {c}, Creating(d) PROVE job[d].path # p
    BY <1>4, <2>10 DEF Sound, CreationsSound
  <2>11. CreationsSound'
    <3> SUFFICES ASSUME NEW d \in Clients, Creating(d)'
                 PROVE  /\ job'[d].path \in Paths
                        /\ disk'[job'[d].path] # None /\ rows[job'[d].path] = None
                        /\ \E t \in Times : t < now' /\ Name[t] = job'[d].path
                        /\ \A e \in Clients :
                             /\ \A o \in job'[e].todo : o.path # job'[d].path
                             /\ Creating(e)' /\ e # d => job'[e].path # job'[d].path
      BY <1>1 DEF CreationsSound
    <3>1. CASE d = c
      <4>1. disk'[p] # None
        BY <1>1, <1>4 DEF TypeOK, Times, None
      <4>2. \E t \in Times : t < now' /\ Name[t] = p
        BY <1>1, <2>3 DEF p
      <4>3. \A e \in Clients : Creating(e)' /\ e # c => job'[e].path # p
        BY <2>1, <2>2, <2>10
      <4> QED
        BY <1>1, <2>1, <2>8, <2>9, <3>1, <4>1, <4>2, <4>3
    <3>2. CASE d # c
      <4>1. /\ job[d].path \in Paths
            /\ disk[job[d].path] # None /\ rows[job[d].path] = None
            /\ \A e \in Clients :
                 /\ \A o \in job[e].todo : o.path # job[d].path
                 /\ Creating(e) /\ e # d => job[e].path # job[d].path
        BY <2>2, <3>2 DEF Sound, CreationsSound
      <4>2. PICK t \in Times : t < now /\ Name[t] = job[d].path
        BY <2>2, <3>2 DEF Sound, CreationsSound
      <4>3. t < now'
        BY <1>1, <2>3, <4>2 DEF Times
      <4>4. job[d].path # p /\ job'[d] = job[d]
        BY <2>1, <2>2, <2>10, <3>2
      <4> QED
        BY <2>1, <2>2, <2>4, <3>2, <4>1, <4>2, <4>3, <4>4
    <3> QED
      BY <3>1, <3>2
  <2> QED
    BY <2>5, <2>6, <2>7, <2>11 DEF Sound
<1> QED
  BY <1>3, <1>4 DEF Snapshot

\* The step that uses NamesUsedUp: a recorded name is never given again.
LEMMA InsertSound ==
    ASSUME NamesUsedUp, TypeOK, Sound, outside = 0, NEW c \in Clients, Insert(c)
    PROVE  Sound'
<1> DEFINE p == job[c].path
<1>1. now \in Times /\ now \in Nat /\ UNCHANGED <<disk, job>> /\ now # None /\ Creating(c)
  BY ClockAssumption DEF Insert, TypeOK, Times, Creating, None
<1>2. /\ p \in Paths /\ disk[p] # None /\ rows[p] = None
      /\ \A d \in Clients :
           /\ \A o \in job[d].todo : o.path # p
           /\ Creating(d) /\ d # c => job[d].path # p
  BY <1>1 DEF Sound, CreationsSound
<1>3. CASE Fault /\ Goto(c, "cleanup") /\ UNCHANGED <<rows, now, ever>>
  <2>1. \A d \in Clients : Creating(d)' => Creating(d)
    BY <1>1, <1>3, GotoTypes DEF Creating, TypeOK, Goto
  <2> QED
    BY <1>1, <1>3, <2>1, FrameSound DEF Fault
<1>4. CASE /\ rows' = [rows EXCEPT ![p] = now] /\ now' = now + 1
           /\ ever' = ever \cup {now}
           /\ Goto(c, "check") /\ UNCHANGED counters
  <2>1. now' \in Nat /\ now' >= now /\ outside' = 0
    BY <1>1, <1>4 DEF counters
  <2>2. ~Creating(c)' /\ \A d \in Clients \ {c} : Creating(d)' <=> Creating(d)
    BY <1>4, GotoTypes DEF Creating, TypeOK, Goto
  <2>3. rows'[p] = now /\ \A q \in Paths \ {p} : rows'[q] = rows[q]
    BY <1>2, <1>4 DEF TypeOK
  <2>4. \A u \in Times : u >= now' => Name[u] # p
    <3>1. PICK t \in Times : t < now /\ Name[t] = p
      BY <1>1 DEF Sound, CreationsSound
    <3>2. ASSUME NEW u \in Times, u >= now' PROVE u > t + 1
      BY <1>1, <1>4, <3>1, <3>2 DEF Times
    <3> QED
      BY <3>1, <3>2 DEF NamesUsedUp
  <2>5. KeepSet(ever', Bucket, Limit) \cap ever \subseteq KeepSet(ever, Bucket, Limit)
    <3>1. ever \subseteq Int /\ IsFiniteSet(ever)
      BY EverFinite DEF Sound
    <3>2. ever' \in SUBSET Int /\ IsFiniteSet(ever') /\ ever \in SUBSET ever'
      BY <1>1, <1>4, <3>1, FS_AddElement
    <3> QED
      BY <3>2, RuleAntitone
  <2>6. RowsSound'
    <3>1. \A m \in Nat : 1..m - 1 \subseteq 1..(m + 1) - 1
      OBVIOUS
    <3>2. now \in 1..now' - 1
      BY <1>1, <1>4 DEF Times
    <3>3. ever' \subseteq 1..now' - 1
      BY <1>1, <1>4, <3>1, <3>2 DEF Sound, RowsSound
    <3>4. ASSUME NEW q \in Paths, rows'[q] # None
          PROVE  rows'[q] \in ever' /\ UsedUp(q)'
      <4>1. CASE q = p
        BY <1>4, <2>3, <2>4, <4>1 DEF UsedUp
      <4>2. CASE q # p
        BY <1>4, <2>1, <2>3, <3>4, <4>2, StaysUsedUp DEF Sound, RowsSound
      <4> QED
        BY <4>1, <4>2
    <3> QED
      BY <3>3, <3>4 DEF RowsSound
  <2>7. CandidatesSound'
    <3> SUFFICES ASSUME NEW d \in Clients, NEW o \in job[d].todo
                 PROVE  /\ o.at \in ever' \ KeepSet(ever', Bucket, Limit)
                        /\ rows'[o.path] \in {None, o.at} /\ UsedUp(o.path)'
      BY <1>1 DEF CandidatesSound
    <3>1. /\ o.at \in ever \ KeepSet(ever, Bucket, Limit)
          /\ rows[o.path] \in {None, o.at} /\ UsedUp(o.path) /\ o.path # p
      BY <1>2 DEF Sound, CandidatesSound
    <3>2. o.path \in Paths
      BY JobFields DEF TypeOK, Candidates
    <3>3. UsedUp(o.path)'
      BY <2>1, <3>1, StaysUsedUp
    <3> QED
      BY <1>4, <2>3, <2>5, <3>1, <3>2, <3>3
  <2>8. BucketsKept'
    <3> SUFFICES ASSUME NEW t \in KeepSet(ever', Bucket, Limit)
                 PROVE  \E q \in Paths : rows'[q] = t /\ disk[q] # None
      BY <1>1 DEF BucketsKept
    <3>1. t \in ever \/ t = now
      BY <1>4, KeepSetSubset
    <3>2. CASE t = now
      BY <1>2, <2>3, <3>2
    <3>3. CASE t \in ever
      <4>1. t \in KeepSet(ever, Bucket, Limit) /\ t # None
        BY <2>5, <3>3 DEF TypeOK, Times, None
      <4>2. PICK q \in Paths : rows[q] = t /\ disk[q] # None
        BY <4>1 DEF Sound, BucketsKept
      <4> QED
        BY <1>2, <2>3, <4>1, <4>2
    <3> QED
      BY <3>1, <3>2, <3>3
  <2>9. CreationsSound'
    <3> SUFFICES ASSUME NEW d \in Clients, Creating(d)'
                 PROVE  /\ job[d].path \in Paths
                        /\ disk[job[d].path] # None /\ rows'[job[d].path] = None
                        /\ \E t \in Times : t < now' /\ Name[t] = job[d].path
                        /\ \A e \in Clients :
                             /\ \A o \in job[e].todo : o.path # job[d].path
                             /\ Creating(e)' /\ e # d => job[e].path # job[d].path
      BY <1>1 DEF CreationsSound
    <3>1. d # c /\ Creating(d) /\ job[d].path # p
      BY <1>2, <2>2
    <3>2. /\ job[d].path \in Paths
          /\ disk[job[d].path] # None /\ rows[job[d].path] = None
          /\ \A e \in Clients :
               /\ \A o \in job[e].todo : o.path # job[d].path
               /\ Creating(e) /\ e # d => job[e].path # job[d].path
      BY <3>1 DEF Sound, CreationsSound
    <3>3. PICK t \in Times : t < now /\ Name[t] = job[d].path
      BY <3>1 DEF Sound, CreationsSound
    <3>4. t < now'
      BY <1>1, <1>4, <3>3 DEF Times
    <3> QED
      BY <2>2, <2>3, <3>1, <3>2, <3>3, <3>4
  <2> QED
    BY <2>6, <2>7, <2>8, <2>9 DEF Sound
<1> QED
  BY <1>3, <1>4 DEF Insert

\* The unrecorded snapshot is of no row, no candidate and no other run.
LEMMA CleanupSound ==
    ASSUME TypeOK, Sound, outside = 0, NEW c \in Clients, Cleanup(c)
    PROVE  Sound'
<1> DEFINE p == job[c].path
<1>1. /\ UNCHANGED <<now, rows, ever>> /\ outside' = outside /\ Goto(c, "log")
      /\ now \in Nat
  BY ClockAssumption DEF Cleanup, Fault, counters, TypeOK
<1>2. \A d \in Clients : job'[d].todo = job[d].todo /\ job'[d].path = job[d].path
  BY DEF Cleanup, TypeOK, Jobs
<1>3. \A d \in Clients : Creating(d)' => Creating(d) /\ d # c
  BY <1>1, GotoTypes DEF Creating, TypeOK, Goto
<1>4. CASE UNCHANGED disk
  BY <1>1, <1>2, <1>3, <1>4, FrameSound
<1>5. CASE disk' = [disk EXCEPT ![p] = None]
  <2>1. /\ p \in Paths /\ rows[p] = None
        /\ \A d \in Clients : Creating(d) /\ d # c => job[d].path # p
    BY DEF Sound, CreationsSound, Cleanup, Creating
  <2>2. \A q \in Paths \ {p} : disk'[q] = disk[q]
    BY <1>5 DEF TypeOK
  <2>3. RowsSound' /\ CandidatesSound'
    BY <1>1, <1>2 DEF Sound, RowsSound, CandidatesSound, UsedUp
  <2>4. CreationsSound'
    <3> SUFFICES ASSUME NEW d \in Clients, Creating(d)'
                 PROVE  /\ job[d].path \in Paths
                        /\ disk'[job[d].path] # None /\ rows[job[d].path] = None
                        /\ \E t \in Times : t < now /\ Name[t] = job[d].path
                        /\ \A e \in Clients :
                             /\ \A o \in job[e].todo : o.path # job[d].path
                             /\ Creating(e)' /\ e # d => job[e].path # job[d].path
      BY <1>1, <1>2 DEF CreationsSound
    <3>1. Creating(d) /\ d # c
      BY <1>3
    <3> QED
      BY <1>3, <2>1, <2>2, <3>1 DEF Sound, CreationsSound
  <2>5. BucketsKept'
    <3> SUFFICES ASSUME NEW t \in KeepSet(ever, Bucket, Limit)
                 PROVE  \E q \in Paths : rows[q] = t /\ disk'[q] # None
      BY <1>1 DEF BucketsKept
    <3>1. PICK q \in Paths : rows[q] = t /\ disk[q] # None
      BY DEF Sound, BucketsKept
    <3>2. t # None
      BY KeepSetSubset DEF TypeOK, Times, None
    <3> QED
      BY <2>1, <2>2, <3>1, <3>2
  <2> QED
    BY <2>3, <2>4, <2>5 DEF Sound
<1> QED
  BY <1>4, <1>5 DEF Cleanup

\* The path of a candidate holds nothing the rule keeps and nothing under creation.
LEMMA RemoveSound ==
    ASSUME TypeOK, Sound, outside = 0, NEW c \in Clients, Remove(c)
    PROVE  Sound'
<1>1. /\ UNCHANGED <<now, rows, ever>> /\ outside' = outside /\ now \in Nat
  BY ClockAssumption DEF Remove, Fault, counters, TypeOK
<1>2. \A d \in Clients : job'[d].todo = job[d].todo /\ job'[d].path = job[d].path
  BY DEF Remove, TypeOK, Jobs
<1>3. \A d \in Clients : Creating(d)' => Creating(d)
  BY DEF Remove, Creating, TypeOK, Goto
<1>4. CASE UNCHANGED disk
  BY <1>1, <1>2, <1>3, <1>4, FrameSound
<1>5. ASSUME NEW o \in job[c].todo, disk' = [disk EXCEPT ![o.path] = None]
      PROVE  Sound'
  <2>1. /\ o.at \in ever \ KeepSet(ever, Bucket, Limit)
        /\ rows[o.path] \in {None, o.at}
    BY DEF Sound, CandidatesSound
  <2>2. \A q \in Paths : q # o.path => disk'[q] = disk[q]
    BY <1>5 DEF TypeOK
  <2>3. RowsSound' /\ CandidatesSound'
    BY <1>1, <1>2 DEF Sound, RowsSound, CandidatesSound, UsedUp
  <2>4. CreationsSound'
    <3> SUFFICES ASSUME NEW d \in Clients, Creating(d)'
                 PROVE  /\ job[d].path \in Paths
                        /\ disk'[job[d].path] # None /\ rows[job[d].path] = None
                        /\ \E t \in Times : t < now /\ Name[t] = job[d].path
                        /\ \A e \in Clients :
                             /\ \A q \in job[e].todo : q.path # job[d].path
                             /\ Creating(e)' /\ e # d => job[e].path # job[d].path
      BY <1>1, <1>2 DEF CreationsSound
    <3>1. Creating(d) /\ o.path # job[d].path
      BY <1>3 DEF Sound, CreationsSound
    <3> QED
      BY <1>3, <2>2, <3>1 DEF Sound, CreationsSound
  <2>5. BucketsKept'
    <3> SUFFICES ASSUME NEW t \in KeepSet(ever, Bucket, Limit)
                 PROVE  \E q \in Paths : rows[q] = t /\ disk'[q] # None
      BY <1>1 DEF BucketsKept
    <3>1. PICK q \in Paths : rows[q] = t /\ disk[q] # None
      BY DEF Sound, BucketsKept
    <3>2. t # None
      BY KeepSetSubset DEF TypeOK, Times, None
    <3> QED
      BY <2>1, <2>2, <3>1, <3>2
  <2> QED
    BY <2>3, <2>4, <2>5 DEF Sound
<1> QED
  BY <1>4, <1>5 DEF Remove

\* The row that goes is not one the rule keeps.
LEMMA RowSound ==
    ASSUME TypeOK, Sound, outside = 0, NEW c \in Clients, Row(c)
    PROVE  Sound'
<1>1. /\ UNCHANGED <<now, disk, ever>> /\ outside' = outside /\ now \in Nat
  BY ClockAssumption DEF Row, Fault, counters, TypeOK
<1>2. \A d \in Clients : job'[d].todo \subseteq job[d].todo /\ job'[d].path = job[d].path
  BY DEF Row, TypeOK, Jobs
<1>3. \A d \in Clients : Creating(d)' => Creating(d)
  BY DEF Row, Creating, TypeOK, Goto
<1>4. CASE UNCHANGED rows
  BY <1>1, <1>2, <1>3, <1>4, FrameSound
<1>5. ASSUME NEW o \in job[c].todo,
             rows' = [p \in Paths |-> IF rows[p] = o.at THEN None ELSE rows[p]]
      PROVE  Sound'
  <2>1. o.at \in ever \ KeepSet(ever, Bucket, Limit)
    BY DEF Sound, CandidatesSound
  <2>2. \A q \in Paths : rows'[q] = rows[q] \/ rows'[q] = None
    BY <1>5
  <2>3. RowsSound'
    BY <1>1, <2>2 DEF Sound, RowsSound, UsedUp
  <2>4. CandidatesSound'
    <3> SUFFICES ASSUME NEW d \in Clients, NEW q \in job[d].todo
                 PROVE  /\ q.at \in ever \ KeepSet(ever, Bucket, Limit)
                        /\ rows'[q.path] \in {None, q.at} /\ UsedUp(q.path)
      BY <1>1, <1>2 DEF CandidatesSound, UsedUp
    <3>1. q.path \in Paths
      BY JobFields DEF TypeOK, Candidates
    <3> QED
      BY <2>2, <3>1 DEF Sound, CandidatesSound
  <2>5. CreationsSound'
    <3> SUFFICES ASSUME NEW d \in Clients, Creating(d)'
                 PROVE  /\ job[d].path \in Paths
                        /\ disk[job[d].path] # None /\ rows'[job[d].path] = None
                        /\ \E t \in Times : t < now /\ Name[t] = job[d].path
                        /\ \A e \in Clients :
                             /\ \A q \in job[e].todo : q.path # job[d].path
                             /\ Creating(e)' /\ e # d => job[e].path # job[d].path
      BY <1>1, <1>2 DEF CreationsSound
    <3> QED
      BY <1>3, <2>2 DEF Sound, CreationsSound
  <2>6. BucketsKept'
    <3> SUFFICES ASSUME NEW t \in KeepSet(ever, Bucket, Limit)
                 PROVE  \E q \in Paths : rows'[q] = t /\ disk[q] # None
      BY <1>1 DEF BucketsKept
    <3>1. PICK q \in Paths : rows[q] = t /\ disk[q] # None
      BY DEF Sound, BucketsKept
    <3> QED
      BY <1>5, <2>1, <3>1
  <2> QED
    BY <2>3, <2>4, <2>5, <2>6 DEF Sound
<1> QED
  BY <1>4, <1>5 DEF Row

\* The invariant holds when the behaviour starts.
LEMMA InitSound ==
    ASSUME NamesUsedUp, Init
    PROVE  CalmInv
<1>1. TypeOK
  BY InitTypes
<1>2. now = Past + 1 /\ ever \subseteq 2..Past /\ 2..Past \subseteq Times /\ Past \in Nat
  BY ClockAssumption DEF Init, Times
<1>3. \A p \in Paths : rows[p] # None => rows[p] \in ever /\ Name[rows[p] - 1] = p
  BY DEF Init
<1>4. \A t \in ever : t \in Times /\ t - 1 \in Times /\ t < now /\ t # None /\ t \in 1..now - 1
  BY <1>2, ClockAssumption DEF Times, None
<1>5. RowsSound
  <2>1. ASSUME NEW p \in Paths, rows[p] # None
        PROVE  UsedUp(p)
    <3>1. rows[p] \in ever /\ Name[rows[p] - 1] = p
      BY <1>3, <2>1
    <3>2. PICK t \in Times : t = rows[p] - 1 /\ t + 1 < now
      <4>1. rows[p] \in Int /\ rows[p] < now /\ rows[p] - 1 \in Times
        BY <1>4, <3>1 DEF Times
      <4>2. (rows[p] - 1) + 1 < now
        BY <4>1
      <4> QED
        BY <4>1, <4>2
    <3>3. \A u \in Times : u >= now => u > t + 1
      BY <1>2, <3>2 DEF Times
    <3>4. \A u \in Times : u > t + 1 => Name[t] # Name[u]
      BY DEF NamesUsedUp
    <3> QED
      BY <3>1, <3>2, <3>3, <3>4 DEF UsedUp
  <2> QED
    BY <1>3, <1>4, <2>1 DEF RowsSound
<1>6. CandidatesSound /\ CreationsSound
  BY DEF Init, CandidatesSound, CreationsSound, Creating, NoJob
<1>7. BucketsKept
  <2> SUFFICES ASSUME NEW t \in KeepSet(ever, Bucket, Limit)
               PROVE  \E p \in Paths : rows[p] = t /\ disk[p] # None
    BY DEF BucketsKept
  <2>1. t \in ever
    BY KeepSetSubset
  <2> DEFINE p == Name[t - 1]
  <2>2. p \in Paths
    BY <1>4, <2>1, NameAssumption
  <2>3. rows[p] = t
    <3>1. rows[p] \in ever /\ Name[rows[p] - 1] = p
      BY <2>1, <2>2 DEF Init
    <3>2. \A a, b \in ever : Name[a - 1] = Name[b - 1] => a = b
      BY DEF Init
    <3> QED
      BY <2>1, <3>1, <3>2
  <2>4. disk[p] # None
    <3>1. disk[p] = t - 1
      BY <1>4, <2>1, <2>2, <2>3 DEF Init
    <3> QED
      BY <1>4, <2>1, <3>1 DEF Times, None
  <2> QED
    BY <2>2, <2>3, <2>4
<1> QED
  BY <1>5, <1>6, <1>7 DEF CalmInv

\* Every step keeps the invariant.
LEMMA StepSound ==
    ASSUME NamesUsedUp, TypeOK, CalmInv, [Next]_vars
    PROVE  CalmInv'
<1> SUFFICES ASSUME outside' = 0
             PROVE  Sound'
  BY DEF CalmInv, Sound
<1>1. outside = 0
  <2>1. \A c \in Clients : Begin(c) \/ Prepare(c) \/ Check(c) \/ Crash(c) \/ Log(c)
          => outside' = outside
    BY DEF Begin, Prepare, Check, Crash, Log, counters
  <2>2. \A c \in Clients : CreateContainer(c) \/ Snapshot(c) \/ Insert(c) \/ Cleanup(c)
          => outside' = outside
    BY DEF CreateContainer, Snapshot, Insert, Cleanup, Fault, counters
  <2>3. \A c \in Clients : Remove(c) \/ Row(c) => outside' = outside
    BY DEF Remove, Row, Fault, counters
  <2>4. Tick \/ UNCHANGED vars => outside' = outside
    BY DEF Tick, vars, counters
  <2>5. \A p \in Paths : GoneOutside(p) \/ RowGone(p) => outside' = outside + 1
    BY DEF GoneOutside, RowGone
  <2>6. outside \in Nat
    BY DEF TypeOK
  <2>7. outside' = outside \/ outside' = outside + 1
    BY <2>1, <2>2, <2>3, <2>4, <2>5 DEF Next, Run
  <2> QED
    BY <2>6, <2>7
<1>2. Sound
  BY <1>1 DEF CalmInv, Sound
<1>3. now \in Nat /\ now + 1 >= now
  BY ClockAssumption DEF TypeOK
<1>4. ASSUME NEW c \in Clients, Prepare(c) \/ CreateContainer(c) \/ Check(c)
      PROVE  Sound'
  <2>1. UNCHANGED <<now, disk, rows, ever, job>>
    BY <1>4 DEF Prepare, CreateContainer, Check
  <2>2. \A d \in Clients : Creating(d)' => Creating(d)
    BY <1>4 DEF Prepare, CreateContainer, Check, Creating, Goto, TypeOK
  <2> QED
    BY <1>1, <1>2, <1>3, <2>1, <2>2, FrameSound
<1>5. ASSUME NEW c \in Clients, Log(c) \/ Crash(c)
      PROVE  Sound'
  <2>1. UNCHANGED <<now, disk, rows, ever>>
    BY <1>5 DEF Log, Crash
  <2>2. job' = [job EXCEPT ![c] = NoJob] /\ Goto(c, "idle")
    BY <1>5 DEF Log, Crash
  <2>3. \A d \in Clients : job'[d].todo \subseteq job[d].todo
    BY <2>2 DEF NoJob, TypeOK
  <2>4. \A d \in Clients : Creating(d)' => Creating(d) /\ job'[d].path = job[d].path
    BY <2>2 DEF Creating, Goto, TypeOK
  <2> QED
    BY <1>1, <1>2, <1>3, <2>1, <2>3, <2>4, FrameSound
<1>6. CASE Tick \/ UNCHANGED vars
  <2>1. UNCHANGED <<disk, rows, ever, job, pc>> /\ now' \in {now, now + 1}
    BY <1>6 DEF Tick, vars
  <2>2. now' \in Nat /\ now' >= now
    BY <1>3, <2>1
  <2>3. \A d \in Clients : Creating(d)' => Creating(d)
    BY <2>1 DEF Creating
  <2> QED
    BY <1>1, <1>2, <2>1, <2>2, <2>3, FrameSound
<1>7. ASSUME NEW p \in Paths, GoneOutside(p) \/ RowGone(p)
      PROVE  FALSE
  BY <1>1, <1>7 DEF GoneOutside, RowGone
<1> QED
  BY <1>1, <1>2, <1>4, <1>5, <1>6, <1>7, BeginSound, SnapshotSound, InsertSound,
     CleanupSound, RemoveSound, RowSound DEF Next, Run

\* However runs overlap, fail and die, no snapshot is lost that the policy keeps of
\* all it ever recorded, as long as names are not given twice and nobody else
\* removes rows or subvolumes.
THEOREM BucketsSurvive == ASSUME NamesUsedUp PROVE Spec => []BucketsKept
<1>1. Init => TypeOK /\ CalmInv
  BY InitTypes, InitSound
<1>2. TypeOK /\ CalmInv /\ [Next]_vars => (TypeOK /\ CalmInv)'
  BY StepTypes, StepSound
<1>3. CalmInv => BucketsKept
  BY DEF CalmInv, BucketsKept
<1> QED
  BY <1>1, <1>2, <1>3, PTL DEF Spec

-----------------------------------------------------------------------------
(* A run deletes only what was there when it read the rows *)

\* Each subvolume has the name of its time, no row's name and no candidate's name is
\* given again, and a name is only taken for a snapshot that exists.
PathInv ==
    /\ TypeOK
    /\ \A p \in Paths : rows[p] # None => UsedUp(p)
    /\ \A p \in Paths : disk[p] # None => Name[disk[p]] = p
    /\ \A c \in Clients : Creating(c) => \E t \in Times : t < now /\ Name[t] = job[c].path
    /\ \A c \in Clients : \A o \in job[c].todo, u \in Times : u >= job[c].since => Name[u] # o.path

\* Earlier runs used up the names of their snapshots.
LEMMA InitPaths == ASSUME NamesUsedUp PROVE Init => PathInv
<1> SUFFICES ASSUME Init PROVE PathInv
  OBVIOUS
<1>1. TypeOK
  BY InitTypes
<1>2. ASSUME NEW p \in Paths, rows[p] # None
      PROVE  UsedUp(p) /\ disk[p] # None /\ Name[disk[p]] = p
  <2>1. \E t \in ever : Name[t - 1] = p
    BY <1>2 DEF Init
  <2>2. rows[p] = CHOOSE t \in ever : Name[t - 1] = p
    BY <2>1 DEF Init
  <2>3. rows[p] \in ever /\ Name[rows[p] - 1] = p /\ disk[p] = rows[p] - 1
    BY <1>2, <2>1, <2>2 DEF Init
  <2>4. rows[p] \in 2..Past /\ now = Past + 1
    BY <2>3 DEF Init
  <2>5. \A t \in 2..Past, u \in Times : u >= Past + 1 => t - 1 \in Times /\ u > (t - 1) + 1
    BY ClockAssumption DEF Times
  <2>6. UsedUp(p)
    BY <2>3, <2>4, <2>5 DEF UsedUp, NamesUsedUp
  <2>7. disk[p] # None
    BY <2>3, <2>4, <2>5 DEF Times, None
  <2> QED
    BY <2>3, <2>6, <2>7
<1>3. \A p \in Paths : disk[p] # None => rows[p] # None
  BY DEF Init
<1>4. \A c \in Clients : pc[c] = "idle" /\ job[c] = NoJob
  BY DEF Init
<1> QED
  BY <1>1, <1>2, <1>3, <1>4 DEF PathInv, Creating, NoJob

\* What any step does to the clock, subvolumes and rows, and to what runs hold of them.
Given(t, p) == t \in Times /\ t = now /\ now' = now + 1 /\ Name[t] = p
StepOf ==
    /\ now' \in {now, now + 1}
    /\ \A p \in Paths : disk'[p] \in {disk[p], None} \/ (Given(disk'[p], p) /\ disk'[p] # None)
    /\ \/ \A p \in Paths : rows'[p] \in {rows[p], None}
       \/ /\ now' = now + 1
          /\ \E c \in Clients : Creating(c) /\ rows' = [rows EXCEPT ![job[c].path] = now]
    /\ \A c \in Clients : Creating(c)' =>
          \/ Creating(c) /\ job'[c].path = job[c].path
          \/ Given(now, job'[c].path)
    /\ \A c \in Clients :
          \/ job'[c].todo \subseteq job[c].todo /\ (job'[c].todo = {} \/ job'[c].since = job[c].since)
          \/ job'[c].todo = Select /\ job'[c].since = now

\* A step of one run that moves no clock, row or subvolume.
LEMMA CalmStep ==
    ASSUME TypeOK, NEW c \in Clients, UNCHANGED <<now, disk, rows>>,
           NEW s \in Steps \ {"insert"}, Goto(c, s), s = "cleanup" => Creating(c),
           \/ UNCHANGED job
           \/ job' = [job EXCEPT ![c] = NoJob] /\ s # "cleanup"
           \/ job' = [job EXCEPT ![c] = [NoJob EXCEPT !.todo = Select, !.since = now]] /\ s # "cleanup"
    PROVE  StepOf
<1>1. pc'[c] = s /\ \A d \in Clients \ {c} : pc'[d] = pc[d]
  BY GotoTypes DEF TypeOK
<1>2. \A d \in Clients \ {c} : job'[d] = job[d]
  BY DEF TypeOK
<1>3. \A d \in Clients : Creating(d)' => Creating(d) /\ job'[d].path = job[d].path
  BY <1>1, <1>2 DEF Creating
<1>4. \/ job'[c].todo \subseteq job[c].todo /\ (job'[c].todo = {} \/ job'[c].since = job[c].since)
      \/ job'[c].todo = Select /\ job'[c].since = now
  <2>1. CASE UNCHANGED job
    BY <2>1
  <2>2. CASE job' = [job EXCEPT ![c] = NoJob]
    <3>1. job'[c].todo = {}
      BY <2>2 DEF TypeOK, NoJob
    <3> QED
      BY <3>1
  <2>3. CASE job' = [job EXCEPT ![c] = [NoJob EXCEPT !.todo = Select, !.since = now]]
    <3>1. job'[c] = [NoJob EXCEPT !.todo = Select, !.since = now]
      BY <2>3 DEF TypeOK
    <3> QED
      BY <3>1 DEF NoJob
  <2> QED
    BY <2>1, <2>2, <2>3
<1> QED
  BY <1>2, <1>3, <1>4 DEF StepOf

\* Every step is of this kind.
LEMMA StepFacts == TypeOK /\ [Next]_vars => StepOf
<1> SUFFICES ASSUME TypeOK, [Next]_vars PROVE StepOf
  OBVIOUS
<1>1. ASSUME NEW c \in Clients, Begin(c) PROVE StepOf
  <2>1. PICK s \in {"prepare", "log"} : Goto(c, s)
    BY <1>1 DEF Begin
  <2> QED
    BY <1>1, <2>1, CalmStep DEF Begin, Steps
<1>2. ASSUME NEW c \in Clients, Prepare(c) \/ CreateContainer(c) \/ Check(c) PROVE StepOf
  <2>1. PICK s \in {"snapshot", "container", "log", "row", "remove"} : Goto(c, s)
    BY <1>2 DEF Prepare, CreateContainer, Check
  <2> QED
    BY <1>2, <2>1, CalmStep DEF Prepare, CreateContainer, Check, Steps
<1>3. ASSUME NEW c \in Clients, Snapshot(c) PROVE StepOf
  <2> DEFINE p == Name[now]
  <2>1. now \in Times /\ p \in Paths /\ now # None /\ UNCHANGED rows
    BY <1>3, NameAssumption, ClockAssumption DEF Snapshot, TypeOK, Times, None
  <2>2. CASE Goto(c, "log") /\ UNCHANGED <<disk, now, job>>
    BY <2>1, <2>2, CalmStep DEF Steps
  <2>3. CASE /\ disk' = [disk EXCEPT ![p] = now] /\ now' = now + 1
             /\ job' = [job EXCEPT ![c].path = p, ![c].created = {p}]
             /\ Goto(c, "insert")
    <3>1. /\ job'[c].path = p /\ job'[c].todo = job[c].todo /\ job'[c].since = job[c].since
          /\ \A d \in Clients \ {c} : job'[d] = job[d]
      BY <2>3 DEF TypeOK, Jobs
    <3>2. \A d \in Clients \ {c} : pc'[d] = pc[d]
      BY <2>3, GotoTypes DEF TypeOK, Goto
    <3>3. \A q \in Paths : disk'[q] = disk[q] \/ (Given(disk'[q], q) /\ disk'[q] # None)
      BY <2>1, <2>3 DEF TypeOK, Given
    <3>4. \A d \in Clients : Creating(d)' =>
            \/ Creating(d) /\ job'[d].path = job[d].path
            \/ Given(now, job'[d].path)
      BY <2>1, <2>3, <3>1, <3>2 DEF Creating, Given
    <3> QED
      BY <2>1, <2>3, <3>1, <3>3, <3>4 DEF StepOf
  <2> QED
    BY <1>3, <2>2, <2>3 DEF Snapshot
<1>4. ASSUME NEW c \in Clients, Insert(c) PROVE StepOf
  <2>1. Creating(c) /\ UNCHANGED <<disk, job>>
    BY <1>4 DEF Insert, Creating
  <2>2. CASE Goto(c, "cleanup") /\ UNCHANGED <<rows, now>>
    BY <2>1, <2>2, CalmStep DEF Steps
  <2>3. CASE /\ rows' = [rows EXCEPT ![job[c].path] = now] /\ now' = now + 1
             /\ Goto(c, "check")
    <3>1. pc'[c] = "check" /\ \A d \in Clients \ {c} : pc'[d] = pc[d]
      BY <2>3, GotoTypes DEF TypeOK, Steps
    <3>2. \A d \in Clients : Creating(d)' => Creating(d)
      BY <3>1 DEF Creating
    <3> QED
      BY <2>1, <2>3, <3>2 DEF StepOf
  <2> QED
    BY <1>4, <2>2, <2>3 DEF Insert
<1>5. ASSUME NEW c \in Clients, Cleanup(c) PROVE StepOf
  <2>1. /\ UNCHANGED <<now, rows>> /\ Goto(c, "log")
        /\ \A q \in Paths : disk'[q] \in {disk[q], None}
    BY <1>5 DEF Cleanup, TypeOK
  <2>2. \A d \in Clients : job'[d].todo = job[d].todo /\ job'[d].since = job[d].since
                           /\ job'[d].path = job[d].path
    BY <1>5 DEF Cleanup, TypeOK, Jobs
  <2>3. \A d \in Clients : Creating(d)' => Creating(d)
    BY <2>1, GotoTypes DEF TypeOK, Creating, Goto
  <2> QED
    BY <2>1, <2>2, <2>3 DEF StepOf
<1>6. ASSUME NEW c \in Clients, Remove(c) PROVE StepOf
  <2>1. UNCHANGED <<now, rows>> /\ \A q \in Paths : disk'[q] \in {disk[q], None}
    BY <1>6 DEF Remove, TypeOK
  <2>2. \A d \in Clients : job'[d].todo = job[d].todo /\ job'[d].since = job[d].since
                           /\ job'[d].path = job[d].path
    BY <1>6 DEF Remove, TypeOK, Jobs
  <2>3. \A d \in Clients : Creating(d)' => Creating(d)
    BY <1>6, GotoTypes DEF Remove, TypeOK, Creating, Goto
  <2> QED
    BY <2>1, <2>2, <2>3 DEF StepOf
<1>7. ASSUME NEW c \in Clients, Row(c) PROVE StepOf
  <2>1. UNCHANGED <<now, disk>> /\ \A q \in Paths : rows'[q] \in {rows[q], None}
    BY <1>7 DEF Row, TypeOK
  <2>2. \A d \in Clients : job'[d].todo \subseteq job[d].todo /\ job'[d].since = job[d].since
                           /\ job'[d].path = job[d].path
    BY <1>7 DEF Row, TypeOK, Jobs
  <2>3. \A d \in Clients : Creating(d)' => Creating(d)
    BY <1>7, GotoTypes DEF Row, TypeOK, Creating, Goto
  <2> QED
    BY <2>1, <2>2, <2>3 DEF StepOf
<1>8. ASSUME NEW c \in Clients, Log(c) \/ Crash(c) PROVE StepOf
  <2>1. /\ UNCHANGED <<now, disk, rows>> /\ Goto(c, "idle")
        /\ job' = [job EXCEPT ![c] = NoJob]
    BY <1>8 DEF Log, Crash
  <2> QED
    BY <2>1, CalmStep DEF Steps
<1>9. CASE Tick \/ UNCHANGED vars
  BY <1>9 DEF Tick, vars, StepOf, Creating
<1>10. ASSUME NEW p \in Paths, GoneOutside(p) \/ RowGone(p) PROVE StepOf
  <2>1. /\ \A q \in Paths : disk'[q] \in {disk[q], None}
        /\ \A q \in Paths : rows'[q] \in {rows[q], None}
        /\ UNCHANGED <<now, pc, job>>
    BY <1>10 DEF GoneOutside, RowGone, TypeOK
  <2> QED
    BY <2>1 DEF StepOf, Creating
<1> QED
  BY <1>1, <1>2, <1>3, <1>4, <1>5, <1>6, <1>7, <1>8, <1>9, <1>10 DEF Next, Run

\* A name that is recorded was given at least two readings ago, and is used up.
LEMMA StepPaths == ASSUME NamesUsedUp PROVE PathInv /\ [Next]_vars => PathInv'
<1> SUFFICES ASSUME PathInv, [Next]_vars PROVE PathInv'
  OBVIOUS
<1>1. TypeOK /\ TypeOK' /\ StepOf
  BY StepTypes, StepFacts DEF PathInv
<1>2. now \in Nat /\ now' \in Nat /\ now' >= now
  BY <1>1, ClockAssumption DEF TypeOK, StepOf
<1>3. ASSUME NEW p \in Paths, rows'[p] # None PROVE UsedUp(p)'
  <2>1. CASE rows'[p] = rows[p]
    BY <1>1, <1>2, <1>3, <2>1, StaysUsedUp DEF PathInv
  <2>2. CASE now' = now + 1 /\ \E c \in Clients : Creating(c) /\ job[c].path = p
    <3>1. PICK t \in Times : t < now /\ Name[t] = p
      BY <2>2 DEF PathInv
    <3>2. \A u \in Times : u >= now' => u > t + 1
      BY <1>2, <2>2, <3>1 DEF Times
    <3> QED
      BY <3>1, <3>2 DEF NamesUsedUp, UsedUp
  <2> QED
    BY <1>1, <1>3, <2>1, <2>2 DEF StepOf, TypeOK
<1>4. ASSUME NEW p \in Paths, disk'[p] # None PROVE Name[disk'[p]] = p
  BY <1>1, <1>4 DEF StepOf, Given, PathInv
<1>5. ASSUME NEW c \in Clients, Creating(c)'
      PROVE  \E t \in Times : t < now' /\ Name[t] = job'[c].path
  <2>1. CASE Creating(c) /\ job'[c].path = job[c].path
    <3>1. PICK t \in Times : t < now /\ Name[t] = job[c].path
      BY <2>1 DEF PathInv
    <3>2. t < now'
      BY <1>2, <3>1 DEF Times
    <3> QED
      BY <2>1, <3>1, <3>2
  <2>2. CASE Given(now, job'[c].path)
    BY <1>2, <2>2 DEF Given
  <2> QED
    BY <1>1, <1>5, <2>1, <2>2 DEF StepOf
<1>6. ASSUME NEW c \in Clients, NEW o \in job'[c].todo, NEW u \in Times, u >= job'[c].since
      PROVE  Name[u] # o.path
  <2>1. CASE job'[c].todo \subseteq job[c].todo /\ (job'[c].todo = {} \/ job'[c].since = job[c].since)
    BY <1>6, <2>1 DEF PathInv
  <2>2. CASE job'[c].todo = Select /\ job'[c].since = now
    <3>1. o \in Candidates /\ rows[o.path] = o.at
      BY <2>2 DEF Select
    <3>2. o.path \in Paths /\ o.at # None
      BY <3>1 DEF Candidates, Times, None
    <3> QED
      BY <1>6, <2>2, <3>1, <3>2 DEF PathInv, UsedUp
  <2> QED
    BY <1>1, <2>1, <2>2 DEF StepOf
<1> QED
  BY <1>1, <1>3, <1>4, <1>5, <1>6 DEF PathInv

\* Only a removal takes a run from "remove" to "row".
LEMMA OnlyRemoves ==
    ASSUME TypeOK, [Next]_vars, NEW c \in Clients, pc[c] = "remove", pc'[c] = "row"
    PROVE  Remove(c)
<1>1. \A d \in Clients \ {c} : Run(d) \/ Crash(d) => pc'[c] = pc[c]
  BY DEF Run, Begin, Prepare, CreateContainer, Snapshot, Insert, Cleanup, Check, Remove, Row, Log,
         Crash, Goto, TypeOK
<1>2. Run(c) \/ Crash(c) => Remove(c) \/ Crash(c)
  BY DEF Run, Begin, Prepare, CreateContainer, Snapshot, Insert, Cleanup, Check, Row, Log
<1>3. ~Crash(c)
  BY DEF Crash, Goto, TypeOK
<1>4. (Tick \/ UNCHANGED vars \/ \E p \in Paths : GoneOutside(p) \/ RowGone(p)) => pc' = pc
  BY DEF Tick, vars, GoneOutside, RowGone
<1> QED
  BY <1>1, <1>2, <1>3, <1>4 DEF Next

\* What is removed has the candidate's name, hence a time before the run began.
LEMMA RemovalIsOld ==
    ASSUME PathInv, NEW c \in Clients, Remove(c), NEW p \in Paths, disk[p] # disk'[p]
    PROVE  disk[p] < job[c].since
<1>1. PICK o \in job[c].todo : disk[o.path] # None /\ disk' = [disk EXCEPT ![o.path] = None]
  BY DEF Remove
<1>2. p = o.path
  BY <1>1 DEF PathInv, TypeOK
<1>3. disk[p] \in Times /\ Name[disk[p]] = p
  BY <1>1, <1>2 DEF PathInv, TypeOK
<1>4. ~(disk[p] >= job[c].since)
  BY <1>1, <1>2, <1>3 DEF PathInv
<1>5. job[c].since \in 0..MaxTime + 1
  BY JobFields DEF PathInv, TypeOK
<1> QED
  BY <1>3, <1>4, <1>5, ClockAssumption DEF Times

\* However runs overlap, fail and die, and whatever others remove, no run deletes a
\* subvolume that was created after it read the rows, as long as names are not given
\* twice (retention.rs:246-247).
THEOREM OnlyOldDeleted == ASSUME NamesUsedUp PROVE Spec => OnlyPreRunDeleted
<1>1. Init => PathInv
  BY InitPaths
<1>2. PathInv /\ [Next]_vars => PathInv'
  BY StepPaths
<1>3. PathInv /\ [Next]_vars =>
        [\A c \in Clients : pc[c] = "remove" /\ pc'[c] = "row" =>
            \A p \in Paths : disk[p] # disk'[p] => disk[p] < job[c].since]_vars
  BY OnlyRemoves, RemovalIsOld DEF PathInv
<1> QED
  BY <1>1, <1>2, <1>3, PTL DEF Spec, OnlyPreRunDeleted

-----------------------------------------------------------------------------
(* The logs list each deletion once *)

Distinct(S) == \A o, q \in S : o.path = q.path \/ o.at = q.at => o = q

\* A run has not yet deleted what it will still look for: the rows it selected have
\* paths and times of their own, and the first of them is the next.
Tidy(c) ==
    /\ Distinct(job[c].todo)
    /\ pc[c] \notin {"check", "remove", "row", "log"} => job[c].deleted = {}
    /\ pc[c] \in {"check", "remove"} => \A o \in job[c].todo : o.path \notin job[c].deleted
    /\ pc[c] = "row" => \A o \in job[c].todo : ~IsFirst(c, o) => o.path \notin job[c].deleted

\* The rows have times of their own, all of them past.
RowsApart ==
    /\ \A p \in Paths : rows[p] < now
    /\ \A p, q \in Paths : rows[p] = rows[q] /\ rows[p] # None => p = q

\* The runs whose logs will tell of the deletion of p.
Tellers(p) == {c \in Clients : p \in job[c].deleted}

Balanced == \A p \in Paths : killed[p] = told[p] + Cardinality(Tellers(p))

LogInv ==
    /\ TypeOK /\ RowsApart
    /\ \A c \in Clients : Tidy(c)
    /\ crashes = 0 /\ lostLogs = 0 => Balanced

\* At the start no run is under way, and the rows of earlier runs are apart.
LEMMA InitTidy == Init => RowsApart /\ \A c \in Clients : Tidy(c)
<1> SUFFICES ASSUME Init PROVE RowsApart /\ \A c \in Clients : Tidy(c)
  OBVIOUS
<1>1. ASSUME NEW p \in Paths, rows[p] # None
      PROVE  rows[p] \in ever /\ Name[rows[p] - 1] = p
  <2>1. \E t \in ever : Name[t - 1] = p
    BY <1>1 DEF Init
  <2>2. rows[p] = CHOOSE t \in ever : Name[t - 1] = p
    BY <2>1 DEF Init
  <2> QED
    BY <2>1, <2>2
<1>2. now = Past + 1 /\ ever \subseteq 2..Past /\ Past \in Nat
  BY ClockAssumption DEF Init
<1>3. \A t \in 2..Past : t < Past + 1
  BY <1>2
<1>4. ASSUME NEW p \in Paths PROVE rows[p] < now
  <2>1. CASE rows[p] = None
    BY <1>2, <2>1 DEF None
  <2>2. CASE rows[p] # None
    BY <1>1, <1>2, <1>3, <2>2
  <2> QED
    BY <2>1, <2>2
<1>5. RowsApart
  BY <1>1, <1>4 DEF RowsApart
<1>6. \A c \in Clients : pc[c] = "idle" /\ job[c].todo = {} /\ job[c].deleted = {}
  BY DEF Init, NoJob
<1>7. \A c \in Clients : Tidy(c)
  BY <1>6 DEF Tidy, Distinct
<1> QED
  BY <1>5, <1>7

\* At the start nothing is deleted.
LEMMA InitLogs == ASSUME IsFiniteSet(Clients) PROVE Init => LogInv
<1> SUFFICES ASSUME Init PROVE LogInv
  OBVIOUS
<1>1. TypeOK /\ RowsApart /\ \A c \in Clients : Tidy(c)
  BY InitTypes, InitTidy
<1>2. Balanced
  <2> SUFFICES ASSUME NEW p \in Paths PROVE killed[p] = told[p] + Cardinality(Tellers(p))
    BY DEF Balanced
  <2>1. Tellers(p) = {}
    BY DEF Tellers, Init, NoJob
  <2>2. Cardinality(Tellers(p)) = 0
    BY <2>1, FS_EmptySet
  <2> QED
    BY <2>2 DEF Init
<1> QED
  BY <1>1, <1>2 DEF LogInv

\* A new row takes the clock's reading, which no row has.
LEMMA StepApart == TypeOK /\ RowsApart /\ [Next]_vars => RowsApart'
<1> SUFFICES ASSUME TypeOK, RowsApart, [Next]_vars PROVE RowsApart'
  OBVIOUS
<1>1. StepOf /\ TypeOK'
  BY StepFacts, StepTypes
<1>2. now \in Nat \ {0} /\ now' \in {now, now + 1}
  BY <1>1, ClockAssumption DEF TypeOK, StepOf
<1>3. rows \in [Paths -> Nat]
  BY ClockAssumption DEF TypeOK, Times, None
<1>4. CASE \A p \in Paths : rows'[p] \in {rows[p], None}
  BY <1>2, <1>3, <1>4 DEF RowsApart, None
<1>5. ASSUME now' = now + 1, NEW q, rows' = [rows EXCEPT ![q] = now] PROVE RowsApart'
  <2>1. \A p \in Paths : rows'[p] = IF p = q THEN now ELSE rows[p]
    BY <1>3, <1>5
  <2>2. \A p \in Paths : rows'[p] < now'
    BY <1>2, <1>3, <1>5, <2>1 DEF RowsApart
  <2>3. \A p \in Paths : rows[p] # now
    BY <1>2, <1>3 DEF RowsApart
  <2> QED
    BY <2>1, <2>2, <2>3 DEF RowsApart
<1> QED
  BY <1>1, <1>4, <1>5 DEF StepOf

\* A client whose run makes no step.
LEMMA StaysTidy ==
    ASSUME NEW c \in Clients, Tidy(c), UNCHANGED <<pc[c], job[c]>>
    PROVE  Tidy(c)'
  BY DEF Tidy, IsFirst

\* The step of another run leaves this one alone.
LEMMA OtherStays ==
    ASSUME TypeOK, NEW c \in Clients, NEW d \in Clients \ {c}, Run(c) \/ Crash(c)
    PROVE  pc'[d] = pc[d] /\ job'[d] = job[d]
<1>1. pc'[d] = pc[d]
  BY DEF Run, Begin, Prepare, CreateContainer, Snapshot, Insert, Cleanup, Check, Remove, Row, Log,
         Crash, Goto, TypeOK
<1>2. job'[d] = job[d]
  BY DEF Run, Begin, Prepare, CreateContainer, Snapshot, Insert, Cleanup, Check, Remove, Row, Log,
         Crash, TypeOK
<1> QED
  BY <1>1, <1>2

\* Its order with it.
LEMMA OtherTidy ==
    ASSUME TypeOK, NEW c \in Clients, NEW d \in Clients \ {c}, Tidy(d), Run(c) \/ Crash(c)
    PROVE  Tidy(d)'
  BY OtherStays, StaysTidy

\* What a run selects are rows, which are apart.
LEMMA SelectDistinct == ASSUME TypeOK, RowsApart PROVE Distinct(Select)
<1> SUFFICES ASSUME NEW o \in Select, NEW q \in Select, o.path = q.path \/ o.at = q.at
             PROVE  o = q
  BY DEF Distinct
<1>1. /\ o \in Candidates /\ rows[o.path] = o.at
      /\ q \in Candidates /\ rows[q.path] = q.at
  BY DEF Select
<1>2. o.path \in Paths /\ q.path \in Paths /\ o.at # None
  BY <1>1 DEF Candidates, Times, None
<1>3. o.path = q.path /\ o.at = q.at
  BY <1>1, <1>2 DEF RowsApart
<1> QED
  BY <1>1, <1>3 DEF Candidates

\* The next row to delete is unique.
LEMMA FirstIsOne ==
    ASSUME TypeOK, NEW c \in Clients, Distinct(job[c].todo),
           NEW o, NEW q, IsFirst(c, o), IsFirst(c, q)
    PROVE  o = q
<1>1. o \in Candidates /\ q \in Candidates
  BY JobFields DEF IsFirst, TypeOK
<1>2. o.at \in Nat /\ q.at \in Nat
  BY <1>1, ClockAssumption DEF Candidates, Times
<1>3. o.at <= q.at /\ q.at <= o.at
  BY DEF IsFirst
<1> QED
  BY <1>2, <1>3 DEF IsFirst, Distinct

\* A run keeps its own order.
LEMMA RunTidy ==
    ASSUME TypeOK, RowsApart, NEW c \in Clients, Tidy(c), Run(c) \/ Crash(c)
    PROVE  Tidy(c)'
<1>1. CASE Begin(c)
  <2>1. pc'[c] \in {"prepare", "log"} /\ pc[c] = "idle"
    BY <1>1 DEF Begin, Goto, TypeOK
  <2>2. CASE UNCHANGED job
    BY <2>1, <2>2 DEF Tidy
  <2>3. CASE job' = [job EXCEPT ![c] = [NoJob EXCEPT !.todo = Select, !.since = now]]
    <3>1. job'[c] = [NoJob EXCEPT !.todo = Select, !.since = now]
      BY <2>3 DEF TypeOK
    <3>2. job'[c].todo = Select /\ job'[c].deleted = {}
      BY <3>1 DEF NoJob
    <3> QED
      BY <2>1, <3>2, SelectDistinct DEF Tidy
  <2> QED
    BY <1>1, <2>2, <2>3 DEF Begin
<1>2. CASE Prepare(c) \/ CreateContainer(c) \/ Insert(c)
  <2>1. /\ UNCHANGED job /\ pc[c] \in {"prepare", "container", "insert"}
        /\ pc'[c] \in {"snapshot", "container", "log", "check", "cleanup"}
    BY <1>2 DEF Prepare, CreateContainer, Insert, Goto, TypeOK
  <2> QED
    BY <2>1 DEF Tidy
<1>3. CASE Snapshot(c) \/ Cleanup(c)
  <2>1. job'[c].todo = job[c].todo /\ job'[c].deleted = job[c].deleted
    BY <1>3 DEF Snapshot, Cleanup, TypeOK, Jobs
  <2>2. pc[c] \in {"snapshot", "cleanup"} /\ pc'[c] \in {"insert", "log"}
    BY <1>3 DEF Snapshot, Cleanup, Goto, TypeOK
  <2> QED
    BY <2>1, <2>2 DEF Tidy
<1>4. CASE Check(c)
  <2>1. UNCHANGED job /\ pc[c] = "check" /\ pc'[c] \in {"log", "row", "remove"}
    BY <1>4 DEF Check, Goto, TypeOK
  <2> QED
    BY <2>1 DEF Tidy
<1>5. CASE Remove(c)
  <2>1. PICK o \in job[c].todo :
          /\ IsFirst(c, o)
          /\ \/ job' = [job EXCEPT ![c].deleted = @ \cup {o.path}] /\ Goto(c, "row")
             \/ UNCHANGED job /\ (Goto(c, "row") \/ Goto(c, "log"))
    BY <1>5 DEF Remove
  <2>2. pc[c] = "remove" /\ pc'[c] \in {"row", "log"}
    BY <1>5 DEF Remove, Goto, TypeOK
  <2>3. job'[c].todo = job[c].todo /\ job'[c].deleted \subseteq job[c].deleted \cup {o.path}
    BY <2>1 DEF TypeOK, Jobs
  <2>4. \A q \in job'[c].todo : ~IsFirst(c, q)' => q.path \notin job'[c].deleted
    <3> SUFFICES ASSUME NEW q \in job[c].todo, ~IsFirst(c, q)'
                 PROVE  q.path \notin job[c].deleted \cup {o.path}
      BY <2>3
    <3>1. q # o
      BY <2>1, <2>3 DEF IsFirst
    <3> QED
      BY <2>1, <2>2, <3>1 DEF Tidy, Distinct
  <2> QED
    BY <2>2, <2>3, <2>4 DEF Tidy, Distinct
<1>6. CASE Row(c)
  <2>1. PICK o \in job[c].todo :
          /\ IsFirst(c, o)
          /\ \/ job' = [job EXCEPT ![c].todo = @ \ {o}] /\ Goto(c, "check")
             \/ UNCHANGED job /\ Goto(c, "log")
    BY <1>6 DEF Row
  <2>2. pc[c] = "row"
    BY <1>6 DEF Row
  <2>3. CASE UNCHANGED job /\ Goto(c, "log")
    <3>1. pc'[c] = "log"
      BY <2>3 DEF Goto, TypeOK
    <3> QED
      BY <2>3, <3>1 DEF Tidy
  <2>4. CASE job' = [job EXCEPT ![c].todo = @ \ {o}] /\ Goto(c, "check")
    <3>1. pc'[c] = "check"
      BY <2>4 DEF Goto, TypeOK
    <3>2. job'[c].todo = job[c].todo \ {o} /\ job'[c].deleted = job[c].deleted
      BY <2>4 DEF TypeOK, Jobs
    <3>3. ASSUME NEW q \in job[c].todo \ {o} PROVE q.path \notin job[c].deleted
      BY <2>1, <2>2, FirstIsOne DEF Tidy
    <3> QED
      BY <3>1, <3>2, <3>3 DEF Tidy, Distinct
  <2> QED
    BY <2>1, <2>3, <2>4
<1>7. CASE Log(c) \/ Crash(c)
  <2>1. pc'[c] = "idle" /\ job'[c] = NoJob
    BY <1>7 DEF Log, Crash, Goto, TypeOK
  <2> QED
    BY <2>1 DEF Tidy, Distinct, NoJob
<1> QED
  BY <1>1, <1>2, <1>3, <1>4, <1>5, <1>6, <1>7 DEF Run

\* No step disturbs the order of any run.
LEMMA StepTidy ==
    ASSUME TypeOK, RowsApart, \A c \in Clients : Tidy(c), [Next]_vars, NEW d \in Clients
    PROVE  Tidy(d)'
<1>1. ASSUME NEW c \in Clients, Run(c) \/ Crash(c) PROVE Tidy(d)'
  BY <1>1, RunTidy, OtherTidy
<1>2. CASE Tick \/ UNCHANGED vars \/ \E p \in Paths : GoneOutside(p) \/ RowGone(p)
  <2>1. UNCHANGED <<pc, job>>
    BY <1>2 DEF Tick, vars, GoneOutside, RowGone
  <2> QED
    BY <2>1, StaysTidy
<1> QED
  BY <1>1, <1>2 DEF Next

\* A crash is a trouble for good, and so is a log that could not be written.
LEMMA StaysUnlogged ==
    ASSUME TypeOK, [Next]_vars, crashes' = 0 /\ lostLogs' = 0
    PROVE  /\ crashes = 0 /\ lostLogs = 0
           /\ \A c \in Clients : ~Crash(c)
<1>1. crashes \in Nat /\ lostLogs \in Nat
  BY DEF TypeOK
<1>2. \A c \in Clients : ~Crash(c)
  BY <1>1 DEF Crash
<1>3. ASSUME NEW c \in Clients, Run(c) PROVE crashes' = crashes /\ lostLogs' \in {lostLogs, lostLogs + 1}
  BY <1>3 DEF Run, Begin, Prepare, CreateContainer, Snapshot, Insert, Cleanup, Check, Remove, Row, Log,
              Fault, counters
<1>4. ASSUME Tick \/ UNCHANGED vars \/ \E p \in Paths : GoneOutside(p) \/ RowGone(p)
      PROVE  crashes' = crashes /\ lostLogs' = lostLogs
  BY <1>4 DEF Tick, vars, counters, GoneOutside, RowGone
<1>5. crashes' = crashes /\ lostLogs' \in {lostLogs, lostLogs + 1}
  BY <1>2, <1>3, <1>4 DEF Next
<1> QED
  BY <1>1, <1>2, <1>5

\* Steps that delete nothing and write no log.
LEMMA StaysBalanced ==
    ASSUME Balanced, UNCHANGED <<killed, told>>, \A c \in Clients : job'[c].deleted = job[c].deleted
    PROVE  Balanced'
<1>1. \A p : Tellers(p)' = Tellers(p)
  BY DEF Tellers
<1> QED
  BY <1>1 DEF Balanced

\* They can be counted.
LEMMA TellersCount ==
    ASSUME IsFiniteSet(Clients), NEW p
    PROVE  IsFiniteSet(Tellers(p)) /\ Cardinality(Tellers(p)) \in Nat
<1>1. IsFiniteSet(Tellers(p))
  BY FS_Subset DEF Tellers
<1> QED
  BY <1>1, FS_CardinalityType

\* A removal is counted once and will be told by its run.
LEMMA RemoveBalanced ==
    ASSUME IsFiniteSet(Clients), LogInv, Balanced, NEW c \in Clients, Remove(c)
    PROVE  Balanced'
<1> USE DEF LogInv
<1>1. UNCHANGED told /\ pc[c] = "remove"
  BY DEF Remove, reports
<1>2. CASE UNCHANGED <<job, killed>>
  BY <1>1, <1>2, StaysBalanced
<1>3. ASSUME NEW o \in job[c].todo,
             killed' = [killed EXCEPT ![o.path] = @ + 1],
             job' = [job EXCEPT ![c].deleted = @ \cup {o.path}]
      PROVE  Balanced'
  <2>1. o.path \notin job[c].deleted
    BY <1>1 DEF Tidy
  <2>2. /\ job'[c].deleted = job[c].deleted \cup {o.path}
        /\ \A d \in Clients \ {c} : job'[d] = job[d]
    BY <1>3 DEF TypeOK, Jobs
  <2>3. Tellers(o.path)' = Tellers(o.path) \cup {c} /\ c \notin Tellers(o.path)
    BY <2>1, <2>2 DEF Tellers
  <2>4. Cardinality(Tellers(o.path)') = Cardinality(Tellers(o.path)) + 1
    BY <2>3, TellersCount, FS_AddElement
  <2>5. ASSUME NEW p \in Paths, p # o.path
        PROVE  killed'[p] = killed[p] /\ Tellers(p)' = Tellers(p)
    BY <1>3, <2>2, <2>5 DEF Tellers, TypeOK
  <2>6. ASSUME NEW p \in Paths PROVE killed'[p] = told'[p] + Cardinality(Tellers(p)')
    <3>1. CASE p = o.path
      <4>1. killed'[p] = killed[p] + 1 /\ killed[p] \in Nat /\ told[p] \in Nat
        BY <1>3, <3>1 DEF TypeOK
      <4>2. Cardinality(Tellers(p)) \in Nat
        BY TellersCount
      <4> QED
        BY <1>1, <2>4, <3>1, <4>1, <4>2 DEF Balanced
    <3>2. CASE p # o.path
      BY <1>1, <2>5, <3>2 DEF Balanced
    <3> QED
      BY <3>1, <3>2
  <2> QED
    BY <2>6 DEF Balanced
<1> QED
  BY <1>2, <1>3 DEF Remove

\* A log tells what its run removed, and the run forgets it.
LEMMA LogBalanced ==
    ASSUME IsFiniteSet(Clients), TypeOK, Balanced, NEW c \in Clients, Log(c), lostLogs' = 0
    PROVE  Balanced'
<1>1. /\ told' = [p \in Paths |-> told[p] + (IF p \in job[c].deleted THEN 1 ELSE 0)]
      /\ UNCHANGED killed /\ job' = [job EXCEPT ![c] = NoJob]
  BY DEF Log, TypeOK
<1>2. job'[c].deleted = {} /\ \A d \in Clients \ {c} : job'[d] = job[d]
  BY <1>1 DEF TypeOK, NoJob
<1>3. ASSUME NEW p \in Paths PROVE killed'[p] = told'[p] + Cardinality(Tellers(p)')
  <2>1. killed[p] = told[p] + Cardinality(Tellers(p)) /\ told[p] \in Nat
    BY DEF Balanced, TypeOK
  <2>2. IsFiniteSet(Tellers(p)) /\ Cardinality(Tellers(p)) \in Nat
    BY TellersCount
  <2>3. Tellers(p)' = Tellers(p) \ {c}
    BY <1>2 DEF Tellers
  <2>4. CASE p \in job[c].deleted
    <3>1. c \in Tellers(p) /\ told'[p] = told[p] + 1
      BY <1>1, <2>4 DEF Tellers
    <3>2. Cardinality(Tellers(p) \ {c}) = Cardinality(Tellers(p)) - 1
      BY <2>2, <3>1, FS_RemoveElement
    <3> QED
      BY <1>1, <2>1, <2>2, <2>3, <3>1, <3>2
  <2>5. CASE p \notin job[c].deleted
    <3>1. Tellers(p) \ {c} = Tellers(p) /\ told'[p] = told[p]
      BY <1>1, <2>1, <2>5 DEF Tellers
    <3> QED
      BY <1>1, <2>1, <2>3, <3>1
  <2> QED
    BY <2>4, <2>5
<1> QED
  BY <1>3 DEF Balanced

\* Every step keeps deletions and logs in balance.
LEMMA StepLogs == ASSUME IsFiniteSet(Clients) PROVE LogInv /\ [Next]_vars => LogInv'
<1> SUFFICES ASSUME LogInv, [Next]_vars PROVE LogInv'
  OBVIOUS
<1>1. TypeOK' /\ RowsApart' /\ \A c \in Clients : Tidy(c)'
  BY StepTypes, StepApart, StepTidy DEF LogInv
<1>2. ASSUME crashes' = 0 /\ lostLogs' = 0 PROVE Balanced'
  <2>1. Balanced /\ \A c \in Clients : ~Crash(c)
    BY <1>2, StaysUnlogged DEF LogInv
  <2>2. ASSUME NEW c \in Clients, Begin(c) PROVE Balanced'
    <3>1. job[c].deleted = {}
      BY <2>2 DEF Begin, LogInv, Tidy
    <3>2. \A d \in Clients : job'[d].deleted = job[d].deleted
      BY <2>2, <3>1 DEF Begin, LogInv, TypeOK, NoJob
    <3> QED
      BY <2>1, <2>2, <3>2, StaysBalanced DEF Begin, reports
  <2>3. ASSUME NEW c \in Clients, Prepare(c) \/ CreateContainer(c) \/ Insert(c) \/ Check(c)
        PROVE  Balanced'
    BY <2>1, <2>3, StaysBalanced DEF Prepare, CreateContainer, Insert, Check, reports
  <2>4. ASSUME NEW c \in Clients, Snapshot(c) \/ Cleanup(c) \/ Row(c) PROVE Balanced'
    <3>1. \A d \in Clients : job'[d].deleted = job[d].deleted
      BY <2>4 DEF Snapshot, Cleanup, Row, LogInv, TypeOK, Jobs
    <3> QED
      BY <2>1, <2>4, <3>1, StaysBalanced DEF Snapshot, Cleanup, Row, reports
  <2>5. CASE Tick \/ UNCHANGED vars \/ \E p \in Paths : GoneOutside(p) \/ RowGone(p)
    BY <2>1, <2>5, StaysBalanced DEF Tick, vars, reports, GoneOutside, RowGone
  <2> QED
    BY <1>2, <2>1, <2>2, <2>3, <2>4, <2>5, RemoveBalanced, LogBalanced DEF Next, Run, LogInv
<1> QED
  BY <1>1, <1>2 DEF LogInv

\* For finitely many clients, and however their runs overlap and fail: when all are
\* idle, each deletion of a subvolume stands in exactly one log, unless a process
\* died or a log could not be written (retention.rs:80-113, 248-281).
THEOREM LogsAreTrue == ASSUME IsFiniteSet(Clients) PROVE Spec => []DeletionsLogged
<1>1. Init => LogInv
  BY InitLogs
<1>2. LogInv /\ [Next]_vars => LogInv'
  BY StepLogs
<1>3. ASSUME LogInv PROVE DeletionsLogged
  <2> SUFFICES ASSUME Quiet, crashes = 0, lostLogs = 0 PROVE told = killed
    BY DEF DeletionsLogged
  <2>1. ASSUME NEW p \in Paths PROVE told[p] = killed[p]
    <3>1. Tellers(p) = {}
      BY <1>3 DEF Tellers, Quiet, LogInv, Tidy
    <3>2. Cardinality(Tellers(p)) = 0
      BY <3>1, FS_EmptySet
    <3> QED
      BY <1>3, <3>2 DEF LogInv, Balanced, TypeOK
  <2> QED
    BY <1>3, <2>1 DEF LogInv, TypeOK
<1> QED
  BY <1>1, <1>2, <1>3, PTL DEF Spec

-----------------------------------------------------------------------------
(* No subvolume is left behind unsaid *)

RunInv ==
    /\ TypeOK /\ CalmInv /\ RowsApart
    /\ \A c \in Clients : Tidy(c)
    /\ SaidInv

\* At the start every subvolume is recorded.
LEMMA InitSaid == Init => SaidInv
<1> SUFFICES ASSUME Init PROVE RowsLast /\ CreationsNamed /\ UnrecordedSaid
  BY DEF SaidInv
<1>1. \A c \in Clients : pc[c] = "idle" /\ job[c].todo = {}
  BY DEF Init, NoJob
<1>2. \A p \in Paths : ~Unrecorded(p)
  BY DEF Init, Unrecorded
<1> QED
  BY <1>1, <1>2 DEF RowsLast, CreationsNamed, UnrecordedSaid, Creating

\* What stays calm was calm: failing commands are the only trouble.
LEMMA StaysCalm ==
    ASSUME TypeOK, [Next]_vars, Calm'
    PROVE  /\ Calm
           /\ \A c \in Clients : ~Crash(c)
           /\ \A p \in Paths : ~GoneOutside(p) /\ ~RowGone(p)
           /\ faults' \in {faults, faults + 1}
<1>1. crashes = 0 /\ lostLogs = 0 /\ \A c \in Clients : ~Crash(c)
  BY StaysUnlogged DEF Calm
<1>2. outside \in Nat /\ faults \in Nat
  BY DEF TypeOK
<1>3. \A p \in Paths : ~GoneOutside(p) /\ ~RowGone(p)
  BY <1>2 DEF GoneOutside, RowGone, Calm
<1>4. ASSUME NEW c \in Clients, Run(c) PROVE outside' = outside /\ faults' \in {faults, faults + 1}
  BY <1>4 DEF Run, Begin, Prepare, CreateContainer, Snapshot, Insert, Cleanup, Check, Remove, Row, Log,
              Fault, counters
<1>5. ASSUME Tick \/ UNCHANGED vars PROVE outside' = outside /\ faults' = faults
  BY <1>5 DEF Tick, vars, counters
<1> QED
  BY <1>1, <1>3, <1>4, <1>5 DEF Next, Calm

\* A run comes to delete a row from a removal or from finding nothing to remove.
LEMMA RowArrives ==
    ASSUME TypeOK, NEW c \in Clients, Run(c), pc'[c] = "row"
    PROVE  /\ Check(c) \/ Remove(c)
           /\ job'[c].todo = job[c].todo
           /\ \E o \in job[c].todo : IsFirst(c, o) /\ disk'[o.path] = None
<1>1. Check(c) \/ Remove(c)
  BY DEF Run, Begin, Prepare, CreateContainer, Snapshot, Insert, Cleanup, Row, Log, Goto, TypeOK
<1>2. CASE Check(c)
  <2>1. PICK o \in job[c].todo :
          IsFirst(c, o) /\ Goto(c, IF disk[o.path] = None THEN "row" ELSE "remove")
    BY <1>2 DEF Check, Goto, TypeOK
  <2>2. disk[o.path] = None
    BY <2>1 DEF Goto, TypeOK
  <2> QED
    BY <1>2, <2>1, <2>2 DEF Check
<1>3. CASE Remove(c)
  <2>1. PICK o \in job[c].todo :
          /\ IsFirst(c, o)
          /\ \/ disk' = [disk EXCEPT ![o.path] = None] /\ job' = [job EXCEPT ![c].deleted = @ \cup {o.path}]
             \/ disk[o.path] = None /\ UNCHANGED <<disk, job>>
    BY <1>3 DEF Remove, Goto, TypeOK
  <2>2. o.path \in Paths
    BY JobFields DEF TypeOK, Candidates
  <2>3. job'[c].todo = job[c].todo
    BY <2>1 DEF TypeOK, Jobs
  <2>4. disk'[o.path] = None
    BY <2>1, <2>2 DEF TypeOK
  <2> QED
    BY <1>3, <2>1, <2>3, <2>4
<1> QED
  BY <1>1, <1>2, <1>3

\* Candidates keep times of their own, and a name that is used up brings nothing back
\* between the removal and the deletion of the row.
LEMMA StepLast ==
    ASSUME RunInv, [Next]_vars, Calm, Calm'
    PROVE  RowsLast'
<1>1. TypeOK /\ TypeOK' /\ StepOf /\ Sound /\ RowsLast /\ CreationsNamed
  BY StepTypes, StepFacts DEF RunInv, CalmInv, SaidInv, Sound, Calm
<1>2. now \in Nat /\ ever \subseteq 1..now - 1
  BY <1>1, ClockAssumption DEF TypeOK, Sound, RowsSound
<1>3. ASSUME NEW c \in Clients, NEW o \in job'[c].todo, NEW p \in Paths, rows'[p] = o.at
      PROVE  p = o.path
  <2>1. o \in Candidates /\ o.at # None /\ o.path \in Paths
    BY <1>1, JobFields DEF TypeOK, Candidates, Times, None
  <2>2. o.at < now /\ (rows[p] = o.at => p = o.path)
    <3>1. CASE o \in job[c].todo
      <4>1. o.at \in ever
        BY <1>1, <3>1 DEF Sound, CandidatesSound
      <4>2. o.at \in 1..now - 1
        BY <1>2, <4>1
      <4>3. \A t \in 1..now - 1 : t < now
        BY <1>2
      <4> QED
        BY <1>1, <3>1, <4>2, <4>3 DEF RowsLast
    <3>2. CASE o \in Select
      <4>1. rows[o.path] = o.at
        BY <3>2 DEF Select
      <4> QED
        BY <2>1, <4>1 DEF RunInv, RowsApart
    <3> QED
      BY <1>1, <3>1, <3>2 DEF StepOf
  <2>3. rows'[p] \in {rows[p], None, now}
    BY <1>1 DEF StepOf, TypeOK
  <2> QED
    BY <1>2, <1>3, <2>1, <2>2, <2>3
<1>4. ASSUME NEW c \in Clients, NEW o \in job'[c].todo, pc'[c] = "row", IsFirst(c, o)'
      PROVE  disk'[o.path] = None
  <2>1. CASE pc[c] = "row" /\ job'[c] = job[c]
    <3>1. disk[o.path] = None /\ UsedUp(o.path) /\ o.path \in Paths
      BY <1>1, <1>4, <2>1, JobFields DEF RowsLast, IsFirst, Sound, CandidatesSound, TypeOK, Candidates
    <3>2. ~Given(disk'[o.path], o.path)
      BY <1>2, <3>1 DEF Given, UsedUp
    <3> QED
      BY <1>1, <3>1, <3>2 DEF StepOf
  <2>2. CASE Run(c)
    <3>1. job'[c].todo = job[c].todo /\ (Check(c) \/ Remove(c))
      BY <1>1, <1>4, <2>2, RowArrives
    <3>2. PICK q \in job[c].todo : IsFirst(c, q) /\ disk'[q.path] = None
      BY <1>1, <1>4, <2>2, RowArrives
    <3>3. IsFirst(c, o)
      BY <1>4, <3>1 DEF IsFirst
    <3>4. o = q
      BY <1>1, <3>2, <3>3, FirstIsOne DEF RunInv, Tidy
    <3> QED
      BY <3>2, <3>4
  <2>3. ASSUME NEW d \in Clients \ {c}, Run(d) PROVE pc[c] = "row" /\ job'[c] = job[c]
    BY <1>1, <1>4, <2>3, OtherStays
  <2>4. CASE Tick \/ UNCHANGED vars
    BY <1>4, <2>1, <2>4 DEF Tick, vars
  <2> QED
    BY <1>1, <2>1, <2>2, <2>3, <2>4, StaysCalm DEF Next
<1> QED
  BY <1>3, <1>4 DEF RowsLast

\* A run at its snapshot names it, and comes to remove it by a failure.
LEMMA StepNamed ==
    ASSUME RunInv, [Next]_vars, Calm, Calm'
    PROVE  CreationsNamed'
<1>1. TypeOK /\ CreationsNamed /\ faults \in Nat /\ faults' \in {faults, faults + 1}
  BY StaysCalm DEF RunInv, SaidInv, TypeOK
<1> SUFFICES ASSUME NEW c \in Clients, Creating(c)'
             PROVE  job'[c].created = {job'[c].path} /\ (pc'[c] = "cleanup" => faults' > 0)
  BY DEF CreationsNamed
<1>2. CASE pc'[c] = pc[c] /\ job'[c] = job[c]
  BY <1>1, <1>2 DEF CreationsNamed, Creating
<1>3. CASE Snapshot(c)
  <2>1. /\ job' = [job EXCEPT ![c].path = Name[now], ![c].created = {Name[now]}]
        /\ pc'[c] = "insert"
    BY <1>1, <1>3 DEF Snapshot, Creating, Goto, TypeOK
  <2>2. job'[c].path = Name[now] /\ job'[c].created = {Name[now]}
    BY <1>1, <2>1 DEF TypeOK, Jobs
  <2> QED
    BY <2>1, <2>2
<1>4. CASE Insert(c)
  <2>1. UNCHANGED job /\ Creating(c) /\ faults' = faults + 1
    BY <1>1, <1>4 DEF Insert, Creating, Goto, TypeOK, Fault
  <2> QED
    BY <1>1, <2>1 DEF CreationsNamed
<1>5. ASSUME Run(c) PROVE Snapshot(c) \/ Insert(c)
  BY <1>1, <1>5 DEF Run, Begin, Prepare, CreateContainer, Cleanup, Check, Remove, Row, Log, Creating,
                    Goto, TypeOK
<1>6. CASE Tick \/ UNCHANGED vars
  BY <1>2, <1>6 DEF Tick, vars
<1>7. ASSUME NEW d \in Clients \ {c}, Run(d) PROVE pc'[c] = pc[c] /\ job'[c] = job[c]
  BY <1>1, <1>7, OtherStays
<1> QED
  BY <1>2, <1>3, <1>4, <1>5, <1>6, <1>7, StaysCalm, <1>1 DEF Next

\* A subvolume loses its row only after it is gone itself.
LEMMA RowOfNone ==
    ASSUME RunInv, Calm, NEW c \in Clients, Row(c), NEW p \in Paths, rows[p] # None, rows'[p] = None
    PROVE  disk[p] = None
<1>1. RowsLast /\ TypeOK
  BY DEF RunInv, SaidInv
<1>2. PICK o \in job[c].todo :
        /\ IsFirst(c, o)
        /\ \/ rows' = [q \in Paths |-> IF rows[q] = o.at THEN None ELSE rows[q]]
           \/ UNCHANGED rows
  BY DEF Row
<1>3. rows[p] = o.at
  BY <1>2
<1> QED
  BY <1>1, <1>2, <1>3 DEF RowsLast, Row

\* Only a snapshot puts a subvolume on disk, and only the deletion of its row leaves
\* one without.
LEMMA NewUnrecorded ==
    ASSUME RunInv, [Next]_vars, Calm, Calm', NEW p \in Paths, ~Unrecorded(p), Unrecorded(p)'
    PROVE  \E c \in Clients : Creating(c)' /\ job'[c].path = p
<1>1. TypeOK /\ TypeOK'
  BY StepTypes DEF RunInv
<1>2. ASSUME NEW c \in Clients, Snapshot(c) PROVE Creating(c)' /\ job'[c].path = p
  <2>1. /\ disk' = [disk EXCEPT ![Name[now]] = now] /\ UNCHANGED rows
        /\ job' = [job EXCEPT ![c].path = Name[now], ![c].created = {Name[now]}]
        /\ Goto(c, "insert")
    BY <1>2 DEF Snapshot, Unrecorded
  <2>2. p = Name[now]
    BY <1>1, <2>1 DEF Unrecorded, TypeOK
  <2>3. job'[c].path = Name[now] /\ pc'[c] = "insert"
    BY <1>1, <2>1 DEF TypeOK, Jobs, Goto
  <2> QED
    BY <2>2, <2>3 DEF Creating
<1>3. ASSUME NEW c \in Clients, Row(c) PROVE FALSE
  <2>1. UNCHANGED disk
    BY <1>3 DEF Row
  <2> QED
    BY <1>3, <2>1, RowOfNone DEF Unrecorded
<1>4. ASSUME NEW c \in Clients, Insert(c) PROVE FALSE
  <2>1. UNCHANGED disk /\ now # None
    BY <1>1, <1>4, ClockAssumption DEF Insert, TypeOK, None
  <2> QED
    BY <1>1, <1>4, <2>1 DEF Insert, Unrecorded, TypeOK
<1>5. ASSUME NEW c \in Clients, Cleanup(c) \/ Remove(c) PROVE FALSE
  <2>1. UNCHANGED rows /\ \A q \in Paths : disk'[q] \in {disk[q], None}
    BY <1>1, <1>5 DEF Cleanup, Remove, TypeOK
  <2> QED
    BY <2>1 DEF Unrecorded
<1>6. ASSUME NEW c \in Clients, Begin(c) \/ Prepare(c) \/ CreateContainer(c) \/ Check(c) \/ Log(c)
      PROVE  FALSE
  BY <1>6 DEF Begin, Prepare, CreateContainer, Check, Log, Unrecorded
<1>7. CASE Tick \/ UNCHANGED vars
  BY <1>7 DEF Tick, vars, Unrecorded
<1> QED
  BY <1>1, <1>2, <1>3, <1>4, <1>5, <1>6, <1>7, StaysCalm DEF Next, Run

\* A run takes its hands off its snapshot when it is recorded, when it is gone, or
\* after the second failure and with the log still to write; the log names it then.
LEMMA OldUnrecorded ==
    ASSUME RunInv, [Next]_vars, Calm, Calm', NEW p \in Paths, Unrecorded(p), Unrecorded(p)'
    PROVE  \/ \E c \in Clients : Creating(c)' /\ job'[c].path = p
           \/ /\ faults' > 1
              /\ p \in announced' \/ \E c \in Clients : pc'[c] = "log" /\ p \in job'[c].created
<1>1. /\ TypeOK /\ CreationsNamed /\ UnrecordedSaid /\ faults \in Nat
      /\ faults' \in {faults, faults + 1}
  BY StaysCalm DEF RunInv, SaidInv, TypeOK
<1>2. announced \subseteq announced'
  <2>1. ASSUME NEW c \in Clients, Run(c) PROVE announced \subseteq announced'
    BY <2>1 DEF Run, Begin, Prepare, CreateContainer, Snapshot, Insert, Cleanup, Check, Remove, Row, Log,
                reports
  <2>2. CASE Tick \/ UNCHANGED vars
    BY <2>2 DEF Tick, vars, reports
  <2> QED
    BY <2>1, <2>2, StaysCalm, <1>1 DEF Next
<1>3. CASE faults > 1 /\ p \in announced
  BY <1>1, <1>2, <1>3
<1>4. ASSUME faults > 1, NEW c \in Clients, pc[c] = "log", p \in job[c].created
      PROVE  faults' > 1 /\ (p \in announced' \/ (pc'[c] = "log" /\ p \in job'[c].created))
  <2>1. faults' > 1
    BY <1>1, <1>4
  <2>2. CASE Log(c)
    <3>1. announced' = announced \cup job[c].created
      BY <1>1, <2>2 DEF Log, Calm, TypeOK
    <3> QED
      BY <1>4, <2>1, <3>1
  <2>3. ASSUME Run(c) PROVE Log(c)
    BY <1>4, <2>3 DEF Run, Begin, Prepare, CreateContainer, Snapshot, Insert, Cleanup, Check, Remove, Row
  <2>4. ASSUME NEW d \in Clients \ {c}, Run(d) PROVE pc'[c] = pc[c] /\ job'[c] = job[c]
    BY <1>1, <2>4, OtherStays
  <2>5. CASE Tick \/ UNCHANGED vars
    BY <1>4, <2>1, <2>5 DEF Tick, vars
  <2> QED
    BY <1>1, <1>4, <2>1, <2>2, <2>3, <2>4, <2>5, StaysCalm DEF Next
<1>5. ASSUME NEW c \in Clients, Creating(c), job[c].path = p
      PROVE  \/ Creating(c)' /\ job'[c].path = p
             \/ faults' > 1 /\ pc'[c] = "log" /\ p \in job'[c].created
  <2>1. CASE pc'[c] = pc[c] /\ job'[c] = job[c]
    BY <1>5, <2>1 DEF Creating
  <2>2. CASE Insert(c)
    <3>1. CASE Fault /\ Goto(c, "cleanup")
      BY <1>1, <1>5, <2>2, <3>1 DEF Insert, Goto, Creating, TypeOK
    <3>2. CASE rows' = [rows EXCEPT ![job[c].path] = now]
      BY <1>1, <1>5, <3>2, ClockAssumption DEF Unrecorded, TypeOK, None
    <3> QED
      BY <2>2, <3>1, <3>2 DEF Insert
  <2>3. CASE Cleanup(c)
    <3>1. CASE disk' = [disk EXCEPT ![job[c].path] = None]
      BY <1>1, <1>5, <3>1 DEF Unrecorded, TypeOK
    <3>2. CASE disk[job[c].path] = None
      BY <1>5, <3>2 DEF Unrecorded
    <3>3. CASE Fault /\ UNCHANGED <<disk, job>>
      <4>1. faults > 0 /\ p \in job[c].created
        BY <1>1, <1>5, <2>3 DEF CreationsNamed, Cleanup
      <4>2. faults' = faults + 1 /\ pc'[c] = "log"
        BY <1>1, <2>3, <3>3 DEF Fault, Cleanup, Goto, TypeOK
      <4> QED
        BY <1>1, <3>3, <4>1, <4>2
    <3> QED
      BY <2>3, <3>1, <3>2, <3>3 DEF Cleanup
  <2>4. ASSUME Run(c) PROVE Insert(c) \/ Cleanup(c)
    BY <1>5, <2>4 DEF Run, Begin, Prepare, CreateContainer, Snapshot, Check, Remove, Row, Log, Creating
  <2>5. ASSUME NEW d \in Clients \ {c}, Run(d) PROVE pc'[c] = pc[c] /\ job'[c] = job[c]
    BY <1>1, <2>5, OtherStays
  <2>6. CASE Tick \/ UNCHANGED vars
    BY <2>1, <2>6 DEF Tick, vars
  <2> QED
    BY <1>1, <2>1, <2>2, <2>3, <2>4, <2>5, <2>6, StaysCalm DEF Next
<1> QED
  BY <1>1, <1>3, <1>4, <1>5 DEF UnrecordedSaid

\* Every step keeps the invariant.
LEMMA StepSaid == ASSUME NamesUsedUp PROVE RunInv /\ [Next]_vars => RunInv'
<1> SUFFICES ASSUME RunInv, [Next]_vars PROVE RunInv'
  OBVIOUS
<1>1. TypeOK' /\ CalmInv' /\ RowsApart' /\ \A c \in Clients : Tidy(c)'
  BY StepTypes, StepSound, StepApart, StepTidy DEF RunInv
<1>2. ASSUME Calm' PROVE RowsLast' /\ CreationsNamed' /\ UnrecordedSaid'
  <2>1. Calm
    BY <1>2, StaysCalm DEF RunInv
  <2>2. RowsLast' /\ CreationsNamed'
    BY <1>2, <2>1, StepLast, StepNamed
  <2>3. UnrecordedSaid'
    BY <1>2, <2>1, NewUnrecorded, OldUnrecorded DEF UnrecordedSaid
  <2> QED
    BY <2>2, <2>3
<1> QED
  BY <1>1, <1>2 DEF RunInv, SaidInv

\* However runs overlap, and whichever commands and statements fail: one failure
\* leaves no subvolume without a row, and what several failures leave stands in a
\* log, unless a process dies, a log is lost or others remove snapshots
\* (retention.rs:160-176).
THEOREM NothingIsUnsaid == ASSUME NamesUsedUp PROVE Spec => []NothingLeftUnsaid
<1>1. Init => RunInv
  BY InitTypes, InitSound, InitTidy, InitSaid DEF RunInv
<1>2. RunInv /\ [Next]_vars => RunInv'
  BY StepSaid
<1>3. RunInv => NothingLeftUnsaid
  BY DEF RunInv, SaidInv, Calm, UnrecordedSaid, Unrecorded, Creating, NothingLeftUnsaid, Quiet
<1> QED
  BY <1>1, <1>2, <1>3, PTL DEF Spec
=============================================================================
