--------------------------- MODULE RollbackProofs ---------------------------
(***************************************************************************)
(* Theorems about Rollback, for any number of clients, paths, plans,       *)
(* reboots, faults and crashes.                                            *)
(***************************************************************************)
EXTENDS Rollback, TLAPS

USE DEF NoSubvol, FirstRoot

-----------------------------------------------------------------------------
(* Type correctness, of the unrestricted specification. *)

\* The initial state is well typed.
LEMMA InitTypeOK == Init => TypeOK
  BY BoundsAssumption DEF Init, TypeOK, RootPaths, Plans, PlanStatus, Steps

\* Every step of a request under way keeps the types.
LEMMA ContinueTypeOK ==
    ASSUME NEW c \in Clients, TypeOK, Continue(c)
    PROVE  TypeOK'
<1> USE DEF Continue, StageRename, StageSnapshot, StageAnchor,
     StagePlanRow, StagePlanFile, RecoverDelete, RecoverRename, CommitDb,
     CommitFile, RevertOut, RevertIn, RevertUndo, RevertDb, RevertFile
<1>1. /\ job[c] \in Plans
      /\ P(c).replaced \in RootPaths /\ P(c).ret \in RootPaths
      /\ discard[c] \in RootPaths
  BY DEF TypeOK, P
<1>2. faults' \in 0..MaxFaults
  BY BoundsAssumption DEF TypeOK, SetFileStatus, Fault, NoFault, FaultOr
<1>3. pc' \in [Clients -> Steps]
  <2>1. pc' = [pc EXCEPT ![c] = pc'[c]]
    BY DEF TypeOK, Goto
  <2>2. pc'[c] \in Steps
    BY DEF TypeOK, Goto, Steps
  <2>3. QED
    BY <2>1, <2>2 DEF TypeOK
<1>4. fs' \in [RootPaths -> Nat]
  <2>1. ASSUME NEW q \in RootPaths, NEW t \in RootPaths, Rename(q, t)
        PROVE  fs' \in [RootPaths -> Nat]
    BY <2>1 DEF Rename, TypeOK
  <2>2. \/ UNCHANGED fs
        \/ Rename(P(c).replaced, P(c).ret) \/ Rename(P(c).ret, P(c).replaced)
        \/ Rename(P(c).replaced, discard[c]) \/ Rename(discard[c], P(c).replaced)
        \/ fs' = [fs EXCEPT ![P(c).replaced] = fresh]
        \/ fs' = [fs EXCEPT ![P(c).replaced] = NoSubvol]
    BY DEF disk
  <2>3. QED
    BY <1>1, <2>1, <2>2 DEF TypeOK
<1>5. fresh' \in Nat /\ snaps' \subseteq Snaps
  BY DEF TypeOK, disk
<1>6. dbAnchors' \subseteq RootPaths
  BY <1>1 DEF TypeOK, state
<1>7. dbPlan' \in [Plans -> PlanStatus \cup {"none"}]
  BY <1>1 DEF TypeOK, SetRowStatus, PlanStatus, state
<1>8. file' \in [Plans -> PlanStatus \cup {"none", "invalid"}]
  BY <1>1 DEF TypeOK, SetFileStatus, PlanStatus, state
<1>9. orig' \in [Plans -> Nat] /\ made' \in [Plans -> Nat] /\ staged' \subseteq Plans
  BY <1>1 DEF TypeOK, history
<1>10. UNCHANGED <<machine, plans, job, discard, crashes>>
  OBVIOUS
<1>11. QED
  BY <1>2, <1>3, <1>4, <1>5, <1>6, <1>7, <1>8, <1>9, <1>10 
  DEF TypeOK, machine, plans

\* So does a request that begins.
LEMMA BeginTypeOK ==
    ASSUME NEW c \in Clients, TypeOK, Stage(c) \/ Answer(c)
    PROVE  TypeOK'
<1>1. "rename" \in Steps /\ "commit_db" \in Steps /\ "revert_out" \in Steps
  BY DEF Steps
<1>2. CASE Stage(c)
  <2>1. PICK s \in Returns \cup Discards \cup Snaps, r \in Returns : StageBegin(c, s, r)
    BY <1>2 DEF Stage
  <2>2. s \in RootPaths \cup Snaps /\ r \in RootPaths
    BY DEF RootPaths
  <2>3. nplan + 1 \in Plans /\ nplan + 1 \in 0..MaxPlans
    BY <2>1, BoundsAssumption DEF StageBegin, TypeOK, Plans
  <2>4. plan' \in [Plans -> [source : RootPaths \cup Snaps, replaced : RootPaths,
                             ret : RootPaths, created_boot : Nat]]
    BY <2>1, <2>2, <2>3 DEF StageBegin, TypeOK
  <2>5. QED
    BY <1>1, <2>1, <2>3, <2>4
    DEF StageBegin, Goto, TypeOK, disk, machine, state, history
<1>3. CASE Answer(c)
  <2>1. \A d \in Discards : d \in RootPaths
    BY DEF RootPaths
  <2>2. ASSUME NEW p \in Plans, CommitBegin(c, p)
        PROVE  TypeOK'
    BY <1>1, <2>2 DEF CommitBegin, Goto, TypeOK, disk, machine, state, plans, history
  <2>3. ASSUME NEW p \in Plans, NEW d \in Discards, RevertBegin(c, p, d)
        PROVE  TypeOK'
    BY <1>1, <2>1, <2>3
    DEF RevertBegin, Goto, TypeOK, disk, machine, state, plans, history
  <2>4. QED
    BY <1>3, <2>2, <2>3 DEF Answer
<1>4. QED
  BY <1>2, <1>3

\* So does whatever happens around the requests.
LEMMA EnvironmentTypeOK ==
    ASSUME TypeOK, Environment
    PROVE  TypeOK'
<1>1. ASSUME NEW dying \in SUBSET Clients, TearFiles(dying)
      PROVE  file' \in [Plans -> PlanStatus \cup {"none", "invalid"}]
  BY <1>1 DEF TearFiles, TypeOK
<1>2. "idle" \in Steps
  BY DEF Steps
<1>3. CASE \E s \in Snaps : RemoveSource(s)
  BY <1>3 DEF RemoveSource, TypeOK, machine, state, plans, requests, history
<1>4. CASE \E c \in Clients : Crash(c)
  BY <1>1, <1>2, <1>4, BoundsAssumption
  DEF Crash, Goto, TypeOK, disk, machine, plans, history
<1>5. CASE Reboot
  <2>1. fs[Root] \in Nat
    BY DEF TypeOK, RootPaths
  <2>2. crashes' \in 0..MaxCrashes
    BY <1>5, BoundsAssumption DEF Reboot, TypeOK
  <2>3. file' \in [Plans -> PlanStatus \cup {"none", "invalid"}]
    BY <1>1, <1>5 DEF Reboot
  <2>4. running' \in Nat /\ boot' \in Nat
    BY <1>5, <2>1 DEF Reboot, TypeOK
  <2>5. booted' = booted \cup ({fs[Root]} \ {NoSubvol})
    BY <1>5 DEF Reboot
  <2>6. booted' \subseteq Nat
    BY <2>1, <2>5 DEF TypeOK
  <2>7. pc' \in [Clients -> Steps]
    BY <1>2, <1>5 DEF Reboot
  <2>8. UNCHANGED <<disk, dbAnchors, dbPlan, plans, job, discard, faults, history>>
    BY <1>5 DEF Reboot
  <2>9. QED
    BY <2>2, <2>3, <2>4, <2>6, <2>7, <2>8 DEF TypeOK, disk, plans, history
<1>6. QED
  BY <1>3, <1>4, <1>5 DEF Environment

\* A step that changes nothing keeps the types.
LEMMA StutterTypeOK == TypeOK /\ UNCHANGED vars => TypeOK'
  BY DEF TypeOK, vars, disk, machine, state, plans, requests, history

\* Every state of every behaviour is well typed, however requests interleave
\* and whatever fails: in particular a plan file or a row only ever holds one of
\* the statuses the readers know.
THEOREM TypeCorrect == Spec => []TypeOK
<1>1. TypeOK /\ [Next]_vars => TypeOK'
  BY ContinueTypeOK, BeginTypeOK, EnvironmentTypeOK, StutterTypeOK DEF Next
<1>2. QED
  BY InitTypeOK, <1>1, PTL DEF Spec

-----------------------------------------------------------------------------
(* One request at a time: no root is lost. *)

\* A rename moves one root from a path to another, or nothing at all.
LEMMA RenameEffect ==
    ASSUME fs \in [RootPaths -> Nat], NEW q \in RootPaths, NEW t \in RootPaths,
           CanRename(q, t), Rename(q, t)
    PROVE  /\ fs[q] # NoSubvol
           /\ \/ q = t /\ fs' = fs
              \/ /\ q # t /\ fs[t] = NoSubvol
                 /\ fs'[t] = fs[q] /\ fs'[q] = NoSubvol
                 /\ \A u \in RootPaths : u # q /\ u # t => fs'[u] = fs[u]
<1>1. fs[q] # NoSubvol /\ (fs[t] = NoSubvol \/ t = q)
  BY DEF CanRename
<1>2. fs' = [fs EXCEPT ![q] = NoSubvol, ![t] = fs[q]]
  BY DEF Rename
<1>3. CASE q = t
  <2>1. \A u \in RootPaths : fs'[u] = fs[u]
    BY <1>2, <1>3
  <2>2. fs' = fs
    BY <1>2, <2>1
  <2>3. QED
    BY <1>1, <1>3, <2>2
<1>4. CASE q # t
  BY <1>1, <1>2, <1>4
<1>5. QED
  BY <1>3, <1>4

\* What a plan's rename moved is recorded once.
LEMMA OriginalRecordedOnce ==
    ASSUME NEW c \in Clients, TypeOK, RecoverySafe, Continue(c)
    PROVE  /\ orig' \in [Plans -> Nat]
           /\ \A p \in Plans :
                orig'[p] = orig[p] \/ (pc[c] = "rename" /\ p = job[c] /\ orig[p] = NoSubvol)
<1>1. orig \in [Plans -> Nat] /\ job[c] \in Plans /\ fs \in [RootPaths -> Nat]
      /\ P(c).replaced \in RootPaths
  BY DEF TypeOK, P
<1>2. CASE StageRename(c)
  <2>1. pc[c] = "rename" /\ orig[job[c]] = NoSubvol
    BY <1>2 DEF RecoverySafe, StageRename
  <2>2. orig' = orig \/ orig' = [orig EXCEPT ![job[c]] = fs[P(c).replaced]]
    BY <1>2 DEF StageRename
  <2>3. QED
    BY <1>1, <2>1, <2>2
<1>3. CASE ~StageRename(c)
  <2>1. UNCHANGED orig
    BY <1>3 DEF Continue, StageRename, StageSnapshot, StageAnchor, StagePlanRow,
       StagePlanFile, RecoverDelete, RecoverRename, CommitDb, CommitFile, RevertOut,
       RevertIn, RevertUndo, RevertDb, RevertFile, history
  <2>2. QED
    BY <1>1, <2>1
<1>4. QED
  BY <1>2, <1>3

\* What a step of a request does to the namespace.
LEMMA NamespaceStep ==
    ASSUME NEW c \in Clients, TypeOK, RecoverySafe, Identities, Continue(c)
    PROVE  /\ UNCHANGED <<machine, plans, job>>
           /\ \/ UNCHANGED <<fs, fresh>>
              \/ /\ \E q, t \in RootPaths : CanRename(q, t) /\ Rename(q, t)
                 /\ UNCHANGED fresh
              \/ /\ \E q \in RootPaths : fs[q] = NoSubvol /\ fs' = [fs EXCEPT ![q] = fresh]
                 /\ fresh' = fresh + 1
              \/ /\ \E q \in RootPaths :
                      /\ \/ fs[q] \notin booted
                         \/ /\ RecoversOntoItself
                            /\ \E p \in 1..nplan : ~Away(p) /\ orig[p] = fs[q]
                      /\ fs' = [fs EXCEPT ![q] = NoSubvol]
                 /\ UNCHANGED fresh
<1> USE DEF Continue, StageRename, StageSnapshot, StageAnchor,
     StagePlanRow, StagePlanFile, RecoverDelete, RecoverRename, CommitDb,
     CommitFile, RevertOut, RevertIn, RevertUndo, RevertDb, RevertFile
<1>1. /\ P(c).replaced \in RootPaths /\ P(c).ret \in RootPaths
      /\ discard[c] \in RootPaths
  BY DEF TypeOK, P
<1>2. UNCHANGED <<machine, plans, job>>
  OBVIOUS
<1>3. CASE RecoverDelete(c)
  <2>1. CASE UNCHANGED <<fs, fresh>>
    BY <1>2, <2>1
  <2>2. CASE fs' = [fs EXCEPT ![P(c).replaced] = NoSubvol]
    <3>1. pc[c] = "recover_delete" /\ UNCHANGED fresh
      BY <1>3
    <3>2. job[c] \in 1..nplan
      BY <3>1 DEF RecoverySafe, StageSteps
    <3>3. \/ fs[P(c).replaced] \notin booted
          \/ RecoversOntoItself /\ \E p \in 1..nplan : ~Away(p) /\ orig[p] = fs[P(c).replaced]
      BY <3>1, <3>2 DEF RecoverySafe, RecoversOntoItself
    <3>4. QED
      BY <1>1, <1>2, <2>2, <3>1, <3>3
  <2>3. QED
    BY <1>3, <2>1, <2>2
<1>4. CASE StageSnapshot(c)
  <2>1. CASE UNCHANGED <<fs, fresh>>
    BY <1>2, <2>1
  <2>2. CASE fs[P(c).replaced] = NoSubvol /\ fs' = [fs EXCEPT ![P(c).replaced] = fresh]
             /\ fresh' = fresh + 1
    BY <1>1, <1>2, <2>2
  <2>3. QED
    BY <1>4, <2>1, <2>2
<1>5. CASE StageRename(c) \/ RevertOut(c) \/ RevertIn(c) \/ RevertUndo(c) \/ RecoverRename(c)
  BY <1>1, <1>2, <1>5
<1>6. CASE StageAnchor(c) \/ StagePlanRow(c) \/ StagePlanFile(c) \/ CommitDb(c)
           \/ CommitFile(c) \/ RevertDb(c) \/ RevertFile(c)
  BY <1>2, <1>6 DEF disk
<1>7. QED
  BY <1>3, <1>4, <1>5, <1>6

\* Each such change keeps identities unique and every booted root in place.
LEMMA NamespaceStepSafe ==
    ASSUME NEW c \in Clients, TypeOK, RootInv, Continue(c)
    PROVE  Identities' /\ NoRootLost'
<1> USE DEF RootInv
<1>1. fs \in [RootPaths -> Nat] /\ fresh \in Nat
  BY DEF TypeOK
<1>2. booted' = booted /\ (\A v \in booted : v # NoSubvol)
  BY NamespaceStep DEF machine, Identities
<1> DEFINE Excused(v) == \E p \in 1..nplan : ~Away(p) /\ orig[p] = v
<1>e. \A v \in booted : Excused(v) => Excused(v)'
  <2>1. nplan' = nplan /\ plan' = plan
    BY NamespaceStep DEF plans
  <2>2. \A p \in Plans : orig[p] # NoSubvol => orig'[p] = orig[p]
    BY OriginalRecordedOnce
  <2>3. \A p \in 1..nplan : p \in Plans
    <3>1. nplan \in 0..MaxPlans
      BY DEF TypeOK
    <3>2. QED
      BY <3>1, BoundsAssumption DEF Plans
  <2>4. QED
    BY <1>2, <2>1, <2>2, <2>3 DEF Away
<1>k. NoRootLost' <=> \A v \in booted : (\E q \in RootPaths : fs'[q] = v) \/ Excused(v)'
  BY <1>2 DEF NoRootLost
<1>l. \A v \in booted : (\E q \in RootPaths : fs[q] = v) \/ Excused(v)
  BY DEF NoRootLost
<1> HIDE DEF Excused
<1>3. CASE UNCHANGED <<fs, fresh>>
  BY <1>2, <1>3, <1>e, <1>k, <1>l DEF Identities
<1>4. ASSUME NEW q \in RootPaths, NEW t \in RootPaths, CanRename(q, t), Rename(q, t),
             UNCHANGED fresh
      PROVE  Identities' /\ NoRootLost'
  <2>1. \/ UNCHANGED <<fs, fresh>>
        \/ /\ q # t /\ fs[t] = NoSubvol
           /\ fs'[t] = fs[q] /\ fs'[q] = NoSubvol
           /\ \A u \in RootPaths : u # q /\ u # t => fs'[u] = fs[u]
    BY <1>1, <1>4, RenameEffect
  <2>2. SUFFICES ASSUME q # t, fs[t] = NoSubvol, fs'[t] = fs[q], fs'[q] = NoSubvol,
                        \A u \in RootPaths : u # q /\ u # t => fs'[u] = fs[u]
                 PROVE  Identities' /\ NoRootLost'
    BY <1>3, <2>1
  <2>3. Identities'
    BY <1>1, <1>2, <1>4, <2>2 DEF Identities
  <2>4. ASSUME NEW v \in booted, ~Excused(v)
        PROVE  \E u \in RootPaths : fs'[u] = v
    <3>1. PICK u \in RootPaths : fs[u] = v
      BY <2>4, <1>l
    <3>2. u # t
      BY <1>2, <2>2, <3>1
    <3>3. QED
      BY <2>2, <3>1, <3>2
  <2>5. QED
    BY <1>e, <1>k, <2>3, <2>4
<1>5. ASSUME NEW q \in RootPaths, fs[q] \notin booted \/ Excused(fs[q]),
             \/ fs' = [fs EXCEPT ![q] = NoSubvol] /\ UNCHANGED fresh
             \/ fs' = [fs EXCEPT ![q] = fresh] /\ fresh' = fresh + 1
      PROVE  Identities' /\ NoRootLost'
  <2>1. /\ \/ fs'[q] = NoSubvol /\ fresh' = fresh
           \/ fs'[q] = fresh /\ fresh' = fresh + 1
        /\ \A u \in RootPaths : u # q => fs'[u] = fs[u]
    BY <1>1, <1>5
  <2>2. Identities'
    <3>1. \A u \in RootPaths : fs[u] < fresh /\ fs[u] \in Nat
      BY <1>1 DEF Identities
    <3>2. \A u, t \in RootPaths : fs'[u] = fs'[t] /\ fs'[u] # NoSubvol => u = t
      BY <1>1, <2>1, <3>1 DEF Identities
    <3>3. \A u \in RootPaths : fs'[u] < fresh'
      BY <1>1, <2>1, <3>1 DEF Identities
    <3>4. fresh' > NoSubvol /\ \A v \in booted' : v # NoSubvol /\ v < fresh'
      BY <1>1, <1>2, <2>1 DEF Identities, TypeOK
    <3>5. QED
      BY <3>2, <3>3, <3>4 DEF Identities
  <2>3. ASSUME NEW v \in booted, ~Excused(v)
        PROVE  \E u \in RootPaths : fs'[u] = v
    <3>1. PICK u \in RootPaths : fs[u] = v
      BY <2>3, <1>l
    <3>2. u # q
      BY <1>5, <2>3, <3>1
    <3>3. QED
      BY <2>1, <3>1, <3>2
  <2>4. QED
    BY <1>e, <1>k, <2>2, <2>3
<1>6. CASE \E q \in RootPaths : fs[q] = NoSubvol /\ fs' = [fs EXCEPT ![q] = fresh] /\ fresh' = fresh + 1
  BY <1>2, <1>5, <1>6
<1>7. QED
  BY <1>3, <1>4, <1>5, <1>6, NamespaceStep DEF Excused

\* Only the client that works can be told to recover, and it is safe to.
LEMMA ContinueRootInv ==
    ASSUME NEW c \in Clients, TypeOK, RootInv, Continue(c)
    PROVE  RootInv'
<1> USE DEF Continue, StageRename, StageSnapshot, StageAnchor,
     StagePlanRow, StagePlanFile, RecoverDelete, RecoverRename, CommitDb,
     CommitFile, RevertOut, RevertIn, RevertUndo, RevertDb, RevertFile
<1>1. pc[c] # "idle" /\ pc' = [pc EXCEPT ![c] = pc'[c]]
  BY DEF Goto, TypeOK
<1>2. \A d \in Clients : d # c => pc[d] = "idle" /\ pc'[d] = "idle"
  BY <1>1 DEF RootInv, OneRequest, TypeOK
<1>3. OneRequest'
  BY <1>2 DEF OneRequest
<1>4. RecoverySafe'
  <2>1. P(c)' = P(c) /\ P(c).replaced \in RootPaths /\ P(c).ret \in RootPaths
        /\ job' = job /\ nplan' = nplan
    BY DEF P, plans, TypeOK
  <2>2. booted' = booted /\ pc'[c] # "rename" /\ (pc'[c] \in StageSteps => pc[c] \in StageSteps)
    BY <1>1 DEF machine, Goto, TypeOK, StageSteps
  <2>o. \A p \in Plans : p > nplan => orig'[p] = NoSubvol
    <3>1. \A p \in Plans : p > nplan => orig[p] = NoSubvol /\ (pc[c] = "rename" => p # job[c])
      <4>1. nplan \in Nat
        BY DEF TypeOK
      <4>2. pc[c] = "rename" => job[c] \in 1..nplan
        BY DEF RootInv, RecoverySafe, StageSteps
      <4>3. QED
        BY <4>1, <4>2 DEF RootInv, RecoverySafe, Plans
    <3>2. QED
      BY <3>1, OriginalRecordedOnce DEF RootInv
  <2> DEFINE Onto == {"snapshot", "anchor", "plan_row", "plan_file", "recover_delete"}
  <2>n. ASSUME ~Away(job[c]), pc'[c] \in Onto
        PROVE  fs'[P(c).replaced] = orig'[job[c]] /\ orig'[job[c]] # NoSubvol
    <3>1. P(c).ret = P(c).replaced /\ fs \in [RootPaths -> Nat] /\ orig \in [Plans -> Nat]
          /\ job[c] \in Plans
      BY <2>n DEF Away, P, TypeOK
    <3>2. CASE StageRename(c)
      <4>1. /\ CanRename(P(c).replaced, P(c).ret) /\ Rename(P(c).replaced, P(c).ret)
            /\ orig' = [orig EXCEPT ![job[c]] = fs[P(c).replaced]]
        BY <2>n, <3>2 DEF Goto, TypeOK
      <4>2. fs[P(c).replaced] # NoSubvol /\ fs' = fs
        BY <2>1, <3>1, <4>1, RenameEffect
      <4>3. QED
        BY <3>1, <4>1, <4>2
    <3>3. CASE StageSnapshot(c) \/ StageAnchor(c) \/ StagePlanRow(c) \/ StagePlanFile(c)
      <4>1. pc[c] \in Onto
        BY <3>3
      <4>2. fs[P(c).replaced] = orig[job[c]] /\ orig[job[c]] # NoSubvol
        BY <2>n, <4>1 DEF RootInv, RecoverySafe
      <4>3. fs' = fs /\ orig' = orig
        BY <3>3, <4>2 DEF disk, history
      <4>4. QED
        BY <4>2, <4>3
    <3>4. CASE ~(StageRename(c) \/ StageSnapshot(c) \/ StageAnchor(c)
                 \/ StagePlanRow(c) \/ StagePlanFile(c))
      BY <2>n, <3>4 DEF TypeOK, Goto
    <3>5. QED
      BY <3>2, <3>3, <3>4
  <2>3. SUFFICES ASSUME Away(job[c])
                 PROVE  /\ pc'[c] = "snapshot" => fs'[P(c).replaced] = NoSubvol
                        /\ pc'[c] \in {"anchor", "plan_row", "plan_file", "recover_delete"}
                               => fs'[P(c).replaced] \notin booted
    <3>1. Away(job[c])' = Away(job[c])
      BY <2>1 DEF P, Away
    <3>2. QED
      BY <1>2, <2>1, <2>2, <2>o, <2>n, <3>1 DEF RootInv, RecoverySafe, StageSteps
  <2>4. CASE StageRename(c)
    <3>1. CASE pc'[c] = "idle"
      BY <3>1
    <3>2. CASE CanRename(P(c).replaced, P(c).ret) /\ Rename(P(c).replaced, P(c).ret)
               /\ Goto(c, "snapshot")
      BY <2>1, <2>3, <3>2, RenameEffect DEF TypeOK, Goto, Away, P
    <3>3. QED
      BY <2>4, <3>1, <3>2 DEF Goto, TypeOK
  <2>5. CASE StageSnapshot(c)
    BY <2>1, <2>3, <2>5 DEF TypeOK, Goto, RootInv, RecoverySafe, Identities
  <2>6. CASE StageAnchor(c) \/ StagePlanRow(c) \/ StagePlanFile(c)
    BY <2>1, <2>3, <2>6 DEF TypeOK, Goto, RootInv, RecoverySafe, disk
  <2>7. CASE ~(StageRename(c) \/ StageSnapshot(c) \/ StageAnchor(c)
               \/ StagePlanRow(c) \/ StagePlanFile(c))
    BY <2>7 DEF TypeOK, Goto
  <2>8. QED
    BY <2>4, <2>5, <2>6, <2>7
<1>5. QED
  BY <1>3, <1>4, NamespaceStepSafe DEF RootInv

\* A request that begins touches no path and holds no duty to recover yet.
LEMMA BeginRootInv ==
    ASSUME NEW c \in Clients, TypeOK, RootInv, Quiet, Stage(c) \/ Answer(c)
    PROVE  RootInv'
<1>1. /\ UNCHANGED <<fs, fresh, booted, orig>>
      /\ pc' \in {[pc EXCEPT ![c] = step] : step \in {"rename", "commit_db", "revert_out"}}
  BY DEF Stage, Answer, StageBegin, CommitBegin, RevertBegin, Goto, disk, machine, history
<1>2. \A d \in Clients : pc'[d] \in {"idle", "rename", "commit_db", "revert_out"}
  BY <1>1 DEF Quiet, TypeOK
<1>3. \A d \in Clients : d # c => pc'[d] = "idle"
  BY <1>1 DEF Quiet, TypeOK
<1>4. /\ nplan \in Nat /\ nplan' \in {nplan, nplan + 1}
      /\ pc'[c] = "rename" => job'[c] \in 1..nplan'
      /\ pc'[c] = "rename" => job'[c] \in Plans /\ job'[c] > nplan
      /\ \A p \in 1..nplan : plan'[p] = plan[p] /\ p \in Plans
  <2>1. /\ nplan \in 0..MaxPlans /\ plan \in [Plans -> [source : RootPaths \cup Snaps,
               replaced : RootPaths, ret : RootPaths, created_boot : Nat]]
        /\ job \in [Clients -> Plans] /\ MaxPlans \in Nat /\ Plans = 1..MaxPlans
        /\ pc \in [Clients -> Steps]
    BY BoundsAssumption DEF TypeOK, Plans
  <2>2. CASE Stage(c)
    BY <2>1, <2>2 DEF Stage, StageBegin, Goto
  <2>3. CASE Answer(c)
    <3>1. UNCHANGED <<plan, nplan>> /\ pc'[c] # "rename"
      BY <2>1, <2>3 DEF Answer, CommitBegin, RevertBegin, Goto, plans
    <3>2. QED
      BY <2>1, <3>1
  <2>4. QED
    BY <2>2, <2>3
<1>5. RecoverySafe'
  <2>1. \A p \in Plans : p \in Nat
    BY DEF Plans
  <2>2. \A p \in Plans : p > nplan' => orig'[p] = NoSubvol
    BY <1>1, <1>4, <2>1 DEF RootInv, RecoverySafe
  <2>3. \A d \in Clients : pc'[d] = "rename" => orig'[job'[d]] = NoSubvol
    BY <1>1, <1>3, <1>4 DEF RootInv, RecoverySafe
  <2>4. \A d \in Clients : pc'[d] \in StageSteps => d = c /\ pc'[d] = "rename"
    BY <1>2, <1>3 DEF StageSteps
  <2>5. QED
    BY <1>2, <1>4, <2>2, <2>3, <2>4 DEF RecoverySafe
<1>6. NoRootLost'
  BY <1>1, <1>4 DEF RootInv, NoRootLost, Away
<1>7. QED
  BY <1>1, <1>3, <1>5, <1>6 DEF RootInv, OneRequest, Identities

\* A crash forgets the request, and a reboot only adds a root that is in place.
LEMMA EnvironmentRootInv ==
    ASSUME TypeOK, RootInv, Environment
    PROVE  RootInv'
<1>1. CASE \E s \in Snaps : RemoveSource(s)
  <2>1. UNCHANGED <<fs, fresh, booted, plan, nplan, pc, job, orig>>
    BY <1>1 DEF RemoveSource, machine, plans, requests, history
  <2>2. QED
    BY <2>1 DEF RootInv, OneRequest, Identities, RecoverySafe, NoRootLost, P, Away
<1>2. CASE \E c \in Clients : Crash(c)
  <2>1. UNCHANGED <<fs, fresh, booted, plan, nplan, job, orig>>
    BY <1>2 DEF Crash, disk, machine, plans, history
  <2>2. \A d \in Clients : pc'[d] \in {pc[d], "idle"}
    BY <1>2 DEF Crash, Goto, TypeOK
  <2>3. QED
    <3>1. OneRequest' /\ Identities' /\ NoRootLost'
      BY <2>1, <2>2 DEF RootInv, OneRequest, Identities, NoRootLost, Away
    <3>2. \A d \in Clients : pc'[d] \in StageSteps => pc'[d] = pc[d]
      BY <2>2 DEF StageSteps
    <3>3. RecoverySafe'
      BY <2>1, <2>2, <3>2 DEF RootInv, RecoverySafe, P, Away, StageSteps
    <3>4. QED
      BY <3>1, <3>3 DEF RootInv
<1>3. CASE Reboot
  <2>1. /\ UNCHANGED <<fs, fresh>> /\ booted' = booted \cup ({fs[Root]} \ {NoSubvol})
        /\ \A d \in Clients : pc'[d] = "idle"
        /\ UNCHANGED <<plan, nplan, orig>>
    BY <1>3 DEF Reboot, disk, plans, history
  <2>2. Root \in RootPaths
    BY DEF RootPaths
  <2>3. Identities'
    BY <2>1, <2>2 DEF RootInv, Identities
  <2>4. NoRootLost'
    BY <2>1, <2>2 DEF RootInv, NoRootLost, Away
  <2>5. QED
    BY <2>1, <2>3, <2>4 DEF RootInv, OneRequest, RecoverySafe, StageSteps
<1>4. QED
  BY <1>1, <1>2, <1>3 DEF Environment

\* The machine starts on the one root there is.
LEMMA InitRootInv == Init => RootInv
<1> SUFFICES ASSUME Init PROVE RootInv
  OBVIOUS
<1>1. /\ Root \in RootPaths /\ fs[Root] = FirstRoot
      /\ \A q \in RootPaths : fs[q] = IF q = Root THEN FirstRoot ELSE NoSubvol
  BY DEF Init, RootPaths
<1>2. Identities /\ NoRootLost
  BY <1>1 DEF Init, Identities, NoRootLost
<1>3. OneRequest /\ RecoverySafe
  BY DEF Init, OneRequest, RecoverySafe, StageSteps
<1>4. QED
  BY <1>2, <1>3 DEF RootInv

\* A step that changes nothing keeps RootInv.
LEMMA StutterRootInv == RootInv /\ UNCHANGED vars => RootInv'
  BY DEF RootInv, OneRequest, Identities, RecoverySafe, NoRootLost, P, Away, vars, disk,
     machine, plans, requests, history

\* One request at a time is one of the interleavings the helper allows.
LEMMA SerialIsSpec == SerialSpec => Spec
<1>1. SerialNext => Next
  BY DEF SerialNext, Next
<1>2. QED
  BY <1>1, PTL DEF SerialSpec, Spec

\* With one request at a time, whatever fails, crashes or reboots, every root
\* the machine ever ran on is still in the namespace.
THEOREM RootsSurvive == SerialSpec => []NoRootLost
<1>1. TypeOK /\ RootInv /\ [SerialNext]_vars => RootInv'
  BY ContinueRootInv, BeginRootInv, EnvironmentRootInv, StutterRootInv DEF SerialNext
<1>2. SerialSpec => []TypeOK
  BY TypeCorrect, SerialIsSpec
<1>3. RootInv => NoRootLost
  BY DEF RootInv
<1>4. QED
  BY InitRootInv, <1>1, <1>2, <1>3, PTL DEF SerialSpec

-----------------------------------------------------------------------------
(* One request at a time: the plan file never runs ahead of the database. *)

\* A step of a request writes at most the row and the file of its own plan.
LEMMA ContinueWritesOwnPlan ==
    ASSUME NEW c \in Clients, TypeOK, Continue(c)
    PROVE  /\ UNCHANGED <<plans, job>> /\ job[c] \in Plans
           /\ \A p \in Plans : p # job[c] => dbPlan'[p] = dbPlan[p] /\ file'[p] = file[p]
           /\ pc[c] # "idle" /\ pc' = [pc EXCEPT ![c] = pc'[c]]
<1> USE DEF Continue, StageRename, StageSnapshot, StageAnchor,
     StagePlanRow, StagePlanFile, RecoverDelete, RecoverRename, CommitDb,
     CommitFile, RevertOut, RevertIn, RevertUndo, RevertDb, RevertFile
<1>1. UNCHANGED <<plans, job>> /\ job[c] \in Plans
  BY DEF TypeOK
<1>2. pc[c] # "idle" /\ pc' = [pc EXCEPT ![c] = pc'[c]]
  BY DEF TypeOK, Goto
<1>3. ASSUME NEW p \in Plans, p # job[c]
      PROVE  dbPlan'[p] = dbPlan[p]
  BY <1>3 DEF TypeOK, SetRowStatus, state
<1>4. ASSUME NEW p \in Plans, p # job[c]
      PROVE  file'[p] = file[p]
  BY <1>4 DEF TypeOK, SetFileStatus, state
<1>5. QED
  BY <1>1, <1>2, <1>3, <1>4

\* The row is written before the file, and a failed write of the row ends the
\* request before it reaches the file.
LEMMA ContinueStatusInv ==
    ASSUME NEW c \in Clients, TypeOK, StatusInv, Continue(c)
    PROVE  StatusInv'
<1> USE DEF Continue, StageRename, StageSnapshot, StageAnchor,
     StagePlanRow, StagePlanFile, RecoverDelete, RecoverRename, CommitDb,
     CommitFile, RevertOut, RevertIn, RevertUndo, RevertDb, RevertFile
<1> DEFINE own == job[c]
<1>1. /\ own \in Plans /\ job' = job /\ nplan' = nplan /\ own \in Nat
      /\ \A p \in Plans : p # own => dbPlan'[p] = dbPlan[p] /\ file'[p] = file[p]
      /\ pc[c] # "idle" /\ pc' = [pc EXCEPT ![c] = pc'[c]]
  BY ContinueWritesOwnPlan DEF plans, Plans
<1>2. \A d \in Clients : d # c => pc[d] = "idle" /\ pc'[d] = "idle"
  BY <1>1 DEF StatusInv, OneRequest, TypeOK
<1>3. OneRequest'
  BY <1>2 DEF OneRequest
<1>4. own <= nplan /\ file[own] \notin Resolved
  BY <1>1 DEF StatusInv
<1>5. /\ pc[c] \in StageSteps => ~Readable(own)
      /\ pc[c] = "plan_file" => dbPlan[own] # "none"
      /\ pc[c] = "commit_file" /\ Readable(own) => dbPlan[own] = "activated"
      /\ pc[c] = "revert_file" /\ Readable(own) => dbPlan[own] = "reverted"
      /\ file[own] = "awaiting_reboot" => dbPlan[own] # "none"
  BY <1>1 DEF StatusInv, FileNotAheadOfDb
<1>6. /\ file'[own] = "awaiting_reboot" => dbPlan'[own] # "none"
      /\ file'[own] \in Resolved => dbPlan'[own] = file'[own]
      /\ pc'[c] # "idle" =>
           /\ file'[own] \notin Resolved
           /\ pc'[c] \in StageSteps => file'[own] \notin PlanStatus
           /\ pc'[c] = "plan_file" => dbPlan'[own] # "none"
           /\ pc'[c] = "commit_file" /\ file'[own] \in PlanStatus => dbPlan'[own] = "activated"
           /\ pc'[c] = "revert_file" /\ file'[own] \in PlanStatus => dbPlan'[own] = "reverted"
  <2>1. pc'[c] \in Steps /\ file[own] \in PlanStatus \cup {"none", "invalid"}
        /\ dbPlan[own] \in PlanStatus \cup {"none"}
    BY <1>1, ContinueTypeOK DEF TypeOK
  <2>2. CASE StageRename(c) \/ StageSnapshot(c) \/ StageAnchor(c) \/ RecoverDelete(c)
             \/ RecoverRename(c)
    BY <1>1, <1>4, <1>5, <2>1, <2>2 DEF TypeOK, Goto, StageSteps, Readable, PlanStatus,
       Resolved, state
  <2>3. CASE StagePlanRow(c)
    BY <1>1, <1>4, <1>5, <2>1, <2>3 DEF TypeOK, Goto, StageSteps, Readable, PlanStatus,
       Resolved
  <2>4. CASE StagePlanFile(c)
    BY <1>1, <1>4, <1>5, <2>1, <2>4 DEF TypeOK, Goto, StageSteps, Readable, PlanStatus,
       Resolved
  <2>5. CASE CommitDb(c) \/ RevertDb(c)
    BY <1>1, <1>4, <1>5, <2>1, <2>5 DEF TypeOK, Goto, SetRowStatus, StageSteps,
       Readable, PlanStatus, Resolved
  <2>6. CASE CommitFile(c) \/ RevertFile(c)
    BY <1>1, <1>4, <1>5, <2>1, <2>6 DEF TypeOK, Goto, SetFileStatus, StageSteps,
       Readable, PlanStatus, Resolved
  <2>7. CASE RevertOut(c) \/ RevertIn(c) \/ RevertUndo(c)
    BY <1>1, <1>4, <1>5, <2>1, <2>7 DEF TypeOK, Goto, StageSteps, Readable, PlanStatus,
       Resolved, state
  <2>8. QED
    BY <2>2, <2>3, <2>4, <2>5, <2>6, <2>7
<1>7. FileNotAheadOfDb'
  BY <1>1, <1>6 DEF FileNotAheadOfDb, Resolved, StatusInv
<1>8. \A p \in Plans : p > nplan => file'[p] = "none" /\ dbPlan'[p] = "none"
  BY <1>1, <1>4 DEF StatusInv, TypeOK
<1>9. QED
  BY <1>1, <1>2, <1>3, <1>4, <1>6, <1>7, <1>8 DEF StatusInv, StageSteps, Readable

\* A new plan has neither row nor file; an answered plan is pending, so no file
\* of it is resolved.
LEMMA BeginStatusInv ==
    ASSUME NEW c \in Clients, TypeOK, StatusInv, Quiet, Stage(c) \/ Answer(c)
    PROVE  StatusInv'
<1>1. UNCHANGED <<dbPlan, file>>
  BY DEF Stage, Answer, StageBegin, CommitBegin, RevertBegin, state
<1>2. \A d \in Clients : d # c => pc'[d] = "idle"
  BY DEF Stage, Answer, StageBegin, CommitBegin, RevertBegin, Goto, Quiet, TypeOK
<1>3. CASE Stage(c)
  <2>1. PICK s \in Returns \cup Discards \cup Snaps, r \in Returns : StageBegin(c, s, r)
    BY <1>3 DEF Stage
  <2>2. /\ nplan + 1 \in Plans /\ nplan + 1 > nplan /\ nplan' = nplan + 1
        /\ job'[c] = nplan + 1 /\ pc'[c] = "rename"
    BY <2>1, BoundsAssumption DEF StageBegin, Goto, TypeOK, Plans
  <2>3. file[nplan + 1] = "none"
    BY <2>2 DEF StatusInv
  <2>4. \A p \in Plans : p > nplan' => p > nplan
    BY <2>2 DEF TypeOK, Plans
  <2>5. QED
    <3>1. OneRequest' /\ FileNotAheadOfDb'
      BY <1>1, <1>2 DEF StatusInv, OneRequest, FileNotAheadOfDb
    <3>2. \A p \in Plans : p > nplan' => file'[p] = "none" /\ dbPlan'[p] = "none"
      BY <1>1, <2>4 DEF StatusInv
    <3>3. nplan' \in Nat /\ job'[c] <= nplan'
      BY <2>2 DEF TypeOK
    <3>4. file'[job'[c]] = "none"
      BY <1>1, <2>2, <2>3
    <3>5. ASSUME NEW d \in Clients, pc'[d] # "idle"
          PROVE  /\ job'[d] <= nplan' /\ file'[job'[d]] \notin Resolved
                 /\ ~Readable(job[d])' /\ pc'[d] = "rename"
      BY <1>2, <2>2, <3>3, <3>4, <3>5 DEF Readable, Resolved, PlanStatus
    <3>6. QED
      BY <3>1, <3>2, <3>5 DEF StatusInv, StageSteps
<1>4. CASE Answer(c)
  <2>1. PICK p \in Plans : IsPending(p) /\ job'[c] = p /\ pc'[c] \in {"commit_db", "revert_out"}
    BY <1>4 DEF Answer, CommitBegin, RevertBegin, Goto, TypeOK
  <2>2. nplan' = nplan
    BY <1>4 DEF Answer, CommitBegin, RevertBegin, plans
  <2>3. file[p] \notin Resolved
    BY <2>1 DEF IsPending, Readable, Resolved, PlanStatus
  <2>4. p <= nplan
    BY <2>1 DEF IsPending, StatusInv, Plans, TypeOK
  <2>5. QED
    BY <1>1, <1>2, <2>1, <2>2, <2>3, <2>4
    DEF StatusInv, OneRequest, FileNotAheadOfDb, StageSteps
<1>5. QED
  BY <1>3, <1>4

\* A crash can only make a file unreadable.
LEMMA EnvironmentStatusInv ==
    ASSUME TypeOK, StatusInv, Environment
    PROVE  StatusInv'
<1>1. UNCHANGED <<nplan, job, dbPlan>>
  BY DEF Environment, RemoveSource, Crash, Reboot, plans, state, requests
<1>2. \A d \in Clients : pc'[d] \in {pc[d], "idle"}
  BY DEF Environment, RemoveSource, Crash, Reboot, Goto, TypeOK, requests
<1>3. \A p \in Plans : \/ file'[p] = file[p]
                       \/ file'[p] = "invalid" /\ \E c \in Clients : job[c] = p /\ Writing(c)
  BY DEF Environment, RemoveSource, Crash, Reboot, TearFiles, state
<1>4. \A c \in Clients : Writing(c) => job[c] <= nplan
  BY DEF Writing, StatusInv
<1>5. \A p \in Plans : p > nplan => file'[p] = "none"
  BY <1>3, <1>4 DEF StatusInv, TypeOK, Plans
<1>6. QED
  BY <1>1, <1>2, <1>3, <1>5
  DEF StatusInv, OneRequest, FileNotAheadOfDb, Readable, StageSteps, Resolved, PlanStatus, TypeOK

\* At first there is neither a row nor a file.
LEMMA InitStatusInv == Init => StatusInv
  BY DEF Init, StatusInv, OneRequest, FileNotAheadOfDb, StageSteps, Resolved

\* A step that changes nothing keeps StatusInv.
LEMMA StutterStatusInv == StatusInv /\ UNCHANGED vars => StatusInv'
  BY DEF StatusInv, OneRequest, FileNotAheadOfDb, Readable, vars, state, plans, requests

\* With one request at a time, whatever fails, crashes or reboots, the plan file
\* that decides what the prompt shows is never ahead of the database.
THEOREM FileFollowsDb == SerialSpec => []FileNotAheadOfDb
<1>1. TypeOK /\ StatusInv /\ [SerialNext]_vars => StatusInv'
  <2>1. ASSUME TypeOK, StatusInv, SerialNext
        PROVE  StatusInv'
    <3>1. CASE Environment
      BY <2>1, <3>1, EnvironmentStatusInv
    <3>2. ASSUME NEW c \in Clients, (Quiet /\ (Stage(c) \/ Answer(c))) \/ Continue(c)
          PROVE  StatusInv'
      BY <2>1, <3>2, BeginStatusInv, ContinueStatusInv
    <3>3. QED
      BY <2>1, <3>1, <3>2 DEF SerialNext
  <2>2. QED
    BY <2>1, StutterStatusInv
<1>2. SerialSpec => []TypeOK
  BY TypeCorrect, SerialIsSpec
<1>3. StatusInv => FileNotAheadOfDb
  BY DEF StatusInv
<1>4. QED
  BY InitStatusInv, <1>1, <1>2, <1>3, PTL DEF SerialSpec

-----------------------------------------------------------------------------
(* One request at a time: the paths implement RootKeeping. *)

\* A step that leaves the paths, the identities and the boots alone is a stutter
\* of RootKeeping.
LEMMA AbstractStutter ==
    ASSUME UNCHANGED <<fs, fresh, running, booted>>
    PROVE  UNCHANGED K!vars
  BY DEF K!vars, Preserved

\* What a change of one path does to the preserved roots.
LEMMA PreservedAfter ==
    ASSUME TypeOK, RootInv, NEW q \in RootPaths, NEW v \in Nat,
           fs' = [fs EXCEPT ![q] = v]
    PROVE  /\ q = Root => fs'[Root] = v /\ Preserved' = Preserved
           /\ q # Root => /\ fs'[Root] = fs[Root]
                          /\ Preserved' = (Preserved \ {fs[q]}) \cup ({v} \ {NoSubvol})
<1>1. /\ fs \in [RootPaths -> Nat] /\ Root \in RootPaths
      /\ fs'[q] = v /\ \A t \in RootPaths : t # q => fs'[t] = fs[t]
  BY DEF TypeOK, RootPaths
<1>2. \A t \in RootPaths : t # q /\ fs[t] = fs[q] => fs[q] = NoSubvol
  BY DEF RootInv, Identities
<1>3. CASE q = Root
  BY <1>1, <1>3 DEF Preserved
<1>4. CASE q # Root
  <2>1. fs'[Root] = fs[Root]
    BY <1>1, <1>4
  <2>2. ASSUME NEW x
        PROVE  x \in Preserved' <=> x \in (Preserved \ {fs[q]}) \cup ({v} \ {NoSubvol})
    BY <1>1, <1>2, <1>4 DEF Preserved
  <2>3. QED
    BY <1>4, <2>1, <2>2
<1>5. QED
  BY <1>3, <1>4

\* Every step of a request is a step of RootKeeping or a stutter.
LEMMA ContinueRefines ==
    ASSUME NEW c \in Clients, TypeOK, RootInv, Continue(c)
    PROVE  [K!Next \/ RecoversOntoItself]_(K!vars)
<1>1. Root \in RootPaths /\ fs \in [RootPaths -> Nat] /\ fresh \in Nat /\ fresh > 0
  BY DEF TypeOK, RootPaths, RootInv, Identities
<1>2. UNCHANGED <<running, booted>>
  BY NamespaceStep DEF machine, RootInv
<1>3. CASE UNCHANGED <<fs, fresh>>
  BY <1>2, <1>3, AbstractStutter
<1>4. ASSUME NEW q \in RootPaths, NEW t \in RootPaths, CanRename(q, t), Rename(q, t),
             UNCHANGED fresh
      PROVE  [K!Next]_(K!vars)
  <2>e. \/ UNCHANGED fs
        \/ /\ q # t /\ fs[q] # NoSubvol /\ fs[t] = NoSubvol
           /\ fs'[t] = fs[q] /\ fs'[q] = NoSubvol
           /\ \A u \in RootPaths : u # q /\ u # t => fs'[u] = fs[u]
    BY <1>1, <1>4, RenameEffect
  <2>s. CASE UNCHANGED fs
    BY <1>2, <1>4, <2>s, AbstractStutter
  <2>1. SUFFICES ASSUME /\ q # t /\ fs[q] # NoSubvol /\ fs[t] = NoSubvol
                        /\ fs'[t] = fs[q] /\ fs'[q] = NoSubvol
                        /\ \A u \in RootPaths : u # q /\ u # t => fs'[u] = fs[u]
                 PROVE  [K!Next]_(K!vars)
    BY <2>e, <2>s
  <2>2. \A u \in RootPaths : fs[u] = fs[q] => u = q
    BY <2>1 DEF RootInv, Identities
  <2>3. CASE q = Root
    <3>1. ASSUME NEW x PROVE x \in Preserved' <=> x \in Preserved \cup {fs[Root]}
      BY <1>1, <2>1, <2>3 DEF Preserved
    <3>2. K!SetAside
      BY <1>2, <1>4, <2>1, <2>3, <3>1 DEF K!SetAside
    <3>3. QED
      BY <3>2 DEF K!Next
  <2>4. CASE t = Root
    <3>1. ASSUME NEW x PROVE x \in Preserved' <=> x \in Preserved \ {fs'[Root]}
      BY <1>1, <2>1, <2>2, <2>4 DEF Preserved
    <3>2. fs'[Root] \in Preserved
      BY <2>1, <2>4 DEF Preserved
    <3>3. K!BringBack
      BY <1>2, <1>4, <2>1, <2>4, <3>1, <3>2 DEF K!BringBack
    <3>4. QED
      BY <3>3 DEF K!Next
  <2>5. CASE q # Root /\ t # Root
    <3>1. ASSUME NEW x PROVE x \in Preserved' <=> x \in Preserved
      BY <1>1, <2>1, <2>5 DEF Preserved
    <3>2. QED
      BY <1>1, <1>2, <1>4, <2>1, <2>5, <3>1 DEF K!vars
  <2>6. QED
    BY <2>3, <2>4, <2>5
<1>5. ASSUME NEW q \in RootPaths, fs[q] = NoSubvol, fs' = [fs EXCEPT ![q] = fresh],
             fresh' = fresh + 1
      PROVE  [K!Next]_(K!vars)
  <2>1. (1..(fresh' - 1)) = (1..(fresh - 1)) \cup {fresh}
    BY <1>1, <1>5
  <2>2. fresh \in (1..(fresh' - 1)) \ (1..(fresh - 1)) /\ fresh # 0
    BY <1>1, <1>5
  <2>3. NoSubvol \notin Preserved
    BY DEF Preserved
  <2>4. \/ fs[Root] = 0 /\ fs'[Root] = fresh /\ Preserved' = Preserved
        \/ Preserved' = Preserved \cup {fresh} /\ fs'[Root] = fs[Root]
    <3>1. CASE q = Root
      BY <1>1, <1>5, <3>1, PreservedAfter
    <3>2. CASE q # Root
      <4>1. Preserved' = (Preserved \ {fs[q]}) \cup ({fresh} \ {NoSubvol})
        BY <1>1, <1>5, <3>2, PreservedAfter
      <4>2. fs'[Root] = fs[Root]
        BY <1>1, <1>5, <3>2
      <4>3. QED
        BY <1>1, <1>5, <2>3, <4>1, <4>2
    <3>3. QED
      BY <3>1, <3>2
  <2>5. K!Create
    BY <1>2, <2>1, <2>2, <2>4 DEF K!Create
  <2>6. QED
    BY <2>5 DEF K!Next
<1>6. ASSUME NEW q \in RootPaths, fs[q] \notin booted, fs' = [fs EXCEPT ![q] = NoSubvol],
             UNCHANGED fresh
      PROVE  [K!Next]_(K!vars)
  <2>1. CASE fs[q] = NoSubvol
    BY <1>1, <1>2, <1>6, <2>1, AbstractStutter
  <2>2. CASE fs[q] # NoSubvol
    <3>1. CASE q = Root
      <4>1. fs'[Root] = 0 /\ Preserved' = Preserved
        BY <1>6, <3>1, PreservedAfter
      <4>2. K!Withdraw
        BY <1>2, <1>6, <2>2, <3>1, <4>1 DEF K!Withdraw
      <4>3. QED
        BY <4>2 DEF K!Next
    <3>2. CASE q # Root
      <4>1. fs'[Root] = fs[Root] /\ Preserved' = Preserved \ {fs[q]}
        <5>1. Preserved' = (Preserved \ {fs[q]}) \cup ({NoSubvol} \ {NoSubvol})
          BY <1>6, <3>2, PreservedAfter
        <5>2. fs'[Root] = fs[Root]
          BY <1>1, <1>6, <3>2
        <5>3. QED
          BY <5>1, <5>2
      <4>2. fs[q] \in Preserved
        BY <2>2, <3>2 DEF Preserved
      <4>3. K!Withdraw
        BY <1>2, <1>6, <4>1, <4>2 DEF K!Withdraw
      <4>4. QED
        BY <4>3 DEF K!Next
    <3>3. QED
      BY <3>1, <3>2
  <2>3. QED
    BY <2>1, <2>2
<1>7. QED
  <2>1. CASE RecoversOntoItself
    BY <2>1
  <2>2. CASE ~RecoversOntoItself
    BY <1>3, <1>4, <1>5, <1>6, <2>2, NamespaceStep DEF RootInv
  <2>3. QED
    BY <2>1, <2>2

\* With one request at a time, rollback sets roots aside and brings them back
\* and never makes one disappear that the machine ran on.
THEOREM ImplementsRootKeeping == SerialSpec => KeepsRoots
<1>1. Init => K!Init
  <2> SUFFICES ASSUME Init PROVE K!Init
    OBVIOUS
  <2>1. /\ Root \in RootPaths /\ fs[Root] = 1
        /\ \A q \in RootPaths : q # Root => fs[q] = 0
    BY DEF Init, RootPaths
  <2>2. ASSUME NEW x PROVE x \notin Preserved
    BY <2>1 DEF Preserved
  <2>3. Preserved = {} /\ (1..(fresh - 1)) = {1}
    BY <2>2 DEF Init
  <2>4. QED
    BY <2>1, <2>3 DEF Init, K!Init
<1>2. TypeOK /\ RootInv /\ [SerialNext]_vars => [K!Next \/ RecoversOntoItself]_(K!vars)
  <2>1. ASSUME TypeOK, RootInv, SerialNext
        PROVE  [K!Next \/ RecoversOntoItself]_(K!vars)
    <3>1. CASE Environment
      <4>1. CASE Reboot
        BY <4>1 DEF Reboot, disk, Preserved, K!Next, K!Boot
      <4>2. CASE (\E s \in Snaps : RemoveSource(s)) \/ (\E c \in Clients : Crash(c))
        BY <4>2, AbstractStutter DEF RemoveSource, Crash, disk, machine
      <4>3. QED
        BY <3>1, <4>1, <4>2 DEF Environment
    <3>2. ASSUME NEW c \in Clients, Stage(c) \/ Answer(c)
          PROVE  [K!Next]_(K!vars)
      BY <3>2, AbstractStutter
      DEF Stage, Answer, StageBegin, CommitBegin, RevertBegin, disk, machine
    <3>3. QED
      BY <2>1, <3>1, <3>2, ContinueRefines DEF SerialNext
  <2>2. QED
    BY <2>1, AbstractStutter DEF vars, disk, machine
<1>3. TypeOK /\ RootInv /\ [SerialNext]_vars => RootInv'
  BY ContinueRootInv, BeginRootInv, EnvironmentRootInv, StutterRootInv DEF SerialNext
<1>4. SerialSpec => []TypeOK
  BY TypeCorrect, SerialIsSpec
<1>5. QED
  BY InitRootInv, <1>1, <1>2, <1>3, <1>4, PTL DEF SerialSpec, KeepsRoots
-----------------------------------------------------------------------------
(* Answers that interleave: a revert brings back what its plan moved away. *)

\* What a step of a request does to the paths, whatever others do.
LEMMA NamespaceChange ==
    ASSUME NEW c \in Clients, TypeOK, Continue(c)
    PROVE  /\ UNCHANGED machine
           /\ \/ UNCHANGED <<fs, fresh>>
              \/ \E q, t \in RootPaths : CanRename(q, t) /\ Rename(q, t) /\ UNCHANGED fresh
              \/ \E q \in RootPaths : fs' = [fs EXCEPT ![q] = fresh] /\ fresh' = fresh + 1
              \/ \E q \in RootPaths : fs' = [fs EXCEPT ![q] = NoSubvol] /\ UNCHANGED fresh
<1> USE DEF Continue, StageRename, StageSnapshot, StageAnchor,
     StagePlanRow, StagePlanFile, RecoverDelete, RecoverRename, CommitDb,
     CommitFile, RevertOut, RevertIn, RevertUndo, RevertDb, RevertFile
<1>1. /\ P(c).replaced \in RootPaths /\ P(c).ret \in RootPaths
      /\ discard[c] \in RootPaths
  BY DEF TypeOK, P
<1>2. UNCHANGED machine
  OBVIOUS
<1>3. CASE RecoverDelete(c) \/ StageSnapshot(c)
  BY <1>1, <1>2, <1>3
<1>4. CASE StageRename(c) \/ RevertOut(c) \/ RevertIn(c) \/ RevertUndo(c) \/ RecoverRename(c)
  BY <1>1, <1>2, <1>4
<1>5. CASE StageAnchor(c) \/ StagePlanRow(c) \/ StagePlanFile(c) \/ CommitDb(c)
           \/ CommitFile(c) \/ RevertDb(c) \/ RevertFile(c)
  BY <1>2, <1>5 DEF disk
<1>6. QED
  BY <1>3, <1>4, <1>5

\* However requests interleave, no two paths hold the same root.
LEMMA ContinueIdentities ==
    ASSUME NEW c \in Clients, TypeOK, Identities, Continue(c)
    PROVE  Identities'
<1>1. fs \in [RootPaths -> Nat] /\ fresh \in Nat /\ booted' = booted /\ booted \subseteq Nat
  BY NamespaceChange DEF TypeOK, machine
<1>2. CASE UNCHANGED <<fs, fresh>>
  BY <1>1, <1>2 DEF Identities
<1>3. ASSUME NEW q \in RootPaths, NEW t \in RootPaths, CanRename(q, t), Rename(q, t),
             UNCHANGED fresh
      PROVE  Identities'
  <2>1. /\ q # t /\ fs'[t] = fs[q] /\ fs'[q] = NoSubvol
        /\ \A u \in RootPaths : u # q /\ u # t => fs'[u] = fs[u]
    BY <1>1, <1>3 DEF CanRename, Rename
  <2>2. QED
    BY <1>1, <1>3, <2>1 DEF Identities, CanRename
<1>4. ASSUME NEW q \in RootPaths,
             \/ fs' = [fs EXCEPT ![q] = NoSubvol] /\ UNCHANGED fresh
             \/ fs' = [fs EXCEPT ![q] = fresh] /\ fresh' = fresh + 1
      PROVE  Identities'
  <2>1. /\ \/ fs'[q] = NoSubvol /\ fresh' = fresh
           \/ fs'[q] = fresh /\ fresh' = fresh + 1
        /\ \A u \in RootPaths : u # q => fs'[u] = fs[u]
    BY <1>1, <1>4
  <2>2. \A u \in RootPaths : fs[u] < fresh /\ fs[u] \in Nat
    BY <1>1 DEF Identities
  <2>3. \A u, t \in RootPaths : fs'[u] = fs'[t] /\ fs'[u] # NoSubvol => u = t
    BY <1>1, <2>1, <2>2 DEF Identities
  <2>4. \A u \in RootPaths : fs'[u] < fresh'
    BY <1>1, <2>1, <2>2 DEF Identities
  <2>5. fresh' > NoSubvol /\ \A v \in booted' : v # NoSubvol /\ v < fresh'
    BY <1>1, <2>1 DEF Identities
  <2>6. QED
    BY <2>3, <2>4, <2>5 DEF Identities
<1>5. QED
  BY <1>2, <1>3, <1>4, NamespaceChange

\* What a request has at hand when it goes on.
LEMMA AnswerFacts ==
    ASSUME NEW c \in Clients, TypeOK, SwapInv, Continue(c)
    PROVE  /\ job[c] \in Kept /\ job[c] \in Plans /\ pc[c] # "idle"
           /\ P(c) = plan[job[c]] /\ P(c).replaced = Root
           /\ P(c).ret \in Returns /\ P(c).ret # Root
           /\ Root \in RootPaths /\ P(c).ret \in RootPaths /\ discard[c] \in RootPaths
           /\ pc[c] \in {"revert_out"} \cup Swapping =>
                  discard[c] # Root /\ discard[c] \notin Returns
           /\ UNCHANGED <<plans, job, discard>>
           /\ pc' = [pc EXCEPT ![c] = pc'[c]]
           /\ \A d \in Clients : d # c => pc'[d] = pc[d]
<1>1. job[c] \in Plans /\ UNCHANGED <<plans, job>>
      /\ pc[c] # "idle" /\ pc' = [pc EXCEPT ![c] = pc'[c]]
  BY ContinueWritesOwnPlan
<1>2. UNCHANGED discard
  BY DEF Continue, StageRename, StageSnapshot, StageAnchor,
     StagePlanRow, StagePlanFile, RecoverDelete, RecoverRename, CommitDb,
     CommitFile, RevertOut, RevertIn, RevertUndo, RevertDb, RevertFile
<1>3. job[c] \in Kept /\ (pc[c] \in {"revert_out"} \cup Swapping => discard[c] \in Discards)
  BY <1>1 DEF SwapInv, OnKeptPlans
<1>4. P(c) = plan[job[c]] /\ P(c).replaced = Root /\ P(c).ret \in Returns
  BY <1>3 DEF P, SwapInv, PlansReplaceRoot
<1>5. discard[c] \in RootPaths
  BY DEF TypeOK
<1>6. QED
  BY <1>1, <1>2, <1>3, <1>4, <1>5, NamesAssumption DEF RootPaths, TypeOK

\* A step of a request keeps SwapInv.
LEMMA ContinueSwapInv ==
    ASSUME NEW c \in Clients, TypeOK, SwapInv, Continue(c)
    PROVE  SwapInv'
<1> USE DEF StageRename, StageSnapshot, StageAnchor,
     StagePlanRow, StagePlanFile, RecoverDelete, RecoverRename, CommitDb,
     CommitFile, RevertOut, RevertIn, RevertUndo, RevertDb, RevertFile
<1> DEFINE own == job[c]
           ret == P(c).ret
<1>1. /\ own \in Kept /\ own \in Plans /\ pc[c] # "idle"
      /\ P(c).replaced = Root /\ ret \in Returns /\ ret # Root
      /\ Root \in RootPaths /\ ret \in RootPaths /\ discard[c] \in RootPaths
      /\ pc[c] \in {"revert_out"} \cup Swapping =>
             discard[c] # Root /\ discard[c] \notin Returns
      /\ UNCHANGED <<plans, job, discard>>
      /\ \A d \in Clients : d # c => pc'[d] = pc[d]
  BY AnswerFacts
<1>2. ret = plan[own].ret /\ Kept' = Kept /\ plan' = plan /\ fs \in [RootPaths -> Nat]
  BY <1>1 DEF P, Kept, plans, TypeOK
<1>3. /\ pc'[c] \in StageSteps => pc[c] \in StageSteps
      /\ pc'[c] \in Swapping => pc[c] \in {"revert_out", "revert_in"}
      /\ pc'[c] = "revert_out" => FALSE
  BY DEF Continue, StageSteps, Swapping, Goto, TypeOK
<1>4. Identities'
  BY ContinueIdentities DEF SwapInv
<1>5. PlansReplaceRoot'
  BY <1>2 DEF SwapInv, PlansReplaceRoot
<1>6. OnKeptPlans'
  <2>1. \A p \in Plans : p # own => dbPlan'[p] = dbPlan[p] /\ file'[p] = file[p]
    BY ContinueWritesOwnPlan
  <2>2. \A p \in Plans : p > nplan => p # own
    BY <1>1, BoundsAssumption DEF Kept, Plans, TypeOK
  <2>3. \A p \in Plans : p > nplan' => file'[p] = "none" /\ dbPlan'[p] = "none"
    BY <1>1, <2>1, <2>2 DEF SwapInv, OnKeptPlans, plans
  <2>4. ASSUME NEW d \in Clients
        PROVE  /\ pc'[d] # "idle" => job'[d] \in Kept'
               /\ pc'[d] \in {"revert_out"} \cup Swapping => discard'[d] \in Discards
    BY <1>1, <1>2, <1>3 DEF SwapInv, OnKeptPlans, Swapping
  <2>5. QED
    BY <2>3, <2>4 DEF OnKeptPlans, Swapping
<1>7. StageAlone'
  <2> SUFFICES ASSUME NEW a \in Clients, NEW b \in Clients,
                      pc'[a] \in StageSteps, pc'[b] # "idle"
               PROVE  a = b
    BY DEF StageAlone
  <2>1. pc[a] \in StageSteps
    BY <1>1, <1>3
  <2>2. pc[b] # "idle"
    BY <1>1
  <2>3. QED
    BY <2>1, <2>2 DEF SwapInv, StageAlone
<1>8. OneSwap'
  <2>1. ASSUME NEW d \in Clients, d # c, pc[d] \in Swapping
        PROVE  pc'[c] \notin Swapping /\ UNCHANGED fs
    <3>1. fs[Root] = NoSubvol /\ pc[c] \notin Swapping /\ pc[c] \notin StageSteps
      BY <2>1 DEF SwapInv, OneSwap, StageAlone, Swapping
    <3>2. CASE RevertOut(c)
      BY <1>1, <3>1, <3>2 DEF CanRename, Goto, Swapping, TypeOK
    <3>3. CASE CommitDb(c) \/ CommitFile(c) \/ RevertDb(c) \/ RevertFile(c)
      BY <3>1, <3>3, <1>3 DEF disk, Swapping
    <3>4. QED
      BY <3>1, <3>2, <3>3 DEF Continue, StageSteps, Swapping
  <2>2. ASSUME pc'[c] \in Swapping
        PROVE  fs'[Root] = NoSubvol /\ fs'[discard[c]] # NoSubvol
    <3>1. CASE RevertOut(c)
      BY <1>1, <1>2, <2>2, <3>1 DEF CanRename, Rename, Goto, TypeOK, Swapping
    <3>2. CASE RevertIn(c)
      BY <1>1, <2>2, <3>2 DEF Goto, TypeOK, SwapInv, OneSwap, Swapping
    <3>3. QED
      BY <1>3, <2>2, <3>1, <3>2 DEF Continue
  <2>3. \A d \in Clients : d # c /\ pc'[d] \in Swapping => pc[d] \in Swapping
    BY <1>1
  <2>4. \A a, b \in Clients : pc'[a] \in Swapping /\ pc'[b] \in Swapping => a = b
    BY <2>1, <2>3 DEF SwapInv, OneSwap
  <2>5. ASSUME NEW d \in Clients, pc'[d] \in Swapping
        PROVE  fs'[Root] = NoSubvol /\ fs'[discard'[d]] # NoSubvol
    BY <1>1, <2>1, <2>2, <2>3, <2>5 DEF SwapInv, OneSwap
  <2>6. QED
    BY <2>4, <2>5 DEF OneSwap
<1>9. ReturnsHoldOriginals'
  <2>1. CASE StageRename(c) /\ UNCHANGED fs
    BY <1>1, <1>2, <2>1 DEF SwapInv, ReturnsHoldOriginals, CanRename, Rename
  <2>2. CASE StageRename(c) /\ fs' # fs
    <3>1. /\ Rename(Root, ret) /\ orig' = [orig EXCEPT ![own] = fs[Root]]
      BY <1>1, <2>2
    <3>2. /\ fs'[ret] = fs[Root] /\ orig'[own] = fs[Root]
          /\ \A r \in Returns : r # ret => fs'[r] = fs[r]
          /\ \A p \in Plans : p # own => orig'[p] = orig[p]
      BY <1>1, <1>2, <3>1, NamesAssumption DEF Rename, TypeOK, RootPaths
    <3>3. Kept \subseteq Plans
      BY BoundsAssumption DEF Kept, Plans, TypeOK
    <3>4. QED
      BY <1>1, <1>2, <3>2, <3>3 DEF SwapInv, ReturnsHoldOriginals
  <2>3. CASE ~StageRename(c)
    <3>1. orig' = orig
      BY <2>3 DEF Continue, history
    <3>2. \A r \in Returns : fs'[r] \in {fs[r], NoSubvol}
      <4>1. \A r \in Returns : r \in RootPaths /\ r # Root
        BY NamesAssumption DEF RootPaths
      <4>2. CASE StageSnapshot(c) \/ RecoverDelete(c)
        BY <1>1, <1>2, <4>1, <4>2
      <4>3. CASE RecoverRename(c) \/ RevertIn(c)
        BY <1>1, <1>2, <4>1, <4>3 DEF Rename
      <4>4. CASE RevertOut(c) \/ RevertUndo(c)
        BY <1>1, <1>2, <4>1, <4>4 DEF Rename, Swapping
      <4>5. CASE StageAnchor(c) \/ StagePlanRow(c) \/ StagePlanFile(c) \/ CommitDb(c)
                 \/ CommitFile(c) \/ RevertDb(c) \/ RevertFile(c)
        BY <4>5 DEF disk
      <4>6. QED
        BY <2>3, <4>2, <4>3, <4>4, <4>5 DEF Continue
    <3>3. QED
      BY <1>2, <3>1, <3>2 DEF SwapInv, ReturnsHoldOriginals
  <2>4. QED
    BY <2>1, <2>2, <2>3
<1>10. QED
  BY <1>4, <1>5, <1>6, <1>7, <1>8, <1>9 DEF SwapInv

\* What is pending is a plan that was made.
LEMMA PendingIsKept ==
    ASSUME TypeOK, OnKeptPlans, NEW p \in Plans, IsPending(p)
    PROVE  p \in Kept
<1>1. ~(p > nplan)
  BY DEF IsPending, OnKeptPlans
<1>2. QED
  BY <1>1, BoundsAssumption DEF Kept, Plans, TypeOK

\* A request that begins keeps SwapInv: a stage finds the others at rest, an answer
\* finds no stage.
LEMMA BeginSwapInv ==
    ASSUME NEW c \in Clients, TypeOK, SwapInv,
           \/ Quiet /\ fs[Root] = running /\ Stage(c)
           \/ (\A d \in Clients : pc[d] \in AnswerSteps) /\ Answer(c)
    PROVE  SwapInv'
<1>1. /\ UNCHANGED <<fs, fresh, booted, orig, dbPlan, file>>
      /\ pc[c] = "idle" /\ pc' \in {[pc EXCEPT ![c] = step] : step \in {"rename", "commit_db", "revert_out"}}
  BY DEF Stage, Answer, StageBegin, CommitBegin, RevertBegin, Goto, disk, machine, history, state
<1>2. /\ pc'[c] \in {"rename", "commit_db", "revert_out"}
      /\ \A d \in Clients : d # c => pc'[d] = pc[d]
      /\ pc'[c] \notin Swapping
  BY <1>1 DEF TypeOK, Swapping
<1>3. Identities'
  BY <1>1 DEF SwapInv, Identities
<1>4. CASE Quiet /\ fs[Root] = running /\ Stage(c)
  <2>1. PICK s \in Returns \cup Discards \cup Snaps, r \in Returns : StageBegin(c, s, r)
    BY <1>4 DEF Stage
  <2>2. PICK cur \in RootPaths :
          /\ fs[cur] = running /\ running # NoSubvol
          /\ plan' = [plan EXCEPT ![nplan + 1] =
                        [source |-> s, replaced |-> cur, ret |-> r, created_boot |-> boot]]
    BY <2>1 DEF StageBegin
  <2>3. cur = Root
    BY <1>4, <2>2 DEF SwapInv, Identities, RootPaths
  <2>4. /\ nplan \in Nat /\ nplan + 1 \in Plans /\ nplan' = nplan + 1 /\ job' = [job EXCEPT ![c] = nplan + 1]
        /\ pc' = [pc EXCEPT ![c] = "rename"]
    BY <2>1, BoundsAssumption DEF StageBegin, Goto, TypeOK, Plans
  <2>5. /\ Kept' = Kept \cup {nplan + 1} /\ nplan + 1 \notin Kept /\ Kept \subseteq Plans
    <3>1. MaxPlans \in Nat /\ nplan + 1 <= MaxPlans
      BY <2>4, BoundsAssumption DEF Plans
    <3>2. 1..(nplan + 1) = (1..nplan) \cup {nplan + 1} /\ nplan + 1 \notin 1..nplan
      BY <2>4
    <3>3. 1..nplan \subseteq 1..MaxPlans
      BY <2>4, <3>1
    <3>4. QED
      BY <2>4, <3>2, <3>3 DEF Kept, Plans
  <2>6. /\ plan'[nplan + 1].replaced = Root /\ plan'[nplan + 1].ret = r
        /\ \A p \in Kept : plan'[p] = plan[p]
    BY <2>2, <2>3, <2>4, <2>5 DEF TypeOK
  <2>7. PlansReplaceRoot'
    BY <2>5, <2>6 DEF SwapInv, PlansReplaceRoot
  <2>8. \A d \in Clients : d # c => pc'[d] = "idle"
    BY <1>2, <1>4 DEF Quiet
  <2>9. job'[c] = nplan + 1 /\ pc'[c] = "rename"
    BY <2>4 DEF TypeOK
  <2>10. OnKeptPlans'
    <3>1. \A p \in Plans : p > nplan' => p > nplan
      BY <2>4 DEF Plans
    <3>2. \A p \in Plans : p > nplan' => file'[p] = "none" /\ dbPlan'[p] = "none"
      BY <1>1, <3>1 DEF SwapInv, OnKeptPlans
    <3>3. ASSUME NEW d \in Clients
          PROVE  /\ pc'[d] # "idle" => job'[d] \in Kept'
                 /\ pc'[d] \in {"revert_out"} \cup Swapping => discard'[d] \in Discards
      BY <2>5, <2>8, <2>9 DEF Swapping
    <3>4. QED
      BY <3>2, <3>3 DEF OnKeptPlans, Swapping
  <2>11. StageAlone' /\ OneSwap'
    <3>1. \A d \in Clients : pc'[d] # "idle" => d = c
      BY <2>8
    <3>2. \A d \in Clients : pc'[d] \notin Swapping
      BY <2>8, <2>9 DEF Swapping
    <3>3. "idle" \notin StageSteps
      BY DEF StageSteps
    <3>4. QED
      BY <3>1, <3>2, <3>3 DEF StageAlone, OneSwap
  <2>12. ReturnsHoldOriginals'
    BY <1>1, <2>5, <2>6 DEF SwapInv, ReturnsHoldOriginals
  <2>13. QED
    BY <1>3, <2>7, <2>10, <2>11, <2>12 DEF SwapInv
<1>5. CASE (\A d \in Clients : pc[d] \in AnswerSteps) /\ Answer(c)
  <2>1. UNCHANGED plans
    BY <1>5 DEF Answer, CommitBegin, RevertBegin
  <2>2. PICK p \in Plans : IsPending(p) /\ job' = [job EXCEPT ![c] = p]
    BY <1>5 DEF Answer, CommitBegin, RevertBegin
  <2>3. p \in Kept /\ Kept' = Kept
    BY <2>1, <2>2, PendingIsKept DEF SwapInv, Kept, plans
  <2>4. \/ pc'[c] = "commit_db" /\ discard' = discard
        \/ pc'[c] = "revert_out" /\ \E q \in Discards : discard' = [discard EXCEPT ![c] = q]
    BY <1>5 DEF Answer, CommitBegin, RevertBegin, Goto, TypeOK
  <2>5. PlansReplaceRoot' /\ ReturnsHoldOriginals'
    BY <1>1, <2>1, <2>3 DEF SwapInv, PlansReplaceRoot, ReturnsHoldOriginals, plans
  <2>6. /\ job'[c] = p /\ (pc'[c] = "revert_out" => discard'[c] \in Discards)
        /\ \A d \in Clients : d # c => job'[d] = job[d] /\ discard'[d] = discard[d]
    BY <2>2, <2>4 DEF TypeOK
  <2>7. OnKeptPlans'
    <3>1. \A q \in Plans : q > nplan' => file'[q] = "none" /\ dbPlan'[q] = "none"
      BY <1>1, <2>1 DEF SwapInv, OnKeptPlans, plans
    <3>2. ASSUME NEW d \in Clients
          PROVE  /\ pc'[d] # "idle" => job'[d] \in Kept'
                 /\ pc'[d] \in {"revert_out"} \cup Swapping => discard'[d] \in Discards
      BY <1>2, <2>3, <2>6 DEF SwapInv, OnKeptPlans, Swapping
    <3>3. QED
      BY <3>1, <3>2 DEF OnKeptPlans, Swapping
  <2>8. StageAlone'
    BY <1>2, <1>5, <2>4 DEF StageAlone, AnswerSteps, StageSteps
  <2>9. OneSwap'
    <3>1. \A d \in Clients : pc'[d] \in Swapping => d # c /\ pc[d] \in Swapping
      BY <1>2
    <3>2. QED
      BY <1>1, <2>6, <3>1 DEF SwapInv, OneSwap
  <2>10. QED
    BY <1>3, <2>5, <2>7, <2>8, <2>9 DEF SwapInv
<1>6. QED
  BY <1>4, <1>5

\* So does whatever happens around the requests, who only disappear.
LEMMA EnvironmentSwapInv ==
    ASSUME TypeOK, SwapInv, Environment
    PROVE  SwapInv'
<1>1. UNCHANGED <<fs, fresh, plan, nplan, job, discard, dbPlan, orig>>
  BY DEF Environment, RemoveSource, Crash, Reboot, plans, state, requests, disk, history
<1>2. \A d \in Clients : pc'[d] \in {pc[d], "idle"}
  BY DEF Environment, RemoveSource, Crash, Reboot, Goto, TypeOK, requests
<1>3. \A p \in Plans : \/ file'[p] = file[p]
                       \/ file'[p] = "invalid" /\ \E c \in Clients : job[c] = p /\ Writing(c)
  BY DEF Environment, RemoveSource, Crash, Reboot, TearFiles, state
<1>4. \A c \in Clients : Writing(c) => ~(job[c] > nplan)
  BY DEF Writing, SwapInv, OnKeptPlans, Kept, TypeOK
<1>5. \A p \in Plans : p > nplan => file'[p] = "none"
  BY <1>3, <1>4 DEF SwapInv, OnKeptPlans
<1>6. booted' = booted \/ booted' = booted \cup ({fs[Root]} \ {NoSubvol})
  BY DEF Environment, RemoveSource, Crash, Reboot, machine
<1>7. Identities'
  BY <1>1, <1>6 DEF SwapInv, Identities, RootPaths
<1>8. Kept' = Kept
  BY <1>1 DEF Kept
<1>9. OnKeptPlans'
  BY <1>1, <1>2, <1>5, <1>8 DEF SwapInv, OnKeptPlans, Swapping
<1>10. PlansReplaceRoot' /\ StageAlone' /\ OneSwap' /\ ReturnsHoldOriginals'
  BY <1>1, <1>2, <1>8
  DEF SwapInv, PlansReplaceRoot, StageAlone, OneSwap, ReturnsHoldOriginals, StageSteps, Swapping
<1>11. QED
  BY <1>7, <1>9, <1>10 DEF SwapInv

\* At first there are no plans and the return paths are empty.
LEMMA InitSwapInv == Init => SwapInv
<1> SUFFICES ASSUME Init PROVE SwapInv
  OBVIOUS
<1>1. /\ Root \in RootPaths /\ fs[Root] = FirstRoot
      /\ \A q \in RootPaths : fs[q] = IF q = Root THEN FirstRoot ELSE NoSubvol
  BY DEF Init, RootPaths
<1>2. Identities
  BY <1>1 DEF Init, Identities
<1>3. \A r \in Returns : fs[r] = NoSubvol
  BY <1>1, NamesAssumption DEF RootPaths
<1>4. Kept = {}
  BY DEF Init, Kept
<1>5. QED
  BY <1>2, <1>3, <1>4 DEF Init, SwapInv, PlansReplaceRoot, OnKeptPlans, StageAlone, OneSwap,
     ReturnsHoldOriginals, StageSteps, Swapping

\* A step that changes nothing keeps SwapInv.
LEMMA StutterSwapInv == SwapInv /\ UNCHANGED vars => SwapInv'
  BY DEF SwapInv, Identities, PlansReplaceRoot, OnKeptPlans, StageAlone, OneSwap,
     ReturnsHoldOriginals, Kept, vars, disk, machine, state, plans, requests, history

\* Every step of AnswersSpec keeps SwapInv.
LEMMA NextSwapInv == TypeOK /\ SwapInv /\ [AnswersNext]_vars => SwapInv'
<1>1. ASSUME TypeOK, SwapInv, AnswersNext
      PROVE  SwapInv'
  <2>1. CASE Environment
    BY <1>1, <2>1, EnvironmentSwapInv
  <2>2. ASSUME NEW c \in Clients,
               \/ Quiet /\ fs[Root] = running /\ Stage(c)
               \/ (\A d \in Clients : pc[d] \in AnswerSteps) /\ Answer(c)
               \/ Continue(c)
        PROVE  SwapInv'
    BY <1>1, <2>2, BeginSwapInv, ContinueSwapInv
  <2>3. QED
    BY <1>1, <2>1, <2>2 DEF AnswersNext
<1>2. QED
  BY <1>1, StutterSwapInv

\* Answers that interleave are interleavings the helper allows.
LEMMA AnswersIsSpec == AnswersSpec => Spec
<1>1. AnswersNext => Next
  BY DEF AnswersNext, Next
<1>2. QED
  BY <1>1, PTL DEF AnswersSpec, Spec

\* However requests answer one prompt at once, fail, die or meet a reboot, a revert
\* that succeeds brings back the root its plan moved away.
THEOREM RevertsRestore == AnswersSpec => RevertRestoresOriginal
<1> DEFINE Restores ==
      \A c \in Clients :
         pc[c] = "revert_in" /\ pc'[c] = "revert_db" /\ OwnReturn(job[c])
             => fs'[P(c).replaced] = orig[job[c]]
<1>1. TypeOK /\ SwapInv /\ [AnswersNext]_vars => [Restores]_vars
  <2> SUFFICES ASSUME TypeOK, SwapInv, AnswersNext,
                      NEW c \in Clients, pc[c] = "revert_in", pc'[c] = "revert_db", OwnReturn(job[c])
               PROVE  fs'[P(c).replaced] = orig[job[c]]
    OBVIOUS
  <2>1. CASE Environment
    BY <2>1 DEF Environment, RemoveSource, Crash, Reboot, Goto, TypeOK, requests
  <2>2. ASSUME NEW d \in Clients, Stage(d) \/ Answer(d)
        PROVE  FALSE
    BY <2>2 DEF Stage, Answer, StageBegin, CommitBegin, RevertBegin, Goto, TypeOK
  <2>3. ASSUME NEW d \in Clients, Continue(d)
        PROVE  fs'[P(c).replaced] = orig[job[c]]
    <3>1. d = c
      BY <2>3, AnswerFacts
    <3>2. RevertIn(c)
      BY <2>3, <3>1
      DEF Continue, StageRename, StageSnapshot, StageAnchor, StagePlanRow, StagePlanFile,
          RecoverDelete, RecoverRename, CommitDb, CommitFile, RevertOut, RevertUndo,
          RevertDb, RevertFile
    <3>3. /\ P(c) = plan[job[c]] /\ P(c).replaced = Root /\ P(c).ret \in Returns /\ P(c).ret # Root
          /\ Root \in RootPaths /\ P(c).ret \in RootPaths /\ job[c] \in Kept
      BY <2>3, <3>1, AnswerFacts
    <3>4. CanRename(P(c).ret, Root) /\ Rename(P(c).ret, Root)
      BY <3>2, <3>3 DEF RevertIn, Goto, TypeOK
    <3>5. fs'[Root] = fs[P(c).ret] /\ fs[P(c).ret] # NoSubvol
      BY <3>3, <3>4 DEF CanRename, Rename, TypeOK
    <3>6. PICK p \in Kept : plan[p].ret = P(c).ret /\ orig[p] = fs[P(c).ret]
      BY <3>3, <3>5 DEF SwapInv, ReturnsHoldOriginals
    <3>7. p = job[c]
      BY <3>3, <3>6 DEF OwnReturn, Kept
    <3>8. QED
      BY <3>3, <3>5, <3>6, <3>7
  <2>4. QED
    BY <2>1, <2>2, <2>3 DEF AnswersNext
<1>2. AnswersSpec => []TypeOK
  BY TypeCorrect, AnswersIsSpec
<1>3. QED
  BY InitSwapInv, NextSwapInv, <1>1, <1>2, PTL DEF AnswersSpec, RevertRestoresOriginal

-----------------------------------------------------------------------------
(* Answers that interleave, while nothing fails: the root is there, the newest *)
(* rollback is the one that is booted and kept.                                *)

\* Nothing has failed after a step only if nothing failed in it.
LEMMA NoFaultSoFar ==
    ASSUME NEW c \in Clients, TypeOK, Continue(c), faults' = 0
    PROVE  faults = 0 /\ NoFault /\ ~Fault
<1>1. faults \in Nat
  BY BoundsAssumption DEF TypeOK
<1>2. UNCHANGED faults \/ Fault
  BY DEF Continue, StageRename, StageSnapshot, StageAnchor,
     StagePlanRow, StagePlanFile, RecoverDelete, RecoverRename, CommitDb,
     CommitFile, RevertOut, RevertIn, RevertUndo, RevertDb, RevertFile,
     FaultOr, NoFault, SetFileStatus
<1>3. QED
  BY <1>1, <1>2 DEF Fault, NoFault

\* Undisturbed, a step of a request leaves a root at Root or is about to bring one.
LEMMA ContinueRootAtHand ==
    ASSUME NEW c \in Clients, TypeOK, SwapInv, RootAtHand, Continue(c)
    PROVE  RootAtHand'
<1> USE DEF StageRename, StageSnapshot, StageAnchor,
     StagePlanRow, StagePlanFile, RecoverDelete, RecoverRename, CommitDb,
     CommitFile, RevertOut, RevertIn, RevertUndo, RevertDb, RevertFile
<1> SUFFICES ASSUME crashes' = 0, faults' = 0, snaps' = Snaps
             PROVE  RootAtHand'
  BY DEF RootAtHand
<1> DEFINE ret == P(c).ret
           Busy == {"snapshot"} \cup Swapping
<1>1. /\ job[c] \in Kept /\ job[c] \in Plans /\ pc[c] # "idle"
      /\ P(c) = plan[job[c]] /\ P(c).replaced = Root
      /\ ret \in Returns /\ ret # Root
      /\ Root \in RootPaths /\ ret \in RootPaths /\ discard[c] \in RootPaths
      /\ pc[c] \in {"revert_out"} \cup Swapping =>
             discard[c] # Root /\ discard[c] \notin Returns
      /\ UNCHANGED <<plans, job, discard>>
      /\ pc' = [pc EXCEPT ![c] = pc'[c]]
      /\ \A d \in Clients : d # c => pc'[d] = pc[d]
  BY AnswerFacts
<1>2. faults = 0 /\ NoFault /\ ~Fault
  BY NoFaultSoFar
<1>3. snaps' = snaps /\ crashes' = crashes
  BY DEF Continue, disk
<1>4. /\ \/ \E d \in Clients : pc[d] \in Busy
         \/ fs[Root] # NoSubvol
      /\ pc[c] \notin {"recover_delete", "recover_rename"}
      /\ pc[c] \in {"rename", "snapshot"} => Exists(P(c).source) /\ P(c).source # Root
      /\ pc[c] = "snapshot" => fs[Root] = NoSubvol
  BY <1>2, <1>3 DEF RootAtHand
<1>5. \A d \in Clients : pc'[d] \in StageSteps => d = c
  BY <1>1 DEF SwapInv, StageAlone
<1>6. P(c)' = P(c) /\ fs \in [RootPaths -> Nat] /\ fresh \in Nat /\ fresh > 0
  BY <1>1 DEF P, plans, TypeOK, SwapInv, Identities
<1>7. SUFFICES /\ pc'[c] \in Busy \/ fs'[Root] # NoSubvol
                  \/ (pc[c] \notin Busy /\ fs' = fs)
               /\ pc'[c] \notin {"recover_delete", "recover_rename"}
               /\ pc'[c] \in {"rename", "snapshot"} => Exists(P(c).source)' /\ P(c).source # Root
               /\ pc'[c] = "snapshot" => fs'[Root] = NoSubvol
  <2>1. \/ \E d \in Clients : pc'[d] \in Busy
        \/ fs'[Root] # NoSubvol
    BY <1>1, <1>4, <1>7
  <2>2. ASSUME NEW d \in Clients
        PROVE  /\ pc'[d] \notin {"recover_delete", "recover_rename"}
               /\ pc'[d] \in {"rename", "snapshot"} =>
                      Exists(P(d).source)' /\ P(d)'.source # Root
               /\ pc'[d] = "snapshot" => fs'[Root] = NoSubvol
    BY <1>5, <1>6, <1>7 DEF StageSteps
  <2>3. QED
    BY <2>1, <2>2 DEF RootAtHand
<1>8. CASE StageRename(c)
  <2>1. CASE UNCHANGED fs
    BY <1>1, <1>2, <1>6, <1>8, <2>1 DEF Goto, TypeOK, Swapping, CanRename, Rename
  <2>2. CASE CanRename(Root, ret) /\ Rename(Root, ret) /\ Goto(c, "snapshot")
    <3>1. fs'[Root] = NoSubvol /\ \A q \in RootPaths : q # Root /\ q # ret => fs'[q] = fs[q]
      BY <1>1, <1>6, <2>2 DEF Rename
    <3>2. fs[ret] = NoSubvol
      BY <1>1, <2>2 DEF CanRename
    <3>3. Exists(P(c).source) /\ P(c).source # Root
      BY <1>4, <1>8
    <3>4. Exists(P(c).source)'
      BY <1>3, <1>6, <3>1, <3>2, <3>3 DEF Exists
    <3>5. pc'[c] = "snapshot"
      BY <2>2 DEF Goto, TypeOK
    <3>6. QED
      BY <3>1, <3>3, <3>4, <3>5
  <2>3. QED
    BY <1>1, <1>8, <2>1, <2>2
<1>9. CASE StageSnapshot(c)
  BY <1>1, <1>2, <1>4, <1>6, <1>9 DEF Goto, TypeOK, FaultOr
<1>10. CASE StageAnchor(c) \/ StagePlanRow(c) \/ StagePlanFile(c)
  BY <1>2, <1>10 DEF Goto, TypeOK, disk, Swapping
<1>11. CASE RevertOut(c)
  BY <1>1, <1>6, <1>11 DEF Goto, TypeOK, Swapping
<1>12. CASE RevertIn(c)
  BY <1>1, <1>6, <1>12 DEF Goto, TypeOK, Swapping, CanRename, Rename
<1>13. CASE RevertUndo(c)
  <2>1. fs[Root] = NoSubvol /\ fs[discard[c]] # NoSubvol
    BY <1>13 DEF SwapInv, OneSwap, Swapping
  <2>2. CanRename(discard[c], P(c).replaced)
    BY <1>1, <2>1 DEF CanRename
  <2>3. Rename(discard[c], P(c).replaced)
    BY <1>2, <1>13, <2>2 DEF FaultOr
  <2>4. fs'[Root] # NoSubvol /\ pc'[c] = "idle"
    BY <1>1, <1>6, <1>13, <2>1, <2>3 DEF Rename, Goto, TypeOK, Swapping
  <2>5. QED
    BY <2>4
<1>14. CASE CommitDb(c) \/ CommitFile(c) \/ RevertDb(c) \/ RevertFile(c)
  BY <1>2, <1>14 DEF Goto, TypeOK, disk, Swapping
<1>15. QED
  BY <1>4, <1>8, <1>9, <1>10, <1>11, <1>12, <1>13, <1>14 DEF Continue

\* While nothing fails, a step of a request leaves the newest rollback where
\* NewestStands says.
LEMMA ContinueNewestStands ==
    ASSUME NEW c \in Clients, TypeOK, SwapInv, NewestStands, Continue(c)
    PROVE  NewestStands'
<1> USE DEF StageRename, StageSnapshot, StageAnchor,
     StagePlanRow, StagePlanFile, RecoverDelete, RecoverRename, CommitDb,
     CommitFile, RevertOut, RevertIn, RevertUndo, RevertDb, RevertFile
<1> SUFFICES ASSUME crashes' = 0, faults' = 0
             PROVE  NewestStands'
  BY DEF NewestStands
<1> DEFINE own == job[c]
           p == nplan
           back == fs[plan[p].ret] = NoSubvol
           ret == P(c).ret
<1>1. /\ own \in Kept /\ own \in Plans /\ pc[c] # "idle"
      /\ P(c) = plan[own] /\ P(c).replaced = Root
      /\ ret \in Returns /\ ret # Root
      /\ Root \in RootPaths /\ ret \in RootPaths /\ discard[c] \in RootPaths
      /\ pc[c] \in {"revert_out"} \cup Swapping =>
             discard[c] # Root /\ discard[c] \notin Returns
      /\ UNCHANGED <<plans, job, discard>>
      /\ pc' = [pc EXCEPT ![c] = pc'[c]]
      /\ \A d \in Clients : d # c => pc'[d] = pc[d]
  BY AnswerFacts
<1>2. faults = 0 /\ NoFault /\ ~Fault
  BY NoFaultSoFar
<1>3. /\ crashes = 0 /\ nplan' = p /\ plan' = plan /\ boot' = boot /\ running' = running
      /\ job' = job /\ discard' = discard
  BY <1>1 DEF Continue, plans, machine
<1>4. /\ pc[c] \in StageSteps => own = p /\ file[p] = "none" /\ plan[p].created_boot = boot
      /\ pc[c] = "snapshot" => fs[Root] = NoSubvol /\ ~back
      /\ pc[c] \in {"anchor", "plan_row", "plan_file"} =>
             fs[Root] = made[p] /\ made[p] # NoSubvol /\ ~back
      /\ \A d \in Clients : pc[d] \in {"commit_file", "revert_file"} =>
             dbPlan[job[d]] # "awaiting_reboot"
  BY <1>2, <1>3 DEF NewestStands
<1>5. p \in Plans /\ file[p] = "awaiting_reboot" =>
        /\ \A d \in Clients : pc[d] # "idle" => job[d] = p
        /\ made[p] # NoSubvol
        /\ back => \E d \in Clients : pc[d] \in {"revert_db", "revert_file"}
        /\ ~back => \/ fs[Root] = made[p]
                    \/ \E d \in Clients : pc[d] \in Swapping /\ fs[discard[d]] = made[p]
        /\ RebootedSince(p) => running = made[p]
  BY <1>2, <1>3 DEF NewestStands
<1>6. p \in Plans /\ dbPlan[p] = "awaiting_reboot" =>
        file[p] = "awaiting_reboot" \/ \E d \in Clients : pc[d] = "plan_file"
  BY <1>2, <1>3 DEF NewestStands
<1>7. /\ fs \in [RootPaths -> Nat] /\ fresh \in Nat /\ fresh > 0
      /\ file \in [Plans -> PlanStatus \cup {"none", "invalid"}]
      /\ dbPlan \in [Plans -> PlanStatus \cup {"none"}]
      /\ made \in [Plans -> Nat] /\ pc \in [Clients -> Steps]
  BY DEF TypeOK, SwapInv, Identities
<1>8. \A d \in Clients : d # c => (pc[c] \in StageSteps => pc[d] = "idle") /\ pc[d] \notin StageSteps
  BY <1>1 DEF SwapInv, StageAlone, StageSteps
<1>9. /\ \A q \in Plans : q # own => dbPlan'[q] = dbPlan[q] /\ file'[q] = file[q]
  BY ContinueWritesOwnPlan
\* A plan's row awaits only by the step of its own stage.
<1>10. \A q \in Plans : dbPlan'[q] = "awaiting_reboot" =>
         dbPlan[q] = "awaiting_reboot" \/ (q = own /\ StagePlanRow(c) /\ pc'[c] = "plan_file")
  <2>1. CASE StagePlanRow(c)
    BY <1>1, <1>2, <1>7, <2>1 DEF Goto
  <2>2. CASE CommitDb(c) \/ RevertDb(c)
    BY <1>1, <1>2, <1>7, <2>2 DEF SetRowStatus
  <2>3. CASE ~(StagePlanRow(c) \/ CommitDb(c) \/ RevertDb(c))
    BY <2>3 DEF Continue, state
  <2>4. QED
    BY <2>1, <2>2, <2>3
\* The plan's file: written by its stage, resolved after its row was.
<1>11. /\ file'[own] = "awaiting_reboot" =>
            file[own] = "awaiting_reboot" \/ (StagePlanFile(c) /\ pc'[c] = "idle")
       /\ file[own] = "awaiting_reboot" /\ (CommitFile(c) \/ RevertFile(c)) =>
            file'[own] # "awaiting_reboot"
       /\ ~(StagePlanFile(c) \/ CommitFile(c) \/ RevertFile(c)) => file' = file
       /\ pc[c] = "plan_file" => file'[own] = "awaiting_reboot"
  <2>1. CASE StagePlanFile(c)
    BY <1>1, <1>2, <1>7, <2>1 DEF Goto
  <2>2. CASE CommitFile(c) \/ RevertFile(c)
    BY <1>1, <1>2, <1>7, <2>2 DEF SetFileStatus, Readable, PlanStatus
  <2>3. CASE ~(StagePlanFile(c) \/ CommitFile(c) \/ RevertFile(c))
    BY <2>3 DEF Continue, state
  <2>4. QED
    BY <2>1, <2>2, <2>3
<1>12. ASSUME NEW d \in Clients
       PROVE  /\ pc'[d] \in StageSteps => /\ job[d] = p /\ file'[p] = "none"
                                         /\ plan[p].created_boot = boot
              /\ pc'[d] = "snapshot" => fs'[Root] = NoSubvol /\ fs'[plan[p].ret] # NoSubvol
              /\ pc'[d] \in {"anchor", "plan_row", "plan_file"} =>
                     fs'[Root] = made'[p] /\ made'[p] # NoSubvol /\ fs'[plan[p].ret] # NoSubvol
              /\ pc'[d] \in {"commit_file", "revert_file"} => dbPlan'[job[d]] # "awaiting_reboot"
  <2>1. CASE d # c
    <3>1. pc'[d] = pc[d] /\ pc'[d] \notin StageSteps
      BY <1>1, <1>8, <2>1
    <3>2. pc[d] \in {"commit_file", "revert_file"} => dbPlan'[job[d]] # "awaiting_reboot"
      <4>1. pc[d] # "idle" => ~StagePlanRow(c)
        BY <1>8, <2>1 DEF StageSteps
      <4>2. job[d] \in Plans
        BY DEF TypeOK
      <4>3. QED
        BY <1>4, <1>10, <4>1, <4>2
    <3>3. QED
      BY <3>1, <3>2 DEF StageSteps
  <2>2. CASE d = c
    <3>1. CASE StageRename(c)
      <4>1. CASE CanRename(Root, ret) /\ Rename(Root, ret) /\ Goto(c, "snapshot")
        <5>1. fs'[Root] = NoSubvol /\ fs'[ret] # NoSubvol
          BY <1>1, <1>7, <4>1 DEF Rename, CanRename
        <5>2. pc[c] \in StageSteps /\ pc'[c] = "snapshot"
          BY <1>7, <3>1, <4>1 DEF Goto, StageSteps
        <5>3. own = p /\ file[p] = "none" /\ plan[p].created_boot = boot /\ file' = file
          BY <1>4, <3>1, <5>2 DEF state
        <5>4. QED
          BY <1>1, <2>2, <5>1, <5>2, <5>3
      <4>2. QED
        BY <1>1, <1>2, <1>7, <2>2, <3>1, <4>1 DEF Goto, StageSteps
    <3>2. CASE StageSnapshot(c)
      <4>1. own = p /\ file[p] = "none" /\ plan[p].created_boot = boot /\ file' = file
            /\ fs[Root] = NoSubvol /\ ~back
        BY <1>4, <3>2 DEF StageSteps, state
      <4>2. CASE Goto(c, "anchor")
        <5>1. fs' = [fs EXCEPT ![Root] = fresh] /\ made' = [made EXCEPT ![own] = fresh] /\ pc'[c] = "anchor"
          BY <1>1, <1>7, <3>2, <4>1, <4>2 DEF Goto
        <5>2. QED
          BY <1>1, <1>7, <2>2, <4>1, <5>1
      <4>3. CASE Goto(c, "recover_delete")
        BY <1>1, <1>7, <2>2, <3>2, <4>1, <4>3 DEF Goto
      <4>4. QED
        BY <3>2, <4>2, <4>3
    <3>3. CASE StageAnchor(c) \/ StagePlanRow(c)
      <4>1. own = p /\ file[p] = "none" /\ plan[p].created_boot = boot /\ file' = file
            /\ fs[Root] = made[p] /\ made[p] # NoSubvol /\ ~back /\ fs' = fs /\ made' = made
        BY <1>4, <3>3 DEF StageSteps, state, disk, history
      <4>2. pc'[c] \in {"plan_row", "plan_file"}
        BY <1>2, <1>7, <3>3 DEF Goto
      <4>3. QED
        BY <2>2, <4>1, <4>2
    <3>4. CASE RecoverDelete(c)
      <4>1. own = p /\ file[p] = "none" /\ plan[p].created_boot = boot /\ file' = file
        BY <1>4, <3>4 DEF StageSteps, state
      <4>2. pc'[c] \in {"recover_rename", "idle"}
        BY <1>7, <3>4 DEF Goto
      <4>3. QED
        BY <2>2, <4>1, <4>2
    <3>5. CASE CommitDb(c) \/ RevertDb(c)
      <4>1. dbPlan'[own] # "awaiting_reboot" /\ pc'[c] \in {"commit_file", "revert_file"}
        BY <1>1, <1>2, <1>7, <3>5 DEF SetRowStatus, Goto
      <4>2. QED
        BY <2>2, <4>1 DEF StageSteps
    <3>6. CASE ~(StageRename(c) \/ StageSnapshot(c) \/ StageAnchor(c) \/ StagePlanRow(c)
                 \/ RecoverDelete(c) \/ CommitDb(c) \/ RevertDb(c))
      <4>1. pc'[c] \in {"idle", "revert_in", "revert_undo", "revert_db"}
        BY <1>2, <1>7, <3>6 DEF Continue, Goto
      <4>2. QED
        BY <2>2, <4>1 DEF StageSteps
    <3>7. QED
      BY <3>1, <3>2, <3>3, <3>4, <3>5, <3>6
  <2>3. QED
    BY <2>1, <2>2
<1>13. ASSUME p \in Plans, file'[p] = "awaiting_reboot"
       PROVE  /\ \A d \in Clients : pc'[d] # "idle" => job[d] = p
              /\ made'[p] # NoSubvol
              /\ fs'[plan[p].ret] = NoSubvol => \E d \in Clients : pc'[d] \in {"revert_db", "revert_file"}
              /\ fs'[plan[p].ret] # NoSubvol =>
                   \/ fs'[Root] = made'[p]
                   \/ \E d \in Clients : pc'[d] \in Swapping /\ fs'[discard[d]] = made'[p]
              /\ RebootedSince(p) => running = made'[p]
  <2>1. CASE file[p] # "awaiting_reboot"
    <3>1. own = p /\ StagePlanFile(c) /\ pc'[c] = "idle"
      BY <1>9, <1>11, <1>13, <2>1
    <3>2. fs' = fs /\ made' = made
      BY <3>1 DEF disk
    <3>3. /\ \A d \in Clients : pc'[d] = "idle"
          /\ fs[Root] = made[p] /\ made[p] # NoSubvol /\ ~back /\ ~RebootedSince(p)
      BY <1>1, <1>4, <1>8, <3>1 DEF StageSteps, RebootedSince
    <3>4. QED
      BY <3>2, <3>3
  <2>2. CASE file[p] = "awaiting_reboot"
    <3>1. pc[c] \notin StageSteps
      BY <1>4, <2>2
    <3>2. own = p /\ ret = plan[p].ret
      BY <1>1, <1>5, <1>13, <2>2
    <3>3. made' = made
      BY <3>1 DEF Continue, StageSteps, history
    <3>4. /\ \A d \in Clients : pc'[d] # "idle" => job[d] = p
          /\ made'[p] # NoSubvol
          /\ RebootedSince(p) => running = made'[p]
      BY <1>1, <1>5, <1>13, <2>2, <3>2, <3>3
    <3>5. CASE RevertOut(c)
      <4>1. CASE CanRename(Root, discard[c]) /\ Rename(Root, discard[c]) /\ Goto(c, "revert_in")
        <5>1. /\ fs'[discard[c]] = fs[Root] /\ fs'[ret] = fs[ret] /\ fs[Root] # NoSubvol
          BY <1>1, <1>7, <3>5, <4>1 DEF Rename, CanRename
        <5>2. pc'[c] \in Swapping
          BY <1>7, <4>1 DEF Goto, Swapping
        <5>3. \A d \in Clients : pc[d] \notin Swapping
          BY <5>1 DEF SwapInv, OneSwap
        <5>4. back => \E d \in Clients : pc'[d] \in {"revert_db", "revert_file"}
          BY <1>1, <1>5, <1>13, <2>2, <3>5
        <5>5. QED
          BY <1>5, <1>13, <2>2, <3>2, <3>3, <3>4, <5>1, <5>2, <5>3, <5>4
      <4>2. CASE UNCHANGED fs
        BY <1>1, <1>5, <1>13, <2>2, <3>3, <3>4, <3>5, <4>2 DEF Swapping
      <4>3. QED
        BY <1>1, <3>5, <4>1, <4>2
    <3>6. CASE RevertIn(c)
      <4>0. fs[Root] = NoSubvol /\ pc[c] \in Swapping
            /\ \A d \in Clients : pc[d] \in Swapping => d = c
        BY <3>6 DEF SwapInv, OneSwap, Swapping
      <4>1. CASE CanRename(ret, Root) /\ Rename(ret, Root) /\ Goto(c, "revert_db")
        <5>1. fs'[ret] = NoSubvol /\ pc'[c] = "revert_db"
          BY <1>1, <1>7, <4>1 DEF Rename, CanRename, Goto
        <5>2. QED
          BY <3>2, <3>4, <5>1
      <4>2. CASE UNCHANGED fs /\ ~CanRename(ret, Root)
        <5>1. back
          BY <3>2, <4>0, <4>2 DEF CanRename
        <5>2. \E d \in Clients : pc'[d] \in {"revert_db", "revert_file"}
          BY <1>1, <1>5, <1>13, <2>2, <3>6, <5>1
        <5>3. QED
          BY <3>4, <4>2, <5>1, <5>2
      <4>3. QED
        BY <1>1, <1>2, <3>6, <4>1, <4>2 DEF FaultOr
    <3>7. CASE RevertUndo(c)
      <4>1. /\ fs[Root] = NoSubvol /\ fs[discard[c]] # NoSubvol
            /\ \A d \in Clients : pc[d] \in Swapping => d = c
        BY <3>7 DEF SwapInv, OneSwap, Swapping
      <4>2. CanRename(discard[c], Root)
        BY <4>1 DEF CanRename
      <4>3. Rename(discard[c], Root)
        BY <1>1, <1>2, <3>7, <4>2 DEF FaultOr
      <4>4. discard[c] # Root /\ discard[c] # ret
        BY <1>1, <3>7 DEF Swapping
      <4>5. fs'[Root] = fs[discard[c]] /\ fs'[ret] = fs[ret]
        BY <1>1, <1>7, <4>3, <4>4 DEF Rename
      <4>6. back => \E d \in Clients : pc'[d] \in {"revert_db", "revert_file"}
        BY <1>1, <1>5, <1>13, <2>2, <3>7
      <4>7. ~back => fs[discard[c]] = made[p]
        BY <1>5, <1>13, <2>2, <4>1
      <4>8. QED
        BY <3>2, <3>3, <3>4, <4>5, <4>6, <4>7
    <3>8. CASE CommitDb(c) \/ RevertDb(c)
      <4>1. fs' = fs /\ pc[c] \notin Swapping /\ (pc[c] = "revert_db" => pc'[c] = "revert_file")
            /\ pc[c] # "revert_file"
        BY <1>2, <1>7, <3>8 DEF disk, Goto, Swapping
      <4>2. back => \E d \in Clients : pc'[d] \in {"revert_db", "revert_file"}
        BY <1>1, <1>5, <1>13, <2>2, <4>1
      <4>3. QED
        BY <1>1, <1>5, <1>13, <2>2, <3>3, <3>4, <4>1, <4>2
    <3>9. ~(CommitFile(c) \/ RevertFile(c))
      BY <1>11, <1>13, <2>2, <3>2
    <3>10. QED
      BY <3>1, <3>5, <3>6, <3>7, <3>8, <3>9 DEF Continue, StageSteps
  <2>3. QED
    BY <2>1, <2>2
<1>14. ASSUME p \in Plans, dbPlan'[p] = "awaiting_reboot"
       PROVE  file'[p] = "awaiting_reboot" \/ \E d \in Clients : pc'[d] = "plan_file"
  <2>1. CASE own = p /\ StagePlanRow(c) /\ pc'[c] = "plan_file"
    BY <2>1
  <2>2. CASE dbPlan[p] = "awaiting_reboot"
    <3>1. CASE file[p] = "awaiting_reboot"
      <4>1. own = p => ~(CommitFile(c) \/ RevertFile(c))
        BY <1>4, <2>2
      <4>2. own = p /\ StagePlanFile(c) => FALSE
        BY <1>4, <3>1 DEF StageSteps
      <4>3. QED
        BY <1>9, <1>11, <1>14, <3>1, <4>1, <4>2
    <3>2. CASE \E d \in Clients : pc[d] = "plan_file"
      <4>1. PICK d \in Clients : pc[d] = "plan_file"
        BY <3>2
      <4>2. CASE d = c
        BY <1>4, <1>11, <4>1, <4>2 DEF StageSteps
      <4>3. QED
        BY <1>1, <4>1, <4>2
    <3>3. QED
      BY <1>6, <1>14, <2>2, <3>1, <3>2
  <2>3. QED
    BY <1>10, <1>14, <2>1, <2>2
<1>15. QED
  BY <1>3, <1>12, <1>13, <1>14 DEF NewestStands, RebootedSince

\* A new rollback is the newest and has nothing recorded; only the newest is answered.
LEMMA BeginAnswersInv ==
    ASSUME NEW c \in Clients, TypeOK, AnswersInv,
           \/ Quiet /\ fs[Root] = running /\ Stage(c)
           \/ (\A d \in Clients : pc[d] \in AnswerSteps) /\ Answer(c)
    PROVE  RootAtHand' /\ NewestStands'
<1> DEFINE p == nplan
           back == fs[plan[p].ret] = NoSubvol
<1>1. /\ UNCHANGED <<fs, snaps, boot, running, dbPlan, file, made, faults, crashes>>
      /\ pc[c] = "idle" /\ pc' \in {[pc EXCEPT ![c] = step] : step \in {"rename", "commit_db", "revert_out"}}
  BY DEF Stage, Answer, StageBegin, CommitBegin, RevertBegin, Goto, disk, machine, history, state
<1>2. /\ pc'[c] \in {"rename", "commit_db", "revert_out"}
      /\ \A d \in Clients : d # c => pc'[d] = pc[d]
      /\ pc'[c] \notin Swapping
  BY <1>1 DEF TypeOK, Swapping
<1>3. CASE Quiet /\ fs[Root] = running /\ Stage(c)
  <2>1. PICK s \in Returns \cup Discards \cup Snaps, r \in Returns : StageBegin(c, s, r)
    BY <1>3 DEF Stage
  <2>2. /\ nplan \in Nat /\ nplan + 1 \in Plans /\ nplan' = nplan + 1
        /\ job'[c] = nplan + 1 /\ pc'[c] = "rename" /\ Exists(s)
        /\ plan'[nplan + 1].source = s /\ plan'[nplan + 1].created_boot = boot
    BY <2>1, BoundsAssumption DEF StageBegin, Goto, TypeOK, Plans
  <2>3. \A d \in Clients : d # c => pc'[d] = "idle"
    BY <1>2, <1>3 DEF Quiet
  <2>4. file[nplan + 1] = "none" /\ dbPlan[nplan + 1] = "none"
    BY <2>2 DEF AnswersInv, SwapInv, OnKeptPlans
  <2>5. RootAtHand'
    <3>1. s # Root /\ P(c)'.source = s
      BY <2>2, NamesAssumption DEF P
    <3>2. Exists(s)'
      BY <1>1, <2>2 DEF Exists
    <3>3. crashes = 0 /\ faults = 0 /\ snaps = Snaps => fs[Root] # NoSubvol
      BY <1>3 DEF AnswersInv, RootAtHand, Quiet, Swapping
    <3>4. QED
      BY <1>1, <2>2, <2>3, <3>1, <3>2, <3>3 DEF RootAtHand
  <2>6. NewestStands'
    BY <1>1, <2>2, <2>3, <2>4 DEF NewestStands, StageSteps
  <2>7. QED
    BY <2>5, <2>6
<1>4. CASE (\A d \in Clients : pc[d] \in AnswerSteps) /\ Answer(c)
  <2>1. UNCHANGED plans
    BY <1>4 DEF Answer, CommitBegin, RevertBegin
  <2>2. PICK q \in Plans : IsPending(q) /\ job' = [job EXCEPT ![c] = q]
    BY <1>4 DEF Answer, CommitBegin, RevertBegin
  <2>3. /\ job'[c] = q /\ \A d \in Clients : d # c => job'[d] = job[d]
        /\ \A d \in Clients : d # c => discard'[d] = discard[d]
    BY <1>4, <2>2 DEF TypeOK, Answer, CommitBegin, RevertBegin
  <2>4. pc'[c] \in {"commit_db", "revert_out"}
    BY <1>4 DEF Answer, CommitBegin, RevertBegin, Goto, TypeOK
  <2>5. \A d \in Clients : pc'[d] \notin StageSteps /\ pc'[d] \in AnswerSteps
    BY <1>2, <1>4, <2>4 DEF AnswerSteps, StageSteps
  <2>6. RootAtHand'
    <3>1. crashes = 0 /\ faults = 0 /\ snaps = Snaps =>
             (\E d \in Clients : d # c /\ pc'[d] \in {"snapshot"} \cup Swapping) \/ fs[Root] # NoSubvol
      BY <1>1, <1>2 DEF AnswersInv, RootAtHand, Swapping
    <3>2. \A d \in Clients : pc'[d] \notin {"recover_delete", "recover_rename", "rename", "snapshot"}
      BY <2>5 DEF AnswerSteps
    <3>3. QED
      BY <1>1, <3>1, <3>2 DEF RootAtHand
  <2>7. p \in Plans /\ file[p] = "awaiting_reboot" => q = p
    <3>1. SUFFICES ASSUME p \in Plans, file[p] = "awaiting_reboot"
                   PROVE  q = p
      OBVIOUS
    <3>2. p <= q
      BY <2>2, <3>1 DEF IsPending, Readable, PlanStatus
    <3>3. q \in Kept
      BY <2>2, PendingIsKept DEF AnswersInv, SwapInv
    <3>4. QED
      BY <3>1, <3>2, <3>3 DEF Kept, Plans
  <2>8. NewestStands'
    <3> SUFFICES ASSUME crashes = 0, faults = 0
                 PROVE  NewestStands'
      BY <1>1 DEF NewestStands
    <3>1. \A d \in Clients : pc'[d] \in {"commit_file", "revert_file"} => dbPlan[job'[d]] # "awaiting_reboot"
      BY <1>2, <2>3, <2>4 DEF AnswersInv, NewestStands
    <3>2. ASSUME p \in Plans, file[p] = "awaiting_reboot"
          PROVE  /\ \A d \in Clients : pc'[d] # "idle" => job'[d] = p
                 /\ made[p] # NoSubvol
                 /\ back => \E d \in Clients : pc'[d] \in {"revert_db", "revert_file"}
                 /\ ~back => \/ fs[Root] = made[p]
                             \/ \E d \in Clients : pc'[d] \in Swapping /\ fs[discard'[d]] = made[p]
                 /\ RebootedSince(p) => running = made[p]
      <4>1. /\ \A d \in Clients : pc[d] # "idle" => job[d] = p
            /\ made[p] # NoSubvol
            /\ back => \E d \in Clients : d # c /\ pc[d] \in {"revert_db", "revert_file"}
            /\ ~back => \/ fs[Root] = made[p]
                        \/ \E d \in Clients : d # c /\ pc[d] \in Swapping /\ fs[discard[d]] = made[p]
            /\ RebootedSince(p) => running = made[p]
        BY <1>1, <3>2 DEF AnswersInv, NewestStands, Swapping
      <4>2. QED
        BY <1>2, <2>3, <2>7, <3>2, <4>1
    <3>3. p \in Plans /\ dbPlan[p] = "awaiting_reboot" => file[p] = "awaiting_reboot"
      BY <1>4 DEF AnswersInv, NewestStands, AnswerSteps
    <3>4. QED
      BY <1>1, <2>1, <2>5, <3>1, <3>2, <3>3 DEF NewestStands, RebootedSince, plans, StageSteps
  <2>9. QED
    BY <2>6, <2>8
<1>5. QED
  BY <1>3, <1>4

\* A death counts as a crash, a lost source disturbs; an orderly reboot finds all
\* requests at rest and boots what stands at Root.
LEMMA EnvironmentAnswersInv ==
    ASSUME TypeOK, AnswersInv, Environment
    PROVE  RootAtHand' /\ NewestStands'
<1>1. CASE \E s \in Snaps : RemoveSource(s)
  <2>1. snaps' # Snaps /\ UNCHANGED <<fs, machine, state, plans, requests, faults, crashes, history>>
    BY <1>1 DEF RemoveSource
  <2>2. NewestStands'
    BY <2>1 DEF AnswersInv, NewestStands, RebootedSince, machine, state, plans, requests, history
  <2>3. QED
    BY <2>1, <2>2 DEF RootAtHand
<1>2. CASE crashes' = crashes + 1
  <2>1. crashes' # 0
    BY <1>2, BoundsAssumption DEF TypeOK
  <2>2. QED
    BY <2>1 DEF RootAtHand, NewestStands
<1>3. CASE Reboot /\ Quiet
  <2>1. /\ UNCHANGED <<disk, dbAnchors, dbPlan, plans, job, discard, faults, history>>
        /\ running' = fs[Root] /\ TearFiles(Clients) /\ crashes' = crashes
        /\ \A c \in Clients : pc'[c] = "idle" /\ pc[c] = "idle"
    BY <1>3 DEF Reboot, Quiet
  <2>2. \A c \in Clients : ~Writing(c)
    BY <2>1 DEF Writing
  <2>3. file' = file
    BY <2>1, <2>2 DEF TearFiles, TypeOK
  <2>4. RootAtHand'
    BY <2>1 DEF AnswersInv, RootAtHand, Swapping, disk
  <2>5. NewestStands'
    BY <2>1, <2>3 DEF AnswersInv, NewestStands, Swapping, disk, plans, history, RebootedSince, StageSteps
  <2>6. QED
    BY <2>4, <2>5
<1>4. QED
  BY <1>1, <1>2, <1>3 DEF Environment, Crash, Reboot

\* Every step of AnswersSpec keeps AnswersInv.
LEMMA NextAnswersInv == TypeOK /\ AnswersInv /\ [AnswersNext]_vars => AnswersInv'
<1>1. ASSUME TypeOK, AnswersInv, AnswersNext
      PROVE  RootAtHand' /\ NewestStands'
  <2>1. CASE Environment
    BY <1>1, <2>1, EnvironmentAnswersInv
  <2>2. ASSUME NEW c \in Clients,
               \/ Quiet /\ fs[Root] = running /\ Stage(c)
               \/ (\A d \in Clients : pc[d] \in AnswerSteps) /\ Answer(c)
               \/ Continue(c)
        PROVE  RootAtHand' /\ NewestStands'
    BY <1>1, <2>2, BeginAnswersInv, ContinueRootAtHand, ContinueNewestStands DEF AnswersInv
  <2>3. QED
    BY <1>1, <2>1, <2>2 DEF AnswersNext
<1>2. ASSUME AnswersInv, UNCHANGED vars
      PROVE  RootAtHand' /\ NewestStands'
  <2>1. RootAtHand'
    BY <1>2 DEF AnswersInv, RootAtHand, Exists, P, vars, disk, plans, requests
  <2>2. NewestStands'
    BY <1>2 DEF AnswersInv, NewestStands, RebootedSince, vars, disk, machine, state, plans, requests, history
  <2>3. QED
    BY <2>1, <2>2
<1>3. QED
  BY <1>1, <1>2, NextSwapInv DEF AnswersInv

\* At first there is the root, and no rollback.
LEMMA InitAnswersInv == Init => AnswersInv
<1> SUFFICES ASSUME Init PROVE AnswersInv
  OBVIOUS
<1>1. fs[Root] # NoSubvol
  BY DEF Init, RootPaths
<1>2. RootAtHand
  BY <1>1 DEF Init, RootAtHand
<1>3. nplan \notin Plans /\ \A c \in Clients : pc[c] = "idle"
  BY DEF Init, Plans
<1>4. NewestStands
  BY <1>3 DEF NewestStands, StageSteps
<1>5. QED
  BY <1>2, <1>4, InitSwapInv DEF AnswersInv

\* AnswersInv holds in every state of AnswersSpec.
LEMMA AlwaysAnswersInv == AnswersSpec => [](TypeOK /\ AnswersInv)
<1>1. AnswersSpec => []TypeOK
  BY TypeCorrect, AnswersIsSpec
<1>2. QED
  BY InitAnswersInv, NextAnswersInv, <1>1, PTL DEF AnswersSpec

\* However many clients answer at once: while no command fails and the sources stay,
\* the boot loader finds a root whenever no request is under way.
THEOREM BootableAnswers == AnswersSpec => []BootableUndisturbed
<1>1. AnswersInv => BootableUndisturbed
  BY DEF AnswersInv, RootAtHand, BootableUndisturbed, Quiet, Swapping
<1>2. QED
  BY <1>1, AlwaysAnswersInv, PTL

\* The newest staged rollback is the one the next boot mounts, any number of rollbacks,
\* answers and reboots before it.
THEOREM StagedIsNext == AnswersSpec => []StagedRootIsNext
<1>1. TypeOK /\ AnswersInv => StagedRootIsNext
  BY DEF TypeOK, AnswersInv, NewestStands, StagedRootIsNext, Quiet, Swapping
<1>2. QED
  BY <1>1, AlwaysAnswersInv, PTL

\* And the one that is kept is the one that runs.
THEOREM KeptIsRunning == AnswersSpec => []KeepOfferedOnStagedRoot
<1>1. TypeOK /\ AnswersInv => KeepOfferedOnStagedRoot
  BY DEF AnswersInv, NewestStands, KeepOfferedOnStagedRoot, Quiet, IsPending
<1>2. QED
  BY <1>1, AlwaysAnswersInv, PTL

-----------------------------------------------------------------------------
(* One request at a time: one thing that goes wrong leaves a root to boot. *)

\* What the one request under way works with.
LEMMA SerialFacts ==
    ASSUME NEW c \in Clients, TypeOK, StatusInv, PlansFromRows, Continue(c)
    PROVE  /\ job[c] \in Kept /\ job[c] \in Plans /\ pc[c] # "idle"
           /\ P(c) = plan[job[c]] /\ P(c)' = P(c)
           /\ P(c).replaced \in RootPaths
           /\ P(c).source \in Returns \cup Discards \cup Snaps /\ P(c).source # Root
           /\ P(c).ret \in Returns /\ P(c).ret # Root /\ P(c).ret \in RootPaths
           /\ Root \in RootPaths /\ discard[c] \in RootPaths
           /\ pc[c] \in {"revert_out"} \cup Swapping =>
                  discard[c] # Root /\ discard[c] \notin Returns
           /\ UNCHANGED <<plans, job, discard, crashes, snaps>>
           /\ \A d \in Clients : d # c => pc[d] = "idle" /\ pc'[d] = "idle"
           /\ faults \in Nat /\ (UNCHANGED faults \/ (faults' = faults + 1 /\ Fault))
           /\ fs \in [RootPaths -> Nat] /\ fresh \in Nat
<1>1. /\ job[c] \in Plans /\ UNCHANGED <<plans, job>>
      /\ pc[c] # "idle" /\ pc' = [pc EXCEPT ![c] = pc'[c]]
  BY ContinueWritesOwnPlan
<1>2. UNCHANGED <<discard, crashes, snaps>>
  BY DEF Continue, StageRename, StageSnapshot, StageAnchor,
     StagePlanRow, StagePlanFile, RecoverDelete, RecoverRename, CommitDb,
     CommitFile, RevertOut, RevertIn, RevertUndo, RevertDb, RevertFile, disk
<1>3. UNCHANGED faults \/ (faults' = faults + 1 /\ Fault)
  <2>1. UNCHANGED faults \/ Fault
    BY DEF Continue, StageRename, StageSnapshot, StageAnchor,
     StagePlanRow, StagePlanFile, RecoverDelete, RecoverRename, CommitDb,
     CommitFile, RevertOut, RevertIn, RevertUndo, RevertDb, RevertFile,
     FaultOr, NoFault, SetFileStatus
  <2>2. QED
    BY <2>1 DEF Fault
<1>4. job[c] \in Kept
  BY <1>1 DEF StatusInv, Kept, Plans, TypeOK
<1>5. P(c) = plan[job[c]] /\ P(c)' = P(c)
  BY <1>1 DEF P, plans
<1>6. /\ P(c).ret \in Returns /\ P(c).source \in Returns \cup Discards \cup Snaps
      /\ pc[c] \in {"revert_out"} \cup Swapping => discard[c] \in Discards
  BY <1>4, <1>5 DEF PlansFromRows
<1>7. \A d \in Clients : d # c => pc[d] = "idle" /\ pc'[d] = "idle"
  BY <1>1 DEF StatusInv, OneRequest, TypeOK
<1>8. P(c).replaced \in RootPaths /\ discard[c] \in RootPaths
  BY <1>1, <1>5 DEF TypeOK
<1>9. faults \in Nat /\ fs \in [RootPaths -> Nat] /\ fresh \in Nat
  BY BoundsAssumption DEF TypeOK
<1>10. QED
  BY <1>1, <1>2, <1>3, <1>4, <1>5, <1>6, <1>7, <1>8, <1>9, NamesAssumption DEF RootPaths

\* With at most one thing gone wrong, a step of a request keeps the root within reach.
LEMMA ContinueRootReturns ==
    ASSUME NEW c \in Clients, TypeOK, StatusInv, BootableInv, Identities, Continue(c)
    PROVE  RootReturns'
<1> USE DEF StageRename, StageSnapshot, StageAnchor,
     StagePlanRow, StagePlanFile, RecoverDelete, RecoverRename, CommitDb,
     CommitFile, RevertOut, RevertIn, RevertUndo, RevertDb, RevertFile
<1> SUFFICES ASSUME OneDisturbance'
             PROVE  RootReturns'
  BY DEF RootReturns
<1> DEFINE src == P(c).source
           old == P(c).replaced
           ret == P(c).ret
           away == discard[c]
<1>1. /\ job[c] \in Kept /\ job[c] \in Plans /\ pc[c] # "idle"
      /\ P(c) = plan[job[c]] /\ P(c)' = P(c) /\ old \in RootPaths
      /\ src \in Returns \cup Discards \cup Snaps /\ src # Root
      /\ ret \in Returns /\ ret # Root /\ ret \in RootPaths
      /\ Root \in RootPaths /\ away \in RootPaths
      /\ pc[c] \in {"revert_out"} \cup Swapping => away # Root /\ away \notin Returns
      /\ UNCHANGED <<plans, job, discard, crashes, snaps>>
      /\ \A d \in Clients : d # c => pc[d] = "idle" /\ pc'[d] = "idle"
      /\ faults \in Nat /\ (UNCHANGED faults \/ (faults' = faults + 1 /\ Fault))
      /\ fs \in [RootPaths -> Nat] /\ fresh \in Nat
  BY SerialFacts DEF BootableInv
<1>2. /\ OneDisturbance
      /\ faults' # faults => Undisturbed /\ ~Undisturbed'
      /\ faults' = faults => Undisturbed' = Undisturbed
  BY <1>1 DEF OneDisturbance, Undisturbed
<1>3. /\ fs[Root] # NoSubvol \/ (pc[c] \in Moved /\ old = Root)
      /\ pc[c] \in {"rename", "snapshot"} /\ Undisturbed /\ (src # old \/ ret = old)
            => Exists(src)
      /\ pc[c] \in {"recover_delete", "recover_rename"} /\ Undisturbed => src = old /\ ret # old
      /\ pc[c] \in Swapping => fs[away] # NoSubvol /\ (fs[old] = NoSubvol \/ away = old)
      /\ ret # old =>
           /\ pc[c] \in StageSteps \ {"rename"} => fs[ret] # NoSubvol
           /\ pc[c] \in {"snapshot", "recover_rename"} => fs[old] = NoSubvol
           /\ pc[c] = "recover_delete" /\ faults = 0 => fs[old] = NoSubvol
           /\ pc[c] = "revert_undo" /\ away # old => ~Undisturbed
  <2>1. RootReturns
    BY DEF BootableInv
  <2>2. fs[Root] # NoSubvol \/ \E d \in Clients : pc[d] \in Moved /\ P(d).replaced = Root
    BY <1>2, <2>1 DEF RootReturns
  <2>3. \A d \in Clients : pc[d] \in Moved => d = c
    BY <1>1 DEF Moved, Swapping
  <2>4. QED
    BY <1>1, <1>2, <2>1, <2>2, <2>3 DEF RootReturns, Away
<1>4. SUFFICES
      /\ fs'[Root] # NoSubvol \/ (pc'[c] \in Moved /\ old = Root)
      /\ pc'[c] \in {"rename", "snapshot"} /\ Undisturbed' /\ (src # old \/ ret = old)
            => Exists(src)'
      /\ pc'[c] \in {"recover_delete", "recover_rename"} /\ Undisturbed' => src = old /\ ret # old
      /\ pc'[c] \in Swapping => fs'[away] # NoSubvol /\ (fs'[old] = NoSubvol \/ away = old)
      /\ ret # old =>
           /\ pc'[c] \in StageSteps \ {"rename"} => fs'[ret] # NoSubvol
           /\ pc'[c] \in {"snapshot", "recover_rename"} => fs'[old] = NoSubvol
           /\ pc'[c] = "recover_delete" /\ faults' = 0 => fs'[old] = NoSubvol
           /\ pc'[c] = "revert_undo" /\ away # old => ~Undisturbed'
  <2>1. fs'[Root] # NoSubvol \/ \E d \in Clients : pc'[d] \in Moved /\ P(d)'.replaced = Root
    BY <1>1, <1>4
  <2>2. ASSUME NEW d \in Clients
        PROVE  /\ pc'[d] \in {"rename", "snapshot"} /\ Undisturbed'
                    /\ (P(d)'.source # P(d)'.replaced \/ ~Away(job[d])') => Exists(P(d).source)'
               /\ pc'[d] \in {"recover_delete", "recover_rename"} /\ Undisturbed'
                    => P(d)'.source = P(d)'.replaced /\ Away(job[d])'
               /\ pc'[d] \in Swapping =>
                    /\ fs'[discard'[d]] # NoSubvol
                    /\ fs'[P(d)'.replaced] = NoSubvol \/ discard'[d] = P(d)'.replaced
               /\ Away(job[d])' =>
                    /\ pc'[d] \in StageSteps \ {"rename"} => fs'[P(d)'.ret] # NoSubvol
                    /\ pc'[d] \in {"snapshot", "recover_rename"} => fs'[P(d)'.replaced] = NoSubvol
                    /\ pc'[d] = "recover_delete" /\ faults' = 0 => fs'[P(d)'.replaced] = NoSubvol
                    /\ pc'[d] = "revert_undo" /\ discard'[d] # P(d)'.replaced => ~Undisturbed'
    <3>1. CASE d = c
      <4>1. Away(job[c])' <=> ret # old
        BY <1>1 DEF Away, plans
      <4>2. QED
        BY <1>1, <1>4, <3>1, <4>1 DEF Exists
    <3>2. CASE d # c
      BY <1>1, <3>2 DEF StageSteps, Swapping
    <3>3. QED
      BY <3>1, <3>2
  <2>3. QED
    BY <2>1, <2>2 DEF RootReturns
<1>5. faults' = faults => \/ NoFault
                          \/ ~Fault
  BY <1>1 DEF NoFault
<1>6. CASE StageRename(c)
  <2>o. CASE CanRename(old, ret) /\ Rename(old, ret) /\ pc'[c] = "snapshot" /\ NoFault
             /\ ret = old
    <3>1. fs' = fs /\ old # Root
      BY <1>1, <2>o, RenameEffect
    <3>2. Undisturbed' => Exists(src)'
      BY <1>1, <1>2, <1>3, <1>6, <2>o, <3>1 DEF NoFault, Exists
    <3>3. QED
      BY <1>3, <1>6, <2>o, <3>1, <3>2 DEF Moved, Swapping
  <2>1. CASE CanRename(old, ret) /\ Rename(old, ret) /\ pc'[c] = "snapshot" /\ NoFault
             /\ ret # old
    <3>1. /\ fs'[old] = NoSubvol /\ fs'[ret] # NoSubvol /\ old # ret
          /\ \A q \in RootPaths : q # old /\ q # ret => fs'[q] = fs[q]
      BY <1>1, <2>1, RenameEffect
    <3>2. Undisturbed' /\ src # old => Exists(src)'
      <4>1. Undisturbed' /\ src # old => Exists(src)
        BY <1>2, <1>3, <1>6, <2>1 DEF NoFault
      <4>2. src \in RootPaths /\ Exists(src) => src # ret
        BY <2>1 DEF CanRename, Exists
      <4>3. QED
        BY <1>1, <3>1, <4>1, <4>2 DEF Exists
    <3>3. fs[Root] # NoSubvol
      BY <1>3, <1>6 DEF Moved, Swapping
    <3>4. fs'[Root] # NoSubvol \/ old = Root
      BY <1>1, <3>1, <3>3
    <3>5. QED
      BY <1>3, <2>1, <3>1, <3>2, <3>4 DEF Moved, Swapping
  <2>2. CASE UNCHANGED fs /\ pc'[c] = "idle"
    BY <1>3, <1>6, <2>2 DEF Moved, Swapping, StageSteps
  <2>3. QED
    BY <1>6, <2>o, <2>1, <2>2 DEF Goto, TypeOK
<1>7. CASE StageSnapshot(c)
  <2>o. CASE UNCHANGED fs /\ fs[old] # NoSubvol /\ pc'[c] = "anchor"
    <3>1. fs'[Root] # NoSubvol
      BY <1>1, <1>3, <1>7, <2>o
    <3>2. QED
      BY <1>3, <1>7, <2>o, <3>1 DEF Swapping, StageSteps
  <2>1. CASE fs' = [fs EXCEPT ![old] = fresh] /\ pc'[c] = "anchor"
    <3>1. fresh # NoSubvol
      BY DEF Identities, TypeOK
    <3>2. fs'[Root] # NoSubvol /\ (ret # old => fs'[ret] # NoSubvol)
      BY <1>1, <1>3, <1>7, <2>1, <3>1 DEF StageSteps
    <3>3. QED
      BY <1>3, <1>7, <2>1, <3>2 DEF Swapping, StageSteps
  <2>2. CASE UNCHANGED fs /\ pc'[c] = "recover_delete" /\ FaultOr(~Exists(src))
    <3>1. Undisturbed' => src = old /\ ret # old
      <4>1. Undisturbed' => faults' = faults /\ Undisturbed
        BY <1>1, <1>2
      <4>2. Undisturbed' => ~Exists(src)
        BY <1>1, <2>2, <4>1 DEF FaultOr, Fault
      <4>3. QED
        BY <1>3, <1>7, <4>1, <4>2
    <3>2. QED
      BY <1>3, <1>7, <2>2, <3>1 DEF Moved, Swapping, StageSteps
  <2>3. QED
    BY <1>7, <2>o, <2>1, <2>2 DEF Goto, TypeOK
<1>8. CASE StageAnchor(c) \/ StagePlanRow(c) \/ StagePlanFile(c)
  <2>1. UNCHANGED fs
    BY <1>8 DEF disk
  <2>2. \/ pc'[c] \in {"plan_row", "plan_file", "idle"}
        \/ pc'[c] = "recover_delete" /\ faults' = faults + 1
    BY <1>8 DEF Goto, TypeOK, Fault
  <2>3. pc'[c] = "recover_delete" => ~Undisturbed' /\ faults' # 0
    BY <1>1, <1>2, <2>2
  <2>4. QED
    BY <1>3, <1>8, <2>1, <2>2, <2>3 DEF Moved, Swapping, StageSteps
<1>9. CASE RecoverDelete(c)
  <2>1. CASE fs[old] # NoSubvol /\ Fault
    <3>1. faults = 0 /\ UNCHANGED fs /\ pc'[c] = "idle"
      BY <1>1, <1>9, <2>1 DEF Fault, OneDisturbance, Goto, TypeOK, NoFault
    <3>2. ret = old
      BY <1>3, <1>9, <2>1, <3>1
    <3>3. QED
      BY <1>1, <1>3, <3>1, <3>2 DEF Moved, Swapping, StageSteps
  <2>2. CASE fs' = [fs EXCEPT ![old] = NoSubvol] /\ pc'[c] = "recover_rename" /\ NoFault
    <3>1. ret # old => fs'[ret] # NoSubvol
      BY <1>1, <1>3, <1>9, <2>2 DEF StageSteps
    <3>2. fs'[old] = NoSubvol /\ (old # Root => fs'[Root] = fs[Root])
      BY <1>1, <2>2
    <3>3. Undisturbed' => src = old /\ ret # old
      BY <1>2, <1>3, <1>9, <2>2 DEF NoFault
    <3>4. QED
      BY <1>1, <1>3, <1>9, <2>2, <3>1, <3>2, <3>3 DEF Moved, Swapping
  <2>3. QED
    BY <1>9, <2>1, <2>2 DEF Goto, TypeOK
<1>10. CASE RecoverRename(c)
  <2>1. ret # old => CanRename(ret, old)
    BY <1>3, <1>10 DEF CanRename, StageSteps
  <2>2. pc'[c] = "idle"
    BY <1>10 DEF Goto, TypeOK
  <2>o. CASE ret = old
    <3>1. fs'[Root] = fs[Root]
      <4>1. CASE CanRename(ret, old) /\ Rename(ret, old)
        BY <1>1, <2>o, <4>1, RenameEffect
      <4>2. CASE UNCHANGED fs
        BY <4>2
      <4>3. QED
        BY <1>10, <4>1, <4>2
    <3>2. QED
      BY <1>1, <1>3, <2>2, <2>o, <3>1 DEF Moved, Swapping, StageSteps
  <2>3. CASE CanRename(ret, old) /\ Rename(ret, old) /\ ret # old
    <3>1. fs'[old] # NoSubvol /\ (old # Root => fs'[Root] = fs[Root])
      BY <1>1, <2>3, RenameEffect
    <3>2. QED
      BY <1>3, <2>2, <3>1 DEF Moved, Swapping, StageSteps
  <2>4. CASE Fault /\ UNCHANGED fs
    <3>1. Undisturbed
      BY <1>1, <1>2, <2>4 DEF Fault
    <3>2. old # Root
      BY <1>1, <1>3, <1>10, <3>1
    <3>3. QED
      BY <1>3, <2>2, <2>4, <3>2 DEF Moved, Swapping, StageSteps
  <2>5. QED
    BY <1>10, <2>1, <2>o, <2>3, <2>4 DEF FaultOr
<1>11. CASE RevertOut(c)
  <2>1. CASE CanRename(old, away) /\ Rename(old, away) /\ pc'[c] = "revert_in"
    <3>1. /\ fs'[old] = NoSubvol \/ away = old
          /\ fs'[away] # NoSubvol
          /\ old # Root => fs'[Root] = fs[Root]
      BY <1>1, <1>11, <2>1, RenameEffect
    <3>2. QED
      BY <1>3, <1>11, <2>1, <3>1 DEF Moved, Swapping, StageSteps
  <2>2. CASE UNCHANGED fs /\ pc'[c] = "idle"
    BY <1>3, <1>11, <2>2 DEF Moved, Swapping, StageSteps
  <2>3. QED
    BY <1>11, <2>1, <2>2 DEF Goto, TypeOK
<1>12. CASE RevertIn(c)
  <2>1. CASE CanRename(ret, old) /\ Rename(ret, old) /\ pc'[c] = "revert_db"
    <3>1. fs'[old] # NoSubvol /\ (old # Root => fs'[Root] = fs[Root])
      BY <1>1, <2>1, RenameEffect
    <3>2. QED
      BY <1>3, <2>1, <3>1 DEF Moved, Swapping, StageSteps
  <2>2. CASE UNCHANGED fs /\ pc'[c] = "revert_undo" /\ FaultOr(~CanRename(ret, old))
    <3>1. ASSUME Undisturbed', ret # old, away # old
          PROVE  FALSE
      <4>1. Undisturbed /\ ~CanRename(ret, old)
        <5>1. faults' = faults /\ Undisturbed
          BY <1>1, <1>2, <3>1
        <5>2. QED
          BY <1>1, <2>2, <5>1 DEF FaultOr, Fault
      <4>2. file[job[c]] = "awaiting_reboot"
        BY <1>12, <4>1 DEF BootableInv, ReturnsStay
      <4>3. \/ fs[ret] # NoSubvol
            \/ \E d \in Clients : pc[d] \in Moved /\ P(d).replaced = ret
            \/ \E d \in Clients : pc[d] \in {"revert_db", "revert_file"} /\ job[d] = job[c]
        BY <1>1, <3>1, <4>1, <4>2 DEF BootableInv, ReturnsStay, Away
      <4>4. \A d \in Clients : /\ pc[d] \in Moved => d = c
                               /\ pc[d] \notin {"revert_db", "revert_file"}
        BY <1>1, <1>12 DEF Moved, Swapping
      <4>5. fs[ret] # NoSubvol
        BY <3>1, <4>3, <4>4
      <4>6. QED
        BY <1>3, <1>12, <3>1, <4>1, <4>5 DEF CanRename, Swapping
    <3>2. QED
      BY <1>3, <1>12, <2>2, <3>1 DEF Moved, Swapping, StageSteps
  <2>3. QED
    BY <1>12, <2>1, <2>2 DEF Goto, TypeOK
<1>13. CASE RevertUndo(c)
  <2>1. CanRename(away, old)
    BY <1>3, <1>13 DEF CanRename, Swapping
  <2>2. old = Root => ~Fault
    BY <1>2, <1>3, <1>13, <1>1 DEF Fault, Swapping
  <2>3. /\ pc'[c] = "idle" /\ (Rename(away, old) \/ UNCHANGED fs)
        /\ old = Root => Rename(away, old)
    BY <1>13, <2>1, <2>2 DEF FaultOr, Goto, TypeOK
  <2>4. old = Root => fs'[Root] # NoSubvol
    BY <1>1, <2>1, <2>3, RenameEffect
  <2>5. old # Root => fs'[Root] = fs[Root]
    BY <1>1, <1>13, <2>1, <2>3, RenameEffect DEF Swapping
  <2>6. QED
    BY <1>3, <2>3, <2>4, <2>5 DEF Moved, Swapping, StageSteps
<1>14. CASE CommitDb(c) \/ CommitFile(c) \/ RevertDb(c) \/ RevertFile(c)
  <2>1. UNCHANGED fs /\ pc'[c] \in {"commit_file", "revert_file", "idle"}
    BY <1>14 DEF disk, Goto, TypeOK
  <2>2. QED
    BY <1>3, <1>14, <2>1 DEF Moved, Swapping, StageSteps
<1>15. QED
  BY <1>6, <1>7, <1>8, <1>9, <1>10, <1>11, <1>12, <1>13, <1>14 DEF Continue

\* While nothing went wrong, a step of a request leaves every staged plan its return
\* path.
LEMMA ContinueReturnsStay ==
    ASSUME NEW c \in Clients, TypeOK, StatusInv, BootableInv, Identities, Continue(c)
    PROVE  ReturnsStay'
<1> USE DEF StageRename, StageSnapshot, StageAnchor,
     StagePlanRow, StagePlanFile, RecoverDelete, RecoverRename, CommitDb,
     CommitFile, RevertOut, RevertIn, RevertUndo, RevertDb, RevertFile
<1> SUFFICES ASSUME Undisturbed'
             PROVE  ReturnsStay'
  BY DEF ReturnsStay
<1> DEFINE own == job[c]
           old == P(c).replaced
           ret == P(c).ret
           away == discard[c]
           Waits(p) == file[p] = "awaiting_reboot"
           Holds(p) == Waits(p) /\ plan[p].ret # plan[p].replaced
<1>1. /\ own \in Kept /\ own \in Plans
      /\ P(c) = plan[own] /\ P(c)' = P(c) /\ old \in RootPaths
      /\ ret \in Returns /\ ret \in RootPaths /\ away \in RootPaths
      /\ pc[c] \in {"revert_out"} \cup Swapping => away # Root /\ away \notin Returns
      /\ UNCHANGED <<plans, job, discard, crashes, snaps>>
      /\ \A d \in Clients : d # c => pc[d] = "idle" /\ pc'[d] = "idle"
      /\ faults \in Nat /\ (UNCHANGED faults \/ (faults' = faults + 1 /\ Fault))
      /\ fs \in [RootPaths -> Nat] /\ fresh \in Nat
  BY SerialFacts DEF BootableInv
<1>2. Undisturbed /\ NoFault /\ ~Fault /\ OneDisturbance
  BY <1>1 DEF Undisturbed, OneDisturbance, NoFault, Fault
<1>3. /\ pc[c] \in StageSteps \ {"rename"} /\ ret # old => fs[ret] # NoSubvol
      /\ pc[c] \in {"snapshot", "recover_delete", "recover_rename"} /\ ret # old
            => fs[old] = NoSubvol
      /\ pc[c] \in {"recover_delete", "recover_rename"} => ret # old
      /\ pc[c] \in Swapping => fs[away] # NoSubvol /\ (fs[old] = NoSubvol \/ away = old)
  BY <1>1, <1>2 DEF BootableInv, RootReturns, Undisturbed, Away
<1>4. \A p \in Kept : Holds(p) =>
        /\ \/ fs[plan[p].ret] # NoSubvol
           \/ pc[c] \in Moved /\ old = plan[p].ret
           \/ pc[c] \in {"revert_db", "revert_file"} /\ own = p
        /\ \A q \in Kept : Holds(q) /\ plan[q].ret = plan[p].ret => q = p
        /\ pc[c] \in StageSteps \ {"rename"} /\ ret # old => ret # plan[p].ret
  <2>1. ReturnsStay /\ \A d \in Clients : /\ pc[d] \in Moved => d = c
                                          /\ pc[d] \in {"revert_db", "revert_file"} => d = c
    BY <1>1 DEF BootableInv, Moved, Swapping
  <2>2. QED
    BY <1>1, <1>2, <2>1 DEF ReturnsStay, Away
<1>5. \A p \in Plans : dbPlan[p] = "awaiting_reboot" =>
        Waits(p) \/ (pc[c] = "plan_file" /\ own = p)
  BY <1>1, <1>2 DEF BootableInv, ReturnsStay
<1>6. pc[c] \in {"revert_out", "revert_in"} => Waits(own)
  BY <1>2 DEF BootableInv, ReturnsStay
<1>7. /\ \A p \in Plans : p # own => dbPlan'[p] = dbPlan[p] /\ file'[p] = file[p]
      /\ pc' = [pc EXCEPT ![c] = pc'[c]]
      /\ pc[c] \in StageSteps => ~Waits(own)
      /\ Kept \subseteq Plans /\ Kept' = Kept /\ plan' = plan
  <2>1. nplan \in Nat /\ MaxPlans \in Nat /\ nplan <= MaxPlans
    BY BoundsAssumption DEF TypeOK
  <2>2. Kept \subseteq Plans
    BY <2>1 DEF Kept, Plans
  <2>3. pc[c] \in StageSteps => ~Waits(own)
    BY DEF StatusInv, Readable, PlanStatus
  <2>4. Kept' = Kept /\ plan' = plan
    BY <1>1 DEF plans, Kept
  <2>5. QED
    BY <2>2, <2>3, <2>4, ContinueWritesOwnPlan
<1>8. file'[own] = "awaiting_reboot" => Waits(own) \/ pc[c] = "plan_file"
  BY <1>1, <1>2 DEF Continue, SetFileStatus, TypeOK, state
<1>9. \A p \in Plans : file'[p] = "awaiting_reboot" /\ ~Waits(p) => p = own /\ pc[c] = "plan_file"
  BY <1>7, <1>8
<1>10. SUFFICES
       /\ \A p \in Kept : file'[p] = "awaiting_reboot" /\ plan[p].ret # plan[p].replaced =>
            /\ \/ fs'[plan[p].ret] # NoSubvol
               \/ pc'[c] \in Moved /\ old = plan[p].ret
               \/ pc'[c] \in {"revert_db", "revert_file"} /\ own = p
            /\ pc'[c] \in StageSteps \ {"rename"} /\ ret # old => ret # plan[p].ret
       /\ dbPlan'[own] = "awaiting_reboot" =>
            file'[own] = "awaiting_reboot" \/ pc'[c] = "plan_file"
       /\ pc'[c] \in {"revert_out", "revert_in"} => file'[own] = "awaiting_reboot"
  <2>1. ASSUME NEW p \in Kept, file'[p] = "awaiting_reboot", plan[p].ret # plan[p].replaced
        PROVE  /\ \/ fs'[plan'[p].ret] # NoSubvol
                  \/ \E d \in Clients : pc'[d] \in Moved /\ P(d)'.replaced = plan'[p].ret
                  \/ \E d \in Clients : pc'[d] \in {"revert_db", "revert_file"} /\ job'[d] = p
               /\ \A q \in Kept' :
                    file'[q] = "awaiting_reboot" /\ Away(q)' /\ plan'[q].ret = plan'[p].ret => q = p
               /\ \A d \in Clients :
                    pc'[d] \in StageSteps \ {"rename"} /\ Away(job[d])' => P(d)'.ret # plan'[p].ret
    <3>1. /\ \/ fs'[plan'[p].ret] # NoSubvol
             \/ \E d \in Clients : pc'[d] \in Moved /\ P(d)'.replaced = plan'[p].ret
             \/ \E d \in Clients : pc'[d] \in {"revert_db", "revert_file"} /\ job'[d] = p
      BY <1>1, <1>7, <1>10, <2>1
    <3>3. ASSUME NEW q \in Kept, file'[q] = "awaiting_reboot", plan[q].ret # plan[q].replaced,
                 plan[q].ret = plan[p].ret
          PROVE  q = p
      <4>1. p \in Plans /\ q \in Plans
        BY <1>7
      <4>2. CASE Waits(p) /\ Waits(q)
        BY <1>4, <2>1, <3>3, <4>2
      <4>3. CASE ~Waits(p) /\ Waits(q)
        BY <1>1, <1>4, <1>9, <2>1, <3>3, <4>1, <4>3 DEF StageSteps
      <4>4. CASE Waits(p) /\ ~Waits(q)
        BY <1>1, <1>4, <1>9, <2>1, <3>3, <4>1, <4>4 DEF StageSteps
      <4>5. CASE ~Waits(p) /\ ~Waits(q)
        BY <1>9, <2>1, <3>3, <4>1, <4>5
      <4>6. QED
        BY <4>2, <4>3, <4>4, <4>5
    <3>4. \A d \in Clients : pc'[d] \in StageSteps \ {"rename"} /\ Away(job[d])'
                                => P(d)'.ret # plan'[p].ret
      BY <1>1, <1>7, <1>10, <2>1 DEF StageSteps, Away
    <3>5. QED
      BY <1>7, <3>1, <3>3, <3>4 DEF Away
  <2>2. ASSUME NEW p \in Plans, dbPlan'[p] = "awaiting_reboot"
        PROVE  \/ file'[p] = "awaiting_reboot"
               \/ \E d \in Clients : pc'[d] = "plan_file" /\ job'[d] = p
    BY <1>1, <1>5, <1>7, <1>10, <2>2
  <2>3. \A d \in Clients : pc'[d] \in {"revert_out", "revert_in"} => file'[job'[d]] = "awaiting_reboot"
    BY <1>1, <1>10
  <2>4. QED
    BY <1>7, <2>1, <2>2, <2>3 DEF ReturnsStay, Away
<1>11. pc[c] \in StageSteps /\ dbPlan[own] = "awaiting_reboot" => pc[c] = "plan_file"
  BY <1>1, <1>5, <1>7
<1>12. CASE StageRename(c)
  <2>1. file' = file /\ dbPlan' = dbPlan
    BY <1>12 DEF state
  <2>2. \A p \in Kept : Holds(p) => fs[plan[p].ret] # NoSubvol
    BY <1>4, <1>12, <2>1 DEF Moved, Swapping
  <2>o. CASE Rename(old, ret) /\ CanRename(old, ret) /\ pc'[c] = "snapshot" /\ ret = old
    <3>1. fs' = fs
      BY <1>1, <2>o, RenameEffect
    <3>2. QED
      BY <1>11, <1>12, <2>1, <2>2, <2>o, <3>1 DEF StageSteps
  <2>3. CASE CanRename(old, ret) /\ Rename(old, ret) /\ pc'[c] = "snapshot" /\ ret # old
    <3>1. /\ fs[ret] = NoSubvol
          /\ \A q \in RootPaths : q # old /\ q # ret => fs'[q] = fs[q]
      BY <1>1, <2>3 DEF CanRename, Rename
    <3>2. \A p \in Kept : plan[p].ret \in RootPaths
      BY <1>7 DEF TypeOK
    <3>3. QED
      BY <1>11, <1>12, <2>1, <2>2, <2>3, <3>1, <3>2 DEF Moved, StageSteps
  <2>4. CASE UNCHANGED fs /\ pc'[c] = "idle"
    BY <1>11, <1>12, <2>1, <2>2, <2>4 DEF StageSteps
  <2>5. QED
    BY <1>12, <2>o, <2>3, <2>4 DEF Goto, TypeOK
<1>13. CASE StageSnapshot(c)
  <2>1. file' = file /\ dbPlan' = dbPlan
    BY <1>13 DEF state
  <2>2. CASE fs' = [fs EXCEPT ![old] = fresh] /\ pc'[c] = "anchor"
    <3>1. fresh # NoSubvol
      BY DEF Identities, TypeOK
    <3>2. fs'[old] # NoSubvol /\ \A q \in RootPaths : q # old => fs'[q] = fs[q]
      BY <1>1, <2>2, <3>1
    <3>3. \A p \in Kept : plan[p].ret \in RootPaths
      BY <1>7 DEF TypeOK
    <3>4. QED
      BY <1>4, <1>11, <1>13, <2>1, <2>2, <3>2, <3>3 DEF StageSteps
  <2>3. CASE UNCHANGED fs /\ pc'[c] = "recover_delete"
    BY <1>4, <1>11, <1>13, <2>1, <2>3 DEF Moved, StageSteps
  <2>o. CASE UNCHANGED fs /\ fs[old] # NoSubvol /\ pc'[c] = "anchor"
    BY <1>4, <1>11, <1>13, <2>1, <2>o DEF Moved, StageSteps
  <2>4. QED
    BY <1>13, <2>2, <2>3, <2>o DEF Goto, TypeOK
<1>14. CASE StageAnchor(c) \/ StagePlanRow(c)
  <2>1. fs' = fs /\ file' = file /\ pc'[c] \in {"plan_row", "plan_file"}
    BY <1>2, <1>14 DEF disk, Goto, TypeOK
  <2>2. dbPlan'[own] = "awaiting_reboot" => pc'[c] = "plan_file"
    BY <1>2, <1>11, <1>14 DEF Goto, TypeOK, StageSteps
  <2>3. QED
    BY <1>4, <1>14, <2>1, <2>2 DEF Moved, Swapping, StageSteps
<1>15. CASE StagePlanFile(c)
  <2>1. fs' = fs /\ dbPlan' = dbPlan /\ pc'[c] = "idle" /\ file'[own] = "awaiting_reboot"
    BY <1>1, <1>2, <1>15 DEF disk, Goto, TypeOK
  <2>2. \A p \in Kept : p # own /\ file'[p] = "awaiting_reboot" => Waits(p)
    BY <1>7
  <2>3. ret # old => fs[plan[own].ret] # NoSubvol
    BY <1>1, <1>3, <1>15 DEF StageSteps
  <2>4. QED
    BY <1>1, <1>4, <1>15, <2>1, <2>2, <2>3 DEF Moved, Swapping, StageSteps
<1>16. CASE RecoverDelete(c)
  <2>1. file' = file /\ dbPlan' = dbPlan /\ pc'[c] = "recover_rename" /\ fs' = fs
    BY <1>1, <1>2, <1>3, <1>16 DEF state, Goto, TypeOK
  <2>2. QED
    BY <1>4, <1>11, <1>16, <2>1 DEF Moved, StageSteps
<1>17. CASE RecoverRename(c)
  <2>1. file' = file /\ dbPlan' = dbPlan /\ pc'[c] = "idle"
    BY <1>17 DEF state, Goto, TypeOK
  <2>2. CanRename(ret, old)
    BY <1>3, <1>17 DEF CanRename, StageSteps
  <2>3. Rename(ret, old)
    BY <1>2, <1>17, <2>2 DEF FaultOr
  <2>4. /\ fs'[old] # NoSubvol
        /\ \A q \in RootPaths : q # old /\ q # ret => fs'[q] = fs[q]
    BY <1>1, <2>2, <2>3 DEF CanRename, Rename
  <2>5. \A p \in Kept : plan[p].ret \in RootPaths
    BY <1>7 DEF TypeOK
  <2>6. QED
    BY <1>4, <1>11, <1>17, <2>1, <2>4, <2>5 DEF Moved, StageSteps
<1>18. CASE CommitDb(c) \/ RevertDb(c)
  <2>1. fs' = fs /\ file' = file
    BY <1>18 DEF disk
  <2>2. pc[c] = "commit_db" => pc'[c] = "commit_file"
    BY <1>2, <1>18 DEF Goto, TypeOK
  <2>3. pc[c] = "revert_db" => pc'[c] = "revert_file"
    BY <1>2, <1>18 DEF Goto, TypeOK
  <2>4. dbPlan'[own] # "awaiting_reboot"
    BY <1>1, <1>2, <1>18 DEF SetRowStatus, TypeOK
  <2>5. QED
    BY <1>4, <1>18, <2>1, <2>2, <2>3, <2>4 DEF Moved, Swapping, StageSteps
<1>19. CASE CommitFile(c) \/ RevertFile(c)
  <2>1. fs' = fs /\ dbPlan' = dbPlan /\ pc'[c] = "idle"
    BY <1>19 DEF disk, Goto, TypeOK
  <2>2. file'[own] # "awaiting_reboot"
    BY <1>1, <1>2, <1>19 DEF SetFileStatus, TypeOK, Readable, PlanStatus
  <2>3. dbPlan[own] = "awaiting_reboot" => FALSE
    BY <1>1, <1>5, <1>19 DEF StatusInv, Readable, PlanStatus
  <2>4. \A p \in Kept : file'[p] = "awaiting_reboot" => p # own /\ Waits(p)
    BY <1>7, <2>2
  <2>5. QED
    BY <1>4, <1>19, <2>1, <2>3, <2>4 DEF Moved, Swapping, StageSteps
<1>20. CASE RevertOut(c)
  <2>1. file' = file /\ dbPlan' = dbPlan
    BY <1>20 DEF state
  <2>2. \A p \in Kept : Holds(p) => fs[plan[p].ret] # NoSubvol
    BY <1>4, <1>20 DEF Moved, Swapping
  <2>3. dbPlan[own] = "awaiting_reboot" => Waits(own)
    BY <1>1, <1>5, <1>20
  <2>4. CASE Rename(old, away) /\ pc'[c] = "revert_in"
    <3>1. \A q \in RootPaths : q # old /\ q # away => fs'[q] = fs[q]
      BY <1>1, <2>4 DEF Rename
    <3>2. \A p \in Kept : plan[p].ret \in RootPaths /\ plan[p].ret # away
      BY <1>1, <1>20, NamesAssumption DEF BootableInv, PlansFromRows, RootPaths
    <3>3. QED
      BY <1>6, <1>20, <2>1, <2>2, <2>3, <2>4, <3>1, <3>2 DEF Moved, Swapping, StageSteps
  <2>5. CASE UNCHANGED fs /\ pc'[c] = "idle"
    BY <2>1, <2>2, <2>3, <2>5 DEF StageSteps
  <2>6. QED
    BY <1>20, <2>4, <2>5 DEF Goto, TypeOK
<1>21. CASE RevertIn(c)
  <2>1. file' = file /\ dbPlan' = dbPlan
    BY <1>21 DEF state
  <2>2. dbPlan[own] = "awaiting_reboot" => Waits(own)
    BY <1>1, <1>5, <1>21
  <2>5. \A p \in Kept : plan[p].ret \in RootPaths
    BY <1>7 DEF TypeOK
  <2>6. \A p \in Kept : Holds(p) /\ ret # old /\ plan[p].ret = ret => p = own
    BY <1>1, <1>4, <1>6, <1>21
  <2>3. CASE CanRename(ret, old) /\ Rename(ret, old) /\ pc'[c] = "revert_db"
    <3>1. /\ fs'[old] # NoSubvol
          /\ \A q \in RootPaths : q # old /\ q # ret => fs'[q] = fs[q]
          /\ ret = old => fs' = fs
      BY <1>1, <2>3, RenameEffect
    <3>2. QED
      BY <1>4, <1>21, <2>1, <2>2, <2>3, <2>5, <2>6, <3>1 DEF StageSteps
  <2>4. CASE UNCHANGED fs /\ pc'[c] = "revert_undo"
    BY <1>4, <1>21, <2>1, <2>2, <2>4 DEF StageSteps, Moved, Swapping
  <2>7. QED
    BY <1>21, <2>3, <2>4 DEF Goto, TypeOK
<1>22. CASE RevertUndo(c)
  <2>1. /\ file' = file /\ dbPlan' = dbPlan /\ pc'[c] = "idle"
        /\ CanRename(away, old) /\ Rename(away, old)
    BY <1>2, <1>3, <1>22 DEF state, Goto, TypeOK, CanRename, FaultOr, Swapping
  <2>2. /\ fs'[old] # NoSubvol
        /\ \A q \in RootPaths : q # old /\ q # away => fs'[q] = fs[q]
    BY <1>1, <2>1, RenameEffect
  <2>3. \A p \in Kept : plan[p].ret \in RootPaths /\ plan[p].ret # away
    BY <1>1, <1>22, NamesAssumption DEF BootableInv, PlansFromRows, RootPaths, Swapping
  <2>4. dbPlan[own] = "awaiting_reboot" => Waits(own)
    BY <1>1, <1>5, <1>22
  <2>5. QED
    BY <1>4, <1>22, <2>1, <2>2, <2>3, <2>4 DEF StageSteps, Moved, Swapping
<1>23. QED
  BY <1>12, <1>13, <1>14, <1>15, <1>16, <1>17, <1>18, <1>19, <1>20, <1>21, <1>22
  DEF Continue

\* A request that begins finds everything in place.
LEMMA BeginBootableInv ==
    ASSUME NEW c \in Clients, TypeOK, StatusInv, BootableInv, Quiet, Stage(c) \/ Answer(c)
    PROVE  BootableInv'
<1>1. /\ UNCHANGED <<fs, snaps, faults, crashes, dbPlan, file>>
      /\ pc'[c] \in {"rename", "commit_db", "revert_out"}
      /\ \A d \in Clients : pc[d] = "idle" /\ (d # c => pc'[d] = "idle")
  BY DEF Stage, Answer, StageBegin, CommitBegin, RevertBegin, Goto, Quiet, TypeOK, disk, state
<1>2. /\ OneDisturbance' = OneDisturbance /\ Undisturbed' = Undisturbed
      /\ Undisturbed => OneDisturbance
  BY <1>1 DEF OneDisturbance, Undisturbed
<1>3. OneDisturbance => fs[Root] # NoSubvol
  BY <1>1 DEF BootableInv, RootReturns, Moved, Swapping
<1>4. Undisturbed =>
        /\ \A p \in Kept : file[p] = "awaiting_reboot" /\ plan[p].ret # plan[p].replaced =>
             /\ fs[plan[p].ret] # NoSubvol
             /\ \A q \in Kept :
                    file[q] = "awaiting_reboot" /\ plan[q].ret # plan[q].replaced
                    /\ plan[q].ret = plan[p].ret => q = p
        /\ \A p \in Plans : dbPlan[p] = "awaiting_reboot" => file[p] = "awaiting_reboot"
  BY <1>1 DEF BootableInv, ReturnsStay, Moved, Swapping, Away
<1>5. \A d \in Clients : /\ pc'[d] \notin StageSteps \ {"rename"}
                         /\ pc'[d] \notin {"snapshot"} \cup Moved
                         /\ pc'[d] = "rename" => d = c
  BY <1>1 DEF StageSteps, Moved, Swapping
<1>6. CASE Stage(c)
  <2>1. PICK s \in Returns \cup Discards \cup Snaps, r \in Returns : StageBegin(c, s, r)
    BY <1>6 DEF Stage
  <2>2. PICK cur \in RootPaths :
          plan' = [plan EXCEPT ![nplan + 1] = [source |-> s, replaced |-> cur, ret |-> r,
                                               created_boot |-> boot]]
    BY <2>1 DEF StageBegin
  <2>3. /\ nplan + 1 \in Plans /\ nplan' = nplan + 1 /\ job'[c] = nplan + 1
        /\ nplan + 1 \notin Kept /\ Kept' = Kept \cup {nplan + 1} /\ Kept \subseteq Plans
    <3>1. nplan \in Nat /\ MaxPlans \in Nat /\ nplan < MaxPlans
      BY <2>1, BoundsAssumption DEF StageBegin, TypeOK
    <3>2. nplan' = nplan + 1 /\ job'[c] = nplan + 1
      BY <2>1 DEF StageBegin, TypeOK
    <3>3. QED
      BY <3>1, <3>2 DEF Plans, Kept
  <2>4. /\ plan'[nplan + 1].ret = r /\ plan'[nplan + 1].source = s
        /\ \A p \in Kept : plan'[p] = plan[p]
    BY <2>2, <2>3 DEF TypeOK
  <2>5. pc'[c] = "rename" /\ Exists(s)
    BY <2>1 DEF StageBegin, Goto, TypeOK
  <2>6. PlansFromRows'
    BY <1>1, <2>3, <2>4, <2>5 DEF BootableInv, PlansFromRows, Swapping
  <2>7. RootReturns'
    <3>1. \A d \in Clients : pc'[d] \in {"rename", "snapshot"} => Exists(P(d).source)'
      BY <1>1, <1>5, <2>3, <2>4, <2>5 DEF P, Exists, Moved
    <3>2. QED
      BY <1>1, <1>2, <1>3, <1>5, <3>1 DEF RootReturns, Moved
  <2>8. file[nplan + 1] = "none"
    BY <2>3 DEF StatusInv, TypeOK
  <2>9. ReturnsStay'
    <3>1. \A p \in Kept' : file'[p] = "awaiting_reboot" => p \in Kept
      BY <1>1, <2>3, <2>8
    <3>2. \A d \in Clients : pc'[d] \notin {"revert_out", "revert_in"}
      BY <1>1, <2>5
    <3>3. QED
      BY <1>1, <1>2, <1>4, <1>5, <2>3, <2>4, <3>1, <3>2 DEF ReturnsStay, Away
  <2>10. QED
    BY <2>6, <2>7, <2>9 DEF BootableInv
<1>7. CASE Answer(c)
  <2>1. PICK p \in Plans : /\ IsPending(p) /\ job'[c] = p /\ UNCHANGED plans
                           /\ pc'[c] \in {"commit_db", "revert_out"}
                           /\ pc'[c] = "revert_out" => discard'[c] \in Discards
    BY <1>7 DEF Answer, CommitBegin, RevertBegin, Goto, TypeOK
  <2>2. Kept' = Kept /\ plan' = plan
    BY <2>1 DEF plans, Kept
  <2>3. \A d \in Clients : pc'[d] # "rename"
    BY <1>1, <2>1
  <2>4. PlansFromRows'
    BY <1>1, <2>1, <2>2 DEF BootableInv, PlansFromRows, Swapping
  <2>5. RootReturns'
    BY <1>1, <1>2, <1>3, <1>5, <2>3 DEF RootReturns, Moved
  <2>6. Undisturbed => file[p] = "awaiting_reboot"
    BY <1>4, <2>1 DEF IsPending
  <2>7. \A d \in Clients : pc'[d] \in {"revert_out", "revert_in"} => d = c
    BY <1>1
  <2>8. ReturnsStay'
    BY <1>1, <1>2, <1>4, <1>5, <2>1, <2>2, <2>6, <2>7 DEF ReturnsStay, Away
  <2>9. QED
    BY <2>4, <2>5, <2>8 DEF BootableInv
<1>8. QED
  BY <1>6, <1>7

\* A death counts as a crash; a lost source is the one thing that went wrong; an orderly
\* reboot changes no path.
LEMMA EnvironmentBootableInv ==
    ASSUME TypeOK, BootableInv, Environment
    PROVE  BootableInv'
<1>1. UNCHANGED <<fs, plan, nplan, job, discard, dbPlan, faults>>
  BY DEF Environment, RemoveSource, Crash, Reboot, disk, plans, state, requests
<1>2. \A d \in Clients : pc'[d] \in {pc[d], "idle"}
  BY DEF Environment, RemoveSource, Crash, Reboot, Goto, TypeOK, requests
<1>3. PlansFromRows'
  BY <1>1, <1>2 DEF BootableInv, PlansFromRows, Kept, Swapping
<1>4. CASE \E s \in Snaps : RemoveSource(s)
  <2>1. /\ snaps' # Snaps /\ UNCHANGED <<pc, crashes, file>>
    BY <1>4 DEF RemoveSource, requests, state
  <2>2. ~Undisturbed' /\ (OneDisturbance' => OneDisturbance /\ faults = 0)
    BY <1>1, <2>1 DEF OneDisturbance, Undisturbed
  <2>3. RootReturns'
    BY <1>1, <2>1, <2>2 DEF BootableInv, RootReturns, P, Away
  <2>4. ReturnsStay'
    BY <2>2 DEF ReturnsStay
  <2>5. QED
    BY <1>3, <2>3, <2>4 DEF BootableInv
<1>5. CASE crashes' = crashes + 1
  <2>1. crashes' # 0
    BY <1>5, BoundsAssumption DEF TypeOK
  <2>2. QED
    BY <1>3, <2>1 DEF BootableInv, RootReturns, ReturnsStay, OneDisturbance, Undisturbed
<1>6. CASE Reboot /\ Quiet
  <2>1. /\ UNCHANGED snaps /\ TearFiles(Clients) /\ crashes' = crashes
        /\ \A c \in Clients : pc'[c] = "idle" /\ pc[c] = "idle"
    BY <1>6 DEF Reboot, Quiet, disk
  <2>2. file' = file
    BY <2>1 DEF Writing, TearFiles, TypeOK
  <2>3. pc' = pc
    BY <1>6, <2>1 DEF Reboot, TypeOK
  <2>4. QED
    BY <1>1, <1>3, <2>1, <2>2, <2>3 DEF BootableInv, RootReturns, ReturnsStay, OneDisturbance,
       Undisturbed, P, Kept, Exists, Away
<1>7. QED
  BY <1>4, <1>5, <1>6 DEF Environment, Crash, Reboot

\* Every step of SerialSpec keeps BootableInv, with the invariants of the theorems above.
LEMMA NextBootableInv ==
    TypeOK /\ Identities /\ StatusInv /\ BootableInv /\ [SerialNext]_vars => BootableInv'
<1>1. ASSUME TypeOK, Identities, StatusInv, BootableInv, SerialNext
      PROVE  BootableInv'
  <2>1. CASE Environment
    BY <1>1, <2>1, EnvironmentBootableInv
  <2>2. ASSUME NEW c \in Clients, Continue(c)
        PROVE  BootableInv'
    <3>1. PlansFromRows'
      <4>1. plan' = plan /\ Kept' = Kept /\ discard' = discard
        BY <1>1, <2>2, SerialFacts DEF BootableInv, plans, Kept
      <4>2. \A d \in Clients : pc'[d] \in {"revert_out"} \cup Swapping
                                 => pc[d] \in {"revert_out"} \cup Swapping
        <5>1. \A d \in Clients : d # c => pc'[d] = "idle"
          BY <1>1, <2>2, SerialFacts DEF BootableInv
        <5>2. pc'[c] \in {"revert_out"} \cup Swapping => pc[c] \in {"revert_out"} \cup Swapping
          BY <1>1, <2>2 DEF Continue, StageRename, StageSnapshot, StageAnchor,
             StagePlanRow, StagePlanFile, RecoverDelete, RecoverRename, CommitDb,
             CommitFile, RevertOut, RevertIn, RevertUndo, RevertDb, RevertFile,
             Goto, TypeOK, Swapping
        <5>3. QED
          BY <5>1, <5>2 DEF Swapping
      <4>3. QED
        BY <1>1, <4>1, <4>2 DEF BootableInv, PlansFromRows
    <3>2. QED
      BY <1>1, <2>2, <3>1, ContinueRootReturns, ContinueReturnsStay DEF BootableInv
  <2>3. QED
    BY <1>1, <2>1, <2>2, BeginBootableInv DEF SerialNext
<1>2. ASSUME BootableInv, UNCHANGED vars
      PROVE  BootableInv'
  <2>1. PlansFromRows' /\ ReturnsStay'
    BY <1>2 DEF BootableInv, PlansFromRows, ReturnsStay, Undisturbed, Kept, P, Away,
       vars, disk, state, plans, requests
  <2>2. RootReturns'
    BY <1>2 DEF BootableInv, RootReturns, OneDisturbance, Undisturbed, P, Exists, Away,
       vars, disk, plans, requests
  <2>3. QED
    BY <2>1, <2>2 DEF BootableInv
<1>3. QED
  BY <1>1, <1>2

\* At first the root is there, and no plan.
LEMMA InitBootableInv == Init => BootableInv
<1> SUFFICES ASSUME Init PROVE BootableInv
  OBVIOUS
<1>1. fs[Root] # NoSubvol /\ Kept = {} /\ \A c \in Clients : pc[c] = "idle"
  BY DEF Init, RootPaths, Kept
<1>2. \A p \in Plans : dbPlan[p] # "awaiting_reboot"
  BY DEF Init
<1>3. QED
  BY <1>1, <1>2 DEF BootableInv, PlansFromRows, RootReturns, ReturnsStay, StageSteps, Swapping

\* One request at a time: if at most one command, statement or write fails, or else a
\* source disappears, the boot loader finds a root as soon as no request is under way.
THEOREM BootableSerial == SerialSpec => []BootableAfterOneFault
<1>1. TypeOK /\ RootInv /\ [SerialNext]_vars => RootInv'
  BY ContinueRootInv, BeginRootInv, EnvironmentRootInv, StutterRootInv DEF SerialNext
<1>2. TypeOK /\ StatusInv /\ [SerialNext]_vars => StatusInv'
  BY ContinueStatusInv, BeginStatusInv, EnvironmentStatusInv, StutterStatusInv DEF SerialNext
<1>3. SerialSpec => []TypeOK
  BY TypeCorrect, SerialIsSpec
<1>4. RootInv => Identities
  BY DEF RootInv
<1>5. BootableInv => BootableAfterOneFault
  BY DEF BootableInv, RootReturns, OneDisturbance, BootableAfterOneFault, Quiet, Moved, Swapping
<1>6. QED
  BY InitRootInv, InitStatusInv, InitBootableInv, NextBootableInv,
     <1>1, <1>2, <1>3, <1>4, <1>5, PTL DEF SerialSpec
=============================================================================
