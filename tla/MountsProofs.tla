----------------------------- MODULE MountsProofs ----------------------------
(***************************************************************************)
(* Proofs about the mounts of the helper and what the window remembers of  *)
(* them, for any number of snapshots, tasks, stacked mounts and troubles.  *)
(***************************************************************************)
EXTENDS Mounts, TLAPS

\* The steps of a task that works for one snapshot, and those at one place.
OnSnap == {"target", "preunmount", "mount", "open", "shown", "umount", "unmounted"}
AtPlace == (OnSnap \ {"target"}) \cup {"lastmount", "lastumount"}
Cleaning == {"list", "clean", "cleaned"}

Fallback(s) == <<"fallback", s>>

LEMMA StepKinds == Steps = {"idle"} \cup OnSnap \cup AtPlace \cup Cleaning
  BY DEF Steps, OnSnap, AtPlace, Cleaning

-----------------------------------------------------------------------------
(* Types *)

TaskTypes ==
    /\ pc \in [Tasks -> Steps] /\ job \in [Tasks -> Jobs]
    /\ \A t \in Tasks : pc[t] \in AtPlace => job[t].place # Top
    /\ \A t \in Tasks : pc[t] \in OnSnap => job[t].snap # None

DataTypes ==
    /\ depth \in [Places -> 0..MaxDepth] /\ owned \in BOOLEAN
    /\ gui \in [Windows -> {"down", "starting", "up", "closing"}]
    /\ mounted \in [Windows -> SUBSET (Places \ {Top})] /\ session \in [Windows -> SUBSET (Places \ {Top})]
    /\ rows \in [Windows -> [Snaps -> {"browse", "unmount"}]]
    /\ faults \in 0..MaxTrouble /\ starts \in 0..MaxTrouble /\ stray \subseteq Places

LEMMA TypesSplit == (TypeOK <=> TaskTypes /\ DataTypes) /\ (TypeOK' <=> TaskTypes' /\ DataTypes')
  BY DEF TypeOK, TaskTypes, DataTypes, OnSnap, AtPlace

\* The places and what tells them apart.
LEMMA PlaceFacts ==
    /\ Top \in Places
    /\ \A s \in Snaps : Browse(s) \in Places \ {Top}
    /\ \A s \in Snaps : Fallback(s) \in Places \ {Top}
    /\ \A s, r \in Snaps : Browse(s) # Fallback(r)
    /\ \A s, r \in Snaps : Browse(s) = Browse(r) => s = r
    /\ \A p \in Places \ {Top} : \E s \in Snaps : p \in {Browse(s), Fallback(s)}
    /\ \A s \in Snaps : Managed(Browse(s)) /\ ~Managed(Fallback(s))
    /\ ~Managed(Top)
  BY DEF Places, Top, Browse, Fallback, Managed

LEMMA JobFields ==
    ASSUME NEW j \in Jobs
    PROVE  /\ j.snap \in Snaps \cup {None} /\ j.place \in Places /\ j.window \in Windows \cup {None}
           /\ j.todo \in [Places -> 0..MaxDepth]
           /\ \A p \in Places : /\ [j EXCEPT !.place = p] \in Jobs
                                /\ [j EXCEPT !.place = p].place = p
                                /\ [j EXCEPT !.place = p].snap = j.snap
                                /\ [j EXCEPT !.place = p].todo = j.todo
                                /\ [j EXCEPT !.place = p].window = j.window
           /\ \A d \in [Places -> 0..MaxDepth] :
                /\ [j EXCEPT !.todo = d] \in Jobs /\ [j EXCEPT !.todo = d].todo = d
                /\ [j EXCEPT !.todo = d].snap = j.snap /\ [j EXCEPT !.todo = d].place = j.place
                /\ [j EXCEPT !.todo = d].window = j.window /\ [j EXCEPT !.todo = d].read = j.read
           /\ [j EXCEPT !.read = FALSE] \in Jobs /\ [j EXCEPT !.read = FALSE].todo = j.todo
           /\ [j EXCEPT !.read = FALSE].read = FALSE /\ [j EXCEPT !.read = FALSE].window = j.window
           /\ \A w \in Windows \cup {None} :
                /\ [j EXCEPT !.window = w] \in Jobs /\ [j EXCEPT !.window = w].window = w
                /\ [j EXCEPT !.window = w].todo = j.todo /\ [j EXCEPT !.window = w].place = j.place
                /\ [j EXCEPT !.window = w].snap = j.snap /\ [j EXCEPT !.window = w].read = j.read
  BY DEF Jobs

LEMMA NoJobFields ==
    /\ NoJob \in Jobs /\ NoJob.todo = [p \in Places |-> 0] /\ NoJob.snap = None
    /\ \A s \in Snaps : LET j == [NoJob EXCEPT !.snap = s] IN
          /\ j \in Jobs /\ j.snap = s /\ j.todo = [p \in Places |-> 0]
    /\ \A s \in Snaps : LET j == [NoJob EXCEPT !.snap = s, !.place = Browse(s)] IN
          /\ j \in Jobs /\ j.snap = s /\ j.place = Browse(s)
          /\ j.todo = [p \in Places |-> 0]
<1>1. Nothing \in [Places -> 0..MaxDepth] /\ Nothing = [p \in Places |-> 0]
  BY BoundAssumption DEF Nothing
<1>2. NoJob \in Jobs /\ NoJob.todo = Nothing /\ NoJob.snap = None
  BY <1>1, PlaceFacts DEF NoJob, Jobs
<1>3. ASSUME NEW s \in Snaps
      PROVE  LET j == [NoJob EXCEPT !.snap = s] IN
             j \in Jobs /\ j.snap = s /\ j.todo = Nothing
  BY <1>2 DEF Jobs
<1>4. ASSUME NEW s \in Snaps
      PROVE  LET j == [NoJob EXCEPT !.snap = s, !.place = Browse(s)] IN
             j \in Jobs /\ j.snap = s /\ j.place = Browse(s) /\ j.todo = Nothing
  BY <1>2, PlaceFacts DEF Jobs
<1> QED
  BY <1>1, <1>2, <1>3, <1>4

\* One task moves.
LEMMA TaskMoves ==
    ASSUME TaskTypes, NEW t \in Tasks, NEW s \in Steps, NEW j \in Jobs, Goto(t, s),
           job' = [job EXCEPT ![t] = j],
           s \in AtPlace => j.place # Top, s \in OnSnap => j.snap # None
    PROVE  TaskTypes'
  BY DEF TaskTypes, Goto

LEMMA TaskKeepsJob ==
    ASSUME TaskTypes, NEW t \in Tasks, NEW s \in Steps, Goto(t, s), UNCHANGED job,
           s \in AtPlace => job[t].place # Top, s \in OnSnap => job[t].snap # None
    PROVE  TaskTypes'
  BY DEF TaskTypes, Goto

LEMMA TaskEnds ==
    ASSUME TaskTypes, NEW t \in Tasks, Done(t) PROVE TaskTypes'
  BY TaskMoves, NoJobFields DEF Done, Steps, OnSnap, AtPlace

\* The counter of trouble and the mount table stay in their bounds.
LEMMA FaultBound ==
    ASSUME faults \in 0..MaxTrouble, starts \in 0..MaxTrouble, Fault
    PROVE  faults' \in 0..MaxTrouble /\ faults' > 0
  BY BoundAssumption DEF Fault

LEMMA HastyBound ==
    ASSUME faults \in 0..MaxTrouble, starts \in 0..MaxTrouble, NEW early \in BOOLEAN, Hasty(early)
    PROVE  faults' \in 0..MaxTrouble
  BY FaultBound DEF Hasty

LEMMA DepthBound ==
    ASSUME DataTypes, NEW p \in Places, Umounted(p) \/ MountOn(p)
    PROVE  /\ depth' \in [Places -> 0..MaxDepth]
           /\ \A q \in Places \ {p} : depth'[q] = depth[q]
           /\ Umounted(p) => depth[p] > 0 /\ depth'[p] = depth[p] - 1
           /\ MountOn(p) => depth'[p] = depth[p] + 1 /\ stray \subseteq stray'
                            /\ stray' \subseteq stray \cup {p}
                            /\ (depth[p] > 0 \/ (\E w \in Windows : gui[w] = "starting")
                                => p \in stray')
  BY BoundAssumption DEF DataTypes, Umounted, MountOn

LEMMA InitTypes == Init => TypeOK
<1> SUFFICES ASSUME Init PROVE TypeOK
  OBVIOUS
<1>1. TaskTypes
  <2>1. /\ pc \in [Tasks -> Steps] /\ \A t \in Tasks : pc[t] \notin AtPlace \cup OnSnap
    BY DEF Init, Steps, OnSnap, AtPlace
  <2>2. job \in [Tasks -> Jobs]
    BY NoJobFields DEF Init
  <2> QED
    BY <2>1, <2>2 DEF TaskTypes
<1>2. DataTypes
  <2>1. 0 \in 0..MaxDepth /\ 1 \in 0..MaxDepth /\ 0 \in 0..MaxTrouble
    BY BoundAssumption
  <2>2. depth \in [Places -> 0..MaxDepth]
    BY <2>1 DEF Init
  <2>3. rows \in [Windows -> [Snaps -> {"browse", "unmount"}]]
    BY DEF Init, NewRows
  <2> QED
    BY <2>1, <2>2, <2>3 DEF Init, DataTypes
<1> QED
  BY <1>1, <1>2, TypesSplit

\* What an outcome leaves in the rows.
LEMMA ShownRows ==
    ASSUME DataTypes, NEW t \in Tasks, NEW step, NEW button \in {"browse", "unmount"},
           Shown(t, step, button)
    PROVE  rows' \in [Windows -> [Snaps -> {"browse", "unmount"}]]
<1> DEFINE w == job[t].window
           s == job[t].snap
           row == [rows[w] EXCEPT ![s] = button]
<1>1. rows \in [Windows -> [Snaps -> {"browse", "unmount"}]]
  BY DEF DataTypes
<1>2. rows' = rows \/ rows' = [rows EXCEPT ![w] = row]
  BY DEF Shown
<1>3. w \in Windows => row \in [Snaps -> {"browse", "unmount"}]
  BY <1>1
<1> HIDE DEF w, row
<1> QED
  BY <1>1, <1>2, <1>3

\* The steps of a browse, an unmount and the last request of a program.
LEMMA SnapshotTypes ==
    ASSUME TypeOK, NEW t \in Tasks,
           \/ BrowseTarget(t) \/ BrowseUnmount(t) \/ BrowseMount(t) \/ BrowseOpen(t)
           \/ BrowseShown(t) \/ UnmountRun(t) \/ UnmountShown(t) \/ LastRequest(t) \/ Lost(t)
    PROVE  TypeOK'
<1>1. TaskTypes /\ DataTypes
  BY TypesSplit
<1>2. /\ job[t] \in Jobs /\ job[t].place \in Places /\ job[t].snap \in Snaps \cup {None}
      /\ (pc[t] \in AtPlace => job[t].place # Top) /\ (pc[t] \in OnSnap => job[t].snap # None)
  BY <1>1, JobFields DEF TaskTypes
<1> USE DEF state, memory, history
<1>3. CASE BrowseTarget(t)
  <2>1. CASE Fault /\ Done(t)
    BY <1>1, <1>3, <2>1, TaskEnds, FaultBound, TypesSplit DEF BrowseTarget, DataTypes
  <2>2. CASE /\ job' = [job EXCEPT ![t].place = <<IF owned THEN "fallback" ELSE "browse", job[t].snap>>]
             /\ Goto(t, "preunmount") /\ UNCHANGED faults
    <3> DEFINE p == <<IF owned THEN "fallback" ELSE "browse", job[t].snap>>
    <3>1. job[t].snap \in Snaps
      BY <1>2, <1>3 DEF BrowseTarget, OnSnap
    <3>2. p = Browse(job[t].snap) \/ p = Fallback(job[t].snap)
      BY DEF Browse, Fallback
    <3>3. p \in Places \ {Top}
      BY <3>1, <3>2, PlaceFacts
    <3> HIDE DEF p
    <3>4. [job[t] EXCEPT !.place = p] \in Jobs /\ [job[t] EXCEPT !.place = p].place = p
          /\ [job[t] EXCEPT !.place = p].snap = job[t].snap
      BY <1>2, <3>3, PlaceFacts DEF Jobs
    <3>5. job' = [job EXCEPT ![t] = [job[t] EXCEPT !.place = p]]
      BY <2>2 DEF p
    <3>6. TaskTypes'
      BY <1>1, <2>2, <3>1, <3>3, <3>4, <3>5, NoneAssumption, TaskMoves DEF Steps
    <3> QED
      BY <1>1, <1>3, <2>2, <3>6, TypesSplit DEF BrowseTarget, DataTypes
  <2> QED
    BY <1>3, <2>1, <2>2 DEF BrowseTarget
<1>4. CASE BrowseUnmount(t)
  <2>1. TaskTypes'
    BY <1>1, <1>2, <1>4, TaskKeepsJob DEF BrowseUnmount, Steps, AtPlace, OnSnap
  <2>2. depth' \in [Places -> 0..MaxDepth] /\ faults' \in 0..MaxTrouble
    BY <1>1, <1>2, <1>4, DepthBound, FaultBound DEF BrowseUnmount, DataTypes
  <2> QED
    BY <1>1, <1>4, <2>1, <2>2, TypesSplit DEF BrowseUnmount, DataTypes
<1>5. CASE BrowseMount(t)
  <2>1. TaskTypes'
    BY <1>1, <1>2, <1>5, TaskKeepsJob, TaskEnds DEF BrowseMount, Steps, AtPlace, OnSnap
  <2>2. depth' \in [Places -> 0..MaxDepth] /\ faults' \in 0..MaxTrouble /\ stray' \subseteq Places
    BY <1>1, <1>2, <1>5, DepthBound, FaultBound DEF BrowseMount, DataTypes
  <2> QED
    BY <1>1, <1>5, <2>1, <2>2, TypesSplit DEF BrowseMount, DataTypes
<1>6. CASE BrowseOpen(t)
  <2>1. TaskTypes'
    BY <1>1, <1>2, <1>6, TaskKeepsJob, TaskEnds DEF BrowseOpen, Steps, AtPlace, OnSnap
  <2> QED
    BY <1>1, <1>6, <2>1, FaultBound, TypesSplit DEF BrowseOpen, DataTypes
<1>7. CASE BrowseShown(t)
  <2>1. job[t].place \in Places \ {Top} /\ TaskTypes'
    BY <1>1, <1>2, <1>7, TaskEnds DEF BrowseShown, Shown, AtPlace, OnSnap
  <2>2. /\ job[t].window \in Windows
        /\ mounted' = [mounted EXCEPT ![job[t].window] = @ \cup {job[t].place}]
        /\ session' = [session EXCEPT ![job[t].window] = @ \cup {job[t].place}]
        /\ UNCHANGED <<depth, owned, gui, faults, history>>
    BY <1>1, <1>2, <1>7, JobFields DEF BrowseShown, Shown, TaskTypes
  <2>3. rows' \in [Windows -> [Snaps -> {"browse", "unmount"}]]
    BY <1>1, <1>7, ShownRows DEF BrowseShown
  <2> QED
    BY <1>1, <2>1, <2>2, <2>3, TypesSplit DEF DataTypes
<1>8. CASE UnmountRun(t)
  <2>1. TaskTypes'
    BY <1>1, <1>2, <1>8, TaskKeepsJob, TaskEnds DEF UnmountRun, Steps, AtPlace, OnSnap
  <2>2. depth' \in [Places -> 0..MaxDepth] /\ faults' \in 0..MaxTrouble
    BY <1>1, <1>2, <1>8, DepthBound, FaultBound DEF UnmountRun, DataTypes
  <2> QED
    BY <1>1, <1>8, <2>1, <2>2, TypesSplit DEF UnmountRun, DataTypes
<1>9. CASE UnmountShown(t)
  <2>1. TaskTypes'
    BY <1>1, <1>9, TaskEnds DEF UnmountShown, Shown
  <2>2. /\ job[t].window \in Windows
        /\ mounted' = [mounted EXCEPT ![job[t].window] = @ \ {job[t].place}]
        /\ UNCHANGED <<depth, owned, gui, session, faults, history>>
    BY <1>1, <1>2, <1>9, JobFields DEF UnmountShown, Shown, TaskTypes
  <2>3. rows' \in [Windows -> [Snaps -> {"browse", "unmount"}]]
    BY <1>1, <1>9, ShownRows DEF UnmountShown
  <2> QED
    BY <1>1, <2>1, <2>2, <2>3, TypesSplit DEF DataTypes
<1>10. CASE LastRequest(t)
  <2>1. TaskTypes'
    BY <1>1, <1>10, TaskEnds DEF LastRequest
  <2>2. depth' \in [Places -> 0..MaxDepth] /\ stray' \subseteq Places
    BY <1>1, <1>2, <1>10, DepthBound DEF LastRequest, DataTypes
  <2> QED
    BY <1>1, <1>10, <2>1, <2>2, TypesSplit DEF LastRequest, DataTypes
<1>11. CASE Lost(t)
  BY <1>1, <1>11, TaskEnds, TypesSplit DEF Lost, DataTypes
<1> QED
  BY <1>3, <1>4, <1>5, <1>6, <1>7, <1>8, <1>9, <1>10, <1>11

\* What a cleanup has found and what is left of it.
LEMMA ListedJob ==
    ASSUME TaskTypes, NEW t \in Tasks, NEW d \in [Places -> 0..MaxDepth],
           job' = [job EXCEPT ![t].todo = d]
    PROVE  /\ job' = [job EXCEPT ![t] = [job[t] EXCEPT !.todo = d]]
           /\ [job[t] EXCEPT !.todo = d] \in Jobs /\ job'[t].todo = d
           /\ job'[t].read = job[t].read /\ job'[t].window = job[t].window /\ job'[t].snap = job[t].snap
           /\ job'[t].place = job[t].place
           /\ \A u \in Tasks \ {t} : job'[u] = job[u]
<1>1. job[t] \in Jobs /\ job \in [Tasks -> Jobs]
  BY DEF TaskTypes
<1>2. job' = [job EXCEPT ![t] = [job[t] EXCEPT !.todo = d]]
  OBVIOUS
<1> DEFINE j == [job[t] EXCEPT !.todo = d]
<1>3. j \in Jobs /\ j.todo = d /\ j.read = job[t].read /\ j.window = job[t].window
      /\ j.snap = job[t].snap /\ j.place = job[t].place
  BY <1>1 DEF Jobs
<1> HIDE DEF j
<1>4. job' = [job EXCEPT ![t] = j]
  BY <1>2 DEF j
<1>5. job'[t] = j /\ \A u \in Tasks \ {t} : job'[u] = job[u]
  BY <1>1, <1>4
<1>6. job' = [job EXCEPT ![t] = [job[t] EXCEPT !.todo = d]] /\ [job[t] EXCEPT !.todo = d] \in Jobs
  BY <1>2, <1>3 DEF j
<1> QED
  BY <1>3, <1>5, <1>6

LEMMA ListingTypes ==
    ASSUME TaskTypes, DataTypes, NEW t \in Tasks, CleanupList(t)
    PROVE  \/ /\ UNCHANGED faults
              /\ \E d \in [Places -> 0..MaxDepth] :
                    /\ job' = [job EXCEPT ![t].todo = d]
                    /\ \A p \in Places : /\ d[p] <= depth[p]
                                         /\ d[p] > 0 <=> (Managed(p) /\ depth[p] > 0)
           \/ /\ Fault /\ job' = [job EXCEPT ![t] = [job[t] EXCEPT !.read = FALSE]]
              /\ [job[t] EXCEPT !.read = FALSE] \in Jobs
<1> DEFINE listed == {p \in Places : Managed(p) /\ depth[p] > 0}
<1>1. CASE Fault /\ job' = [job EXCEPT ![t].read = FALSE]
  BY <1>1, JobFields DEF TaskTypes
<1>2. CASE /\ \E times \in [listed -> 1..MaxDepth] :
                   /\ \A p \in listed : times[p] <= depth[p]
                   /\ Cardinality(listed) = 1 => \A p \in listed : times[p] = 1
                   /\ job' = [job EXCEPT ![t].todo =
                                [p \in Places |-> IF p \in listed THEN times[p] ELSE 0]]
           /\ UNCHANGED faults
  <2>1. PICK times \in [listed -> 1..MaxDepth] :
                   /\ \A p \in listed : times[p] <= depth[p]
                   /\ job' = [job EXCEPT ![t].todo =
                                [p \in Places |-> IF p \in listed THEN times[p] ELSE 0]]
    BY <1>2
  <2> DEFINE d == [p \in Places |-> IF p \in listed THEN times[p] ELSE 0]
  <2>2. d \in [Places -> 0..MaxDepth]
    BY BoundAssumption
  <2>3. ASSUME NEW p \in Places
        PROVE  d[p] <= depth[p] /\ (d[p] > 0 <=> (Managed(p) /\ depth[p] > 0))
    <3>1. depth[p] \in Nat
      BY DEF DataTypes
    <3> QED
      BY <2>1, <3>1, BoundAssumption
  <2>4. job' = [job EXCEPT ![t].todo = d]
    BY <2>1
  <2> HIDE DEF d
  <2> QED
    BY <1>2, <2>2, <2>3, <2>4
<1> QED
  BY <1>1, <1>2 DEF CleanupList

LEMMA UmountingJob ==
    ASSUME TaskTypes, DataTypes, NEW t \in Tasks, NEW p \in Places, job[t].todo[p] > 0, Umounted(p),
           job' = [job EXCEPT ![t].todo[p] = @ - 1]
    PROVE  \E d \in [Places -> 0..MaxDepth] :
             /\ job' = [job EXCEPT ![t].todo = d]
             /\ d[p] = job[t].todo[p] - 1 /\ \A q \in Places \ {p} : d[q] = job[t].todo[q]
<1> DEFINE d == [job[t].todo EXCEPT ![p] = @ - 1]
<1>1. job[t].todo \in [Places -> 0..MaxDepth]
  BY JobFields DEF TaskTypes
<1>2. d \in [Places -> 0..MaxDepth]
  BY <1>1, BoundAssumption
<1>3. job' = [job EXCEPT ![t].todo = d]
  OBVIOUS
<1>4. d[p] = job[t].todo[p] - 1 /\ \A q \in Places \ {p} : d[q] = job[t].todo[q]
  BY <1>1
<1> QED
  BY <1>2, <1>3, <1>4

\* The steps of a cleanup.
LEMMA CleanupTypes ==
    ASSUME TypeOK, NEW t \in Tasks,
           \/ CleanupList(t) \/ CleanupUmount(t) \/ CleanupEnd(t) \/ CleanupShown(t)
    PROVE  TypeOK'
<1>1. TaskTypes /\ DataTypes
  BY TypesSplit
<1>2. /\ {"clean", "cleaned"} \subseteq Steps
      /\ "clean" \notin AtPlace \cup OnSnap /\ "cleaned" \notin AtPlace \cup OnSnap
  BY DEF Steps, AtPlace, OnSnap
<1> USE DEF state, memory, history
<1>3. CASE CleanupList(t)
  <2>1. Goto(t, "clean")
    BY <1>3 DEF CleanupList
  <2>2. faults' \in 0..MaxTrouble
    BY <1>1, <1>3, FaultBound DEF CleanupList, DataTypes
  <2>3. \E j \in Jobs : job' = [job EXCEPT ![t] = j]
    BY <1>1, <1>3, ListingTypes, ListedJob
  <2>4. TaskTypes'
    BY <1>1, <1>2, <2>1, <2>3, TaskMoves
  <2> QED
    BY <1>1, <1>3, <2>2, <2>4, TypesSplit DEF CleanupList, DataTypes
<1>4. CASE CleanupUmount(t)
  <2>1. PICK p \in Places :
         /\ job[t].todo[p] > 0
         /\ \/ /\ Umounted(p) /\ job' = [job EXCEPT ![t].todo[p] = @ - 1]
               /\ UNCHANGED <<pc, faults>>
            \/ depth[p] = 0 /\ Done(t) /\ UNCHANGED <<depth, faults>>
            \/ Fault /\ Done(t) /\ UNCHANGED depth
    BY <1>4 DEF CleanupUmount
  <2>2. CASE Umounted(p) /\ job' = [job EXCEPT ![t].todo[p] = @ - 1] /\ UNCHANGED <<pc, faults>>
    <3>1. \E j \in Jobs : job' = [job EXCEPT ![t] = j]
      BY <1>1, <2>1, <2>2, UmountingJob, ListedJob
    <3>2. TaskTypes'
      BY <1>1, <1>4, <2>2, <3>1 DEF TaskTypes, CleanupUmount, AtPlace, OnSnap
    <3>3. depth' \in [Places -> 0..MaxDepth]
      BY <1>1, <2>2, DepthBound
    <3> QED
      BY <1>1, <1>4, <2>2, <3>2, <3>3, TypesSplit DEF CleanupUmount, DataTypes
  <2>3. CASE Done(t) /\ UNCHANGED depth /\ (Fault \/ UNCHANGED faults)
    BY <1>1, <1>4, <2>3, TaskEnds, FaultBound, TypesSplit DEF CleanupUmount, DataTypes
  <2> QED
    BY <2>1, <2>2, <2>3
<1>5. CASE CleanupEnd(t)
  <2>1. TaskTypes'
    BY <1>1, <1>2, <1>5, TaskKeepsJob DEF CleanupEnd
  <2> QED
    BY <1>1, <1>5, <2>1, TypesSplit DEF CleanupEnd, DataTypes
<1>6. CASE CleanupShown(t)
  BY <1>1, <1>6, TaskEnds, TypesSplit DEF CleanupShown, Forget, DataTypes
<1> QED
  BY <1>3, <1>4, <1>5, <1>6

\* A button starts a task of its window with a step and a job of its own.
LEMMA ButtonPress ==
    ASSUME NEW w \in Windows, NEW t \in Tasks, Button(w, t)
    PROVE  \E s \in {"list", "target", "umount"}, j \in Jobs, early \in BOOLEAN :
             /\ Press(w, t, s, j, early) /\ j.todo = [p \in Places |-> 0]
             /\ (s \in AtPlace => j.place # Top) /\ (s \in OnSnap => j.snap # None)
<1>1. CASE PressCleanup(w, t)
  <2>1. "list" \notin AtPlace \cup OnSnap
    BY DEF AtPlace, OnSnap
  <2>2. Press(w, t, "list", NoJob, ~Quiet) /\ (~Quiet) \in BOOLEAN
    BY <1>1 DEF PressCleanup, Quiet
  <2> QED
    BY <2>1, <2>2, NoJobFields
<1>2. ASSUME NEW s \in Snaps, PressBrowse(w, t, s) \/ PressUnmount(w, t, s)
      PROVE  \E step \in {"list", "target", "umount"}, j \in Jobs, early \in BOOLEAN :
               /\ Press(w, t, step, j, early) /\ j.todo = [p \in Places |-> 0]
               /\ (step \in AtPlace => j.place # Top) /\ (step \in OnSnap => j.snap # None)
  <2>1. "target" \notin AtPlace /\ s # None /\ Working(s) \in BOOLEAN
    BY NoneAssumption DEF AtPlace, OnSnap, Working
  <2>2. Browse(s) # Top
    BY PlaceFacts
  <2> DEFINE b == [NoJob EXCEPT !.snap = s]
             u == [NoJob EXCEPT !.snap = s, !.place = Browse(s)]
  <2>3. /\ b \in Jobs /\ b.snap = s /\ u \in Jobs /\ u.snap = s /\ u.place = Browse(s)
        /\ b.todo = [p \in Places |-> 0] /\ u.todo = [p \in Places |-> 0]
    BY NoJobFields
  <2>4. PressBrowse(w, t, s) => Press(w, t, "target", b, Working(s))
    BY DEF PressBrowse
  <2>5. PressUnmount(w, t, s) => Press(w, t, "umount", u, Working(s))
    BY DEF PressUnmount
  <2> HIDE DEF b, u
  <2> QED
    BY <1>2, <2>1, <2>2, <2>3, <2>4, <2>5
<1> QED
  BY <1>1, <1>2 DEF Button

LEMMA ButtonTypes ==
    ASSUME TypeOK, NEW w \in Windows, NEW t \in Tasks, Button(w, t) PROVE TypeOK'
<1>1. TaskTypes /\ DataTypes
  BY TypesSplit
<1>2. PICK s \in {"list", "target", "umount"}, j \in Jobs, early \in BOOLEAN :
        /\ Press(w, t, s, j, early)
        /\ (s \in AtPlace => j.place # Top) /\ (s \in OnSnap => j.snap # None)
  BY ButtonPress
<1> DEFINE k == [j EXCEPT !.window = w]
<1>3. k \in Jobs /\ k.place = j.place /\ k.snap = j.snap
  BY JobFields
<1>4. job' = [job EXCEPT ![t] = k] /\ Goto(t, s) /\ s \in Steps
  BY <1>2 DEF Press, Steps
<1> HIDE DEF k
<1>5. TaskTypes'
  BY <1>1, <1>2, <1>3, <1>4, TaskMoves
<1>6. faults' \in 0..MaxTrouble
  BY <1>1, <1>2, HastyBound DEF Press, DataTypes
<1> QED
  BY <1>1, <1>2, <1>5, <1>6, TypesSplit DEF Press, DataTypes, state, memory, history

LEMMA OrphanFields ==
    ASSUME NEW j \in Jobs
    PROVE  /\ Orphan(j) \in Jobs /\ Orphan(j).todo = j.todo /\ Orphan(j).place = j.place
           /\ Orphan(j).snap = j.snap /\ Orphan(j).read = j.read
  BY JobFields DEF Orphan

\* The tasks after the program has ended.
LEMMA DieTasks ==
    ASSUME TaskTypes, Die
    PROVE  /\ TaskTypes'
           /\ \A t \in Tasks :
                /\ pc'[t] \in {"idle", "list", "clean", "lastmount", "lastumount"}
                /\ pc'[t] \in {"list", "clean"} => pc[t] = pc'[t] /\ job'[t].todo = job[t].todo
                /\ pc'[t] = "idle" => job'[t] = NoJob
                /\ pc[t] = "idle" => pc'[t] = "idle"
                /\ job'[t].todo \in {job[t].todo, NoJob.todo}
<1>1. PICK taken \in SUBSET {t \in Tasks : pc[t] \in DOMAIN Last} :
          pc' = [t \in Tasks |-> IF t \in taken THEN Last[pc[t]]
                                ELSE IF pc[t] \in InHelper THEN pc[t] ELSE "idle"]
  BY DEF Die
<1>2. job' = [t \in Tasks |-> IF pc'[t] = "idle" THEN NoJob ELSE Orphan(job[t])]
  BY DEF Die
<1>3. ASSUME NEW t \in Tasks
      PROVE  /\ \/ pc[t] \in DOMAIN Last /\ pc'[t] = Last[pc[t]]
                \/ pc[t] \in InHelper /\ pc'[t] = pc[t]
                \/ pc'[t] = "idle"
             /\ pc'[t] \in {"idle", "list", "clean", "lastmount", "lastumount"}
             /\ pc'[t] \in {"list", "clean"} => pc[t] = pc'[t]
             /\ pc'[t] \in {"lastmount", "lastumount"} => pc[t] \in {"mount", "preunmount", "umount"}
             /\ pc[t] = "idle" => pc'[t] = "idle"
  <2>1. \/ pc[t] \in DOMAIN Last /\ pc'[t] = Last[pc[t]]
        \/ pc[t] \in InHelper /\ pc'[t] = pc[t]
        \/ pc'[t] = "idle"
    BY <1>1
  <2>2. /\ DOMAIN Last = {"mount", "preunmount", "umount"} /\ Last["mount"] = "lastmount"
        /\ Last["preunmount"] = "lastumount" /\ Last["umount"] = "lastumount"
    BY DEF Last
  <2> QED
    BY <2>1, <2>2 DEF InHelper
<1>4. ASSUME NEW t \in Tasks
      PROVE  /\ job'[t] \in Jobs /\ job'[t].todo \in {job[t].todo, NoJob.todo}
             /\ pc'[t] = "idle" => job'[t] = NoJob
             /\ pc'[t] # "idle" => job'[t].place = job[t].place /\ job'[t].todo = job[t].todo
  <2>1. job[t] \in Jobs
    BY DEF TaskTypes
  <2>2. pc'[t] = "idle" => job'[t] = NoJob
    BY <1>2
  <2>3. pc'[t] # "idle" => job'[t] = Orphan(job[t])
    BY <1>2
  <2>4. Orphan(job[t]) \in Jobs /\ Orphan(job[t]).todo = job[t].todo /\ Orphan(job[t]).place = job[t].place
    BY <2>1, OrphanFields
  <2> QED
    BY <2>2, <2>3, <2>4, NoJobFields
<1>5. pc' \in [Tasks -> Steps]
  BY <1>1, <1>3 DEF Steps
<1>6. job' \in [Tasks -> Jobs]
  BY <1>2, <1>4
<1>7. TaskTypes'
  BY <1>3, <1>4, <1>5, <1>6 DEF TaskTypes, AtPlace, OnSnap
<1> QED
  BY <1>3, <1>4, <1>7

\* The tasks of a window that is gone.
LEMMA GoneTasks ==
    ASSUME TaskTypes, NEW w \in Windows, Gone(w)
    PROVE  /\ TaskTypes' /\ pc' = pc
           /\ \A t \in Tasks : /\ job'[t].todo = job[t].todo /\ job'[t].read = job[t].read
                               /\ job[t].window # w => job'[t] = job[t]
<1>1. pc' = pc /\ job' = [t \in Tasks |-> IF job[t].window = w THEN Orphan(job[t]) ELSE job[t]]
  BY DEF Gone
<1>2. ASSUME NEW t \in Tasks
      PROVE  /\ job'[t] \in Jobs /\ job'[t].todo = job[t].todo /\ job'[t].read = job[t].read
             /\ job'[t].place = job[t].place /\ job'[t].snap = job[t].snap
             /\ job[t].window # w => job'[t] = job[t]
  <2>1. job[t] \in Jobs
    BY DEF TaskTypes
  <2>2. job'[t] = Orphan(job[t]) \/ job'[t] = job[t]
    BY <1>1
  <2>3. job[t].window # w => job'[t] = job[t]
    BY <1>1
  <2> QED
    BY <2>1, <2>2, <2>3, OrphanFields
<1>3. job' \in [Tasks -> Jobs]
  BY <1>1, <1>2
<1> QED
  BY <1>1, <1>2, <1>3 DEF TaskTypes

\* The memory of the windows after one of them, or all, are gone.
LEMMA EndData ==
    ASSUME DataTypes, \/ Die
                      \/ \E w \in Windows : Gone(w)
    PROVE  /\ gui' \in [Windows -> {"down", "starting", "up", "closing"}]
           /\ mounted' \in [Windows -> SUBSET (Places \ {Top})]
           /\ session' \in [Windows -> SUBSET (Places \ {Top})]
           /\ rows' \in [Windows -> [Snaps -> {"browse", "unmount"}]]
           /\ starts' \in 0..MaxTrouble /\ UNCHANGED <<depth, owned, stray>>
<1>1. NewRows \in [Snaps -> {"browse", "unmount"}] /\ 0 \in 0..MaxTrouble
  BY BoundAssumption DEF NewRows
<1>2. CASE Die
  BY <1>1, <1>2 DEF Die
<1>3. ASSUME NEW w \in Windows, Gone(w)
      PROVE  /\ gui' \in [Windows -> {"down", "starting", "up", "closing"}]
             /\ mounted' \in [Windows -> SUBSET (Places \ {Top})]
             /\ session' \in [Windows -> SUBSET (Places \ {Top})]
             /\ rows' \in [Windows -> [Snaps -> {"browse", "unmount"}]]
             /\ starts' \in 0..MaxTrouble /\ UNCHANGED <<depth, owned, stray>>
  BY <1>1, <1>3 DEF Gone, Forget, DataTypes, history
<1> QED
  BY <1>2, <1>3

LEMMA KilledTypes ==
    ASSUME TypeOK, Killed PROVE TypeOK'
  BY TypesSplit, DieTasks, EndData, FaultBound DEF Killed, DataTypes

LEMMA WindowTypes ==
    ASSUME TypeOK, NEW w \in Windows, Window(w) PROVE TypeOK'
<1>1. TaskTypes /\ DataTypes
  BY TypesSplit
<1> USE DEF state, memory, history
<1>2. CASE Close(w)
  <2>1. faults' \in 0..MaxTrouble
    BY <1>1, <1>2, HastyBound DEF Close, DataTypes, Quiet
  <2> QED
    BY <1>1, <1>2, <2>1, TypesSplit DEF Close, TaskTypes, DataTypes
<1>3. CASE CloseUnmount(w)
  <2>1. PICK p \in session[w] :
          /\ session' = [session EXCEPT ![w] = @ \ {p}]
          /\ \/ Umounted(p) /\ UNCHANGED faults
             \/ depth[p] = 0 /\ UNCHANGED <<depth, faults>>
             \/ Fault /\ UNCHANGED depth
    BY <1>3 DEF CloseUnmount
  <2>2. p \in Places
    BY <1>1 DEF DataTypes
  <2>3. depth' \in [Places -> 0..MaxDepth] /\ faults' \in 0..MaxTrouble
    BY <1>1, <2>1, <2>2, DepthBound, FaultBound DEF DataTypes
  <2>4. session' \in [Windows -> SUBSET (Places \ {Top})]
    BY <1>1, <2>1 DEF DataTypes
  <2>5. DataTypes'
    BY <1>1, <1>3, <2>3, <2>4 DEF CloseUnmount, DataTypes
  <2>6. TaskTypes'
    BY <1>1, <1>3 DEF CloseUnmount, TaskTypes
  <2> QED
    BY <2>5, <2>6, TypesSplit
<1>4. CASE CloseEnd(w)
  <2>1. (Gone(w) \/ Die) /\ UNCHANGED faults
    BY <1>4 DEF CloseEnd, Gone
  <2>2. TaskTypes'
    BY <1>1, <2>1, DieTasks, GoneTasks
  <2> QED
    BY <1>1, <2>1, <2>2, EndData, TypesSplit DEF DataTypes
<1>5. CASE Launch(w)
  <2>1. "list" \in Steps /\ "list" \notin AtPlace \cup OnSnap
    BY DEF Steps, AtPlace, OnSnap
  <2>2. job[Main] \in Jobs /\ [job[Main] EXCEPT !.window = w] \in Jobs
    BY <1>1, TaskAssumption, JobFields DEF TaskTypes
  <2>3. job' = [job EXCEPT ![Main] = [job[Main] EXCEPT !.window = w]] /\ Goto(Main, "list")
    BY <1>5 DEF Launch
  <2>4. TaskTypes'
    BY <1>1, <2>1, <2>2, <2>3, TaskMoves, TaskAssumption
  <2>5. faults' \in 0..MaxTrouble
    BY <1>1, <1>5, HastyBound DEF Launch, DataTypes, Quiet
  <2>6. starts' \in 0..MaxTrouble
    BY <1>1, <1>5, BoundAssumption DEF Launch, DataTypes
  <2>7. gui' \in [Windows -> {"down", "starting", "up", "closing"}]
    BY <1>1, <1>5 DEF Launch, DataTypes
  <2>8. UNCHANGED <<depth, owned, mounted, session, rows, stray>>
    BY <1>5 DEF Launch
  <2>9. DataTypes'
    BY <1>1, <2>5, <2>6, <2>7, <2>8 DEF DataTypes
  <2> QED
    BY <2>4, <2>9, TypesSplit
<1>6. CASE Launched(w)
  BY <1>1, <1>6, TaskEnds, TaskAssumption, TypesSplit DEF Launched, DataTypes
<1>7. CASE Render(w)
  <2>1. rows' \in [Windows -> [Snaps -> {"browse", "unmount"}]]
    BY <1>1, <1>7 DEF Render, DataTypes
  <2> QED
    BY <1>1, <1>7, <2>1, TypesSplit DEF Render, TaskTypes, DataTypes
<1> QED
  BY <1>2, <1>3, <1>4, <1>5, <1>6, <1>7, ButtonTypes DEF Window

LEMMA NextTypes == TypeOK /\ [Next]_vars => TypeOK'
<1> SUFFICES ASSUME TypeOK, [Next]_vars PROVE TypeOK'
  OBVIOUS
<1>1. CASE UNCHANGED vars
  BY <1>1 DEF vars, TypeOK
<1>2. ASSUME NEW t \in Tasks, Task(t) PROVE TypeOK'
  BY <1>2, SnapshotTypes, CleanupTypes DEF Task
<1> QED
  BY <1>1, <1>2, WindowTypes, KilledTypes DEF Next

\* Every behaviour of the tasks, the buttons and the program, whatever overlaps,
\* fails or is killed, keeps every variable in its type (row.rs, mounts.rs, mount_ops.rs).
THEOREM MountTypes == Spec => []TypeOK
  BY InitTypes, NextTypes, PTL DEF Spec

-----------------------------------------------------------------------------
(* The top level stays, and a launch cleans up *)

\* No cleanup has the top level on its list.
TopSpared == \A t \in Tasks : job[t].todo[Top] = 0

\* What a step does to the mount table.
DepthMoves ==
    \/ UNCHANGED <<depth, stray>>
    \/ \E p \in Places \ {Top} : MountOn(p) \/ (Umounted(p) /\ UNCHANGED stray)

LEMMA TaskMovesDepth ==
    ASSUME TypeOK, TopSpared, NEW t \in Tasks, Task(t) PROVE DepthMoves
<1>1. /\ job[t].place \in Places /\ (pc[t] \in AtPlace => job[t].place # Top)
      /\ job[t].todo[Top] = 0
  BY TypesSplit, JobFields DEF TaskTypes, TopSpared
<1> USE DEF DepthMoves, history
<1>2. CASE BrowseUnmount(t) \/ BrowseMount(t) \/ UnmountRun(t) \/ LastRequest(t)
  <2>1. job[t].place \in Places \ {Top}
    BY <1>1, <1>2 DEF BrowseUnmount, BrowseMount, UnmountRun, LastRequest, AtPlace, OnSnap
  <2> QED
    BY <1>2, <2>1 DEF BrowseUnmount, BrowseMount, UnmountRun, LastRequest
<1>3. CASE CleanupUmount(t)
  <2>1. PICK p \in Places : job[t].todo[p] > 0 /\ (Umounted(p) \/ UNCHANGED depth)
    BY <1>3 DEF CleanupUmount
  <2>2. p # Top
    BY <1>1, <2>1
  <2> QED
    BY <1>3, <2>1, <2>2 DEF CleanupUmount
<1>4. CASE BrowseTarget(t) \/ BrowseOpen(t) \/ BrowseShown(t) \/ UnmountShown(t) \/ Lost(t)
  BY <1>4 DEF BrowseTarget, BrowseOpen, BrowseShown, UnmountShown, Shown, Lost
<1>5. CASE CleanupList(t) \/ CleanupEnd(t) \/ CleanupShown(t)
  BY <1>5 DEF CleanupList, CleanupEnd, CleanupShown
<1> QED
  BY <1>2, <1>3, <1>4, <1>5 DEF Task

LEMMA StepMovesDepth ==
    ASSUME TypeOK, TopSpared, [Next]_vars PROVE DepthMoves
<1>1. CASE UNCHANGED vars
  BY <1>1 DEF vars, DepthMoves
<1>2. ASSUME NEW w \in Windows, NEW t \in Tasks, Button(w, t) PROVE DepthMoves
  BY <1>2 DEF Button, PressBrowse, PressUnmount, PressCleanup, Press, DepthMoves, history
<1>3. ASSUME NEW w \in Windows, CloseUnmount(w) PROVE DepthMoves
  <2>1. PICK p \in session[w] : Umounted(p) \/ UNCHANGED depth
    BY <1>3 DEF CloseUnmount
  <2>2. p \in Places \ {Top} /\ UNCHANGED stray
    BY <1>3 DEF CloseUnmount, history, TypeOK
  <2> QED
    BY <2>1, <2>2 DEF DepthMoves
<1>4. ASSUME NEW w \in Windows, CloseEnd(w) \/ Killed PROVE DepthMoves
  BY <1>4 DEF CloseEnd, Gone, Killed, Die, DepthMoves, history
<1>5. ASSUME NEW w \in Windows, Close(w) \/ Launch(w) \/ Launched(w) \/ Render(w) PROVE DepthMoves
  BY <1>5 DEF Close, Launch, Launched, Render, DepthMoves, history
<1>6. CASE Killed
  BY <1>6 DEF Killed, Die, DepthMoves
<1> QED
  BY <1>1, <1>2, <1>3, <1>4, <1>5, <1>6, TaskMovesDepth DEF Next, Window

\* What a step of a task does to its list.
LEMMA TaskLists ==
    ASSUME TypeOK, NEW t \in Tasks, Task(t)
    PROVE  /\ \A u \in Tasks \ {t} : pc'[u] = pc[u] /\ job'[u] = job[u]
           /\ \A p \in Places : job'[t].todo[p] > 0 => job[t].todo[p] > 0 \/ Managed(p)
           /\ job'[t].todo \in [Places -> 0..MaxDepth]
<1>1. /\ TaskTypes /\ DataTypes /\ job[t] \in Jobs /\ pc \in [Tasks -> Steps]
      /\ job \in [Tasks -> Jobs] /\ job[t].todo \in [Places -> 0..MaxDepth]
      /\ NoJob.todo = [p \in Places |-> 0] /\ 0 \in 0..MaxDepth
  <2>1. TaskTypes /\ DataTypes
    BY TypesSplit
  <2>2. pc \in [Tasks -> Steps] /\ job \in [Tasks -> Jobs] /\ job[t] \in Jobs
    BY <2>1 DEF TaskTypes
  <2>3. job[t].todo \in [Places -> 0..MaxDepth]
    BY <2>2 DEF Jobs
  <2>4. NoJob.todo = [p \in Places |-> 0]
    BY NoJobFields
  <2>5. 0 \in 0..MaxDepth
    BY BoundAssumption
  <2> QED
    BY <2>1, <2>2, <2>3, <2>4, <2>5
<1>2. CASE UNCHANGED job \/ Done(t)
  <2>1. job'[t] = job[t] \/ job'[t] = NoJob
    BY <1>1, <1>2 DEF Done
  <2>2. \A u \in Tasks \ {t} : job'[u] = job[u]
    BY <1>1, <1>2 DEF Done
  <2>3. \A u \in Tasks \ {t} : pc'[u] = pc[u]
    BY <1>1 DEF Task, BrowseTarget, BrowseUnmount, BrowseMount, BrowseOpen, BrowseShown,
        UnmountRun, UnmountShown, Shown, CleanupList, CleanupUmount, CleanupEnd, CleanupShown,
        LastRequest, Lost, Done, Goto
  <2> QED
    BY <1>1, <2>1, <2>2, <2>3
<1>3. CASE BrowseTarget(t) /\ ~Done(t)
  <2>1. job'[t].todo = job[t].todo /\ \A u \in Tasks \ {t} : job'[u] = job[u]
    BY <1>1, <1>3 DEF BrowseTarget, Jobs
  <2>2. \A u \in Tasks \ {t} : pc'[u] = pc[u]
    BY <1>1, <1>3 DEF BrowseTarget, Goto
  <2> QED
    BY <1>1, <2>1, <2>2
<1>4. CASE CleanupList(t)
  <2>1. \A u \in Tasks \ {t} : pc'[u] = pc[u]
    BY <1>1, <1>4 DEF CleanupList, Goto
  <2>2. CASE job' = [job EXCEPT ![t] = [job[t] EXCEPT !.read = FALSE]]
    <3>1. job'[t].todo = job[t].todo /\ \A u \in Tasks \ {t} : job'[u] = job[u]
      BY <1>1, <2>2, JobFields
    <3> QED
      BY <1>1, <2>1, <3>1
  <2>3. ASSUME NEW d \in [Places -> 0..MaxDepth], job' = [job EXCEPT ![t].todo = d],
               \A p \in Places : d[p] > 0 <=> (Managed(p) /\ depth[p] > 0)
        PROVE  /\ \A u \in Tasks \ {t} : job'[u] = job[u]
               /\ job'[t].todo = d /\ \A p \in Places : d[p] > 0 => Managed(p)
    BY <1>1, <2>3, ListedJob
  <2> QED
    BY <1>1, <1>4, <2>1, <2>2, <2>3, ListingTypes
<1>5. CASE CleanupUmount(t) /\ ~Done(t)
  <2>1. PICK p \in Places : /\ job[t].todo[p] > 0 /\ Umounted(p)
                            /\ job' = [job EXCEPT ![t].todo[p] = @ - 1] /\ UNCHANGED <<pc, faults>>
    BY <1>5 DEF CleanupUmount
  <2>2. PICK d \in [Places -> 0..MaxDepth] :
             /\ job' = [job EXCEPT ![t].todo = d]
             /\ d[p] = job[t].todo[p] - 1 /\ \A q \in Places \ {p} : d[q] = job[t].todo[q]
    BY <1>1, <2>1, UmountingJob
  <2>3. job'[t].todo = d /\ \A u \in Tasks \ {t} : job'[u] = job[u]
    BY <1>1, <2>2, ListedJob
  <2> QED
    BY <1>1, <2>1, <2>2, <2>3
<1>6. UNCHANGED job \/ Done(t) \/ (BrowseTarget(t) /\ ~Done(t)) \/ CleanupList(t)
      \/ (CleanupUmount(t) /\ ~Done(t))
  <2>1. BrowseUnmount(t) \/ CleanupEnd(t) => UNCHANGED job
    BY DEF BrowseUnmount, CleanupEnd
  <2>2. BrowseMount(t) \/ BrowseOpen(t) \/ UnmountRun(t) => UNCHANGED job \/ Done(t)
    BY DEF BrowseMount, BrowseOpen, UnmountRun
  <2>3. BrowseShown(t) \/ UnmountShown(t) \/ CleanupShown(t) \/ LastRequest(t) \/ Lost(t) => Done(t)
    BY DEF BrowseShown, UnmountShown, Shown, CleanupShown, LastRequest, Lost
  <2> QED
    BY <2>1, <2>2, <2>3 DEF Task
<1> QED
  BY <1>2, <1>3, <1>4, <1>5, <1>6

\* What a step of a window, or the end of the program, does to the lists.
LEMMA OtherLists ==
    ASSUME TypeOK, Killed \/ (\E w \in Windows : Window(w)) \/ UNCHANGED vars
    PROVE  \A t \in Tasks : job'[t].todo \in {job[t].todo, [p \in Places |-> 0]}
<1>1. TaskTypes /\ NoJob.todo = [p \in Places |-> 0]
  BY TypesSplit, NoJobFields
<1>2. CASE UNCHANGED job
  BY <1>2
<1>3. ASSUME NEW w \in Windows, NEW u \in Tasks, Button(w, u), NEW t \in Tasks
      PROVE  job'[t].todo \in {job[t].todo, [p \in Places |-> 0]}
  <2>1. PICK s \in {"list", "target", "umount"}, j \in Jobs, early \in BOOLEAN :
          Press(w, u, s, j, early) /\ j.todo = [p \in Places |-> 0]
    BY <1>3, ButtonPress
  <2> DEFINE k == [j EXCEPT !.window = w]
  <2>2. job' = [job EXCEPT ![u] = k] /\ k.todo = j.todo
    BY <2>1, JobFields DEF Press
  <2> HIDE DEF k
  <2> QED
    BY <1>1, <2>1, <2>2 DEF TaskTypes
<1>4. ASSUME NEW w \in Windows, CloseEnd(w) \/ Killed, NEW t \in Tasks
      PROVE  job'[t].todo \in {job[t].todo, [p \in Places |-> 0]}
  BY <1>1, <1>4, DieTasks, GoneTasks DEF CloseEnd, Killed
<1>5. ASSUME NEW w \in Windows, Launched(w), NEW t \in Tasks
      PROVE  job'[t].todo \in {job[t].todo, [p \in Places |-> 0]}
  BY <1>1, <1>5, TaskAssumption DEF Launched, Done, TaskTypes
<1>6. ASSUME NEW w \in Windows, Launch(w), NEW t \in Tasks PROVE job'[t].todo = job[t].todo
  <2> DEFINE j == [job[Main] EXCEPT !.window = w]
  <2>1. j.todo = job[Main].todo
    BY <1>1, TaskAssumption, JobFields DEF TaskTypes
  <2>2. job' = [job EXCEPT ![Main] = j]
    BY <1>6 DEF Launch
  <2> HIDE DEF j
  <2> QED
    BY <1>1, <2>1, <2>2 DEF TaskTypes
<1>7. CASE Killed
  BY <1>1, <1>7, DieTasks DEF Killed
<1>8. ASSUME NEW w \in Windows, Window(w), NEW t \in Tasks
      PROVE  job'[t].todo \in {job[t].todo, [p \in Places |-> 0]}
  BY <1>3, <1>4, <1>5, <1>6, <1>8 DEF Window, Close, CloseUnmount, Render
<1> QED
  BY <1>2, <1>7, <1>8 DEF vars

\* A place holds several mounts only when one came over another.
OverIsStray == \A p \in Places : depth[p] > 1 => p \in stray

\* While a launch cleans up, what is mounted in the runtime directory is on its list.
Starting == \E w \in Windows : gui[w] = "starting"
LaunchLists ==
    Starting /\ pc[Main] \in {"clean", "cleaned"} /\ job[Main].read
        => \A s \in Snaps : LET p == Browse(s) IN
              depth[p] > 0 => p \in stray \/ (pc[Main] = "clean" /\ job[Main].todo[p] > 0)

LaunchInv == TypeOK /\ TopSpared /\ TopLevelStays /\ OverIsStray /\ LaunchLists

LEMMA InitLaunch == Init => LaunchInv
<1> SUFFICES ASSUME Init PROVE LaunchInv
  OBVIOUS
<1>1. TypeOK
  BY InitTypes
<1>2. TopSpared
  BY NoJobFields, PlaceFacts DEF Init, TopSpared
<1>3. TopLevelStays /\ OverIsStray
  BY PlaceFacts DEF Init, TopLevelStays, OverIsStray
<1> QED
  BY <1>1, <1>2, <1>3 DEF Init, LaunchLists, Starting, LaunchInv

LEMMA DepthKept ==
    ASSUME LaunchInv, DepthMoves
    PROVE  /\ TopLevelStays' /\ OverIsStray'
           /\ \A p \in Places : depth'[p] > 0 => p \in stray' \/ depth[p] > 0 \/ ~Starting
           /\ stray \subseteq stray'
<1>1. DataTypes /\ TopLevelStays /\ OverIsStray /\ depth \in [Places -> 0..MaxDepth]
  BY TypesSplit DEF LaunchInv, DataTypes
<1>2. CASE UNCHANGED <<depth, stray>>
  BY <1>1, <1>2 DEF TopLevelStays, OverIsStray
<1>3. ASSUME NEW p \in Places \ {Top}, MountOn(p)
      PROVE  /\ TopLevelStays' /\ OverIsStray' /\ stray \subseteq stray'
             /\ \A q \in Places : depth'[q] > 0 => q \in stray' \/ depth[q] > 0 \/ ~Starting
  <2>1. /\ depth'[p] = depth[p] + 1 /\ \A q \in Places \ {p} : depth'[q] = depth[q]
        /\ stray \subseteq stray' /\ (depth[p] > 0 \/ Starting => p \in stray')
    BY <1>1, <1>3, DepthBound DEF Starting
  <2>2. \A q \in Places : depth[q] \in Nat
    BY <1>1
  <2> QED
    BY <1>1, <2>1, <2>2, PlaceFacts DEF TopLevelStays, OverIsStray
<1>4. ASSUME NEW p \in Places \ {Top}, Umounted(p), UNCHANGED stray
      PROVE  /\ TopLevelStays' /\ OverIsStray' /\ stray \subseteq stray'
             /\ \A q \in Places : depth'[q] > 0 => q \in stray' \/ depth[q] > 0 \/ ~Starting
  <2>1. depth'[p] = depth[p] - 1 /\ \A q \in Places \ {p} : depth'[q] = depth[q]
    BY <1>1, <1>4, DepthBound
  <2>2. \A q \in Places : depth[q] \in Nat
    BY <1>1
  <2> QED
    BY <1>1, <1>4, <2>1, <2>2, PlaceFacts DEF TopLevelStays, OverIsStray
<1> QED
  BY <1>2, <1>3, <1>4 DEF DepthMoves

LEMMA SparedKept ==
    ASSUME LaunchInv, [Next]_vars PROVE TopSpared'
<1>1. TypeOK /\ TopSpared /\ Top \in Places /\ ~Managed(Top)
  BY PlaceFacts DEF LaunchInv
<1>2. ASSUME NEW t \in Tasks, Task(t) PROVE TopSpared'
  <2>1. /\ \A u \in Tasks \ {t} : job'[u] = job[u]
        /\ job'[t].todo[Top] > 0 => job[t].todo[Top] > 0 \/ Managed(Top)
        /\ job'[t].todo[Top] \in Nat
    BY <1>1, <1>2, TaskLists
  <2> QED
    BY <1>1, <2>1 DEF TopSpared
<1>3. ASSUME Killed \/ (\E w \in Windows : Window(w)) \/ UNCHANGED vars PROVE TopSpared'
  BY <1>1, <1>3, OtherLists DEF TopSpared
<1> QED
  BY <1>2, <1>3 DEF Next

\* The steps of the launching program's own cleanup.
LEMMA LaunchCleans ==
    ASSUME LaunchInv, Task(Main) PROVE LaunchLists'
<1>1. /\ TypeOK /\ TaskTypes /\ DataTypes /\ Main \in Tasks /\ TopSpared /\ LaunchLists
      /\ pc \in [Tasks -> Steps]
  BY TypesSplit, TaskAssumption DEF LaunchInv, TaskTypes
<1>2. /\ \A p \in Places : depth'[p] > 0 => p \in stray' \/ depth[p] > 0 \/ ~Starting
      /\ stray \subseteq stray' /\ \A s \in Snaps : Browse(s) \in Places /\ Managed(Browse(s))
  BY <1>1, DepthKept, TaskMovesDepth, PlaceFacts
<1>3. gui' = gui
  BY DEF Task, BrowseTarget, BrowseUnmount, BrowseMount, BrowseOpen, BrowseShown,
      UnmountRun, UnmountShown, Shown, CleanupList, CleanupUmount, CleanupEnd, CleanupShown,
      LastRequest, Lost, state
<1>4. CASE CleanupList(Main)
  <2>1. pc'[Main] = "clean" /\ UNCHANGED depth
    BY <1>1, <1>4 DEF CleanupList, Goto
  <2>2. CASE job' = [job EXCEPT ![Main] = [job[Main] EXCEPT !.read = FALSE]]
    <3>1. job'[Main].read = FALSE
      BY <1>1, <2>2, JobFields DEF TaskTypes
    <3> QED
      BY <3>1 DEF LaunchLists
  <2>3. ASSUME NEW d \in [Places -> 0..MaxDepth], job' = [job EXCEPT ![Main].todo = d],
               \A p \in Places : d[p] > 0 <=> (Managed(p) /\ depth[p] > 0)
        PROVE  LaunchLists'
    <3>1. job'[Main].todo = d
      BY <1>1, <2>3, ListedJob
    <3>2. \A s \in Snaps : depth'[Browse(s)] > 0 => job'[Main].todo[Browse(s)] > 0
      BY <1>2, <2>1, <2>3, <3>1
    <3> QED
      BY <2>1, <3>2 DEF LaunchLists, Browse
  <2> QED
    BY <1>1, <1>4, <2>2, <2>3, ListingTypes
<1>5. CASE CleanupUmount(Main)
  <2>1. PICK p \in Places :
         /\ job[Main].todo[p] > 0
         /\ \/ /\ Umounted(p) /\ job' = [job EXCEPT ![Main].todo[p] = @ - 1]
               /\ UNCHANGED <<pc, faults>>
            \/ Done(Main)
    BY <1>5 DEF CleanupUmount
  <2>2. CASE Done(Main)
    BY <1>1, <2>2 DEF Done, Goto, LaunchLists
  <2>3. CASE Umounted(p) /\ job' = [job EXCEPT ![Main].todo[p] = @ - 1] /\ UNCHANGED <<pc, faults>>
    <3>1. PICK d \in [Places -> 0..MaxDepth] :
             /\ job' = [job EXCEPT ![Main].todo = d]
             /\ d[p] = job[Main].todo[p] - 1 /\ \A q \in Places \ {p} : d[q] = job[Main].todo[q]
      BY <1>1, <2>1, <2>3, UmountingJob
    <3>2. job'[Main].todo = d /\ job'[Main].read = job[Main].read
      BY <1>1, <3>1, ListedJob
    <3>3. depth'[p] = depth[p] - 1 /\ \A q \in Places \ {p} : depth'[q] = depth[q]
      BY <1>1, <2>3, DepthBound
    <3>4. depth[p] > 1 => p \in stray'
      BY <1>2 DEF LaunchInv, OverIsStray
    <3>5. depth[p] \in Nat /\ pc[Main] = "clean" /\ pc' = pc
      BY <1>1, <1>5, <2>3 DEF DataTypes, CleanupUmount
    <3>6. ASSUME Starting, job[Main].read, NEW s \in Snaps, depth'[Browse(s)] > 0
          PROVE  Browse(s) \in stray' \/ d[Browse(s)] > 0
      <4>1. CASE Browse(s) = p
        BY <3>3, <3>4, <3>5, <3>6, <4>1
      <4>2. CASE Browse(s) # p
        BY <1>1, <1>2, <3>1, <3>3, <3>5, <3>6, <4>2 DEF LaunchLists
      <4> QED
        BY <4>1, <4>2
    <3> QED
      BY <1>3, <3>2, <3>5, <3>6 DEF LaunchLists, Browse, Starting
  <2> QED
    BY <2>1, <2>2, <2>3
<1>6. CASE CleanupEnd(Main)
  <2>1. /\ pc[Main] = "clean" /\ pc'[Main] = "cleaned" /\ UNCHANGED <<depth, job, stray>>
        /\ \A p \in Places : job[Main].todo[p] = 0
    BY <1>1, <1>6 DEF CleanupEnd, Goto, history, Nothing
  <2> QED
    BY <1>1, <1>2, <1>3, <2>1 DEF LaunchLists, Browse, Starting
<1>7. CASE pc'[Main] \notin {"clean", "cleaned"}
  BY <1>7 DEF LaunchLists
<1>8. CleanupList(Main) \/ CleanupUmount(Main) \/ CleanupEnd(Main) \/ pc'[Main] \notin {"clean", "cleaned"}
  BY <1>1 DEF Task, BrowseTarget, BrowseUnmount, BrowseMount, BrowseOpen, BrowseShown,
      UnmountRun, UnmountShown, Shown, CleanupShown, LastRequest, Lost, Done, Goto
<1> QED
  BY <1>4, <1>5, <1>6, <1>7, <1>8

LEMMA LaunchKept ==
    ASSUME LaunchInv, [Next]_vars PROVE LaunchLists'
<1>1. /\ TypeOK /\ TaskTypes /\ DataTypes /\ Main \in Tasks /\ TopSpared /\ LaunchLists
      /\ pc \in [Tasks -> Steps]
  BY TypesSplit, TaskAssumption DEF LaunchInv, TaskTypes
<1>2. /\ \A p \in Places : depth'[p] > 0 => p \in stray' \/ depth[p] > 0 \/ ~Starting
      /\ stray \subseteq stray' /\ \A s \in Snaps : Browse(s) \in Places
  BY <1>1, DepthKept, StepMovesDepth, PlaceFacts
<1>3. ASSUME Starting' => Starting, pc'[Main] = pc[Main],
             job'[Main].todo = job[Main].todo, job'[Main].read = job[Main].read
      PROVE  LaunchLists'
  BY <1>1, <1>2, <1>3 DEF LaunchLists, Browse
<1>4. ASSUME NEW t \in Tasks, Task(t) PROVE LaunchLists'
  <2>1. gui' = gui
    BY <1>4 DEF Task, BrowseTarget, BrowseUnmount, BrowseMount, BrowseOpen, BrowseShown,
        UnmountRun, UnmountShown, Shown, CleanupList, CleanupUmount, CleanupEnd, CleanupShown,
        LastRequest, Lost, state
  <2>2. CASE t # Main
    <3>1. pc'[Main] = pc[Main] /\ job'[Main] = job[Main]
      BY <1>1, <1>4, <2>2, TaskLists
    <3> QED
      BY <1>3, <2>1, <3>1 DEF Starting
  <2> QED
    BY <1>4, <2>2, LaunchCleans
<1>5. ASSUME NEW w \in Windows, NEW t \in Tasks, Button(w, t) PROVE LaunchLists'
  <2>1. Free /\ gui' = gui
    BY <1>5 DEF Button, PressCleanup, PressBrowse, PressUnmount, Press, state
  <2> QED
    BY <2>1 DEF Free, LaunchLists, Starting
<1>6. ASSUME NEW w \in Windows, Close(w) PROVE LaunchLists'
  <2>1. ~Starting'
    BY <1>1, <1>6 DEF Close, Free, Starting, DataTypes
  <2> QED
    BY <2>1 DEF LaunchLists
<1>7. ASSUME NEW w \in Windows, CloseUnmount(w) \/ Render(w) PROVE LaunchLists'
  BY <1>3, <1>7 DEF CloseUnmount, Render, Starting
<1>8. ASSUME NEW w \in Windows, Launch(w) PROVE LaunchLists'
  <2>1. pc'[Main] = "list"
    BY <1>1, <1>8 DEF Launch, Goto
  <2> QED
    BY <2>1 DEF LaunchLists
<1>9. CASE UNCHANGED vars
  BY <1>3, <1>9 DEF vars, Starting
<1>10. ASSUME NEW w \in Windows, Launched(w) PROVE LaunchLists'
  <2>1. pc'[Main] = "idle"
    BY <1>1, <1>10 DEF Launched, Done, Goto
  <2> QED
    BY <2>1 DEF LaunchLists
<1>11. ASSUME Die PROVE LaunchLists'
  <2>1. ~Starting'
    BY <1>11 DEF Die, Starting
  <2> QED
    BY <2>1 DEF LaunchLists
<1>12. ASSUME NEW w \in Windows, Gone(w) PROVE LaunchLists'
  <2>1. Starting' => Starting
    BY <1>1, <1>12 DEF Gone, Starting, DataTypes
  <2> QED
    BY <1>1, <1>3, <1>12, <2>1, GoneTasks
<1>13. ASSUME NEW w \in Windows, Window(w) PROVE LaunchLists'
  BY <1>5, <1>6, <1>7, <1>8, <1>10, <1>11, <1>12, <1>13 DEF Window, CloseEnd
<1> QED
  BY <1>4, <1>9, <1>11, <1>13 DEF Next, Killed

LEMMA NextLaunch == LaunchInv /\ [Next]_vars => LaunchInv'
<1> SUFFICES ASSUME LaunchInv, [Next]_vars PROVE LaunchInv'
  OBVIOUS
<1>1. TypeOK'
  BY NextTypes DEF LaunchInv
<1>2. TopSpared'
  BY SparedKept
<1>3. TopLevelStays' /\ OverIsStray'
  BY DepthKept, StepMovesDepth DEF LaunchInv
<1>4. LaunchLists'
  BY LaunchKept
<1> QED
  BY <1>1, <1>2, <1>3, <1>4 DEF LaunchInv

\* However tasks, failures, busy mounts and kills interleave, nothing the program asks
\* for unmounts the top level on which the service's database lies (infra.rs:19-34,
\* mount_ops.rs:219-252).
THEOREM TopLevelIsSafe == Spec => []TopLevelStays
<1>1. LaunchInv => TopLevelStays
  BY DEF LaunchInv
<1> QED
  BY <1>1, InitLaunch, NextLaunch, PTL DEF Spec

\* Whatever was left mounted, stacked, killed or in flight, a launch whose cleanup could
\* list the mounts and succeeds leaves in the runtime directory only what was mounted over
\* something else or by a request still in flight (mod.rs:308-329, mount_ops.rs:219-252).
THEOREM LaunchCleansUp == Spec => LaunchRecovers
<1>1. ASSUME LaunchInv, [Next]_vars
      PROVE  [\A w \in Windows :
                gui[w] = "starting" /\ gui'[w] = "up" /\ pc[Main] = "cleaned" /\ job[Main].read
                => \A s \in Snaps : depth[Browse(s)] > 0 => Browse(s) \in stray]_gui
  BY <1>1 DEF LaunchInv, LaunchLists, Starting
<1> QED
  BY <1>1, InitLaunch, NextLaunch, PTL DEF Spec, LaunchRecovers

-----------------------------------------------------------------------------
(* What the windows remember *)

\* A user who waits for answers, while nothing fails and the directory is writable.
Calm == faults = 0 /\ ~owned

\* The other windows neither open nor close.
Settled(w) == \A v \in Windows \ {w} : gui[v] \in {"down", "up"}

\* Then the tasks work for different snapshots, a cleanup is alone, and while a window
\* opens or closes there is no other task.
Separate ==
    /\ \A t \in Tasks : pc[t] \in {"idle"} \cup OnSnap \cup Cleaning
    /\ \A t \in Tasks : pc[t] \in OnSnap =>
         Free /\ job[t].window \in Windows /\ gui[job[t].window] = "up"
    /\ \A t \in Tasks : pc[t] \in OnSnap \ {"target"} => job[t].place = Browse(job[t].snap)
    /\ \A t \in Tasks : pc[t] \in Cleaning =>
         /\ job[t].window \in Windows /\ Settled(job[t].window)
         /\ gui[job[t].window] = IF t = Main THEN "starting" ELSE "up"
    /\ \A t, u \in Tasks : t # u /\ pc[t] # "idle" /\ pc[u] # "idle"
                            => pc[t] \in OnSnap /\ job[t].snap # job[u].snap

\* What a task knows of its place, and a cleanup of all.
Known ==
    /\ \A t \in Tasks : pc[t] \in {"mount", "unmounted"} => depth[job[t].place] = 0
    /\ \A t \in Tasks : pc[t] \in {"open", "shown"} => depth[job[t].place] = 1
    /\ \A t \in Tasks : pc[t] = "clean" =>
         \A p \in Places : job[t].todo[p] = IF Managed(p) THEN depth[p] ELSE 0
    /\ \A t \in Tasks : pc[t] = "cleaned" => \A s \in Snaps : depth[Browse(s)] = 0

\* A task or a cleanup has changed a place and its window has not been told.
Untold(s) == \E t \in Tasks : \/ pc[t] \in {"mount", "open", "shown", "unmounted"} /\ job[t].snap = s
                              \/ pc[t] \in {"clean", "cleaned"}

\* Otherwise an open window will unmount what is mounted.
Kept(s) == depth[Browse(s)] = 1 => \E w \in Windows : gui[w] # "down" /\ Browse(s) \in session[w]

\* Of the windows of a program that has not been started again at most one is open,
\* and it knows exactly what is mounted.
Exact(w, s) == Browse(s) \in mounted[w] <=> depth[Browse(s)] = 1
AloneKnows(w) ==
    /\ gui[w] \in {"down", "starting"} => mounted[w] = {}
    /\ gui[w] = "starting" => \A s \in Snaps : depth[Browse(s)] = 0
    /\ gui[w] = "up" => /\ mounted[w] \subseteq session[w] /\ \A s \in Snaps : Fallback(s) \notin mounted[w]
                        /\ \A s \in Snaps : Exact(w, s) \/ Untold(s)
Single == \A v, w \in Windows : gui[v] # "down" /\ gui[w] # "down" => v = w

Told ==
    /\ \A s \in Snaps : depth[Fallback(s)] = 0 /\ depth[Browse(s)] <= 1
    /\ \A s \in Snaps : Kept(s) \/ Untold(s)
    /\ starts = 0 => Single /\ \A w \in Windows : AloneKnows(w)

CalmInv == TypeOK /\ (Calm => Separate /\ Known /\ Told)

LEMMA InitCalm == Init => CalmInv
<1> SUFFICES ASSUME Init PROVE CalmInv
  OBVIOUS
<1>1. Separate
  BY DEF Init, Separate, OnSnap, Cleaning
<1>2. Known
  BY DEF Init, Known
<1>3. \A s \in Snaps : depth[Fallback(s)] = 0 /\ depth[Browse(s)] = 0 /\ depth[Browse(s)] <= 1
  <2> SUFFICES ASSUME NEW s \in Snaps
               PROVE  depth[Fallback(s)] = 0 /\ depth[Browse(s)] = 0 /\ depth[Browse(s)] <= 1
    OBVIOUS
  <2>1. depth[Fallback(s)] = 0 /\ depth[Browse(s)] = 0
    BY PlaceFacts DEF Init
  <2> QED
    BY <2>1
<1>4. \A w \in Windows : gui[w] = "down" /\ mounted[w] = {}
  BY DEF Init
<1>5. Told
  BY <1>3, <1>4 DEF Told, Kept, Single, AloneKnows
<1> QED
  BY <1>1, <1>2, <1>5, InitTypes DEF CalmInv

\* Nothing that went wrong is forgotten.
LEMMA CalmBefore ==
    ASSUME TypeOK, [Next]_vars, Calm' PROVE Calm /\ ~Fault
<1>1. faults \in Nat
  BY DEF TypeOK
<1>2. faults' = 0 /\ ~owned'
  BY DEF Calm
<1>3. ~Fault
  BY <1>1, <1>2 DEF Fault
<1>4. ASSUME UNCHANGED <<faults, owned>> PROVE Calm
  BY <1>2, <1>4 DEF Calm
<1> USE DEF state, memory, history
<1>5. ASSUME NEW t \in Tasks, Task(t) PROVE UNCHANGED <<faults, owned>>
  <2>1. CASE BrowseTarget(t) \/ BrowseUnmount(t) \/ BrowseMount(t) \/ BrowseOpen(t)
    BY <1>3, <2>1 DEF BrowseTarget, BrowseUnmount, BrowseMount, BrowseOpen
  <2>2. CASE BrowseShown(t) \/ UnmountRun(t) \/ UnmountShown(t)
    BY <1>3, <2>2 DEF BrowseShown, UnmountRun, UnmountShown, Shown
  <2>3. CASE CleanupList(t) \/ CleanupUmount(t)
    BY <1>3, <2>3 DEF CleanupList, CleanupUmount
  <2>4. CASE CleanupEnd(t) \/ CleanupShown(t) \/ LastRequest(t) \/ Lost(t)
    BY <1>3, <2>4 DEF CleanupEnd, CleanupShown, LastRequest, Lost
  <2> QED
    BY <1>5, <2>1, <2>2, <2>3, <2>4 DEF Task
<1>6. ASSUME NEW w \in Windows, NEW t \in Tasks, Button(w, t) PROVE UNCHANGED <<faults, owned>>
  BY <1>3, <1>6, ButtonPress DEF Press, Hasty
<1>7. ASSUME NEW w \in Windows, Window(w) PROVE UNCHANGED <<faults, owned>>
  <2>1. CASE Close(w) \/ Launch(w)
    BY <1>3, <2>1 DEF Close, Launch, Hasty
  <2>2. CASE CloseUnmount(w)
    BY <1>3, <2>2 DEF CloseUnmount
  <2>3. CASE CloseEnd(w)
    BY <2>3 DEF CloseEnd, Gone, Die
  <2>4. CASE Launched(w) \/ Render(w)
    BY <2>4 DEF Launched, Render
  <2> QED
    BY <1>6, <1>7, <2>1, <2>2, <2>3, <2>4 DEF Window
<1>8. ~Killed
  BY <1>3 DEF Killed
<1> QED
  BY <1>3, <1>4, <1>5, <1>7, <1>8 DEF Next, vars

\* Every task but t stays where it is.
OnlyTask(t) == \A u \in Tasks \ {t} : pc'[u] = pc[u] /\ job'[u] = job[u]

\* A step of a task for its snapshot.
LEMMA SnapStep ==
    ASSUME CalmInv, Calm, NEW t \in Tasks, pc[t] \in OnSnap, NEW s \in Snaps, s = job[t].snap,
           NEW w \in Windows, w = job[t].window,
           UNCHANGED <<gui, starts>>, OnlyTask(t), pc'[t] \in OnSnap \cup {"idle"},
           pc'[t] \in OnSnap => job'[t].snap = s /\ job'[t].window = w,
           pc'[t] \in OnSnap \ {"target"} => job'[t].place = Browse(s),
           \A q \in Places \ {Browse(s)} : depth'[q] = depth[q] /\ (q \in mounted'[w] <=> q \in mounted[w]),
           \A v \in Windows \ {w} : mounted'[v] = mounted[v],
           \A v \in Windows : session[v] \subseteq session'[v],
           mounted[w] \subseteq session[w] => mounted'[w] \subseteq session'[w],
           depth'[Browse(s)] \in {0, 1},
           pc'[t] \in {"mount", "unmounted"} => depth'[Browse(s)] = 0,
           pc'[t] \in {"open", "shown"} => depth'[Browse(s)] = 1,
           \/ pc'[t] \in {"mount", "open", "shown", "unmounted"}
           \/ Kept(s)' /\ (starts = 0 => Exact(w, s)')
    PROVE  Separate' /\ Known' /\ Told'
<1>1. Separate /\ Known /\ Told /\ TaskTypes
  BY TypesSplit DEF CalmInv
<1>2. Free /\ Free' /\ gui[w] = "up" /\ gui'[w] = "up"
  BY <1>1 DEF Separate, Free
<1>3. \A u \in Tasks \ {t} : pc[u] = "idle" \/ (pc[u] \in OnSnap /\ job[u].snap # s)
  BY <1>1 DEF Separate, OnSnap
<1>4. "idle" \notin OnSnap \cup Cleaning /\ OnSnap \cap Cleaning = {}
  BY DEF OnSnap, Cleaning
<1>5. \A u \in Tasks \ {t} : pc'[u] = "idle" \/ (pc'[u] \in OnSnap /\ job'[u].snap # s)
  BY <1>3 DEF OnlyTask
<1>6. Separate'
  <2>1. \A u \in Tasks : pc'[u] \in OnSnap \cup {"idle"}
    BY <1>1, <1>5 DEF OnlyTask, Separate
  <2>2. \A u \in Tasks : pc'[u] \in OnSnap \ {"target"} => job'[u].place = Browse(job'[u].snap)
    BY <1>1 DEF OnlyTask, Separate
  <2>3. ASSUME NEW u \in Tasks, NEW v \in Tasks, u # v, pc'[u] # "idle", pc'[v] # "idle"
        PROVE  pc'[u] \in OnSnap /\ job'[u].snap # job'[v].snap
    <3>1. CASE u # t /\ v # t
      BY <1>1, <2>3, <3>1 DEF OnlyTask, Separate
    <3>2. CASE u = t \/ v = t
      BY <1>5, <2>1, <2>3, <3>2
    <3> QED
      BY <3>1, <3>2
  <2>4. \A u \in Tasks : pc'[u] \in OnSnap => job'[u].window \in Windows /\ gui'[job'[u].window] = "up"
    BY <1>1, <1>2 DEF OnlyTask, Separate
  <2> QED
    BY <1>2, <1>4, <2>1, <2>2, <2>3, <2>4 DEF Separate
<1>7. \A u \in Tasks \ {t} : pc[u] \in OnSnap \ {"target"} =>
           /\ job[u].place \in Places \ {Browse(s)} /\ job'[u].place = job[u].place
           /\ depth'[job'[u].place] = depth[job[u].place]
  <2> SUFFICES ASSUME NEW u \in Tasks \ {t}, pc[u] \in OnSnap \ {"target"}
               PROVE  /\ job[u].place \in Places \ {Browse(s)} /\ job'[u].place = job[u].place
                      /\ depth'[job'[u].place] = depth[job[u].place]
    OBVIOUS
  <2>1. job[u] \in Jobs /\ job[u].snap # None /\ job[u].snap # s /\ job[u].place = Browse(job[u].snap)
    BY <1>1, <1>3, <1>4 DEF Separate, TaskTypes
  <2>2. job[u].snap \in Snaps
    BY <2>1 DEF Jobs
  <2>3. job[u].place \in Places \ {Browse(s)}
    BY <2>1, <2>2, PlaceFacts
  <2> QED
    BY <2>3 DEF OnlyTask
<1>8. Known'
  <2>1. \A u \in Tasks : pc'[u] \notin {"clean", "cleaned"}
    BY <1>4, <1>5 DEF Cleaning, OnSnap
  <2>2. ASSUME NEW u \in Tasks
        PROVE  /\ pc'[u] \in {"mount", "unmounted"} => depth'[job'[u].place] = 0
               /\ pc'[u] \in {"open", "shown"} => depth'[job'[u].place] = 1
    <3>1. CASE u = t
      BY <3>1 DEF OnSnap
    <3>2. CASE u # t
      BY <1>1, <1>7, <3>2 DEF OnlyTask, Known, OnSnap
    <3> QED
      BY <3>1, <3>2
  <2> QED
    BY <2>1, <2>2 DEF Known
<1>9. Told'
  <2>1. \A r \in Snaps : Fallback(r) \in Places \ {Browse(s)}
    BY PlaceFacts
  <2>2. \A r \in Snaps : depth'[Fallback(r)] = 0
    BY <1>1, <1>2, <2>1 DEF Told
  <2>3. \A r \in Snaps \ {s} : Browse(r) \in Places \ {Browse(s)}
    BY PlaceFacts
  <2>4. ASSUME NEW r \in Snaps PROVE depth'[Browse(r)] <= 1
    <3>1. CASE r = s
      BY <3>1
    <3>2. CASE r # s
      BY <1>1, <2>3, <3>2 DEF Told
    <3> QED
      BY <3>1, <3>2
  <2>5. ASSUME NEW r \in Snaps, r # s
        PROVE  /\ depth'[Browse(r)] = depth[Browse(r)] /\ (Browse(r) \in mounted'[w] <=> Browse(r) \in mounted[w])
               /\ Untold(r) => Untold(r)'
               /\ Kept(r)' \/ Untold(r)'
    <3>1. depth'[Browse(r)] = depth[Browse(r)] /\ (Browse(r) \in mounted'[w] <=> Browse(r) \in mounted[w])
      BY <2>3, <2>5
    <3>2. Untold(r) => Untold(r)'
      BY <1>3, <1>4, <2>5 DEF Untold, OnlyTask, Cleaning, OnSnap
    <3>3. Kept(r) \/ Untold(r)
      BY <1>1 DEF Told
    <3>4. Kept(r) => Kept(r)'
      BY <3>1 DEF Kept
    <3> QED
      BY <3>1, <3>2, <3>3, <3>4
  <2>6. /\ Kept(s)' \/ Untold(s)'
        /\ starts = 0 => Exact(w, s)' \/ Untold(s)'
    BY DEF Untold, OnSnap
  <2>7. ASSUME starts = 0 PROVE Single' /\ \A v \in Windows : AloneKnows(v)'
    <3>1. Single /\ \A v \in Windows : AloneKnows(v)
      BY <1>1, <2>7 DEF Told
    <3>2. Single'
      BY <3>1 DEF Single
    <3>3. ASSUME NEW v \in Windows, v # w PROVE AloneKnows(v)'
      <4>1. gui'[v] = "down" /\ mounted'[v] = {}
        BY <1>2, <3>1, <3>3 DEF Single, AloneKnows
      <4> QED
        BY <4>1 DEF AloneKnows
    <3>4. AloneKnows(w)'
      <4>1. \A r \in Snaps : Fallback(r) \notin mounted'[w]
        BY <1>2, <2>1, <3>1 DEF AloneKnows
      <4>2. mounted'[w] \subseteq session'[w]
        BY <1>2, <3>1 DEF AloneKnows
      <4>3. ASSUME NEW r \in Snaps, r # s PROVE Exact(w, r)' \/ Untold(r)'
        BY <1>2, <2>5, <3>1, <4>3 DEF AloneKnows, Exact
      <4> QED
        BY <1>2, <2>6, <2>7, <4>1, <4>2, <4>3 DEF AloneKnows
    <3> QED
      BY <3>2, <3>3, <3>4
  <2> QED
    BY <2>2, <2>4, <2>5, <2>6, <2>7 DEF Told
<1> QED
  BY <1>6, <1>8, <1>9

\* The steps of a window's tasks for a snapshot.
LEMMA CalmSnapshots ==
    ASSUME CalmInv, Calm, ~Fault, NEW t \in Tasks,
           \/ BrowseTarget(t) \/ BrowseUnmount(t) \/ BrowseMount(t) \/ BrowseOpen(t)
           \/ BrowseShown(t) \/ UnmountRun(t) \/ UnmountShown(t)
    PROVE  Separate' /\ Known' /\ Told'
<1>1. Separate /\ Known /\ Told /\ TaskTypes /\ DataTypes /\ ~owned /\ TypeOK
  BY TypesSplit DEF CalmInv, Calm
<1>2. pc[t] \in OnSnap
  BY DEF BrowseTarget, BrowseUnmount, BrowseMount, BrowseOpen, BrowseShown, UnmountRun,
      UnmountShown, Shown, OnSnap
<1>3. PICK s \in Snaps, w \in Windows : s = job[t].snap /\ w = job[t].window
  BY <1>1, <1>2 DEF TaskTypes, Jobs, Separate
<1> DEFINE p == Browse(s)
<1>4. /\ p \in Places \ {Top} /\ gui[w] = "up" /\ (pc[t] # "target" => job[t].place = p)
      /\ job[t] \in Jobs /\ pc \in [Tasks -> Steps] /\ job \in [Tasks -> Jobs]
      /\ mounted \in [Windows -> SUBSET (Places \ {Top})]
      /\ session \in [Windows -> SUBSET (Places \ {Top})]
  BY <1>1, <1>2, <1>3, PlaceFacts DEF TaskTypes, DataTypes, Separate
<1>5. OnlyTask(t)
  BY <1>1, TaskLists DEF OnlyTask, Task
<1>6. /\ depth[p] \in {0, 1}
      /\ pc[t] \in {"target", "preunmount", "umount"} => Kept(s) /\ (starts = 0 => Exact(w, s))
  <2>1. depth[p] \in Nat /\ depth[p] <= 1
    BY <1>1, <1>4 DEF DataTypes, Told
  <2>2. pc[t] \in {"target", "preunmount", "umount"} => ~Untold(s)
    BY <1>1, <1>2, <1>3 DEF Separate, Untold, OnSnap
  <2>3. (Kept(s) \/ Untold(s)) /\ (starts = 0 => Exact(w, s) \/ Untold(s))
    BY <1>1, <1>4 DEF Told, AloneKnows
  <2> QED
    BY <2>1, <2>2, <2>3
<1> HIDE DEF p
<1>7. Done(t) => pc'[t] = "idle"
  BY <1>4 DEF Done, Goto
<1>8. \A step : Goto(t, step) => pc'[t] = step
  BY <1>4 DEF Goto
<1>9. /\ UNCHANGED job => job'[t].snap = s /\ job'[t].window = w /\ job'[t].place = job[t].place
      /\ "idle" \notin OnSnap /\ p = Browse(s)
  BY <1>3 DEF OnSnap, p
<1>10. Umounted(p) => depth'[p] = depth[p] - 1 /\ \A q \in Places \ {p} : depth'[q] = depth[q]
  BY <1>1, <1>4, DepthBound
<1>11. MountOn(p) => depth'[p] = depth[p] + 1 /\ \A q \in Places \ {p} : depth'[q] = depth[q]
  BY <1>1, <1>4, DepthBound
<1>12. UNCHANGED <<gui, mounted, session, depth, starts>> => Kept(s)' = Kept(s) /\ Exact(w, s)' = Exact(w, s)
  BY DEF Kept, Exact
<1> USE DEF state, memory, history
<1>13. CASE BrowseTarget(t)
  <2>1. /\ job' = [job EXCEPT ![t].place = <<"browse", s>>] /\ Goto(t, "preunmount")
        /\ UNCHANGED <<gui, mounted, session, depth, starts>> /\ pc[t] = "target"
    BY <1>1, <1>3, <1>13 DEF BrowseTarget
  <2>2. job'[t].place = p /\ job'[t].snap = s /\ job'[t].window = w
    BY <1>3, <1>4, <1>9, <2>1 DEF Jobs, Browse
  <2>3. pc'[t] = "preunmount"
    BY <1>8, <2>1
  <2> QED
    BY <1>2, <1>3, <1>5, <1>6, <1>9, <1>12, <2>1, <2>2, <2>3, SnapStep DEF OnSnap
<1>14. CASE BrowseUnmount(t)
  <2>1. /\ (Umounted(p) \/ (depth[p] = 0 /\ UNCHANGED depth)) /\ Goto(t, "mount")
        /\ UNCHANGED <<gui, mounted, session, job, starts>> /\ job[t].place = p
    BY <1>4, <1>14 DEF BrowseUnmount
  <2>2. pc'[t] = "mount" /\ depth'[p] = 0 /\ \A q \in Places \ {p} : depth'[q] = depth[q]
    BY <1>6, <1>8, <1>10, <2>1 DEF Umounted
  <2> QED
    BY <1>2, <1>3, <1>5, <1>9, <2>1, <2>2, SnapStep DEF OnSnap
<1>15. CASE BrowseMount(t)
  <2>1. depth[p] = 0 /\ job[t].place = p
    BY <1>1, <1>4, <1>15 DEF BrowseMount, Known
  <2>2. MountOn(p) /\ Goto(t, "open") /\ UNCHANGED <<gui, mounted, session, job, starts>>
    BY <1>15, <2>1 DEF BrowseMount
  <2>3. pc'[t] = "open" /\ depth'[p] = 1 /\ \A q \in Places \ {p} : depth'[q] = depth[q]
    BY <1>8, <1>11, <2>1, <2>2
  <2> QED
    BY <1>2, <1>3, <1>5, <1>9, <2>1, <2>2, <2>3, SnapStep DEF OnSnap
<1>16. CASE BrowseOpen(t)
  <2>1. depth[p] = 1 /\ job[t].place = p
    BY <1>1, <1>4, <1>16 DEF BrowseOpen, Known
  <2>2. pc'[t] = "shown" /\ UNCHANGED <<gui, mounted, session, job, depth, starts>>
    BY <1>8, <1>16 DEF BrowseOpen
  <2> QED
    BY <1>2, <1>3, <1>5, <1>9, <2>1, <2>2, SnapStep DEF OnSnap
<1>17. CASE BrowseShown(t)
  <2>1. depth[p] = 1 /\ job[t].place = p
    BY <1>1, <1>4, <1>17 DEF BrowseShown, Shown, Known
  <2>2. /\ pc'[t] = "idle" /\ UNCHANGED <<gui, depth, starts>>
        /\ mounted' = [mounted EXCEPT ![w] = @ \cup {p}] /\ session' = [session EXCEPT ![w] = @ \cup {p}]
    BY <1>3, <1>7, <1>17, <2>1 DEF BrowseShown, Shown
  <2>3. /\ mounted'[w] = mounted[w] \cup {p} /\ session'[w] = session[w] \cup {p}
        /\ \A v \in Windows \ {w} : mounted'[v] = mounted[v] /\ session'[v] = session[v]
    BY <1>4, <2>2
  <2>4. Kept(s)' /\ Exact(w, s)'
    BY <1>4, <1>9, <2>1, <2>2, <2>3 DEF Kept, Exact
  <2> QED
    BY <1>2, <1>3, <1>5, <1>6, <1>9, <2>1, <2>2, <2>3, <2>4, SnapStep DEF OnSnap
<1>18. CASE UnmountRun(t)
  <2>1. job[t].place = p /\ pc[t] = "umount"
    BY <1>4, <1>18 DEF UnmountRun
  <2>2. CASE Umounted(p) /\ Goto(t, "unmounted") /\ UNCHANGED <<job, faults>>
    <3>1. pc'[t] = "unmounted" /\ UNCHANGED <<gui, mounted, session, job, starts>>
      BY <1>8, <1>18, <2>2 DEF UnmountRun
    <3>2. depth'[p] = 0 /\ \A q \in Places \ {p} : depth'[q] = depth[q]
      BY <1>6, <1>10, <2>2 DEF Umounted
    <3> QED
      BY <1>2, <1>3, <1>5, <1>9, <2>1, <3>1, <3>2, SnapStep DEF OnSnap
  <2>3. CASE Done(t) /\ UNCHANGED depth
    <3>1. pc'[t] = "idle" /\ UNCHANGED <<gui, mounted, session, starts>>
      BY <1>7, <1>18, <2>3 DEF UnmountRun
    <3> QED
      BY <1>2, <1>3, <1>5, <1>6, <1>9, <1>12, <2>1, <2>3, <3>1, SnapStep DEF OnSnap
  <2> QED
    BY <1>18, <2>1, <2>2, <2>3 DEF UnmountRun
<1>19. CASE UnmountShown(t)
  <2>1. depth[p] = 0 /\ job[t].place = p
    BY <1>1, <1>4, <1>19 DEF UnmountShown, Shown, Known
  <2>2. /\ pc'[t] = "idle" /\ UNCHANGED <<gui, depth, starts, session>>
        /\ mounted' = [mounted EXCEPT ![w] = @ \ {p}]
    BY <1>3, <1>7, <1>19, <2>1 DEF UnmountShown, Shown
  <2>3. /\ mounted'[w] = mounted[w] \ {p}
        /\ \A v \in Windows \ {w} : mounted'[v] = mounted[v]
    BY <1>4, <2>2
  <2>4. Kept(s)' /\ Exact(w, s)'
    BY <1>9, <2>1, <2>2, <2>3 DEF Kept, Exact
  <2> QED
    BY <1>2, <1>3, <1>5, <1>6, <1>9, <2>1, <2>2, <2>3, <2>4, SnapStep DEF OnSnap
<1> QED
  BY <1>13, <1>14, <1>15, <1>16, <1>17, <1>18, <1>19

\* A step of a cleanup: every other task is idle.
LEMMA CleanAlone ==
    ASSUME CalmInv, Calm, NEW t \in Tasks, pc[t] \in Cleaning
    PROVE  /\ \A u \in Tasks \ {t} : pc[u] = "idle"
           /\ \A s \in Snaps : depth[Fallback(s)] = 0 /\ depth[Browse(s)] \in {0, 1}
<1>1. Separate /\ Told /\ DataTypes
  BY TypesSplit DEF CalmInv
<1>2. \A u \in Tasks \ {t} : pc[u] = "idle"
  <2>1. pc[t] \notin OnSnap \cup {"idle"}
    BY DEF OnSnap, Cleaning
  <2> QED
    BY <1>1, <2>1 DEF Separate
<1>3. ASSUME NEW s \in Snaps PROVE depth[Browse(s)] \in {0, 1}
  <2>1. Browse(s) \in Places
    BY PlaceFacts
  <2>2. depth[Browse(s)] \in Nat
    BY <1>1, <2>1 DEF DataTypes
  <2>3. depth[Browse(s)] <= 1
    BY <1>1 DEF Told
  <2> QED
    BY <2>2, <2>3
<1> QED
  BY <1>1, <1>2, <1>3 DEF Told

LEMMA CleanStep ==
    ASSUME CalmInv, Calm, NEW t \in Tasks, pc[t] \in Cleaning, NEW w \in Windows, w = job[t].window,
           UNCHANGED <<gui, starts>>, OnlyTask(t), pc'[t] \in {"clean", "cleaned", "idle"},
           pc'[t] # "idle" => job'[t].window = w /\ UNCHANGED <<mounted, session>>,
           pc'[t] = "idle" => Forget(w) /\ t # Main,
           \A s \in Snaps : /\ depth'[Fallback(s)] = 0 /\ depth'[Browse(s)] \in {0, 1}
                            /\ depth[Browse(s)] = 0 => depth'[Browse(s)] = 0
                            /\ pc'[t] \in {"cleaned", "idle"} => depth'[Browse(s)] = 0,
           pc'[t] = "clean" =>
              \A p \in Places : job'[t].todo[p] = IF Managed(p) THEN depth'[p] ELSE 0
    PROVE  Separate' /\ Known' /\ Told'
<1>1. /\ Separate /\ Told /\ DataTypes
      /\ \A u \in Tasks \ {t} : pc[u] = "idle"
      /\ Settled(w) /\ gui[w] = IF t = Main THEN "starting" ELSE "up"
  <2>1. Separate /\ Told /\ DataTypes /\ \A u \in Tasks \ {t} : pc[u] = "idle"
    BY CleanAlone, TypesSplit DEF CalmInv
  <2> QED
    BY <2>1 DEF Separate
<1>2. \A u \in Tasks \ {t} : pc'[u] = "idle"
  BY <1>1 DEF OnlyTask
<1>3. /\ "idle" \notin OnSnap \cup Cleaning /\ OnSnap \cap Cleaning = {}
      /\ {"mount", "unmounted", "open", "shown"} \subseteq OnSnap
      /\ {"clean", "cleaned"} \subseteq Cleaning
  BY DEF OnSnap, Cleaning
<1>4. Separate'
  BY <1>1, <1>2, <1>3 DEF Separate, Settled
<1>5. Known'
  <2>1. \A u \in Tasks : pc'[u] \notin {"mount", "unmounted", "open", "shown"}
    BY <1>2, <1>3
  <2>2. \A u \in Tasks : pc'[u] \in {"clean", "cleaned"} => u = t
    BY <1>2
  <2> QED
    BY <2>1, <2>2 DEF Known
<1>6. ASSUME NEW s \in Snaps PROVE depth'[Browse(s)] = 0 \/ Untold(s)'
  BY DEF Untold
<1>7. ASSUME NEW v \in Windows
      PROVE  \/ mounted'[v] = mounted[v] /\ session'[v] = session[v]
             \/ v = w /\ pc'[t] = "idle" /\ mounted'[v] = {}
  BY <1>1 DEF Forget, DataTypes
<1>8. ASSUME starts = 0 PROVE Single' /\ \A v \in Windows : AloneKnows(v)'
  <2>1. Single /\ \A v \in Windows : AloneKnows(v)
    BY <1>1, <1>8 DEF Told
  <2>2. Single'
    BY <2>1 DEF Single
  <2>3. ASSUME NEW v \in Windows PROVE AloneKnows(v)'
    <3>1. gui[v] \in {"down", "starting"} => mounted'[v] = {}
      BY <1>7, <2>1 DEF AloneKnows
    <3>2. gui[v] = "starting" => \A s \in Snaps : depth'[Browse(s)] = 0
      BY <2>1 DEF AloneKnows
    <3>3. CASE gui[v] # "up"
      BY <3>1, <3>2, <3>3 DEF AloneKnows
    <3>4. CASE gui[v] = "up"
      <4>1. v = w
        BY <1>1, <2>1, <3>4 DEF Single
      <4>2. CASE pc'[t] = "idle"
        <5>1. mounted'[v] = {}
          BY <1>1, <4>1, <4>2 DEF Forget, DataTypes
        <5>2. \A s \in Snaps : depth'[Browse(s)] = 0
          BY <4>2
        <5> QED
          BY <3>4, <5>1, <5>2 DEF AloneKnows, Exact
      <4>3. CASE pc'[t] # "idle"
        <5>1. mounted'[v] = mounted[v] /\ session'[v] = session[v] /\ \A s \in Snaps : Untold(s)'
          BY <1>7, <4>3 DEF Untold
        <5> QED
          BY <2>1, <3>4, <5>1 DEF AloneKnows
      <4> QED
        BY <4>2, <4>3
    <3> QED
      BY <3>3, <3>4
  <2> QED
    BY <2>2, <2>3
<1>9. Told'
  <2>1. ASSUME NEW s \in Snaps PROVE depth'[Browse(s)] <= 1
    <3>1. depth'[Browse(s)] = 0 \/ depth'[Browse(s)] = 1
      OBVIOUS
    <3> QED
      BY <3>1
  <2>2. \A s \in Snaps : Kept(s)' \/ Untold(s)'
    BY <1>6 DEF Kept
  <2> QED
    BY <1>8, <2>1, <2>2 DEF Told
<1> QED
  BY <1>4, <1>5, <1>9

LEMMA CalmCleanup ==
    ASSUME CalmInv, Calm, ~Fault, NEW t \in Tasks,
           \/ CleanupList(t) \/ CleanupUmount(t) \/ CleanupEnd(t) \/ CleanupShown(t)
    PROVE  Separate' /\ Known' /\ Told'
<1>1. Separate /\ Known /\ Told /\ TaskTypes /\ DataTypes /\ TypeOK
  BY TypesSplit DEF CalmInv
<1>2. pc[t] \in Cleaning
  BY DEF CleanupList, CleanupUmount, CleanupEnd, CleanupShown, Cleaning
<1>3. \A s \in Snaps : depth[Fallback(s)] = 0 /\ depth[Browse(s)] \in {0, 1}
  BY <1>2, CleanAlone
<1>4. OnlyTask(t) /\ pc \in [Tasks -> Steps] /\ job \in [Tasks -> Jobs]
  BY <1>1, TaskLists DEF OnlyTask, Task, TaskTypes
<1>5. PICK w \in Windows : w = job[t].window /\ gui[w] = IF t = Main THEN "starting" ELSE "up"
  BY <1>1, <1>2 DEF Separate
<1> USE DEF state, memory, history
<1>6. CASE CleanupList(t)
  <2>1. pc'[t] = "clean" /\ UNCHANGED <<depth, gui, mounted, session, starts>>
    BY <1>4, <1>6 DEF CleanupList, Goto
  <2>2. PICK d \in [Places -> 0..MaxDepth] :
                    /\ job' = [job EXCEPT ![t].todo = d]
                    /\ \A p \in Places : /\ d[p] <= depth[p]
                                         /\ d[p] > 0 <=> (Managed(p) /\ depth[p] > 0)
    BY <1>1, <1>6, ListingTypes
  <2>3. job'[t].todo = d /\ job'[t].window = w
    BY <1>1, <1>5, <2>2, ListedJob
  <2>4. ASSUME NEW p \in Places PROVE d[p] = IF Managed(p) THEN depth[p] ELSE 0
    <3>1. d[p] \in Nat /\ depth[p] \in Nat
      BY <1>1 DEF DataTypes
    <3>2. CASE ~Managed(p)
      BY <2>2, <3>1, <3>2
    <3>3. CASE Managed(p)
      <4>1. p # Top /\ \E s \in Snaps : p = Browse(s)
        BY <3>3, PlaceFacts
      <4>2. depth[p] = 0 \/ depth[p] = 1
        BY <1>3, <4>1
      <4> QED
        BY <2>2, <3>1, <3>3, <4>2
    <3> QED
      BY <3>2, <3>3
  <2> QED
    BY <1>2, <1>3, <1>4, <1>5, <2>1, <2>3, <2>4, CleanStep
<1>7. CASE CleanupUmount(t)
  <2>1. PICK p \in Places :
         /\ job[t].todo[p] > 0
         /\ \/ /\ Umounted(p) /\ job' = [job EXCEPT ![t].todo[p] = @ - 1]
               /\ UNCHANGED <<pc, faults>>
            \/ depth[p] = 0
    BY <1>7 DEF CleanupUmount
  <2>2. /\ \A q \in Places : job[t].todo[q] = IF Managed(q) THEN depth[q] ELSE 0
        /\ pc[t] = "clean" /\ UNCHANGED <<gui, mounted, session, starts>>
    BY <1>1, <1>7 DEF CleanupUmount, Known
  <2>3. Managed(p) /\ depth[p] # 0
    BY <2>1, <2>2
  <2>4. Umounted(p) /\ job' = [job EXCEPT ![t].todo[p] = @ - 1] /\ UNCHANGED <<pc, faults>>
    BY <2>1, <2>3
  <2>5. PICK d \in [Places -> 0..MaxDepth] :
             /\ job' = [job EXCEPT ![t].todo = d]
             /\ d[p] = job[t].todo[p] - 1 /\ \A q \in Places \ {p} : d[q] = job[t].todo[q]
    BY <1>1, <2>1, <2>4, UmountingJob
  <2>6. job'[t].todo = d /\ job'[t].window = w /\ pc'[t] = "clean"
    BY <1>1, <1>5, <2>2, <2>4, <2>5, ListedJob
  <2>7. depth'[p] = depth[p] - 1 /\ \A q \in Places \ {p} : depth'[q] = depth[q]
    BY <1>1, <2>4, DepthBound
  <2>8. \A q \in Places : d[q] = IF Managed(q) THEN depth'[q] ELSE 0
    BY <2>2, <2>3, <2>5, <2>7
  <2>9. ASSUME NEW s \in Snaps
        PROVE  /\ depth'[Fallback(s)] = 0 /\ depth'[Browse(s)] \in {0, 1}
               /\ depth[Browse(s)] = 0 => depth'[Browse(s)] = 0
    <3>1. /\ Browse(s) \in Places /\ Fallback(s) \in Places /\ Fallback(s) # p
      BY <2>3, PlaceFacts
    <3>2. depth[Fallback(s)] = 0 /\ (depth[Browse(s)] = 0 \/ depth[Browse(s)] = 1)
      BY <1>3
    <3>3. depth'[Fallback(s)] = 0
      BY <2>7, <3>1, <3>2
    <3>4. CASE Browse(s) = p
      BY <2>3, <2>7, <3>2, <3>3, <3>4
    <3>5. CASE Browse(s) # p
      BY <2>7, <3>1, <3>2, <3>3, <3>5
    <3> QED
      BY <3>4, <3>5
  <2> QED
    BY <1>2, <1>4, <1>5, <2>2, <2>6, <2>8, <2>9, CleanStep
<1>8. CASE CleanupEnd(t)
  <2>1. /\ pc[t] = "clean" /\ pc'[t] = "cleaned" /\ \A p \in Places : job[t].todo[p] = 0
        /\ UNCHANGED <<gui, mounted, session, depth, job, starts>>
    BY <1>4, <1>8 DEF CleanupEnd, Goto, Nothing
  <2>2. \A s \in Snaps : depth[Browse(s)] = 0
    <3>1. \A s \in Snaps : Browse(s) \in Places /\ Managed(Browse(s))
      BY PlaceFacts
    <3> QED
      BY <1>1, <2>1, <3>1 DEF Known
  <2> QED
    BY <1>2, <1>3, <1>4, <1>5, <2>1, <2>2, CleanStep
<1>9. CASE CleanupShown(t)
  <2>1. /\ pc[t] = "cleaned" /\ Done(t) /\ Forget(w) /\ Free /\ UNCHANGED <<gui, depth, starts>>
    BY <1>5, <1>9 DEF CleanupShown
  <2>2. pc'[t] = "idle"
    BY <1>4, <2>1 DEF Done, Goto
  <2>3. \A s \in Snaps : depth[Browse(s)] = 0
    BY <1>1, <2>1 DEF Known
  <2>4. t # Main
    BY <1>5, <2>1 DEF Free
  <2> QED
    BY <1>2, <1>3, <1>4, <1>5, <2>1, <2>2, <2>3, <2>4, CleanStep
<1> QED
  BY <1>6, <1>7, <1>8, <1>9

\* Nothing of this is about the rows.
LEMMA CalmSame ==
    ASSUME Separate, Known, Told, UNCHANGED <<depth, gui, mounted, session, pc, job, starts>>
    PROVE  Separate' /\ Known' /\ Told'
<1>1. Separate' /\ Known'
  BY DEF Separate, Known, Free, Settled
<1>2. /\ \A s \in Snaps : (Untold(s)' <=> Untold(s)) /\ (Kept(s)' <=> Kept(s))
      /\ \A v \in Windows, s \in Snaps : Exact(v, s)' <=> Exact(v, s)
  BY DEF Untold, Kept, Exact
<1>3. Single' <=> Single
  BY DEF Single
<1>4. \A v \in Windows : AloneKnows(v) => AloneKnows(v)'
  BY <1>2 DEF AloneKnows
<1> QED
  BY <1>1, <1>2, <1>3, <1>4 DEF Told

\* A button that is pressed when its turn has come.
LEMMA CalmButton ==
    ASSUME CalmInv, Calm, ~Fault, NEW w \in Windows, NEW t \in Tasks, Button(w, t)
    PROVE  Separate' /\ Known' /\ Told'
<1>1. Separate /\ Known /\ Told /\ TaskTypes /\ TypeOK
  BY TypesSplit DEF CalmInv
<1>2. pc \in [Tasks -> Steps] /\ job \in [Tasks -> Jobs]
  BY <1>1 DEF TaskTypes
<1>3. /\ "idle" \notin OnSnap \cup Cleaning /\ OnSnap \cap Cleaning = {}
      /\ {"target", "umount"} \subseteq OnSnap /\ "list" \in Cleaning
  BY DEF OnSnap, Cleaning
<1>4. ASSUME NEW step \in {"target", "umount", "list"}, NEW j \in Jobs, NEW early \in BOOLEAN,
             Press(w, t, step, j, early)
      PROVE  /\ Free /\ Free' /\ gui[w] = "up" /\ t # Main /\ pc[t] = "idle" /\ ~early
             /\ pc'[t] = step /\ job'[t].window = w /\ job'[t].snap = j.snap /\ job'[t].place = j.place
             /\ OnlyTask(t) /\ UNCHANGED <<depth, gui, mounted, session, starts>>
  <2> DEFINE k == [j EXCEPT !.window = w]
  <2>1. k.window = w /\ k.snap = j.snap /\ k.place = j.place
    BY JobFields
  <2>2. job' = [job EXCEPT ![t] = k] /\ pc' = [pc EXCEPT ![t] = step]
    BY <1>4 DEF Press, Goto
  <2> HIDE DEF k
  <2>3. ~early
    BY <1>4 DEF Press, Hasty
  <2>4. /\ Free /\ gui[w] = "up" /\ t # Main /\ pc[t] = "idle"
        /\ UNCHANGED <<depth, gui, mounted, session, starts>>
    BY <1>4 DEF Press, state, memory, history
  <2>5. pc'[t] = step /\ job'[t] = k /\ OnlyTask(t)
    BY <1>2, <2>2 DEF OnlyTask
  <2> QED
    BY <2>1, <2>3, <2>4, <2>5 DEF Free
<1>5. ASSUME NEW step \in {"target", "umount", "list"}, pc'[t] = step, pc[t] = "idle", OnlyTask(t),
             UNCHANGED <<depth, gui, mounted, session, starts>>
      PROVE  Known' /\ Told'
  <2>1. \A u \in Tasks : pc'[u] \in {"mount", "unmounted", "open", "shown", "clean", "cleaned"}
                        => u # t /\ pc'[u] = pc[u] /\ job'[u] = job[u]
    BY <1>5 DEF OnlyTask
  <2>2. Known'
    BY <1>1, <1>5, <2>1 DEF Known
  <2>3. \A s \in Snaps : Untold(s) => Untold(s)'
    BY <1>5 DEF Untold, OnlyTask
  <2>4. /\ \A s \in Snaps : Kept(s) => Kept(s)'
        /\ \A v \in Windows, s \in Snaps : Exact(v, s) => Exact(v, s)'
    BY <1>5 DEF Kept, Exact
  <2>5. Single => Single'
    BY <1>5 DEF Single
  <2>6. ASSUME NEW v \in Windows PROVE AloneKnows(v) => AloneKnows(v)'
    BY <1>5, <2>3, <2>4 DEF AloneKnows
  <2> QED
    BY <1>1, <1>5, <2>2, <2>3, <2>4, <2>5, <2>6 DEF Told
<1>6. CASE PressCleanup(w, t)
  <2>1. /\ "list" \in {"target", "umount", "list"} /\ (~Quiet) \in BOOLEAN /\ NoJob \in Jobs
        /\ Press(w, t, "list", NoJob, ~Quiet)
    BY <1>6, NoJobFields DEF PressCleanup, Quiet
  <2>2. /\ Free /\ Free' /\ gui[w] = "up" /\ t # Main /\ pc[t] = "idle" /\ Quiet
        /\ pc'[t] = "list" /\ job'[t].window = w
        /\ OnlyTask(t) /\ UNCHANGED <<depth, gui, mounted, session, starts>>
    BY <1>4, <2>1
  <2>3. \A u \in Tasks \ {t} : pc'[u] = "idle"
    BY <2>2 DEF OnlyTask, Quiet
  <2>4. Separate'
    BY <1>3, <2>2, <2>3 DEF Separate, Settled, Free
  <2> QED
    BY <1>5, <2>2, <2>4
<1>7. ASSUME NEW s \in Snaps, NEW step \in {"target", "umount"}, NEW j \in Jobs,
             Press(w, t, step, j, Working(s)), j.snap = s, step = "umount" => j.place = Browse(s)
      PROVE  Separate' /\ Known' /\ Told'
  <2>1. Working(s) \in BOOLEAN
    BY DEF Working
  <2>2. /\ Free /\ Free' /\ gui[w] = "up" /\ t # Main /\ pc[t] = "idle" /\ ~Working(s)
        /\ pc'[t] = step /\ job'[t].window = w /\ job'[t].snap = s /\ job'[t].place = j.place
        /\ OnlyTask(t) /\ UNCHANGED <<depth, gui, mounted, session, starts>>
    BY <1>4, <1>7, <2>1
  <2>3. \A u \in Tasks \ {t} : pc'[u] = "idle" \/ (pc'[u] \in OnSnap /\ job'[u].snap # s)
    <3>1. \A u \in Tasks : pc[u] = "idle" \/ (pc[u] \in OnSnap /\ job[u].snap # s)
      BY <1>1, <2>2 DEF Working, Separate, Cleaning
    <3> QED
      BY <2>2, <3>1 DEF OnlyTask
  <2>4. \A u \in Tasks : pc'[u] \in {"idle"} \cup OnSnap
    BY <1>3, <1>7, <2>2, <2>3
  <2>5. \A u \in Tasks : /\ pc'[u] \in OnSnap \ {"target"} => job'[u].place = Browse(job'[u].snap)
                         /\ pc'[u] \in OnSnap => job'[u].window \in Windows /\ gui'[job'[u].window] = "up"
    BY <1>1, <1>7, <2>2 DEF OnlyTask, Separate
  <2>6. ASSUME NEW u \in Tasks, NEW v \in Tasks, u # v, pc'[u] # "idle", pc'[v] # "idle"
        PROVE  pc'[u] \in OnSnap /\ job'[u].snap # job'[v].snap
    <3>1. CASE u # t /\ v # t
      BY <1>1, <2>2, <2>6, <3>1 DEF OnlyTask, Separate
    <3>2. CASE u = t \/ v = t
      BY <1>3, <1>7, <2>2, <2>3, <2>6, <3>2
    <3> QED
      BY <3>1, <3>2
  <2>7. Separate'
    BY <1>3, <2>2, <2>4, <2>5, <2>6 DEF Separate
  <2> QED
    BY <1>5, <2>2, <2>7
<1>8. ASSUME NEW s \in Snaps, PressBrowse(w, t, s) PROVE Separate' /\ Known' /\ Told'
  <2> DEFINE j == [NoJob EXCEPT !.snap = s]
  <2>1. j \in Jobs /\ j.snap = s
    BY NoJobFields
  <2>2. Press(w, t, "target", j, Working(s))
    BY <1>8 DEF PressBrowse
  <2> HIDE DEF j
  <2> QED
    BY <1>7, <2>1, <2>2
<1>9. ASSUME NEW s \in Snaps, PressUnmount(w, t, s) PROVE Separate' /\ Known' /\ Told'
  <2> DEFINE j == [NoJob EXCEPT !.snap = s, !.place = Browse(s)]
  <2>1. j \in Jobs /\ j.snap = s /\ j.place = Browse(s)
    BY NoJobFields
  <2>2. Press(w, t, "umount", j, Working(s))
    BY <1>9 DEF PressUnmount
  <2> HIDE DEF j
  <2> QED
    BY <1>7, <2>1, <2>2
<1> QED
  BY <1>6, <1>8, <1>9 DEF Button

\* In a calm session nobody outlives a window.
LEMMA CalmOthers ==
    ASSUME CalmInv, Calm, NEW t \in Tasks, LastRequest(t) \/ Lost(t) PROVE FALSE
<1>1. Separate
  BY DEF CalmInv
<1>2. pc[t] \in {"lastmount", "lastumount"} \/ (pc[t] \in {"shown", "unmounted", "cleaned"} /\ job[t].window = None)
  BY DEF LastRequest, Lost
<1> QED
  BY <1>1, <1>2, NoneAssumption DEF Separate, OnSnap, Cleaning

\* Windows open, draw their rows and close.
LEMMA CalmWindow ==
    ASSUME CalmInv, Calm, ~Fault, NEW w \in Windows,
           \/ Launch(w) \/ Launched(w) \/ Render(w) \/ Close(w) \/ CloseUnmount(w) \/ CloseEnd(w)
    PROVE  Separate' /\ Known' /\ Told'
<1>1. Separate /\ Known /\ Told /\ TaskTypes /\ DataTypes /\ TypeOK
  BY TypesSplit DEF CalmInv
<1>2. /\ pc \in [Tasks -> Steps] /\ job \in [Tasks -> Jobs] /\ Main \in Tasks
      /\ "idle" \notin OnSnap \cup Cleaning /\ "list" \in Cleaning \ OnSnap
      /\ {"mount", "unmounted", "open", "shown"} \subseteq OnSnap
      /\ {"clean", "cleaned"} \subseteq Cleaning
      /\ gui \in [Windows -> {"down", "starting", "up", "closing"}]
      /\ session \in [Windows -> SUBSET (Places \ {Top})] /\ mounted \in [Windows -> SUBSET (Places \ {Top})]
  BY <1>1, TaskAssumption DEF TaskTypes, DataTypes, OnSnap, Cleaning
<1>3. \A s \in Snaps : Browse(s) \in Places /\ Fallback(s) \in Places /\ Browse(s) # Top
  BY PlaceFacts
<1>4. \A s \in Snaps : depth[Browse(s)] = 0 \/ depth[Browse(s)] = 1
  <2> SUFFICES ASSUME NEW s \in Snaps PROVE depth[Browse(s)] = 0 \/ depth[Browse(s)] = 1
    OBVIOUS
  <2>1. depth[Browse(s)] \in Nat
    BY <1>1, <1>3 DEF DataTypes
  <2>2. depth[Browse(s)] <= 1
    BY <1>1 DEF Told
  <2> QED
    BY <2>1, <2>2
<1>5. ASSUME \A t \in Tasks : pc'[t] = "idle" PROVE Separate' /\ Known' /\ \A s \in Snaps : ~Untold(s)'
  BY <1>2, <1>5 DEF Separate, Known, Untold
<1>6. ASSUME Quiet PROVE \A s \in Snaps : Kept(s) /\ (starts = 0 => \A v \in Windows : gui[v] = "up" => Exact(v, s))
  BY <1>1, <1>6 DEF Told, Untold, Quiet, AloneKnows
<1>7. ASSUME gui[w] = "closing" PROVE Quiet
  <2>1. ASSUME NEW t \in Tasks PROVE pc[t] = "idle"
    <3>1. ~Free
      BY <1>7 DEF Free
    <3>2. pc[t] \notin OnSnap
      BY <1>1, <3>1 DEF Separate
    <3>3. ASSUME pc[t] \in Cleaning PROVE FALSE
      BY <1>1, <1>7, <3>3 DEF Separate, Settled
    <3> QED
      BY <1>1, <3>2, <3>3 DEF Separate
  <2> QED
    BY <2>1 DEF Quiet
<1> USE DEF state, memory, history
<1>8. CASE Close(w)
  <2>1. /\ Quiet /\ \A t \in Tasks : pc'[t] = "idle"
        /\ gui[w] = "up" /\ gui' = [gui EXCEPT ![w] = "closing"]
        /\ UNCHANGED <<depth, mounted, session, starts>>
    BY <1>8 DEF Close, Hasty, Quiet
  <2>2. gui'[w] = "closing" /\ \A v \in Windows \ {w} : gui'[v] = gui[v]
    BY <1>2, <2>1
  <2>3. \A s \in Snaps : Kept(s)'
    BY <1>6, <2>1, <2>2 DEF Kept
  <2>4. ASSUME starts = 0 PROVE Single' /\ \A v \in Windows : AloneKnows(v)'
    <3>1. Single /\ \A v \in Windows : AloneKnows(v)
      BY <1>1, <2>4 DEF Told
    <3>2. Single'
      BY <2>1, <2>2, <3>1 DEF Single
    <3>3. ASSUME NEW v \in Windows PROVE AloneKnows(v)'
      <4>1. CASE v = w
        BY <2>2, <4>1 DEF AloneKnows
      <4>2. CASE v # w
        <5>1. gui'[v] = "down" /\ mounted'[v] = {}
          BY <2>1, <2>2, <3>1, <4>2 DEF Single, AloneKnows
        <5> QED
          BY <5>1 DEF AloneKnows
      <4> QED
        BY <4>1, <4>2
    <3> QED
      BY <3>2, <3>3
  <2> QED
    BY <1>1, <1>5, <2>1, <2>3, <2>4 DEF Told
<1>9. CASE CloseUnmount(w)
  <2>1. PICK p \in session[w] : /\ session' = [session EXCEPT ![w] = @ \ {p}]
                                /\ Umounted(p) \/ (depth[p] = 0 /\ UNCHANGED depth)
    BY <1>9 DEF CloseUnmount
  <2>2. p \in Places /\ gui[w] = "closing" /\ UNCHANGED <<gui, mounted, starts, pc, job>>
    BY <1>2, <1>9 DEF CloseUnmount
  <2>3. \A q \in Places \ {p} : depth'[q] = depth[q]
    BY <1>1, <2>1, <2>2, DepthBound
  <2>4. Umounted(p) => depth'[p] = depth[p] - 1 /\ depth[p] > 0
    BY <1>1, <2>2, DepthBound
  <2>5. \A s \in Snaps : depth'[Fallback(s)] = 0
    <3> SUFFICES ASSUME NEW s \in Snaps PROVE depth'[Fallback(s)] = 0
      OBVIOUS
    <3>1. depth[Fallback(s)] = 0
      BY <1>1 DEF Told
    <3> QED
      BY <1>3, <2>1, <2>3, <2>4, <3>1
  <2>6. ASSUME NEW s \in Snaps
        PROVE  depth'[Browse(s)] <= 1 /\ Kept(s)'
    <3>1. CASE Browse(s) = p
      <4>1. depth'[Browse(s)] = 0
        BY <1>4, <2>1, <2>4, <3>1
      <4> QED
        BY <4>1 DEF Kept
    <3>2. CASE Browse(s) # p
      <4>1. depth'[Browse(s)] = depth[Browse(s)]
        BY <1>3, <2>3, <3>2
      <4>2. Kept(s)
        BY <1>6, <1>7, <2>2
      <4>3. \A v \in Windows : Browse(s) \in session[v] => Browse(s) \in session'[v]
        BY <1>2, <2>1, <3>2
      <4>4. Kept(s)'
        BY <2>2, <4>1, <4>2, <4>3 DEF Kept
      <4> QED
        BY <1>4, <4>1, <4>4
    <3> QED
      BY <3>1, <3>2
  <2>7. ASSUME starts = 0 PROVE Single' /\ \A v \in Windows : AloneKnows(v)'
    <3>1. Single /\ \A v \in Windows : AloneKnows(v)
      BY <1>1, <2>7 DEF Told
    <3>2. Single'
      BY <2>2, <3>1 DEF Single
    <3>3. ASSUME NEW v \in Windows PROVE AloneKnows(v)'
      <4>1. gui'[v] \in {"closing", "down"} /\ (gui'[v] = "down" => mounted'[v] = {})
        BY <2>2, <3>1 DEF Single, AloneKnows
      <4> QED
        BY <4>1 DEF AloneKnows
    <3> QED
      BY <3>2, <3>3
  <2>8. \A t \in Tasks : pc'[t] = "idle"
    BY <1>7, <2>2 DEF Quiet
  <2> QED
    BY <1>5, <2>2, <2>5, <2>6, <2>7, <2>8 DEF Told
<1>10. CASE CloseEnd(w)
  <2>1. gui[w] = "closing" /\ session[w] = {} /\ Quiet
    BY <1>7, <1>10 DEF CloseEnd
  <2>2. CASE Gone(w) /\ \E v \in Windows \ {w} : gui[v] # "down"
    <3>1. /\ gui' = [gui EXCEPT ![w] = "down"] /\ mounted' = [mounted EXCEPT ![w] = {}]
          /\ session' = [session EXCEPT ![w] = {}] /\ UNCHANGED <<depth, pc, starts>>
      BY <2>2 DEF Gone, Forget
    <3>2. \A v \in Windows \ {w} : gui'[v] = gui[v] /\ session'[v] = session[v]
      BY <1>2, <3>1
    <3>3. \A s \in Snaps : Kept(s)'
      BY <1>6, <2>1, <3>1, <3>2 DEF Kept
    <3>4. starts # 0
      BY <1>1, <2>1, <2>2 DEF Told, Single
    <3>5. \A t \in Tasks : pc'[t] = "idle"
      BY <2>1, <3>1 DEF Quiet
    <3> QED
      BY <1>1, <1>5, <3>1, <3>3, <3>4, <3>5 DEF Told
  <2>3. CASE Die /\ \A v \in Windows \ {w} : gui[v] = "down"
    <3>1. /\ \A v \in Windows : gui'[v] = "down" /\ mounted'[v] = {}
          /\ UNCHANGED depth
      BY <2>3 DEF Die
    <3>2. \A t \in Tasks : pc'[t] = "idle"
      BY <1>1, <2>1, <2>3, DieTasks DEF Quiet
    <3>3. \A s \in Snaps : Kept(s)'
      BY <1>6, <2>1, <2>3, <3>1 DEF Kept
    <3>4. Single' /\ \A v \in Windows : AloneKnows(v)'
      BY <3>1 DEF Single, AloneKnows
    <3> QED
      BY <1>1, <1>5, <3>1, <3>2, <3>3, <3>4 DEF Told
  <2> QED
    BY <1>10, <2>2, <2>3 DEF CloseEnd
<1>11. CASE Launch(w)
  <2>1. /\ Free /\ Quiet /\ gui[w] = "down" /\ gui' = [gui EXCEPT ![w] = "starting"]
        /\ pc' = [pc EXCEPT ![Main] = "list"] /\ job' = [job EXCEPT ![Main].window = w]
        /\ UNCHANGED <<depth, mounted, session>>
        /\ starts' = 0 => starts = 0 /\ ~Alive
    BY <1>1, <1>11 DEF Launch, Goto, Hasty, DataTypes
  <2>2. /\ pc'[Main] = "list" /\ \A t \in Tasks \ {Main} : pc'[t] = "idle"
        /\ gui'[w] = "starting" /\ \A v \in Windows \ {w} : gui'[v] = gui[v]
    BY <1>2, <2>1 DEF Quiet
  <2>3. job'[Main].window = w
    BY <1>2, <2>1, JobFields
  <2>4. Separate'
    BY <1>2, <2>1, <2>2, <2>3 DEF Separate, Settled, Free
  <2>5. Known'
    BY <1>2, <2>2 DEF Known
  <2>6. \A s \in Snaps : Kept(s)'
    BY <1>6, <2>1, <2>2 DEF Kept
  <2>7. ASSUME starts' = 0 PROVE Single' /\ \A v \in Windows : AloneKnows(v)'
    <3>1. /\ \A v \in Windows : gui[v] = "down" /\ mounted[v] = {}
      BY <1>1, <2>1, <2>7 DEF Told, Alive, AloneKnows
    <3>2. \A s \in Snaps : depth'[Browse(s)] = 0
      BY <1>4, <1>6, <2>1, <3>1 DEF Kept
    <3> QED
      BY <2>1, <2>2, <3>1, <3>2 DEF Single, AloneKnows
  <2> QED
    BY <1>1, <2>1, <2>4, <2>5, <2>6, <2>7 DEF Told
<1>12. CASE Launched(w)
  <2>1. /\ gui[w] = "starting" /\ gui' = [gui EXCEPT ![w] = "up"] /\ Done(Main)
        /\ UNCHANGED <<depth, mounted, session, starts>> /\ pc[Main] \in {"cleaned", "idle"}
    BY <1>12 DEF Launched
  <2>2. gui'[w] = "up" /\ \A v \in Windows \ {w} : gui'[v] = gui[v]
    BY <1>2, <2>1
  <2>3. \A t \in Tasks \ {Main} : pc[t] = "idle"
    <3> SUFFICES ASSUME NEW t \in Tasks \ {Main}, pc[t] # "idle" PROVE FALSE
      OBVIOUS
    <3>1. ~Free
      BY <2>1 DEF Free
    <3>2. pc[t] \in Cleaning
      BY <1>1, <3>1 DEF Separate
    <3> QED
      BY <1>1, <2>1, <3>2 DEF Separate, Settled
  <2>4. \A t \in Tasks : pc'[t] = "idle"
    BY <1>2, <2>1, <2>3 DEF Done, Goto
  <2>5. \A s \in Snaps : Kept(s)
    <3> SUFFICES ASSUME NEW s \in Snaps PROVE Kept(s)
      OBVIOUS
    <3>1. CASE pc[Main] = "cleaned"
      BY <1>1, <1>2, <3>1 DEF Known, Kept
    <3>2. CASE pc[Main] = "idle"
      <4>1. Quiet
        BY <2>3, <3>2 DEF Quiet
      <4> QED
        BY <1>6, <4>1
    <3> QED
      BY <2>1, <3>1, <3>2
  <2>6. \A s \in Snaps : Kept(s)'
    BY <2>1, <2>2, <2>5 DEF Kept
  <2>7. ASSUME starts = 0 PROVE Single' /\ \A v \in Windows : AloneKnows(v)'
    <3>1. Single /\ \A v \in Windows : AloneKnows(v)
      BY <1>1, <2>7 DEF Told
    <3>2. Single'
      BY <2>1, <2>2, <3>1 DEF Single
    <3>3. ASSUME NEW v \in Windows, v # w PROVE AloneKnows(v)'
      <4>1. gui'[v] = "down" /\ mounted'[v] = {}
        BY <2>1, <2>2, <3>1, <3>3 DEF Single, AloneKnows
      <4> QED
        BY <4>1 DEF AloneKnows
    <3>4. mounted'[w] = {} /\ \A s \in Snaps : depth'[Browse(s)] = 0
      BY <2>1, <3>1 DEF AloneKnows
    <3>5. AloneKnows(w)'
      BY <2>2, <3>4 DEF AloneKnows, Exact
    <3> QED
      BY <3>2, <3>3, <3>5
  <2> QED
    BY <1>1, <1>5, <2>1, <2>4, <2>6, <2>7 DEF Told
<1>13. CASE Render(w)
  <2>1. UNCHANGED <<depth, gui, mounted, session, pc, job, starts>>
    BY <1>13 DEF Render
  <2> QED
    BY <1>1, <2>1, CalmSame
<1> QED
  BY <1>8, <1>9, <1>10, <1>11, <1>12, <1>13

LEMMA NextCalm == CalmInv /\ [Next]_vars => CalmInv'
<1> SUFFICES ASSUME CalmInv, [Next]_vars, Calm' PROVE Separate' /\ Known' /\ Told'
  BY NextTypes DEF CalmInv
<1>1. Calm /\ ~Fault
  BY CalmBefore DEF CalmInv
<1>2. CASE UNCHANGED vars
  BY <1>1, <1>2, CalmSame DEF CalmInv, vars
<1>3. ASSUME NEW t \in Tasks, Task(t) PROVE Separate' /\ Known' /\ Told'
  BY <1>1, <1>3, CalmSnapshots, CalmCleanup, CalmOthers DEF Task
<1>4. ASSUME NEW w \in Windows, Window(w) PROVE Separate' /\ Known' /\ Told'
  BY <1>1, <1>4, CalmButton, CalmWindow DEF Window
<1>5. ~Killed
  BY <1>1 DEF Killed
<1> QED
  BY <1>2, <1>3, <1>4, <1>5 DEF Next

LEMMA CalmMeans == CalmInv => RemembersMounts /\ CloseLeavesNothing
<1> SUFFICES ASSUME CalmInv, Calm PROVE RemembersMounts /\ CloseLeavesNothing
  BY DEF RemembersMounts, CloseLeavesNothing, Calm
<1>1. Separate /\ Told /\ DataTypes
  BY TypesSplit DEF CalmInv
<1>2. ASSUME NEW p \in Places \ {Top}
      PROVE  depth[p] \in Nat /\ \E s \in Snaps : p \in {Browse(s), Fallback(s)}
  BY <1>1, PlaceFacts DEF DataTypes
<1>3. ASSUME Quiet, NEW p \in Mounted
      PROVE  \E s \in Snaps : p = Browse(s) /\ depth[p] = 1 /\ Kept(s)
  <2>1. PICK s \in Snaps : p = Browse(s) \/ p = Fallback(s)
    BY <1>2 DEF Mounted
  <2>2. depth[p] \in Nat /\ depth[p] > 0
    BY <1>2 DEF Mounted
  <2>3. p = Browse(s) /\ depth[p] <= 1
    BY <1>1, <2>1, <2>2 DEF Told
  <2>4. Kept(s)
    BY <1>1, <1>3 DEF Told, Untold, Quiet
  <2> QED
    BY <2>2, <2>3, <2>4
<1>4. ASSUME Open = {} PROVE Mounted = {}
  <2>1. \A w \in Windows : gui[w] = "down"
    BY <1>4 DEF Open
  <2>2. Quiet
    BY <1>1, <2>1 DEF Separate, Quiet
  <2>3. \A s \in Snaps : Kept(s) => depth[Browse(s)] # 1
    BY <2>1 DEF Kept
  <2> QED
    BY <1>3, <2>2, <2>3
<1>5. ASSUME Free, Quiet, NEW p \in Mounted
      PROVE  depth[p] = 1 /\ \E w \in Open : p \in session[w]
  BY <1>3, <1>5 DEF Kept, Open
<1>6. ASSUME Free, Quiet, starts = 0, NEW w \in Open
      PROVE  mounted[w] = Mounted /\ mounted[w] \subseteq session[w]
  <2>1. w \in Windows /\ gui[w] = "up" /\ AloneKnows(w)
    BY <1>1, <1>6 DEF Open, Free, Told
  <2>2. mounted[w] \subseteq session[w] /\ mounted[w] \subseteq Places \ {Top}
    BY <1>1, <2>1 DEF AloneKnows, DataTypes
  <2>3. \A s \in Snaps : Exact(w, s) /\ Fallback(s) \notin mounted[w]
    BY <1>6, <2>1 DEF AloneKnows, Untold, Quiet
  <2>4. Mounted \subseteq mounted[w]
    BY <1>3, <1>6, <2>3 DEF Exact
  <2>5. ASSUME NEW p \in mounted[w] PROVE p \in Mounted
    <3>1. PICK s \in Snaps : p = Browse(s)
      BY <1>2, <2>2, <2>3
    <3>2. depth[p] = 1
      BY <2>3, <3>1 DEF Exact
    <3> QED
      BY <2>2, <3>2 DEF Mounted
  <2> QED
    BY <2>2, <2>4, <2>5
<1> QED
  BY <1>4, <1>5, <1>6 DEF RemembersMounts, CloseLeavesNothing

\* Of any number of snapshots, windows and overlapping tasks, as long as nobody presses a
\* button before its answer and nothing fails, each mount is on the list of an open window
\* for its end, and a window that is the only one of its process knows exactly what is
\* mounted (row.rs:66-214, mod.rs:49-56, 308-329).
THEOREM WindowRemembers == Spec => []RemembersMounts
  BY InitCalm, NextCalm, CalmMeans, PTL DEF Spec

\* Such a program leaves nothing mounted when its last window is closed (gui/mounts.rs:21-45).
THEOREM CloseIsClean == Spec => []CloseLeavesNothing
  BY InitCalm, NextCalm, CalmMeans, PTL DEF Spec

=============================================================================
