---------------------------- MODULE DesktopProofs ----------------------------
(***************************************************************************)
(* Proofs about the parts of the desktop program and of the helper that    *)
(* module Desktop puts side by side, for any number of filesystems,        *)
(* snapshots, futures, policies, runs, releases and requests.              *)
(***************************************************************************)
EXTENDS Desktop, MountsProofs, WellFoundedInduction

-----------------------------------------------------------------------------
(* The top level *)

\* At the start every request is still to come.
LEMMA TopInit == TopMount!Init => TopMount!TopInv
<1> SUFFICES ASSUME TopMount!Init PROVE TopMount!TopInv
  OBVIOUS
<1>1. manager \in BOOLEAN /\ database \in BOOLEAN /\ fooled \in BOOLEAN /\ overlapped \in BOOLEAN
  BY Zenon DEF TopMount!Init
<1>2. \A r \in Requests : step[r] = "new"
  BY DEF TopMount!Init
<1>3. TopMount!TypeOK
  BY <1>1, TopAssumption DEF TopMount!Init, TopMount!TypeOK, TopMount!Steps
<1> QED
  BY <1>2, <1>3 DEF TopMount!Init, TopMount!TopInv, TopMount!Found, TopMount!OneAtATime,
     TopMount!UnderWay, TopMount!Steps, TopMount!StoreReady

\* A step of one request, and what it has to bring about.
LEMMA TopOne ==
    ASSUME TopMount!TopInv, NEW r \in Requests, TopMount!UnderWay(r),
           NEW s \in TopMount!Steps \cup {"done", "failed"}, TopMount!Goto(r, s),
           UNCHANGED <<kind, overlapped>>,
           stacked' \in {stacked, stacked + 1}, stacked' > 1 => fooled' \/ overlapped,
           manager' \in BOOLEAN, manager => manager',
           database' \in BOOLEAN, database => database',
           failures' \in 0..TopFaults, failures' >= failures,
           fooled' \in BOOLEAN, fooled => fooled', fooled' => failures' > 0,
           s \in {"look", "create", "show", "open", "done"} => stacked' > 0,
           s \in {"show", "open"} => manager',
           s = "done" /\ kind[r] = "store" => manager' /\ database',
           s = "mount" => overlapped \/ fooled' \/ stacked' = 0,
           s = "create" => overlapped \/ ~manager',
           s = "failed" => overlapped \/ failures' > 0
    PROVE  TopMount!TopInv'
<1>1. /\ TopMount!TypeOK /\ TopMount!Found /\ TopMount!OneAtATime /\ TopMount!StoreReady
      /\ stacked' \in Nat /\ stacked' >= stacked
  BY DEF TopMount!TopInv, TopMount!TypeOK
<1>2. step'[r] = s /\ \A other \in Requests \ {r} : step'[other] = step[other]
  BY <1>1 DEF TopMount!TypeOK, TopMount!Goto
<1>3. TopMount!TypeOK'
  BY <1>1 DEF TopMount!TypeOK, TopMount!Goto
<1>4. TopMount!Found'
  BY <1>1, <1>2 DEF TopMount!Found
<1>5. TopMount!OneAtATime'
  <2> SUFFICES ASSUME ~overlapped
               PROVE  /\ \A a, other \in Requests : TopMount!UnderWay(a)' /\ TopMount!UnderWay(other)' => a = other
                      /\ \A a \in Requests : step'[a] = "mount" => fooled' \/ stacked' = 0
                      /\ \A a \in Requests : step'[a] = "create" => ~manager'
    BY DEF TopMount!OneAtATime
  <2>1. \A a \in Requests \ {r} : ~TopMount!UnderWay(a)
    BY <1>1 DEF TopMount!OneAtATime
  <2>2. \A a \in Requests \ {r} : ~TopMount!UnderWay(a)' /\ step'[a] \notin {"mount", "create"}
    BY <1>2, <2>1 DEF TopMount!UnderWay, TopMount!Steps
  <2> QED
    BY <1>2, <2>2
<1>6. TopMount!StoreReady'
  <2>1. \A a \in Requests : step'[a] \in {"look", "create", "show", "open", "done"} => stacked' > 0
    BY <1>1, <1>2 DEF TopMount!StoreReady, TopMount!TypeOK
  <2>2. \A a \in Requests : step'[a] = "done" /\ kind[a] = "store" => manager' /\ database'
    BY <1>1, <1>2 DEF TopMount!StoreReady
  <2>3. (\E a \in Requests : step'[a] = "failed") => failures' > 0 \/ overlapped
    BY <1>1, <1>2, TopAssumption DEF TopMount!StoreReady, TopMount!TypeOK
  <2> QED
    BY <2>1, <2>2, <2>3 DEF TopMount!StoreReady
<1> QED
  BY <1>3, <1>4, <1>5, <1>6 DEF TopMount!TopInv

\* A request that comes while none is under way.
LEMMA TopReceive ==
    ASSUME TopMount!TopInv, NEW r \in Requests, TopMount!Receive(r)
    PROVE  TopMount!TopInv'
<1>1. /\ TopMount!TypeOK /\ TopMount!Found /\ TopMount!OneAtATime /\ TopMount!StoreReady
      /\ UNCHANGED <<stacked, manager, database, failures, fooled>>
  BY DEF TopMount!TopInv, TopMount!Receive
<1>2. step'[r] = "uuid" /\ \A other \in Requests \ {r} : step'[other] = step[other]
  BY <1>1 DEF TopMount!TypeOK, TopMount!Goto, TopMount!Receive
<1>3. /\ kind' \in [Requests -> {"mount", "store"}] /\ overlapped' \in BOOLEAN
      /\ \A other \in Requests \ {r} : kind'[other] = kind[other]
      /\ overlapped => overlapped'
  BY <1>1 DEF TopMount!TypeOK, TopMount!Receive
<1>4. TopMount!TypeOK'
  BY <1>1, <1>3 DEF TopMount!TypeOK, TopMount!Goto, TopMount!Receive, TopMount!Steps
<1>5. TopMount!Found' /\ TopMount!StoreReady'
  BY <1>1, <1>2, <1>3 DEF TopMount!Found, TopMount!StoreReady
<1>6. ASSUME ~overlapped' PROVE ~overlapped /\ \A other \in Requests : ~TopMount!UnderWay(other)
  BY <1>6 DEF TopMount!Receive
<1>7. TopMount!OneAtATime'
  BY <1>1, <1>2, <1>6 DEF TopMount!OneAtATime, TopMount!UnderWay
<1> QED
  BY <1>4, <1>5, <1>7 DEF TopMount!TopInv

\* What is mounted under /run is gone, and the requests with it.
LEMMA TopReboot == TopMount!TopInv /\ TopMount!Reboot => TopMount!TopInv'
<1> SUFFICES ASSUME TopMount!TopInv, TopMount!Reboot PROVE TopMount!TopInv'
  OBVIOUS
<1>1. /\ TopMount!TypeOK /\ TopMount!Found /\ stacked' = 0 /\ failures \in 0..TopFaults
      /\ UNCHANGED <<manager, database, kind, fooled, overlapped>>
      /\ failures' = failures + 1 /\ failures < TopFaults
  BY DEF TopMount!TopInv, TopMount!Reboot, TopMount!Fault, TopMount!history, TopMount!TypeOK
<1>2. failures' \in 0..TopFaults /\ failures' > 0
  BY <1>1, TopAssumption
<1>3. \A r \in Requests : step'[r] \in {"new", "failed"}
  BY DEF TopMount!Reboot
<1>4. step' \in [Requests -> {"new", "failed"}]
  BY DEF TopMount!Reboot
<1>5. TopMount!TypeOK'
  BY <1>1, <1>2, <1>4 DEF TopMount!TypeOK
<1> QED
  BY <1>1, <1>2, <1>3, <1>5 DEF TopMount!TopInv, TopMount!Found, TopMount!OneAtATime,
     TopMount!StoreReady, TopMount!UnderWay, TopMount!Steps

\* A failing command is one more.
LEMMA TopFault ==
    ASSUME TopMount!TypeOK, TopMount!Fault
    PROVE  failures' \in 0..TopFaults /\ failures' >= failures /\ failures' > 0
<1>1. failures \in 0..TopFaults /\ failures < TopFaults /\ failures' = failures + 1
  BY DEF TopMount!TypeOK, TopMount!Fault
<1> QED
  BY <1>1, TopAssumption

\* Every step keeps the invariant.
LEMMA TopNext == TopMount!TopInv /\ [TopMount!Next]_(TopMount!vars) => TopMount!TopInv'
<1> SUFFICES ASSUME TopMount!TopInv, [TopMount!Next]_(TopMount!vars) PROVE TopMount!TopInv'
  OBVIOUS
<1>1. /\ TopMount!TypeOK /\ TopMount!Found /\ TopMount!OneAtATime /\ TopMount!StoreReady
      /\ stacked \in Nat /\ failures \in 0..TopFaults
      /\ manager \in BOOLEAN /\ database \in BOOLEAN /\ fooled \in BOOLEAN /\ overlapped \in BOOLEAN
  BY DEF TopMount!TopInv, TopMount!TypeOK
<1> USE DEF TopMount!history
<1>2. ASSUME NEW r \in Requests, TopMount!FindUuid(r) PROVE TopMount!TopInv'
  <2>1. PICK s \in {"mounted", "failed"} : TopMount!Goto(r, s) /\ (s = "failed" => TopMount!Fault)
                                           /\ (s = "mounted" => UNCHANGED failures)
    BY <1>2 DEF TopMount!FindUuid
  <2>2. failures' \in 0..TopFaults /\ failures' >= failures /\ (s = "failed" => failures' > 0)
    BY <1>1, <2>1, TopFault
  <2>3. /\ UNCHANGED <<stacked, manager, database, kind, fooled, overlapped>>
        /\ TopMount!UnderWay(r) /\ s \in TopMount!Steps \cup {"done", "failed"}
    BY <1>2, <2>1 DEF TopMount!FindUuid, TopMount!UnderWay, TopMount!Steps
  <2> QED
    BY <1>1, <2>1, <2>2, <2>3, TopOne DEF TopMount!Found, TopMount!StoreReady
<1>3. ASSUME NEW r \in Requests, TopMount!FindMount(r) PROVE TopMount!TopInv'
  <2>1. /\ UNCHANGED <<stacked, manager, database, kind, overlapped>> /\ TopMount!UnderWay(r)
        /\ {"look", "done", "mount"} \subseteq TopMount!Steps \cup {"done", "failed"}
    BY <1>3 DEF TopMount!FindMount, TopMount!UnderWay, TopMount!Steps
  <2>2. CASE TopMount!Goto(r, "mount") /\ TopMount!Fault /\ fooled' = TRUE
    BY <1>1, <2>1, <2>2, TopOne, TopFault DEF TopMount!Found, TopMount!StoreReady
  <2>3. CASE TopMount!Goto(r, IF stacked > 0 THEN TopMount!Mounted(r) ELSE "mount")
             /\ UNCHANGED <<failures, fooled>>
    <3>1. CASE stacked > 0
      <4>1. PICK s \in {"look", "done"} : TopMount!Goto(r, s) /\ (s = "done" => kind[r] # "store")
        BY <2>3, <3>1 DEF TopMount!Mounted
      <4> QED
        BY <1>1, <2>1, <2>3, <3>1, <4>1, TopOne DEF TopMount!Found, TopMount!StoreReady
    <3>2. CASE stacked = 0
      BY <1>1, <2>1, <2>3, <3>2, TopOne DEF TopMount!Found, TopMount!StoreReady
    <3> QED
      BY <1>1, <3>1, <3>2
  <2> QED
    BY <1>3, <2>2, <2>3 DEF TopMount!FindMount
<1>4. ASSUME NEW r \in Requests, TopMount!MountTop(r) PROVE TopMount!TopInv'
  <2>1. /\ UNCHANGED <<manager, database, kind, fooled, overlapped>> /\ TopMount!UnderWay(r)
        /\ {"look", "done", "failed"} \subseteq TopMount!Steps \cup {"done", "failed"}
        /\ step[r] = "mount"
    BY <1>4 DEF TopMount!MountTop, TopMount!UnderWay, TopMount!Steps
  <2>2. overlapped \/ fooled \/ stacked = 0
    BY <1>1, <2>1 DEF TopMount!OneAtATime
  <2>3. CASE stacked' = stacked + 1 /\ TopMount!Goto(r, TopMount!Mounted(r)) /\ UNCHANGED failures
    <3>1. PICK s \in {"look", "done"} : TopMount!Goto(r, s) /\ (s = "done" => kind[r] # "store")
      BY <2>3 DEF TopMount!Mounted
    <3> QED
      BY <1>1, <2>1, <2>2, <2>3, <3>1, TopOne DEF TopMount!Found, TopMount!StoreReady
  <2>4. CASE stacked > 0 /\ TopMount!Goto(r, "failed") /\ UNCHANGED <<stacked, failures>>
    BY <1>1, <2>1, <2>2, <2>4, TopOne DEF TopMount!Found, TopMount!StoreReady
  <2>5. CASE TopMount!Goto(r, "failed") /\ TopMount!Fault /\ UNCHANGED stacked
    BY <1>1, <2>1, <2>5, TopOne, TopFault DEF TopMount!Found, TopMount!StoreReady
  <2> QED
    BY <1>4, <2>3, <2>4, <2>5 DEF TopMount!MountTop
<1>5. ASSUME NEW r \in Requests, TopMount!LookForManager(r) PROVE TopMount!TopInv'
  <2>1. PICK s \in {"show", "create"} : TopMount!Goto(r, s) /\ (s = "show" <=> manager)
    BY <1>5 DEF TopMount!LookForManager
  <2>2. /\ UNCHANGED <<stacked, manager, database, kind, failures, fooled, overlapped>>
        /\ TopMount!UnderWay(r) /\ s \in TopMount!Steps \cup {"done", "failed"} /\ stacked > 0
    BY <1>1, <1>5 DEF TopMount!LookForManager, TopMount!UnderWay, TopMount!Steps, TopMount!StoreReady
  <2> QED
    BY <1>1, <2>1, <2>2, TopOne DEF TopMount!Found, TopMount!StoreReady
<1>6. ASSUME NEW r \in Requests, TopMount!CreateManager(r) PROVE TopMount!TopInv'
  <2>1. /\ UNCHANGED <<stacked, database, kind, fooled, overlapped>> /\ TopMount!UnderWay(r)
        /\ {"open", "failed"} \subseteq TopMount!Steps \cup {"done", "failed"}
        /\ step[r] = "create" /\ stacked > 0
    BY <1>1, <1>6 DEF TopMount!CreateManager, TopMount!UnderWay, TopMount!Steps, TopMount!StoreReady
  <2>2. CASE manager' = TRUE /\ TopMount!Goto(r, "open") /\ UNCHANGED failures
    BY <1>1, <2>1, <2>2, TopOne DEF TopMount!Found, TopMount!StoreReady
  <2>3. CASE manager /\ TopMount!Goto(r, "failed") /\ UNCHANGED <<manager, failures>>
    <3>1. overlapped
      BY <1>1, <2>1, <2>3 DEF TopMount!OneAtATime
    <3> QED
      BY <1>1, <2>1, <2>3, <3>1, TopOne DEF TopMount!Found, TopMount!StoreReady
  <2>4. CASE TopMount!Goto(r, "failed") /\ TopMount!Fault /\ UNCHANGED manager
    BY <1>1, <2>1, <2>4, TopOne, TopFault DEF TopMount!Found, TopMount!StoreReady
  <2> QED
    BY <1>6, <2>2, <2>3, <2>4 DEF TopMount!CreateManager
<1>7. ASSUME NEW r \in Requests, TopMount!ShowManager(r) \/ TopMount!OpenStore(r) PROVE TopMount!TopInv'
  <2>1. /\ UNCHANGED <<stacked, manager, kind, fooled, overlapped>> /\ TopMount!UnderWay(r)
        /\ {"open", "done", "failed"} \subseteq TopMount!Steps \cup {"done", "failed"}
        /\ manager /\ stacked > 0
    BY <1>1, <1>7 DEF TopMount!ShowManager, TopMount!OpenStore, TopMount!UnderWay, TopMount!Steps,
                      TopMount!Found, TopMount!StoreReady
  <2>2. CASE TopMount!Goto(r, "open") /\ UNCHANGED <<database, failures>>
    BY <1>1, <2>1, <2>2, TopOne DEF TopMount!Found, TopMount!StoreReady
  <2>3. CASE database' = TRUE /\ TopMount!Goto(r, "done") /\ UNCHANGED failures
    BY <1>1, <2>1, <2>3, TopOne DEF TopMount!Found, TopMount!StoreReady
  <2>4. CASE TopMount!Goto(r, "failed") /\ TopMount!Fault /\ UNCHANGED database
    BY <1>1, <2>1, <2>4, TopOne, TopFault DEF TopMount!Found, TopMount!StoreReady
  <2> QED
    BY <1>7, <2>2, <2>3, <2>4 DEF TopMount!ShowManager, TopMount!OpenStore
<1>8. CASE UNCHANGED TopMount!vars
  BY <1>1, <1>8 DEF TopMount!vars, TopMount!TopInv, TopMount!TypeOK, TopMount!Found, TopMount!OneAtATime,
     TopMount!StoreReady, TopMount!UnderWay
<1> QED
  BY <1>2, <1>3, <1>4, <1>5, <1>6, <1>7, <1>8, TopReceive, TopReboot DEF TopMount!Next

\* Of any number of requests at any time: one that goes on has the top level mounted,
\* one that has its store the manager's subvolume with the database; requests that do
\* not overlap mount it once and are not refused, unless a command failed
\* (infra.rs:36-161).
THEOREM StoreIsReady == TopMount!Spec => []StoreReady
<1>1. TopMount!TopInv => StoreReady
  BY DEF TopMount!TopInv, StoreReady
<1> QED
  BY <1>1, TopInit, TopNext, PTL DEF TopMount!Spec

-----------------------------------------------------------------------------
(* The update *)

\* A set of releases that is not empty has a last one.
LEMMA LastOfAll ==
    ASSUME NEW S \in SUBSET (1..LastRelease), S # {}
    PROVE  \E r \in S : \A o \in S : o <= r
<1> DEFINE T == {LastRelease - r : r \in S}
<1>1. T \subseteq Nat /\ T # {}
  <2>1. \A r \in 1..LastRelease : LastRelease - r \in Nat
    BY UpdateAssumption
  <2> QED
    BY <2>1
<1>2. \E x \in T : \A y \in T : ~(<<y, x>> \in OpToRel(<, Nat))
  <2> HIDE DEF T
  <2> QED
    BY <1>1, NatLessThanWellFounded, WFMin, Zenon
<1>3. PICK x \in T : \A y \in T : ~(y < x)
  BY <1>1, <1>2, Zenon DEF OpToRel
<1>4. PICK r \in S : x = LastRelease - r
  BY <1>3
<1>5. ASSUME NEW o \in S PROVE o <= r
  <2>1. LastRelease - o \in T
    OBVIOUS
  <2>2. ~(LastRelease - o < LastRelease - r)
    BY <1>3, <1>4, <2>1
  <2> QED
    BY <2>2, UpdateAssumption
<1> QED
  BY <1>5

\* The latest release is one.
LEMMA LatestIsOne == Updates!TypeOK => Updates!Latest \in 0..LastRelease
<1> SUFFICES ASSUME Updates!TypeOK PROVE Updates!Latest \in 0..LastRelease
  OBVIOUS
<1> DEFINE S == {r \in Updates!Releases : assets[r] > 0}
<1>1. CASE S = {}
  BY <1>1, UpdateAssumption DEF Updates!Latest, Updates!None
<1>2. CASE S # {}
  <2>1. PICK r \in S : \A o \in S : o <= r
    BY <1>2, LastOfAll DEF Updates!Releases
  <2>2. \A o \in Updates!Releases : o > r => assets[o] = 0
    <3> SUFFICES ASSUME NEW o \in Updates!Releases, o > r PROVE assets[o] = 0
      OBVIOUS
    <3>1. o \notin S
      BY <2>1, UpdateAssumption DEF Updates!Releases
    <3>2. assets[o] \in 0..2
      BY DEF Updates!TypeOK
    <3> QED
      BY <3>1, <3>2
  <2>3. Updates!Latest \in Updates!Releases
    BY <2>1, <2>2 DEF Updates!Latest
  <2> QED
    BY <2>3, UpdateAssumption DEF Updates!Releases
<1> QED
  BY <1>1, <1>2

\* The steps of a task.
TaskSteps == {"down", "check", "idle", "download", "compare", "save", "hash", "request", "verified",
              "installed"}
TaskRecords == [step : TaskSteps, release : 0..LastRelease]
GotRecords == [file : Updates!Data, checksums : BOOLEAN]

\* The types of what the steps compute with.
LEMMA UpdateTypes ==
    /\ Updates!First \in Updates!Data /\ Updates!Nothing \in GotRecords
    /\ \A r \in 0..LastRelease, good \in BOOLEAN : [of |-> r, good |-> good] \in Updates!Data
    /\ Updates!TypeOK =>
         /\ \A w \in Windows : /\ task[w] \in TaskRecords /\ got[w] \in GotRecords
                               /\ pending[w] \in 0..LastRelease
         /\ \A r \in Updates!Releases : saved[r] \in Updates!Data
         /\ installed.of \in 0..LastRelease /\ running \in 0..LastRelease
  BY UpdateAssumption DEF Updates!First, Updates!Data, Updates!Nothing, Updates!TypeOK, TaskRecords, TaskSteps,
     GotRecords

\* At the start nothing is published and nothing offered.
LEMMA UpdateInit == Updates!Init => Updates!UpdateInv
<1> SUFFICES ASSUME Updates!Init PROVE Updates!UpdateInv
  OBVIOUS
<1>1. Updates!First = [of |-> 0, good |-> TRUE] /\ Updates!NoTask = [step |-> "down", release |-> 0]
  BY DEF Updates!First, Updates!NoTask, Updates!None
<1>2. Updates!TypeOK
  <2>1. /\ assets \in [Updates!Releases -> 0..2] /\ saved \in [Updates!Releases -> Updates!Data]
        /\ got \in [Windows -> GotRecords]
    BY UpdateTypes DEF Updates!Init
  <2>2. /\ pending \in [Windows -> 0..LastRelease] /\ task \in [Windows -> TaskRecords]
        /\ running \in 0..LastRelease /\ damage \in 0..UpdateFaults
    BY <1>1, UpdateAssumption DEF Updates!Init, TaskRecords, TaskSteps, Updates!None
  <2> QED
    BY <2>1, <2>2, UpdateTypes DEF Updates!Init, Updates!TypeOK, TaskRecords, TaskSteps, GotRecords
<1>3. \A w \in Windows : task[w].step = "down" /\ task[w].release = 0 /\ pending[w] = 0
  BY <1>1 DEF Updates!Init, Updates!None
<1>4. Updates!Up = {}
  BY <1>3 DEF Updates!Up
<1> QED
  BY <1>1, <1>2, <1>3, <1>4 DEF Updates!Init, Updates!UpdateInv, Updates!WhoIsThere, Updates!OfferTaken,
     Updates!PackageMatches, Updates!UpdatesAreSound, Updates!None, Updates!Taken, Updates!At

\* What Fault counts is one more.
LEMMA UpdateFault ==
    ASSUME Updates!TypeOK, Updates!Fault \/ UNCHANGED damage
    PROVE  damage' \in 0..UpdateFaults
<1>1. damage \in 0..UpdateFaults /\ (UNCHANGED damage \/ (damage < UpdateFaults /\ damage' = damage + 1))
  BY DEF Updates!TypeOK, Updates!Fault
<1> QED
  BY <1>1, UpdateAssumption

\* A task of one window goes on.
LEMMA TaskTo ==
    ASSUME Updates!TypeOK, NEW w \in Windows, NEW s \in TaskSteps, Updates!Step(w, s)
    PROVE  /\ task' \in [Windows -> TaskRecords]
           /\ task'[w].step = s /\ task'[w].release = task[w].release
           /\ \A v \in Windows \ {w} : task'[v] = task[v]
  BY DEF Updates!TypeOK, Updates!Step, TaskSteps, TaskRecords

\* A task that goes on keeps the invariant if what it has and what is stored is what
\* its step needs.
LEMMA TaskKeeps ==
    ASSUME Updates!UpdateInv, NEW w \in Windows, NEW s \in Updates!Taken, Updates!Step(w, s),
           task[w].step \in Updates!Taken, s \in {"request", "verified"} \/ w \notin ended,
           UNCHANGED <<assets, installed, running, pending, offered, ended, between>>,
           Updates!Fault \/ UNCHANGED damage,
           got' \in [Windows -> GotRecords], \A v \in Windows \ {w} : got'[v] = got[v],
           saved' \in [Updates!Releases -> Updates!Data],
           s \in {"compare", "save"} => got'[w].file.of = task[w].release,
           s = "save" => got'[w].file.good,
           between \subseteq {"window"} =>
             \A v \in Windows : task'[v].step \in {"save", "hash", "request", "verified"}
                                  => saved'[task'[v].release].of = task'[v].release,
           between \subseteq {"upgrade"} =>
             \A v \in Windows : task'[v].step \in {"hash", "request", "verified"}
                                  => saved'[task'[v].release].good
    PROVE  Updates!UpdateInv'
<1>1. /\ Updates!TypeOK /\ Updates!WhoIsThere /\ Updates!OfferTaken /\ Updates!PackageMatches
      /\ Updates!UpdatesAreSound
  BY DEF Updates!UpdateInv
<1>2. /\ s \in TaskSteps /\ s \notin {"down", "check", "installed"}
      /\ task[w].step \notin {"down", "check", "installed"}
  BY DEF Updates!Taken, TaskSteps
<1>3. /\ task' \in [Windows -> TaskRecords]
      /\ task'[w].step = s /\ task'[w].release = task[w].release
      /\ \A v \in Windows \ {w} : task'[v] = task[v]
  BY <1>1, <1>2, TaskTo
<1>4. Updates!TypeOK'
  BY <1>1, <1>3, UpdateFault DEF Updates!TypeOK, TaskRecords, TaskSteps, GotRecords
<1>5. Updates!Up' = Updates!Up /\ Updates!Up \subseteq Windows
  BY <1>2, <1>3 DEF Updates!Up
<1>6. Updates!WhoIsThere'
  <2>1. ended \subseteq Updates!AtHelper'
    BY <1>1, <1>3 DEF Updates!WhoIsThere, Updates!AtHelper
  <2> QED
    BY <1>1, <1>5, <2>1 DEF Updates!WhoIsThere
<1>7. Updates!OfferTaken'
  BY <1>1, <1>2, <1>3, <1>5 DEF Updates!OfferTaken, Updates!At
<1>8. Updates!PackageMatches'
  BY <1>1, <1>3 DEF Updates!PackageMatches, Updates!At
<1>9. Updates!UpdatesAreSound'
  BY <1>1, <1>3, <1>5 DEF Updates!UpdatesAreSound
<1> QED
  BY <1>4, <1>6, <1>7, <1>8, <1>9 DEF Updates!UpdateInv

\* A task that fails leaves nothing but what it stored.
LEMMA FailsIdle ==
    ASSUME Updates!UpdateInv, NEW w \in Windows, Updates!Fail(w), Updates!Fault \/ UNCHANGED damage,
           task[w].step \in Updates!Taken \cup {"installed"},
           UNCHANGED <<assets, running, pending, offered, saved, between>>,
           UNCHANGED installed \/ (w \in ended /\ installed' \in Updates!Data)
    PROVE  Updates!UpdateInv'
<1>1. /\ Updates!TypeOK /\ Updates!WhoIsThere /\ Updates!OfferTaken /\ Updates!PackageMatches
      /\ Updates!UpdatesAreSound /\ pending[w] = 0
  BY DEF Updates!UpdateInv, Updates!OfferTaken, Updates!None
<1>2. /\ task' \in [Windows -> TaskRecords] /\ task'[w].release = 0
      /\ task'[w].step \in {"down", "idle"} /\ (w \notin ended => task'[w].step = "idle")
      /\ w \in ended => task'[w].step = "down"
      /\ \A v \in Windows \ {w} : task'[v] = task[v]
  BY <1>1, UpdateAssumption DEF Updates!TypeOK, Updates!Fail, Updates!None, TaskRecords, TaskSteps
<1>3. /\ got' \in [Windows -> GotRecords] /\ ended' = ended \ {w}
      /\ \A v \in Windows \ {w} : got'[v] = got[v]
  BY <1>1, UpdateTypes DEF Updates!TypeOK, Updates!Fail, GotRecords
<1>4. Updates!TypeOK'
  BY <1>1, <1>2, <1>3, UpdateFault, UpdateTypes DEF Updates!TypeOK, TaskRecords, TaskSteps, GotRecords
<1>5. Updates!Up' = Updates!Up /\ Updates!Up \subseteq Windows
  BY <1>2, <1>3 DEF Updates!Up, Updates!Taken
<1>6. Updates!WhoIsThere'
  BY <1>1, <1>2, <1>3, <1>5 DEF Updates!WhoIsThere, Updates!AtHelper
<1>7. Updates!OfferTaken'
  <2>1. UNCHANGED installed \/ "late" \in between
    BY <1>1 DEF Updates!WhoIsThere
  <2> QED
    BY <1>1, <1>2, <1>5, <2>1 DEF Updates!OfferTaken, Updates!At, Updates!None, Updates!Taken
<1>8. Updates!PackageMatches'
  BY <1>1, <1>2, <1>3 DEF Updates!PackageMatches, Updates!At
<1>9. Updates!UpdatesAreSound'
  <2>1. UNCHANGED installed \/ "late" \in between
    BY <1>1 DEF Updates!WhoIsThere
  <2> QED
    BY <1>1, <1>2, <1>5, <2>1 DEF Updates!UpdatesAreSound, Updates!Taken
<1> QED
  BY <1>4, <1>6, <1>7, <1>8, <1>9 DEF Updates!UpdateInv

\* Publishing, and what others install or change.
LEMMA UpdateOutside ==
    ASSUME Updates!UpdateInv, NEW r \in Updates!Releases,
           \/ Updates!Publish(r) \/ Updates!Upgrade(r)
           \/ \E d \in Updates!Data : Updates!Overwrite(r, d)
    PROVE  Updates!UpdateInv'
<1>1. /\ Updates!TypeOK /\ Updates!WhoIsThere /\ Updates!OfferTaken /\ Updates!PackageMatches
      /\ Updates!UpdatesAreSound
  BY DEF Updates!UpdateInv
<1>2. /\ UNCHANGED <<running, pending, offered, task, got, ended>>
      /\ Updates!Fault \/ UNCHANGED damage
  BY DEF Updates!Publish, Updates!Upgrade, Updates!Overwrite, Updates!Other, Updates!banners, Updates!program
<1>3. /\ Updates!Up' = Updates!Up /\ Updates!Up \subseteq Windows /\ Updates!AtHelper' = Updates!AtHelper
      /\ damage' \in 0..UpdateFaults
  BY <1>1, <1>2, UpdateFault DEF Updates!Up, Updates!AtHelper
<1>4. CASE Updates!Publish(r)
  <2>1. /\ assets' \in [Updates!Releases -> 0..2] /\ UNCHANGED <<installed, saved, between>>
    BY <1>1, <1>4 DEF Updates!TypeOK, Updates!Publish, Updates!program
  <2>2. Updates!TypeOK'
    BY <1>1, <1>2, <1>3, <2>1 DEF Updates!TypeOK
  <2> QED
    BY <1>1, <1>2, <1>3, <2>1, <2>2 DEF Updates!UpdateInv, Updates!WhoIsThere, Updates!OfferTaken,
       Updates!PackageMatches, Updates!UpdatesAreSound, Updates!At
<1>5. CASE Updates!Upgrade(r)
  <2>1. /\ installed' = [of |-> r, good |-> TRUE] /\ between' = between \cup {"upgrade"}
        /\ UNCHANGED <<assets, saved>>
    BY <1>5 DEF Updates!Upgrade, Updates!Other
  <2>2. r \in 0..LastRelease
    BY UpdateAssumption DEF Updates!Releases
  <2>3. Updates!TypeOK'
    BY <1>1, <1>2, <1>3, <2>1, <2>2, UpdateTypes DEF Updates!TypeOK
  <2> QED
    BY <1>1, <1>2, <1>3, <2>1, <2>3 DEF Updates!UpdateInv, Updates!WhoIsThere, Updates!OfferTaken,
       Updates!PackageMatches, Updates!UpdatesAreSound, Updates!At
<1>6. ASSUME NEW d \in Updates!Data, Updates!Overwrite(r, d) PROVE Updates!UpdateInv'
  <2>1. /\ saved' \in [Updates!Releases -> Updates!Data] /\ between' = between \cup {"file"}
        /\ UNCHANGED <<assets, installed>>
    BY <1>1, <1>6 DEF Updates!Overwrite, Updates!Other, Updates!TypeOK
  <2>2. Updates!TypeOK'
    BY <1>1, <1>2, <1>3, <2>1 DEF Updates!TypeOK
  <2> QED
    BY <1>1, <1>2, <1>3, <2>1, <2>2 DEF Updates!UpdateInv, Updates!WhoIsThere, Updates!OfferTaken,
       Updates!PackageMatches, Updates!UpdatesAreSound, Updates!At
<1> QED
  BY <1>4, <1>5, <1>6

\* A window of a new program compares with what is installed, any other one with what
\* runs.
LEMMA LaunchKeeps == ASSUME Updates!UpdateInv, NEW w \in Windows, Updates!Launch(w) PROVE Updates!UpdateInv'
<1>1. /\ Updates!TypeOK /\ Updates!WhoIsThere /\ Updates!OfferTaken /\ Updates!PackageMatches
      /\ Updates!UpdatesAreSound
      /\ UNCHANGED <<assets, installed, pending, offered, got, saved, ended>> /\ task[w].step = "down"
  BY DEF Updates!UpdateInv, Updates!Launch, Updates!banners, Updates!At
<1>2. /\ task' \in [Windows -> TaskRecords]
      /\ task'[w].step = "check" /\ task'[w].release = task[w].release
      /\ \A v \in Windows \ {w} : task'[v] = task[v]
  BY <1>1, TaskTo DEF Updates!Launch, TaskSteps
<1>3. /\ w \notin Updates!Up /\ w \notin ended /\ Updates!Up' = Updates!Up \cup {w}
      /\ Updates!Up \subseteq Windows /\ Updates!AtHelper' = Updates!AtHelper
      /\ pending[w] = 0 /\ task[w].release = 0
  BY <1>1, <1>2 DEF Updates!WhoIsThere, Updates!OfferTaken, Updates!Up, Updates!AtHelper, Updates!Taken,
                    Updates!None
<1>4. \/ Updates!Up = {} /\ running' = installed.of /\ UNCHANGED <<between, damage>>
      \/ running' = running /\ between' = between \cup {"window"} /\ Updates!Fault
  BY DEF Updates!Launch, Updates!Other
<1>5. Updates!TypeOK'
  BY <1>1, <1>2, <1>4, UpdateFault, UpdateTypes DEF Updates!TypeOK, TaskRecords, TaskSteps
<1>6. Updates!WhoIsThere'
  BY <1>1, <1>3, <1>4 DEF Updates!WhoIsThere
<1>7. Updates!OfferTaken'
  BY <1>1, <1>2, <1>3, <1>4 DEF Updates!OfferTaken, Updates!At, Updates!None, Updates!Taken
<1>8. Updates!PackageMatches'
  BY <1>1, <1>2, <1>4 DEF Updates!PackageMatches, Updates!At
<1>9. Updates!UpdatesAreSound'
  BY <1>1, <1>2, <1>3, <1>4, UpdateTypes DEF Updates!UpdatesAreSound, Updates!None, Updates!Taken
<1> QED
  BY <1>5, <1>6, <1>7, <1>8, <1>9 DEF Updates!UpdateInv

\* The check offers only what is newer than what runs.
LEMMA CheckOffers == ASSUME Updates!UpdateInv, NEW w \in Windows, Updates!Check(w) PROVE Updates!UpdateInv'
<1>1. /\ Updates!TypeOK /\ Updates!WhoIsThere /\ Updates!OfferTaken /\ Updates!PackageMatches
      /\ Updates!UpdatesAreSound /\ task[w].step = "check"
      /\ UNCHANGED <<assets, installed, running, got, saved, ended, between>>
  BY DEF Updates!UpdateInv, Updates!Check, Updates!program, Updates!At
<1>2. /\ task' \in [Windows -> TaskRecords]
      /\ task'[w].step = "idle" /\ task'[w].release = task[w].release
      /\ \A v \in Windows \ {w} : task'[v] = task[v]
  BY <1>1, TaskTo DEF Updates!Check, TaskSteps
<1>3. /\ damage' \in 0..UpdateFaults /\ offered' \subseteq Windows /\ pending' \in [Windows -> 0..LastRelease]
      /\ \A v \in Windows \ {w} : pending'[v] = pending[v]
      /\ pending'[w] = pending[w] \/ pending'[w] > running
  <2>1. CASE /\ Updates!Latest > running /\ pending' = [pending EXCEPT ![w] = Updates!Latest]
             /\ offered' = offered \cup {w} /\ UNCHANGED damage
    BY <1>1, <2>1, LatestIsOne DEF Updates!TypeOK
  <2>2. CASE UNCHANGED <<pending, offered>> /\ (Updates!Fault \/ UNCHANGED damage)
    BY <1>1, <2>2, UpdateFault DEF Updates!TypeOK
  <2> QED
    BY <2>1, <2>2 DEF Updates!Check, Updates!banners
<1>4. /\ w \notin ended /\ w \in Updates!Up /\ Updates!Up' = Updates!Up /\ Updates!Up \subseteq Windows
      /\ Updates!AtHelper' = Updates!AtHelper /\ task[w].release = 0
  BY <1>1, <1>2 DEF Updates!WhoIsThere, Updates!Up, Updates!AtHelper, Updates!OfferTaken, Updates!Taken,
                    Updates!None
<1>5. Updates!TypeOK'
  BY <1>1, <1>2, <1>3 DEF Updates!TypeOK, TaskRecords, TaskSteps
<1>6. Updates!WhoIsThere'
  BY <1>1, <1>4 DEF Updates!WhoIsThere
<1>7. Updates!OfferTaken'
  BY <1>1, <1>2, <1>3, <1>4 DEF Updates!OfferTaken, Updates!At, Updates!None, Updates!Taken
<1>8. Updates!PackageMatches'
  BY <1>1, <1>2 DEF Updates!PackageMatches, Updates!At
<1>9. Updates!UpdatesAreSound'
  <2>1. between \subseteq {"file"} => running = installed.of
    BY <1>1, <1>4 DEF Updates!OfferTaken, Updates!At
  <2> QED
    BY <1>1, <1>2, <1>3, <1>4, <2>1 DEF Updates!UpdatesAreSound, Updates!None, Updates!Taken
<1> QED
  BY <1>5, <1>6, <1>7, <1>8, <1>9 DEF Updates!UpdateInv

\* A window whose banner goes, or whose button takes the offer.
LEMMA BannerKeeps ==
    ASSUME Updates!UpdateInv, NEW w \in Windows, Updates!Dismiss(w) \/ Updates!Press(w) \/ Updates!Close(w)
    PROVE  Updates!UpdateInv'
<1>1. /\ Updates!TypeOK /\ Updates!WhoIsThere /\ Updates!OfferTaken /\ Updates!PackageMatches
      /\ Updates!UpdatesAreSound
      /\ UNCHANGED <<assets, installed, running, got, saved, ended, between, damage>>
  BY DEF Updates!UpdateInv, Updates!Dismiss, Updates!Press, Updates!Close, Updates!program
<1>2. CASE Updates!Dismiss(w)
  <2>1. offered' \subseteq Windows /\ UNCHANGED <<pending, task>>
    BY <1>1, <1>2 DEF Updates!Dismiss, Updates!TypeOK
  <2>2. /\ Updates!Up' = Updates!Up /\ Updates!Up \subseteq Windows /\ Updates!AtHelper' = Updates!AtHelper
    BY <1>1, <2>1 DEF Updates!Up, Updates!AtHelper
  <2>3. Updates!TypeOK'
    BY <1>1, <2>1 DEF Updates!TypeOK
  <2> QED
    BY <1>1, <2>1, <2>2, <2>3 DEF Updates!UpdateInv, Updates!WhoIsThere, Updates!OfferTaken,
       Updates!PackageMatches, Updates!UpdatesAreSound, Updates!At
<1>3. CASE Updates!Press(w)
  <2>1. /\ task[w].step = "idle" /\ pending[w] # 0 /\ UNCHANGED offered
        /\ task' \in [Windows -> TaskRecords] /\ pending' \in [Windows -> 0..LastRelease]
        /\ task'[w].step = "download" /\ task'[w].release = pending[w] /\ pending'[w] = 0
        /\ \A v \in Windows \ {w} : task'[v] = task[v] /\ pending'[v] = pending[v]
    BY <1>1, <1>3, UpdateAssumption DEF Updates!Press, Updates!TypeOK, TaskRecords, TaskSteps, Updates!At,
       Updates!None
  <2>2. /\ w \notin ended /\ w \in Updates!Up /\ Updates!Up' = Updates!Up /\ Updates!Up \subseteq Windows
        /\ Updates!AtHelper' = Updates!AtHelper
    BY <1>1, <2>1 DEF Updates!WhoIsThere, Updates!Up, Updates!AtHelper
  <2>3. Updates!TypeOK'
    BY <1>1, <2>1 DEF Updates!TypeOK, TaskRecords, TaskSteps
  <2>4. Updates!WhoIsThere'
    BY <1>1, <2>2 DEF Updates!WhoIsThere
  <2>5. Updates!OfferTaken'
    BY <1>1, <2>1, <2>2 DEF Updates!OfferTaken, Updates!At, Updates!None, Updates!Taken
  <2>6. Updates!PackageMatches'
    BY <1>1, <2>1 DEF Updates!PackageMatches, Updates!At
  <2>7. Updates!UpdatesAreSound'
    BY <1>1, <2>1, <2>2 DEF Updates!UpdatesAreSound, Updates!None, Updates!Taken
  <2> QED
    BY <2>3, <2>4, <2>5, <2>6, <2>7 DEF Updates!UpdateInv
<1>4. CASE Updates!Close(w)
  <2>1. /\ task[w].step = "idle" /\ offered' \subseteq Windows
        /\ task' \in [Windows -> TaskRecords] /\ pending' \in [Windows -> 0..LastRelease]
        /\ task'[w].step = "down" /\ task'[w].release = 0 /\ pending'[w] = 0
        /\ \A v \in Windows \ {w} : task'[v] = task[v] /\ pending'[v] = pending[v]
    BY <1>1, <1>4, UpdateAssumption DEF Updates!Close, Updates!TypeOK, TaskRecords, TaskSteps, Updates!At,
       Updates!None, Updates!NoTask
  <2>2. /\ w \notin ended /\ Updates!Up' = Updates!Up \ {w} /\ Updates!Up \subseteq Windows
        /\ Updates!AtHelper' = Updates!AtHelper
    BY <1>1, <2>1 DEF Updates!WhoIsThere, Updates!Up, Updates!AtHelper
  <2>3. Updates!TypeOK'
    BY <1>1, <2>1 DEF Updates!TypeOK, TaskRecords, TaskSteps
  <2>4. Updates!WhoIsThere'
    BY <1>1, <2>2 DEF Updates!WhoIsThere
  <2>5. Updates!OfferTaken'
    BY <1>1, <2>1, <2>2 DEF Updates!OfferTaken, Updates!At, Updates!None, Updates!Taken
  <2>6. Updates!PackageMatches'
    BY <1>1, <2>1 DEF Updates!PackageMatches, Updates!At
  <2>7. Updates!UpdatesAreSound'
    BY <1>1, <2>1, <2>2 DEF Updates!UpdatesAreSound, Updates!None, Updates!Taken
  <2> QED
    BY <2>3, <2>4, <2>5, <2>6, <2>7 DEF Updates!UpdateInv
<1> QED
  BY <1>2, <1>3, <1>4

\* Without a second window and without a program that has ended, one task is under way.
LEMMA OneTask ==
    ASSUME Updates!UpdateInv, NEW w \in Windows, task[w].step # "down", between \subseteq {"upgrade"}
    PROVE  \A v \in Windows \ {w} : task[v].step = "down"
  BY DEF Updates!UpdateInv, Updates!WhoIsThere, Updates!Up

\* What is downloaded is of the release.
LEMMA DownloadKeeps ==
    ASSUME Updates!UpdateInv, NEW w \in Windows, Updates!Download(w) PROVE Updates!UpdateInv'
<1>1. /\ Updates!TypeOK /\ Updates!WhoIsThere /\ Updates!PackageMatches
      /\ task[w].step = "download" /\ UNCHANGED <<assets, installed, running, pending, offered, saved, between>>
      /\ task[w].release \in 0..LastRelease
  BY UpdateTypes DEF Updates!UpdateInv, Updates!Download, Updates!banners, Updates!At, TaskRecords
<1>2. CASE Updates!Fault /\ Updates!Fail(w)
  BY <1>1, <1>2, FailsIdle DEF Updates!Taken
<1>3. ASSUME NEW good \in Updates!Damage, NEW checksums \in Updates!Damage,
             got' = [got EXCEPT ![w] = [file |-> [of |-> task[w].release, good |-> good],
                                        checksums |-> checksums]],
             Updates!Fault \/ UNCHANGED damage, Updates!Step(w, "compare"), UNCHANGED ended
      PROVE  Updates!UpdateInv'
  <2>1. good \in BOOLEAN /\ checksums \in BOOLEAN
    BY DEF Updates!Damage
  <2>2. /\ got' \in [Windows -> GotRecords] /\ got'[w].file.of = task[w].release
        /\ \A v \in Windows \ {w} : got'[v] = got[v]
    BY <1>1, <1>3, <2>1, UpdateTypes DEF Updates!TypeOK, GotRecords
  <2>3. \A v \in Windows : task'[v].step \in {"save", "hash", "request", "verified"} => task'[v] = task[v]
    BY <1>1, <1>3, TaskTo DEF TaskSteps
  <2>4. /\ w \notin ended /\ saved' \in [Updates!Releases -> Updates!Data]
        /\ "compare" \in Updates!Taken /\ task[w].step \in Updates!Taken
    BY <1>1 DEF Updates!WhoIsThere, Updates!AtHelper, Updates!TypeOK, Updates!Taken
  <2> QED
    BY <1>1, <1>3, <2>2, <2>3, <2>4, TaskKeeps DEF Updates!PackageMatches
<1> QED
  BY <1>2, <1>3 DEF Updates!Download

\* Only a package that matches is stored.
LEMMA CompareKeeps ==
    ASSUME Updates!UpdateInv, NEW w \in Windows, Updates!CompareAndSave(w) PROVE Updates!UpdateInv'
<1>1. /\ Updates!TypeOK /\ Updates!WhoIsThere /\ Updates!OfferTaken /\ Updates!PackageMatches
      /\ task[w].step = "compare" /\ UNCHANGED <<assets, installed, running, pending, offered, between>>
  BY DEF Updates!UpdateInv, Updates!CompareAndSave, Updates!banners, Updates!At
<1>2. CASE Updates!Fail(w) /\ (Updates!Fault \/ UNCHANGED damage) /\ UNCHANGED saved
  BY <1>1, <1>2, FailsIdle DEF Updates!Taken
<1>3. CASE /\ Updates!Matches(w) /\ saved' = [saved EXCEPT ![task[w].release] = Updates!Torn(w)]
           /\ Updates!Step(w, "save") /\ UNCHANGED <<got, ended, damage>>
  <2>1. /\ task[w].release \in Updates!Releases /\ w \notin ended
        /\ "save" \in Updates!Taken /\ task[w].step \in Updates!Taken
    BY <1>1, UpdateTypes, UpdateAssumption DEF Updates!OfferTaken, Updates!Taken, Updates!None,
       Updates!Releases, TaskRecords, Updates!WhoIsThere, Updates!AtHelper
  <2>2. /\ task'[w].step = "save" /\ task'[w].release = task[w].release
        /\ \A v \in Windows \ {w} : task'[v] = task[v]
    BY <1>1, <1>3, TaskTo DEF TaskSteps
  <2>3. /\ saved' \in [Updates!Releases -> Updates!Data] /\ saved'[task[w].release].of = task[w].release
        /\ \A r \in Updates!Releases \ {task[w].release} : saved'[r] = saved[r]
    BY <1>1, <1>3, <2>1, UpdateTypes DEF Updates!TypeOK, Updates!Torn, Updates!Releases
  <2>4. /\ got' \in [Windows -> GotRecords] /\ got'[w].file.of = task[w].release /\ got'[w].file.good
        /\ \A v \in Windows \ {w} : got'[v] = got[v]
    BY <1>1, <1>3 DEF Updates!TypeOK, GotRecords, Updates!Matches, Updates!PackageMatches
  <2>5. \A v \in Windows : task[v].step \in {"save", "hash", "request", "verified"}
                             => task[v].release \in Updates!Releases
    BY <1>1, UpdateTypes, UpdateAssumption DEF Updates!OfferTaken, Updates!Taken, Updates!None,
       Updates!Releases, TaskRecords
  <2>6. between \subseteq {"window"} =>
          \A v \in Windows : task'[v].step \in {"save", "hash", "request", "verified"}
                               => saved'[task'[v].release].of = task'[v].release
    BY <1>1, <2>2, <2>3, <2>5 DEF Updates!PackageMatches
  <2>7. between \subseteq {"upgrade"} =>
          \A v \in Windows : task'[v].step \notin {"hash", "request", "verified"}
    BY <1>1, <2>2, OneTask
  <2> QED
    BY <1>1, <1>3, <2>1, <2>3, <2>4, <2>6, <2>7, TaskKeeps
<1> QED
  BY <1>2, <1>3 DEF Updates!CompareAndSave

\* It is there when the file has been written, unless a second window writes it again.
LEMMA SaveKeeps ==
    ASSUME Updates!UpdateInv, NEW w \in Windows, Updates!Save(w) PROVE Updates!UpdateInv'
<1>1. /\ Updates!TypeOK /\ Updates!WhoIsThere /\ Updates!OfferTaken /\ Updates!PackageMatches
      /\ task[w].step = "save" /\ UNCHANGED <<assets, installed, running, pending, offered, between>>
  BY DEF Updates!UpdateInv, Updates!Save, Updates!banners, Updates!At
<1>2. CASE Updates!Fail(w) /\ Updates!Fault /\ UNCHANGED saved
  BY <1>1, <1>2, FailsIdle DEF Updates!Taken
<1>3. CASE /\ \/ saved' = [saved EXCEPT ![task[w].release] = got[w].file]
              \/ UNCHANGED saved /\ \E o \in Windows \ {w} : Updates!At(o, "save")
           /\ got' = [got EXCEPT ![w] = Updates!Nothing] /\ Updates!Step(w, "hash")
           /\ UNCHANGED <<ended, damage>>
  <2>1. /\ task[w].release \in Updates!Releases /\ w \notin ended
        /\ "hash" \in Updates!Taken /\ task[w].step \in Updates!Taken
    BY <1>1, UpdateTypes, UpdateAssumption DEF Updates!OfferTaken, Updates!Taken, Updates!None,
       Updates!Releases, TaskRecords, Updates!WhoIsThere, Updates!AtHelper
  <2>2. /\ task'[w].step = "hash" /\ task'[w].release = task[w].release
        /\ \A v \in Windows \ {w} : task'[v] = task[v]
    BY <1>1, <1>3, TaskTo DEF TaskSteps
  <2>3. got[w].file \in Updates!Data /\ got[w].file.of = task[w].release /\ got[w].file.good
    BY <1>1, UpdateTypes DEF GotRecords, Updates!PackageMatches, Updates!At
  <2>4. /\ saved' \in [Updates!Releases -> Updates!Data]
        /\ between \subseteq {"window"} => saved'[task[w].release].of = task[w].release
        /\ between \subseteq {"upgrade"} => saved'[task[w].release].good
        /\ \A r \in Updates!Releases \ {task[w].release} : saved'[r] = saved[r]
    <3>1. CASE saved' = [saved EXCEPT ![task[w].release] = got[w].file]
      BY <1>1, <2>1, <2>3, <3>1 DEF Updates!TypeOK
    <3>2. CASE UNCHANGED saved /\ \E o \in Windows \ {w} : Updates!At(o, "save")
      <4>1. ~(between \subseteq {"upgrade"})
        BY <1>1, <3>2, OneTask DEF Updates!At
      <4> QED
        BY <1>1, <3>2, <4>1 DEF Updates!TypeOK, Updates!PackageMatches
    <3> QED
      BY <1>3, <3>1, <3>2
  <2>5. /\ got' \in [Windows -> GotRecords] /\ \A v \in Windows \ {w} : got'[v] = got[v]
    BY <1>1, <1>3, UpdateTypes DEF Updates!TypeOK, GotRecords
  <2>6. \A v \in Windows : task[v].step \in {"save", "hash", "request", "verified"}
                             => task[v].release \in Updates!Releases
    BY <1>1, UpdateTypes, UpdateAssumption DEF Updates!OfferTaken, Updates!Taken, Updates!None,
       Updates!Releases, TaskRecords
  <2>7. between \subseteq {"window"} =>
          \A v \in Windows : task'[v].step \in {"save", "hash", "request", "verified"}
                               => saved'[task'[v].release].of = task'[v].release
    BY <1>1, <2>2, <2>4, <2>6 DEF Updates!PackageMatches
  <2>8. between \subseteq {"upgrade"} =>
          \A v \in Windows : task'[v].step \in {"hash", "request", "verified"}
                               => saved'[task'[v].release].good
    BY <1>1, <2>2, <2>4, OneTask
  <2> QED
    BY <1>1, <1>3, <2>1, <2>4, <2>5, <2>7, <2>8, TaskKeeps
<1> QED
  BY <1>2, <1>3 DEF Updates!Save

\* The hash is taken of the stored file, and compared with it again.
LEMMA HashKeeps ==
    ASSUME Updates!UpdateInv, NEW w \in Windows, Updates!HashFile(w) \/ Updates!Verify(w)
    PROVE  Updates!UpdateInv'
<1>1. /\ Updates!TypeOK /\ Updates!WhoIsThere /\ Updates!OfferTaken /\ Updates!PackageMatches
      /\ task[w].step \in {"hash", "request"} /\ task[w].step \in Updates!Taken
      /\ UNCHANGED <<assets, installed, running, pending, offered, saved, between>>
  BY DEF Updates!UpdateInv, Updates!HashFile, Updates!Verify, Updates!banners, Updates!At, Updates!Taken
<1>2. CASE Updates!Fail(w) /\ (Updates!Fault \/ UNCHANGED damage)
  BY <1>1, <1>2, FailsIdle
<1>3. ASSUME NEW s \in {"request", "verified"}, Updates!Step(w, s), UNCHANGED <<ended, damage>>,
             got' = [got EXCEPT ![w].file = saved[task[w].release]] \/ UNCHANGED got
      PROVE  Updates!UpdateInv'
  <2>1. task[w].release \in Updates!Releases /\ saved[task[w].release] \in Updates!Data
    BY <1>1, UpdateTypes, UpdateAssumption DEF Updates!OfferTaken, Updates!Taken, Updates!None,
       Updates!Releases, TaskRecords
  <2>2. /\ task'[w].step = s /\ task'[w].release = task[w].release
        /\ \A v \in Windows \ {w} : task'[v] = task[v]
    BY <1>1, <1>3, TaskTo DEF TaskSteps
  <2>3. /\ got' \in [Windows -> GotRecords] /\ \A v \in Windows \ {w} : got'[v] = got[v]
        /\ saved' \in [Updates!Releases -> Updates!Data] /\ s \in Updates!Taken
    <3>1. CASE got' = [got EXCEPT ![w].file = saved[task[w].release]]
      BY <1>1, <2>1, <3>1 DEF Updates!TypeOK, GotRecords, Updates!Taken
    <3>2. CASE UNCHANGED got
      BY <1>1, <3>2 DEF Updates!TypeOK, GotRecords, Updates!Taken
    <3> QED
      BY <1>3, <3>1, <3>2
  <2>4. /\ between \subseteq {"window"} =>
             \A v \in Windows : task'[v].step \in {"save", "hash", "request", "verified"}
                                  => saved'[task'[v].release].of = task'[v].release
        /\ between \subseteq {"upgrade"} =>
             \A v \in Windows : task'[v].step \in {"hash", "request", "verified"}
                                  => saved'[task'[v].release].good
    BY <1>1, <2>2 DEF Updates!PackageMatches
  <2> QED
    BY <1>1, <1>3, <2>3, <2>4, TaskKeeps
<1> QED
  BY <1>2, <1>3 DEF Updates!HashFile, Updates!Verify

\* What is installed is the stored file.
LEMMA InstallKeeps ==
    ASSUME Updates!UpdateInv, NEW w \in Windows, Updates!Install(w) PROVE Updates!UpdateInv'
<1>1. /\ Updates!TypeOK /\ Updates!WhoIsThere /\ Updates!OfferTaken /\ Updates!PackageMatches
      /\ Updates!UpdatesAreSound /\ task[w].step = "verified"
      /\ UNCHANGED <<assets, running, pending, offered, saved, between>>
  BY DEF Updates!UpdateInv, Updates!Install, Updates!banners, Updates!At
<1>2. /\ task[w].release \in Updates!Releases /\ saved[task[w].release] \in Updates!Data
      /\ task[w].step \in Updates!Taken /\ pending[w] = 0
  BY <1>1, UpdateTypes, UpdateAssumption DEF Updates!OfferTaken, Updates!Taken, Updates!None,
     Updates!Releases, TaskRecords
<1>3. CASE Updates!Fail(w) /\ (UNCHANGED damage \/ Updates!Fault) /\ (UNCHANGED installed \/ w \in ended)
  <2>1. UNCHANGED installed \/ (w \in ended /\ installed' \in Updates!Data)
    BY <1>2, <1>3 DEF Updates!Install
  <2> QED
    BY <1>1, <1>2, <1>3, <2>1, FailsIdle
<1>4. CASE /\ installed' = saved[task[w].release] /\ w \notin ended
           /\ Updates!Step(w, "installed") /\ UNCHANGED <<got, ended, damage>>
  <2>1. /\ task' \in [Windows -> TaskRecords]
        /\ task'[w].step = "installed" /\ task'[w].release = task[w].release
        /\ \A v \in Windows \ {w} : task'[v] = task[v]
    BY <1>1, <1>4, TaskTo DEF TaskSteps
  <2>2. /\ Updates!Up' = Updates!Up /\ w \in Updates!Up /\ Updates!Up \subseteq Windows
        /\ "window" \notin between => Updates!Up = {w}
    BY <1>1, <1>4, <2>1 DEF Updates!Up, Updates!WhoIsThere
  <2>3. Updates!TypeOK'
    BY <1>1, <1>2, <1>4, <2>1 DEF Updates!TypeOK, TaskRecords, TaskSteps
  <2>4. Updates!WhoIsThere'
    BY <1>1, <1>4, <2>1, <2>2 DEF Updates!WhoIsThere, Updates!AtHelper
  <2>5. Updates!OfferTaken'
    BY <1>1, <1>2, <2>1, <2>2 DEF Updates!OfferTaken, Updates!At, Updates!None, Updates!Taken
  <2>6. Updates!PackageMatches'
    BY <1>1, <1>4, <2>1 DEF Updates!PackageMatches, Updates!At
  <2>7. Updates!UpdatesAreSound'
    <3>1. between \subseteq {"upgrade"} => installed'.good
      BY <1>1, <1>4 DEF Updates!PackageMatches
    <3>2. between \subseteq {"window"} => installed'.of >= running
      <4>1. between \subseteq {"window"} => installed'.of = task[w].release
        BY <1>1, <1>4 DEF Updates!PackageMatches
      <4>2. task[w].release > running
        BY <1>1, <1>2, <2>2 DEF Updates!UpdatesAreSound
      <4> QED
        BY <1>1, <1>2, <4>1, <4>2, UpdateTypes, UpdateAssumption DEF Updates!Releases
    <3>3. \A v \in Updates!Up : task'[v].step \in Updates!Taken => v # w /\ task'[v] = task[v]
      BY <2>1, <2>2 DEF Updates!Taken
    <3> QED
      BY <1>1, <1>2, <2>1, <2>2, <3>1, <3>2, <3>3 DEF Updates!UpdatesAreSound, Updates!None
  <2> QED
    BY <2>3, <2>4, <2>5, <2>6, <2>7 DEF Updates!UpdateInv
<1> QED
  BY <1>3, <1>4 DEF Updates!Install

\* When the program ends its windows are gone; one that takes its place is built from
\* what is installed.
LEMMA EndsKeeps ==
    ASSUME Updates!UpdateInv, NEW N \in SUBSET (Windows \ Updates!AtHelper), \A v, w \in N : v = w,
           Updates!Ends(N), IF N = {} THEN UNCHANGED running ELSE running' = installed.of,
           UNCHANGED <<assets, installed, saved>>, Updates!Fault \/ UNCHANGED damage
    PROVE  Updates!UpdateInv'
<1>1. /\ Updates!TypeOK /\ Updates!WhoIsThere /\ Updates!OfferTaken /\ Updates!PackageMatches
      /\ Updates!UpdatesAreSound /\ Updates!AtHelper \subseteq Windows
  BY DEF Updates!UpdateInv, Updates!AtHelper
<1>2. /\ task' \in [Windows -> TaskRecords]
      /\ \A v \in N : task'[v].step = "check" /\ task'[v].release = 0
      /\ \A v \in Updates!AtHelper : task'[v] = task[v]
      /\ \A v \in Windows \ (N \cup Updates!AtHelper) : task'[v].step = "down" /\ task'[v].release = 0
  <2>1. /\ Updates!NoTask = [step |-> "down", release |-> 0]
        /\ [Updates!NoTask EXCEPT !.step = "check"] = [step |-> "check", release |-> 0]
    BY DEF Updates!NoTask, Updates!None
  <2>2. \A v \in Windows :
          task'[v] = IF v \in N THEN [step |-> "check", release |-> 0]
                     ELSE IF v \in Updates!AtHelper THEN task[v] ELSE [step |-> "down", release |-> 0]
    BY <2>1 DEF Updates!Ends
  <2>3. DOMAIN task' = Windows /\ task' = [v \in Windows |-> task'[v]]
    BY DEF Updates!Ends
  <2>4. \A v \in Windows : task'[v] \in TaskRecords
    BY <1>1, <2>2, UpdateTypes, UpdateAssumption DEF TaskRecords, TaskSteps
  <2> QED
    BY <1>1, <2>2, <2>3, <2>4
<1>3. /\ got' \in [Windows -> GotRecords] /\ \A v \in Updates!AtHelper : got'[v] = got[v]
  BY <1>1, UpdateTypes DEF Updates!Ends
<1>4. /\ pending' = [v \in Windows |-> 0] /\ offered' = {} /\ ended' = Updates!AtHelper
      /\ between' = between \cup (IF Updates!AtHelper = {} THEN {} ELSE {"late"})
  BY DEF Updates!Ends, Updates!None
<1>5. running' \in 0..LastRelease /\ damage' \in 0..UpdateFaults
  BY <1>1, UpdateFault, UpdateTypes
<1>6. \A v \in Updates!AtHelper : task[v].step \in {"request", "verified"}
  BY DEF Updates!AtHelper
<1>7. /\ Updates!AtHelper' = Updates!AtHelper /\ Updates!Up' = N
  <2>1. Updates!AtHelper' = Updates!AtHelper
    BY <1>1, <1>2, <1>6 DEF Updates!AtHelper
  <2> QED
    BY <1>1, <1>2, <1>4, <1>6, <2>1 DEF Updates!Up
<1>8. Updates!TypeOK'
  BY <1>1, <1>2, <1>3, <1>4, <1>5, UpdateAssumption DEF Updates!TypeOK, TaskRecords, TaskSteps, GotRecords
<1>9. Updates!WhoIsThere'
  BY <1>4, <1>7 DEF Updates!WhoIsThere
<1>10. Updates!OfferTaken'
  BY <1>1, <1>2, <1>4, <1>6, <1>7 DEF Updates!OfferTaken, Updates!At, Updates!None, Updates!Taken
<1>11. Updates!PackageMatches'
  <2>1. \A v \in Windows : task'[v].step \in {"compare", "save", "hash", "request", "verified"}
                             => v \in Updates!AtHelper /\ task'[v] = task[v] /\ got'[v] = got[v]
    BY <1>2, <1>3
  <2> QED
    BY <1>1, <1>4, <2>1 DEF Updates!PackageMatches, Updates!At
<1>12. Updates!UpdatesAreSound'
  <2>1. \A v \in Updates!Up' : pending'[v] = 0 /\ task'[v].step \notin Updates!Taken
    BY <1>2, <1>4, <1>7 DEF Updates!Taken
  <2>2. between' \subseteq {"window"} => installed.of >= running'
    BY <1>1, <1>4, UpdateTypes DEF Updates!UpdatesAreSound
  <2> QED
    BY <1>1, <1>4, <2>1, <2>2 DEF Updates!UpdatesAreSound, Updates!None
<1> QED
  BY <1>8, <1>9, <1>10, <1>11, <1>12 DEF Updates!UpdateInv

\* The program goes on, starts again, or ends.
LEMMA AnswerKeeps ==
    ASSUME Updates!UpdateInv, \/ \E w \in Windows : Updates!Answer(w)
                              \/ Updates!Kill
    PROVE  Updates!UpdateInv'
<1>1. ASSUME NEW w \in Windows, Updates!Answer(w) PROVE Updates!UpdateInv'
  <2>1. /\ task[w].step = "installed" /\ UNCHANGED <<assets, installed, saved, damage>>
        /\ w \notin Updates!AtHelper
    BY <1>1 DEF Updates!Answer, Updates!At, Updates!AtHelper
  <2>2. CASE Updates!Fail(w) /\ UNCHANGED <<running, pending, offered, between>>
    BY <2>1, <2>2, FailsIdle
  <2>3. CASE Updates!Ends({w}) /\ running' = installed.of
    BY <2>1, <2>3, EndsKeeps
  <2>4. CASE Updates!Ends({}) /\ UNCHANGED running
    BY <2>1, <2>4, EndsKeeps
  <2> QED
    BY <1>1, <2>2, <2>3, <2>4 DEF Updates!Answer, Updates!banners
<1>2. CASE Updates!Kill
  BY <1>2, EndsKeeps DEF Updates!Kill
<1> QED
  BY <1>1, <1>2

\* Every step keeps the invariant.
LEMMA UpdateNext == Updates!UpdateInv /\ [Updates!Next]_(Updates!vars) => Updates!UpdateInv'
<1>1. Updates!UpdateInv /\ UNCHANGED Updates!vars => Updates!UpdateInv'
  BY DEF Updates!vars, Updates!UpdateInv, Updates!TypeOK, Updates!WhoIsThere, Updates!OfferTaken,
     Updates!PackageMatches, Updates!UpdatesAreSound, Updates!Up, Updates!AtHelper, Updates!At
<1> QED
  BY <1>1, UpdateOutside, LaunchKeeps, CheckOffers, BannerKeeps, DownloadKeeps, CompareKeeps, SaveKeeps,
     HashKeeps, InstallKeeps, AnswerKeeps DEF Updates!Next

\* Of any number of releases and windows, whatever is damaged, fails or ends on the
\* way, only a package that matches its published checksum is installed, unless the
\* stored file is changed or written again meanwhile, and a window never takes a
\* release that is not newer than what runs, nor one that is not newer than what is
\* installed unless somebody else installed one meanwhile (update_apply.rs:43-80,
\* selfupdate.rs:6-45).
THEOREM UpdatesAreTrue == Updates!Spec => []UpdatesAreSound
<1>1. Updates!UpdateInv => UpdatesAreSound
  BY DEF Updates!UpdateInv, UpdatesAreSound
<1> QED
  BY <1>1, UpdateInit, UpdateNext, PTL DEF Updates!Spec

-----------------------------------------------------------------------------
(* Notifications *)

Readings == 0..MaxTime
RunRecords == [policy : Policies \cup {"none"}, started : Readings, finished : Readings,
               state : {"new", "running", "finished", "logged", "lost"}]
CheckRecords == [step : {"idle", "policies", "logs"}, since : Notify!Times, now : Readings,
                 left : SUBSET Policies, found : SUBSET Runs]

\* The types of what the steps compute with.
LEMMA NotifyTypes ==
    Notify!TypeOK =>
        /\ clock \in Readings /\ clock \in Nat /\ file \in Notify!Times /\ file \in Int
        /\ check \in [Windows -> CheckRecords]
        /\ \A w \in Windows : check[w] \in CheckRecords /\ check[w].since \in Int /\ check[w].now \in Nat
                              /\ check[w].found \subseteq Runs
        /\ run \in [Runs -> RunRecords]
        /\ \A r \in Runs : run[r] \in RunRecords /\ run[r].finished \in Nat
                           /\ told[r] \in 0..2
  BY NotificationsAssumption DEF Notify!TypeOK, Notify!Times, Readings, RunRecords, CheckRecords

\* No check, and no run yet.
LEMMA IdleTypes == Notify!Idle \in CheckRecords /\ Notify!Idle.step = "idle"
                   /\ Notify!Idle.left = {} /\ Notify!Idle.found = {} /\ Notify!NewRun \in RunRecords
<1>1. 0 \in Notify!Times /\ 0 \in Readings
  BY NotificationsAssumption DEF Notify!Times, Readings
<1> QED
  BY <1>1 DEF Notify!Idle, Notify!NewRun, CheckRecords, RunRecords

\* At the start nothing ran.
LEMMA NotifyInit == Notify!Init => Notify!ToldInv
<1> SUFFICES ASSUME Notify!Init PROVE Notify!ToldInv
  OBVIOUS
<1>1. Notify!Never \in Notify!Times /\ 0 \in Readings /\ Notify!Never = -1
  BY NotificationsAssumption DEF Notify!Times, Notify!Never, Readings
<1>2. Notify!TypeOK
  BY <1>1, IdleTypes, NotificationsAssumption DEF Notify!Init, Notify!TypeOK, CheckRecords, RunRecords, Readings
<1>3. /\ \A w \in Windows : ~Notify!Checking(w) /\ check[w].step = "idle" /\ check[w].found = {}
      /\ \A r \in Runs : ~Notify!Ended(r) /\ run[r].finished = 0 /\ told[r] = 0 /\ run[r].state = "new"
      /\ clock = 0 /\ file = -1
  BY <1>1, IdleTypes DEF Notify!Init, Notify!Checking, Notify!Ended, Notify!NewRun
<1>4. Notify!CheckInOrder
  BY <1>1, <1>3 DEF Notify!CheckInOrder
<1>5. ASSUME NEW r \in Runs PROVE Notify!ReadingsApart(r) /\ Notify!NotMissed(r) /\ Notify!NotRepeated(r)
  BY <1>3 DEF Notify!ReadingsApart, Notify!NotMissed, Notify!NotRepeated
<1> QED
  BY <1>2, <1>4, <1>5 DEF Notify!ToldInv

\* Once a run has ended, a step that concerns another one leaves it where it is.
LEMMA OthersTold ==
    ASSUME Notify!ToldInv, UNCHANGED <<file, check, told>>, clock' \in {clock, clock + 1},
           excused \subseteq excused', twice \subseteq twice',
           NEW o \in Runs, run'[o] = run[o]
    PROVE  Notify!ReadingsApart(o)' /\ Notify!NotMissed(o)' /\ Notify!NotRepeated(o)'
<1>1. /\ clock \in Nat /\ file \in Int /\ run[o].finished \in Nat
  BY NotifyTypes DEF Notify!ToldInv
<1>2. Notify!ReadingsApart(o) /\ Notify!NotMissed(o) /\ Notify!NotRepeated(o)
  BY DEF Notify!ToldInv
<1>3. Notify!ReadingsApart(o)'
  BY <1>1, <1>2 DEF Notify!ReadingsApart, Notify!Checking, Notify!Ended
<1>4. Notify!NotMissed(o)'
  BY <1>2 DEF Notify!NotMissed, Notify!Checking
<1>5. Notify!NotRepeated(o)'
  BY <1>2 DEF Notify!NotRepeated, Notify!Checking, Notify!Ended
<1> QED
  BY <1>3, <1>4, <1>5

\* So does time the order of the checks.
LEMMA OrderStays ==
    ASSUME Notify!ToldInv, UNCHANGED <<file, check>>, clock' \in {clock, clock + 1},
           (\E w \in Windows : Notify!Checking(w)) /\ Notify!Blurred => Notify!Blurred'
    PROVE  Notify!CheckInOrder'
<1>1. clock \in Nat /\ file \in Int /\ \A w \in Windows : check[w].now \in Nat
  BY NotifyTypes DEF Notify!ToldInv
<1>2. Notify!CheckInOrder
  BY DEF Notify!ToldInv
<1>3. \A w \in Windows : check[w].now \in 1..clock => check[w].now \in 1..clock'
  BY <1>1
<1>4. \A w \in Windows : Notify!Checking(w)' <=> Notify!Checking(w)
  BY DEF Notify!Checking
<1>5. file' <= clock' /\ (file' = Notify!Never \/ file' > 0)
  BY <1>1, <1>2 DEF Notify!CheckInOrder, Notify!Never
<1> QED
  BY <1>2, <1>3, <1>4, <1>5 DEF Notify!CheckInOrder, Notify!Never

\* A run that starts has not ended.
LEMMA StartKeeps ==
    ASSUME Notify!ToldInv, NEW r \in Runs, NEW p \in Policies, Notify!Start(r, p)
    PROVE  Notify!ToldInv'
<1>1. /\ Notify!TypeOK /\ Notify!CheckInOrder /\ Notify!ReadingsApart(r) /\ Notify!NotRepeated(r)
      /\ UNCHANGED <<file, check, told, lost, excused, twice>>
      /\ clock < MaxTime /\ clock' = clock + 1 /\ run[r].state = "new"
  BY DEF Notify!ToldInv, Notify!Start, Notify!Reading
<1>2. /\ clock \in Nat /\ file \in Int /\ run \in [Runs -> RunRecords] /\ told[r] \in 0..2
  BY <1>1, NotifyTypes
<1>3. /\ \A o \in Runs \ {r} : run'[o] = run[o]
      /\ run'[r].state = "running" /\ run'[r].finished = 0 /\ run'[r].policy = p
      /\ run' \in [Runs -> RunRecords]
  <2>1. clock' \in Readings /\ 0 \in Readings
    BY <1>1, <1>2, NotificationsAssumption DEF Readings
  <2>2. Notify!NewRun \in RunRecords /\ Notify!NewRun.finished = 0
    BY <2>1 DEF Notify!NewRun, RunRecords
  <2>3. run' = [run EXCEPT ![r] = [Notify!NewRun EXCEPT !.policy = p, !.state = "running", !.started = clock']]
    BY DEF Notify!Start
  <2> QED
    BY <1>2, <2>1, <2>2, <2>3 DEF RunRecords
<1>4. Notify!TypeOK'
  <2>1. clock' \in 0..MaxTime
    BY <1>1, <1>2, NotificationsAssumption
  <2> QED
    BY <1>1, <1>3, <2>1 DEF Notify!TypeOK, RunRecords, Readings
<1>5. /\ told[r] = 0 /\ \A w \in Windows : r \notin check[w].found
  BY <1>1, <1>2 DEF Notify!NotRepeated, Notify!Ended
<1>6. Notify!ReadingsApart(r)'
  <2>1. file # 0 /\ \A w \in Windows : Notify!Checking(w) => check[w].now # 0
    BY <1>1, <1>2 DEF Notify!CheckInOrder, Notify!Never
  <2>2. 0 <= clock'
    BY <1>1, <1>2
  <2> QED
    BY <1>1, <1>3, <2>1, <2>2 DEF Notify!ReadingsApart, Notify!Checking, Notify!Ended
<1>7. Notify!NotMissed(r)' /\ Notify!NotRepeated(r)'
  BY <1>1, <1>3, <1>5 DEF Notify!NotMissed, Notify!NotRepeated, Notify!Ended
<1>8. Notify!Blurred => Notify!Blurred'
  BY <1>1, <1>3 DEF Notify!Blurred, Notify!Ended
<1> QED
  BY <1>1, <1>3, <1>4, <1>6, <1>7, <1>8, OthersTold, OrderStays DEF Notify!ToldInv

\* A run that finishes does so after every earlier event.
LEMMA FinishKeeps ==
    ASSUME Notify!ToldInv, NEW r \in Runs, Notify!FinishRun(r)
    PROVE  Notify!ToldInv'
<1>1. /\ Notify!TypeOK /\ Notify!CheckInOrder /\ Notify!ReadingsApart(r) /\ Notify!NotRepeated(r)
      /\ UNCHANGED <<file, check, told, lost, excused>>
      /\ clock < MaxTime /\ clock' = clock + 1 /\ run[r].state = "running"
      /\ twice' = IF \E w \in Windows : Notify!Checking(w) THEN twice \cup {r} ELSE twice
  BY DEF Notify!ToldInv, Notify!FinishRun, Notify!Reading
<1>2. /\ clock \in Nat /\ file \in Int /\ run \in [Runs -> RunRecords] /\ told[r] \in 0..2
      /\ \A w \in Windows : check[w].now \in Nat
  BY <1>1, NotifyTypes
<1>3. /\ \A o \in Runs \ {r} : run'[o] = run[o]
      /\ run'[r].state = "finished" /\ run'[r].finished = clock' /\ run'[r].policy = run[r].policy
      /\ run' \in [Runs -> RunRecords]
  <2>1. clock' \in Readings
    BY <1>1, <1>2, NotificationsAssumption DEF Readings
  <2> QED
    BY <1>2, <2>1 DEF RunRecords, Notify!FinishRun
<1>4. Notify!TypeOK'
  <2>1. clock' \in 0..MaxTime
    BY <1>1, <1>2, NotificationsAssumption
  <2>2. twice' \subseteq Runs
    BY <1>1 DEF Notify!TypeOK
  <2> QED
    BY <1>1, <1>3, <2>1, <2>2 DEF Notify!TypeOK, RunRecords, Readings
<1>5. /\ told[r] = 0 /\ \A w \in Windows : r \notin check[w].found
  BY <1>1, <1>2 DEF Notify!NotRepeated, Notify!Ended
<1>6. /\ clock' > file /\ clock' > 0
      /\ \A w \in Windows : Notify!Checking(w) => clock' > check[w].now
  BY <1>1, <1>2 DEF Notify!CheckInOrder
<1>7. Notify!ReadingsApart(r)'
  BY <1>1, <1>2, <1>3, <1>6 DEF Notify!ReadingsApart, Notify!Checking, Notify!Ended
<1>8. Notify!NotMissed(r)' /\ Notify!NotRepeated(r)'
  BY <1>1, <1>3, <1>5 DEF Notify!NotMissed, Notify!NotRepeated, Notify!Checking, Notify!Ended
<1>9. twice \subseteq twice'
  BY <1>1
<1>10. (\E w \in Windows : Notify!Checking(w)) /\ Notify!Blurred => Notify!Blurred'
  BY <1>1, <1>3 DEF Notify!Blurred, Notify!Ended
<1> QED
  BY <1>1, <1>3, <1>4, <1>7, <1>8, <1>9, <1>10, OthersTold, OrderStays DEF Notify!ToldInv

\* A failing command is one more.
LEMMA NotifyFault ==
    ASSUME Notify!TypeOK, Notify!Fault \/ UNCHANGED lost
    PROVE  lost' \in 0..LogFaults
<1>1. lost \in 0..LogFaults /\ (UNCHANGED lost \/ (lost < LogFaults /\ lost' = lost + 1))
  BY DEF Notify!TypeOK, Notify!Fault
<1> QED
  BY <1>1, NotificationsAssumption

\* A run that is inserted too late is excused.
LEMMA InsertKeeps ==
    ASSUME Notify!ToldInv, NEW r \in Runs, Notify!Insert(r)
    PROVE  Notify!ToldInv'
<1>1. /\ Notify!TypeOK /\ Notify!CheckInOrder /\ Notify!ReadingsApart(r) /\ Notify!NotRepeated(r)
      /\ UNCHANGED <<clock, file, check, told, twice>> /\ run[r].state = "finished"
      /\ excused' = IF run[r].finished < file \/ \E w \in Windows : Notify!PassedOver(r, w)
                    THEN excused \cup {r} ELSE excused
  BY DEF Notify!ToldInv, Notify!Insert
<1>2. /\ run \in [Runs -> RunRecords] /\ run[r].finished \in Nat
      /\ \A w \in Windows : check[w].step \in {"idle", "policies", "logs"} /\ check[w].since \in Int
  BY <1>1, NotifyTypes DEF CheckRecords
<1>3. /\ \A o \in Runs \ {r} : run'[o] = run[o]
      /\ run'[r].state \in {"logged", "lost"} /\ run'[r].finished = run[r].finished
      /\ run'[r].policy = run[r].policy
      /\ run' \in [Runs -> RunRecords] /\ lost' \in 0..LogFaults
  <2>1. PICK s \in {"logged", "lost"} : run' = [run EXCEPT ![r].state = s]
                                         /\ (Notify!Fault \/ UNCHANGED lost)
    BY DEF Notify!Insert
  <2>2. lost' \in 0..LogFaults
    BY <1>1, <2>1, NotifyFault
  <2> QED
    BY <1>2, <2>1, <2>2 DEF RunRecords
<1>4. excused \subseteq excused' /\ excused' \subseteq Runs
  BY <1>1 DEF Notify!TypeOK
<1>5. Notify!TypeOK'
  BY <1>1, <1>3, <1>4 DEF Notify!TypeOK, RunRecords, Readings
<1>6. \A w \in Windows : r \notin check[w].found
  BY <1>1 DEF Notify!NotRepeated
<1>7. Notify!ReadingsApart(r)' /\ Notify!NotRepeated(r)'
  BY <1>1, <1>3, <1>6 DEF Notify!ReadingsApart, Notify!NotRepeated, Notify!Checking, Notify!Ended
<1>8. Notify!NotMissed(r)'
  <2> SUFFICES ASSUME r \notin excused'
               PROVE  /\ ~(run[r].finished < file)
                      /\ \A w \in Windows : Notify!Checking(w) /\ run[r].finished < check[w].now =>
                           /\ run[r].finished > check[w].since
                           /\ check[w].step = "policies" \/ run[r].policy \in check[w].left
    BY <1>1, <1>3 DEF Notify!NotMissed, Notify!Checking
  <2>1. /\ ~(run[r].finished < file) /\ \A w \in Windows : ~Notify!PassedOver(r, w)
    BY <1>1
  <2> QED
    BY <1>2, <2>1 DEF Notify!PassedOver, Notify!Checking
<1>9. Notify!Blurred => Notify!Blurred'
  BY <1>1, <1>3 DEF Notify!Blurred, Notify!Ended
<1> QED
  BY <1>1, <1>3, <1>4, <1>5, <1>7, <1>8, <1>9, OthersTold, OrderStays DEF Notify!ToldInv

\* A check begins after everything that has finished, and a first one excuses what it
\* does not look back to; when it overlaps another one, what there is may be told twice.
LEMMA BeginKeeps ==
    ASSUME Notify!ToldInv, NEW w \in Windows, Notify!Begin(w) PROVE Notify!ToldInv'
<1>1. /\ Notify!TypeOK /\ Notify!CheckInOrder
      /\ UNCHANGED <<run, file, told>> /\ ~Notify!Checking(w)
      /\ clock < MaxTime /\ clock' = clock + 1
      /\ excused' = IF file # Notify!Never THEN excused
                    ELSE excused \cup {r \in Runs : run[r].finished \in 1..(clock' - Hour)}
  BY DEF Notify!ToldInv, Notify!Begin, Notify!Reading
<1>2. /\ clock \in Nat /\ file \in Int /\ file \in Notify!Times /\ clock' \in Readings
      /\ \A v \in Windows : check[v].now \in Nat
  BY <1>1, NotifyTypes, NotificationsAssumption DEF Readings
<1>3. /\ check'[w].step = "policies" /\ check'[w].now = clock' /\ check'[w].left = {} /\ check'[w].found = {}
      /\ check'[w].since = IF file = Notify!Never THEN clock' - Hour ELSE file
      /\ check' \in [Windows -> CheckRecords] /\ \A v \in Windows \ {w} : check'[v] = check[v]
  <2>1. clock' - Hour \in Notify!Times
    BY <1>1, <1>2, NotificationsAssumption DEF Notify!Times, Readings
  <2>2. (IF file = Notify!Never THEN clock' - Hour ELSE file) \in Notify!Times
    BY <1>2, <2>1
  <2>3. check \in [Windows -> CheckRecords]
    BY <1>1, NotifyTypes
  <2>4. check' = [check EXCEPT ![w] = [Notify!Idle EXCEPT !.step = "policies", !.now = clock',
                                         !.since = IF file = Notify!Never THEN clock' - Hour ELSE file]]
    BY DEF Notify!Begin
  <2> QED
    BY <1>2, <2>2, <2>3, <2>4, IdleTypes DEF CheckRecords
<1>4. /\ excused \subseteq excused' /\ excused' \subseteq Runs
      /\ twice \subseteq twice' /\ twice' \subseteq Runs /\ lost' \in 0..LogFaults
      /\ (\E v \in Windows : Notify!Checking(v)) => \A r \in Runs : Notify!Ended(r) => r \in twice'
  <2>1. excused \subseteq excused' /\ excused' \subseteq Runs
    BY <1>1 DEF Notify!TypeOK
  <2>2. CASE Notify!Fault /\ twice' = twice \cup {r \in Runs : Notify!Ended(r)}
    BY <1>1, <2>1, <2>2, NotifyFault DEF Notify!TypeOK
  <2>3. CASE UNCHANGED <<lost, twice>> /\ ~\E v \in Windows : Notify!Checking(v)
    BY <1>1, <2>1, <2>3 DEF Notify!TypeOK
  <2> QED
    BY <2>2, <2>3 DEF Notify!Begin
<1>5. Notify!TypeOK'
  BY <1>1, <1>2, <1>3, <1>4 DEF Notify!TypeOK, CheckRecords, Readings
<1>6. Notify!CheckInOrder'
  <2>1. /\ clock' - Hour < clock' /\ file <= clock /\ file < clock' /\ clock' \in 1..clock'
        /\ \A v \in Windows : check[v].now \in 1..clock => check[v].now \in 1..clock'
    BY <1>1, <1>2, NotificationsAssumption DEF Notify!CheckInOrder
  <2>2. \A v \in Windows : Notify!Checking(v)' <=> v = w \/ Notify!Checking(v)
    BY <1>3 DEF Notify!Checking
  <2>3. (\E v \in Windows : Notify!Checking(v)) => Notify!Blurred'
    BY <1>1, <1>4 DEF Notify!Blurred, Notify!Ended
  <2>4. /\ check'[w].now \in 1..clock' /\ check'[w].since < check'[w].now
        /\ file < check'[w].now /\ (file # Notify!Never => check'[w].since = file)
    BY <1>3, <2>1
  <2>5. ASSUME NEW v \in Windows
        PROVE  /\ Notify!Checking(v)' =>
                    /\ check'[v].now \in 1..clock' /\ check'[v].since < check'[v].now
                    /\ \/ Notify!Blurred'
                       \/ /\ file < check'[v].now /\ (file # Notify!Never => check'[v].since = file)
                          /\ \A o \in Windows \ {v} : ~Notify!Checking(o)'
               /\ check'[v].step = "policies" => check'[v].left = {}
               /\ check'[v].step \in {"idle", "policies"} => check'[v].found = {}
    <3>1. CASE v = w
      BY <1>3, <2>2, <2>3, <2>4, <3>1
    <3>2. CASE v # w
      BY <1>1, <1>3, <2>1, <2>2, <2>3, <3>2 DEF Notify!CheckInOrder
    <3> QED
      BY <3>1, <3>2
  <2>6. file' <= clock' /\ (file' = Notify!Never \/ file' > 0)
    BY <1>1, <1>2, <2>1 DEF Notify!CheckInOrder
  <2> QED
    BY <1>1, <2>5, <2>6 DEF Notify!CheckInOrder, Notify!Never
<1>7. ASSUME NEW r \in Runs
      PROVE  Notify!ReadingsApart(r)' /\ Notify!NotMissed(r)' /\ Notify!NotRepeated(r)'
  <2>1. /\ Notify!ReadingsApart(r) /\ Notify!NotMissed(r) /\ Notify!NotRepeated(r)
        /\ run[r].finished \in Nat /\ told[r] \in 0..2
    BY <1>1, NotifyTypes DEF Notify!ToldInv
  <2>2. /\ run[r].finished < clock'
        /\ \A v \in Windows : Notify!Checking(v)' => v = w \/ Notify!Checking(v)
    BY <1>1, <1>2, <1>3, <2>1 DEF Notify!ReadingsApart, Notify!Checking
  <2>3. Notify!ReadingsApart(r)'
    <3>1. run[r].finished <= clock' /\ run[r].finished # clock'
      BY <1>2, <2>1, <2>2 DEF Readings
    <3> QED
      BY <1>1, <1>3, <2>1, <2>2, <3>1 DEF Notify!ReadingsApart, Notify!Ended
  <2>4. run[r].state = "logged" /\ r \notin excused' => told[r] > 0 \/ run[r].finished > check'[w].since
    <3> SUFFICES ASSUME run[r].state = "logged", r \notin excused', told[r] = 0
                 PROVE  run[r].finished > check'[w].since
      BY <2>1
    <3>1. r \notin excused /\ ~(run[r].finished < file) /\ run[r].finished # file /\ run[r].finished > 0
      BY <1>4, <2>1 DEF Notify!NotMissed, Notify!ReadingsApart, Notify!Ended
    <3>2. CASE file = Notify!Never
      <4>1. check'[w].since \in Int /\ run[r].finished \notin 1..check'[w].since
        BY <1>1, <1>2, <1>3, <3>2, NotificationsAssumption DEF Readings
      <4> QED
        BY <2>1, <3>1, <4>1
    <3>3. CASE file # Notify!Never
      BY <1>2, <1>3, <2>1, <3>1, <3>3
    <3> QED
      BY <3>2, <3>3
  <2>5. Notify!NotMissed(r)'
    BY <1>1, <1>3, <1>4, <2>1, <2>2, <2>4 DEF Notify!NotMissed
  <2>6. Notify!NotRepeated(r)'
    <3>1. ~(run[r].finished > clock')
      BY <1>2, <2>1, <2>2 DEF Readings
    <3> QED
      BY <1>1, <1>3, <1>4, <2>1, <2>2, <3>1 DEF Notify!NotRepeated, Notify!Ended
  <2> QED
    BY <2>3, <2>5, <2>6
<1> QED
  BY <1>5, <1>6, <1>7 DEF Notify!ToldInv

\* What has been read is told, or excused.
LEMMA ReadKeeps ==
    ASSUME Notify!ToldInv, NEW w \in Windows, UNCHANGED <<clock, run, file, told, twice>>,
           Notify!Fault \/ UNCHANGED lost,
           Notify!Checking(w), check' \in [Windows -> CheckRecords], check'[w].step = "logs",
           check'[w].since = check[w].since, check'[w].now = check[w].now,
           \A v \in Windows \ {w} : check'[v] = check[v],
           excused \subseteq excused', excused' \subseteq Runs,
           \A r \in check'[w].found : run[r].state = "logged" /\ run[r].finished > check[w].since,
           \A r \in Runs : run[r].state = "logged" /\ r \notin excused' /\ run[r].finished > check[w].since
                           /\ run[r].finished < check[w].now
                           /\ (check[w].step = "policies" \/ run[r].policy \in check[w].left
                               \/ r \in check[w].found)
                           => run[r].policy \in check'[w].left \/ r \in check'[w].found
    PROVE  Notify!ToldInv'
<1>1. /\ Notify!TypeOK /\ Notify!CheckInOrder /\ lost' \in 0..LogFaults
  BY NotifyFault DEF Notify!ToldInv
<1>2. \A v \in Windows : /\ Notify!Checking(v)' <=> Notify!Checking(v)
                         /\ check'[v].since = check[v].since /\ check'[v].now = check[v].now
  BY DEF Notify!Checking
<1>3. Notify!TypeOK'
  BY <1>1 DEF Notify!TypeOK, CheckRecords, Readings
<1>4. Notify!CheckInOrder'
  <2>1. Notify!Blurred' <=> Notify!Blurred
    BY DEF Notify!Blurred, Notify!Ended
  <2> QED
    BY <1>1, <1>2, <2>1 DEF Notify!CheckInOrder, Notify!Never
<1>5. ASSUME NEW r \in Runs
      PROVE  Notify!ReadingsApart(r)' /\ Notify!NotMissed(r)' /\ Notify!NotRepeated(r)'
  <2>1. Notify!ReadingsApart(r) /\ Notify!NotMissed(r) /\ Notify!NotRepeated(r)
    BY DEF Notify!ToldInv
  <2>2. Notify!ReadingsApart(r)'
    BY <1>2, <2>1 DEF Notify!ReadingsApart, Notify!Ended
  <2>3. Notify!NotMissed(r)'
    <3> SUFFICES ASSUME run[r].state = "logged", r \notin excused', NEW v \in Windows,
                        Notify!Checking(v), run[r].finished < check[v].now, ~(told[r] > 0)
                 PROVE  /\ run[r].finished > check[v].since
                        /\ \/ check'[v].step = "policies"
                           \/ run[r].policy \in check'[v].left
                           \/ r \in check'[v].found
      BY <1>2, <2>1 DEF Notify!NotMissed
    <3>1. /\ run[r].finished > check[v].since
          /\ check[v].step = "policies" \/ run[r].policy \in check[v].left \/ r \in check[v].found
      BY <2>1 DEF Notify!NotMissed
    <3> QED
      BY <3>1
  <2>4. Notify!NotRepeated(r)'
    BY <1>2, <2>1 DEF Notify!NotRepeated, Notify!Ended
  <2> QED
    BY <2>2, <2>3, <2>4
<1> QED
  BY <1>3, <1>4, <1>5 DEF Notify!ToldInv

\* Without the list of policies this check tells of nothing.
LEMMA PoliciesKeep ==
    ASSUME Notify!ToldInv, NEW w \in Windows, Notify!ReadPolicies(w) PROVE Notify!ToldInv'
<1>1. /\ Notify!TypeOK /\ Notify!CheckInOrder /\ check[w].step = "policies" /\ check[w] \in CheckRecords
      /\ check[w].left = {} /\ check[w].found = {} /\ check \in [Windows -> CheckRecords]
      /\ UNCHANGED <<clock, run, file, told, twice>> /\ Notify!Checking(w)
  BY NotifyTypes DEF Notify!ToldInv, Notify!ReadPolicies, Notify!CheckInOrder, Notify!Checking
<1>2. \A r \in Runs : run[r].state = "logged" => run[r].policy \in Policies
  BY DEF Notify!ToldInv, Notify!ReadingsApart
<1>3. CASE /\ check' = [check EXCEPT ![w].step = "logs", ![w].left = Policies]
           /\ UNCHANGED <<lost, excused>>
  <2>1. /\ check' \in [Windows -> CheckRecords] /\ \A v \in Windows \ {w} : check'[v] = check[v]
        /\ check'[w].step = "logs" /\ check'[w].left = Policies /\ check'[w].found = {}
        /\ check'[w].since = check[w].since /\ check'[w].now = check[w].now
    BY <1>1, <1>3 DEF CheckRecords
  <2>2. excused \subseteq excused' /\ excused' \subseteq Runs
    BY <1>1, <1>3 DEF Notify!TypeOK
  <2> QED
    BY <1>1, <1>2, <1>3, <2>1, <2>2, ReadKeeps
<1>4. CASE /\ Notify!Fault /\ check' = [check EXCEPT ![w].step = "logs"]
           /\ excused' = excused \cup Notify!Due(UNION {Notify!Logged(p) : p \in Policies}, w)
  <2>1. /\ check' \in [Windows -> CheckRecords] /\ \A v \in Windows \ {w} : check'[v] = check[v]
        /\ check'[w].step = "logs" /\ check'[w].left = {} /\ check'[w].found = {}
        /\ check'[w].since = check[w].since /\ check'[w].now = check[w].now
    BY <1>1, <1>4 DEF CheckRecords
  <2>2. excused \subseteq excused' /\ excused' \subseteq Runs
    BY <1>1, <1>4 DEF Notify!TypeOK, Notify!Due, Notify!Since, Notify!Logged
  <2>3. ASSUME NEW r \in Runs, run[r].state = "logged", run[r].finished > check[w].since,
               run[r].finished < check[w].now
        PROVE  r \in excused'
    <3>1. r \in Notify!Logged(run[r].policy) /\ run[r].policy \in Policies
      BY <1>2, <2>3 DEF Notify!Logged
    <3> QED
      BY <1>4, <2>3, <3>1 DEF Notify!Due, Notify!Since
  <2> QED
    BY <1>1, <1>4, <2>1, <2>2, <2>3, ReadKeeps
<1> QED
  BY <1>3, <1>4 DEF Notify!ReadPolicies

\* Nor does it of a policy whose logs it cannot read, or past the limit.
LEMMA LogsKeep ==
    ASSUME Notify!ToldInv, NEW w \in Windows, NEW p \in Policies, Notify!ReadLogs(w, p)
    PROVE  Notify!ToldInv'
<1>1. /\ Notify!TypeOK /\ check[w].step = "logs" /\ check[w] \in CheckRecords
      /\ check \in [Windows -> CheckRecords]
      /\ UNCHANGED <<clock, run, file, told, twice>> /\ Notify!Checking(w)
  BY NotifyTypes DEF Notify!ToldInv, Notify!ReadLogs, Notify!Checking
<1>2. \A r \in check[w].found : run[r].state = "logged" /\ run[r].finished > check[w].since
  BY <1>1 DEF Notify!ToldInv, Notify!NotRepeated, CheckRecords
<1>3. CASE /\ check' = [check EXCEPT ![w].left = @ \ {p},
                                     ![w].found = @ \cup Notify!Since(Notify!Newest(p), w)]
           /\ excused' = excused \cup Notify!Due(Notify!Logged(p) \ Notify!Newest(p), w) /\ UNCHANGED lost
  <2>1. /\ Notify!Newest(p) \subseteq Notify!Logged(p)
        /\ Notify!Since(Notify!Newest(p), w) \subseteq Runs
        /\ \A r \in Notify!Since(Notify!Newest(p), w) : run[r].state = "logged"
                                                        /\ run[r].finished > check[w].since
    BY DEF Notify!Newest, Notify!Logged, Notify!Since
  <2>2. /\ check' \in [Windows -> CheckRecords] /\ \A v \in Windows \ {w} : check'[v] = check[v]
        /\ check'[w].step = "logs" /\ check'[w].left = check[w].left \ {p}
        /\ check'[w].found = check[w].found \cup Notify!Since(Notify!Newest(p), w)
        /\ check'[w].since = check[w].since /\ check'[w].now = check[w].now
    BY <1>1, <1>3, <2>1 DEF CheckRecords
  <2>3. excused \subseteq excused' /\ excused' \subseteq Runs
    BY <1>1, <1>3 DEF Notify!TypeOK, Notify!Due, Notify!Since, Notify!Logged
  <2>4. ASSUME NEW r \in Runs, run[r].state = "logged", r \notin excused', run[r].finished > check[w].since,
               run[r].finished < check[w].now, run[r].policy \in check[w].left \/ r \in check[w].found
        PROVE  run[r].policy \in check'[w].left \/ r \in check'[w].found
    <3>1. SUFFICES ASSUME run[r].policy = p PROVE r \in Notify!Since(Notify!Newest(p), w)
      BY <2>2, <2>4
    <3>2. r \in Notify!Logged(p)
      BY <2>4, <3>1 DEF Notify!Logged
    <3> QED
      BY <1>3, <2>4, <3>2 DEF Notify!Since, Notify!Due, Notify!Newest
  <2> QED
    BY <1>1, <1>2, <1>3, <2>1, <2>2, <2>3, <2>4, ReadKeeps
<1>4. CASE /\ Notify!Fault /\ check' = [check EXCEPT ![w].left = @ \ {p}]
           /\ excused' = excused \cup Notify!Due(Notify!Logged(p), w)
  <2>1. /\ check' \in [Windows -> CheckRecords] /\ \A v \in Windows \ {w} : check'[v] = check[v]
        /\ check'[w].step = "logs" /\ check'[w].left = check[w].left \ {p}
        /\ check'[w].found = check[w].found
        /\ check'[w].since = check[w].since /\ check'[w].now = check[w].now
    BY <1>1, <1>4 DEF CheckRecords
  <2>2. excused \subseteq excused' /\ excused' \subseteq Runs
    BY <1>1, <1>4 DEF Notify!TypeOK, Notify!Due, Notify!Since, Notify!Logged
  <2>3. ASSUME NEW r \in Runs, run[r].state = "logged", r \notin excused', run[r].finished > check[w].since,
               run[r].finished < check[w].now, run[r].policy \in check[w].left \/ r \in check[w].found
        PROVE  run[r].policy \in check'[w].left \/ r \in check'[w].found
    BY <1>4, <2>1, <2>3 DEF Notify!Due, Notify!Since, Notify!Logged
  <2> QED
    BY <1>1, <1>2, <1>4, <2>1, <2>2, <2>3, ReadKeeps
<1> QED
  BY <1>3, <1>4 DEF Notify!ReadLogs

\* A check that is over leaves the others as they are; when its time is stored, what it
\* has found lies before it.
LEMMA TellKeeps ==
    ASSUME Notify!ToldInv, NEW w \in Windows, Notify!Tell(w) PROVE Notify!ToldInv'
<1>1. /\ Notify!TypeOK /\ Notify!CheckInOrder /\ check[w].step = "logs" /\ check[w].left = {}
      /\ check' = [check EXCEPT ![w] = Notify!Idle] /\ UNCHANGED <<clock, run>> /\ Notify!Checking(w)
  BY DEF Notify!ToldInv, Notify!Tell, Notify!Checking
<1>2. /\ clock \in Nat /\ clock \in Readings /\ file \in Int /\ file \in Notify!Times
      /\ check \in [Windows -> CheckRecords]
      /\ \A v \in Windows : check[v].now \in Nat /\ check[v].since \in Int
      /\ check[w].found \subseteq Runs /\ check[w].now \in Readings
  BY <1>1, NotifyTypes DEF CheckRecords
<1>3. /\ check' \in [Windows -> CheckRecords] /\ \A v \in Windows \ {w} : check'[v] = check[v]
      /\ check'[w].step = "idle" /\ check'[w].found = {} /\ ~Notify!Checking(w)'
  BY <1>1, <1>2, IdleTypes DEF Notify!Checking
<1>4. /\ file' \in {file, check[w].now} /\ lost' \in 0..LogFaults
      /\ excused \subseteq excused' /\ excused' \subseteq Runs
      /\ twice \subseteq twice' /\ twice' \subseteq Runs /\ told' \in [Runs -> 0..2]
      /\ \A r \in Runs : told'[r] \in {told[r], told[r] + 1}
      /\ \A r \in check[w].found : told'[r] > 0 \/ r \in excused'
      /\ \A r \in Runs \ check[w].found : told'[r] = told[r]
      /\ file' = file => \A r \in check[w].found : told'[r] = told[r] \/ r \in twice'
  <2>1. told \in [Runs -> 0..2] /\ excused \subseteq Runs /\ twice \subseteq Runs
    BY <1>1 DEF Notify!TypeOK
  <2>2. ASSUME told' = [r \in Runs |-> IF r \in check[w].found /\ told[r] < 2 THEN told[r] + 1 ELSE told[r]]
        PROVE  /\ told' \in [Runs -> 0..2] /\ \A r \in Runs : told'[r] \in {told[r], told[r] + 1}
               /\ \A r \in check[w].found : told'[r] > 0
               /\ \A r \in Runs \ check[w].found : told'[r] = told[r]
    BY <1>2, <2>1, <2>2
  <2>3. CASE /\ told' = [r \in Runs |-> IF r \in check[w].found /\ told[r] < 2 THEN told[r] + 1 ELSE told[r]]
             /\ UNCHANGED excused /\ file' = check[w].now /\ UNCHANGED <<lost, twice>>
    <3>1. lost' \in 0..LogFaults
      BY <1>1, <2>3, NotifyFault
    <3>2. file' = file => \A r \in check[w].found : told'[r] = told[r] \/ r \in twice'
      <4> SUFFICES ASSUME file' = file, NEW r \in check[w].found PROVE r \in twice
        BY <2>3
      <4>1. Notify!Blurred
        BY <1>1, <1>2, <2>3 DEF Notify!CheckInOrder
      <4> QED
        BY <1>2, <4>1 DEF Notify!ToldInv, Notify!NotRepeated, Notify!Blurred, Notify!Ended
    <3> QED
      BY <2>1, <2>2, <2>3, <3>1, <3>2
  <2>4. CASE /\ told' = [r \in Runs |-> IF r \in check[w].found /\ told[r] < 2 THEN told[r] + 1 ELSE told[r]]
             /\ UNCHANGED excused /\ Notify!Fault /\ UNCHANGED file
             /\ twice' = twice \cup check[w].found
    BY <1>1, <1>2, <2>1, <2>2, <2>4, NotifyFault
  <2>5. CASE /\ Notify!Fault /\ file' = check[w].now /\ excused' = excused \cup check[w].found
             /\ UNCHANGED <<told, twice>>
    BY <1>1, <1>2, <2>1, <2>5, NotifyFault
  <2> QED
    BY <2>3, <2>4, <2>5 DEF Notify!Tell, Notify!Stamp
<1>5. Notify!TypeOK'
  <2>1. file' \in Notify!Times
    BY <1>2, <1>4, NotificationsAssumption DEF Notify!Times, Readings
  <2> QED
    BY <1>1, <1>3, <1>4, <2>1 DEF Notify!TypeOK, CheckRecords, Readings
<1>6. \A v \in Windows : Notify!Checking(v)' => v # w /\ Notify!Checking(v) /\ Notify!Blurred
  BY <1>1, <1>3 DEF Notify!Checking, Notify!CheckInOrder
<1>7. Notify!CheckInOrder'
  <2>1. file' <= clock /\ (file' = Notify!Never \/ file' > 0)
    BY <1>1, <1>2, <1>4 DEF Notify!CheckInOrder
  <2>2. Notify!Blurred => Notify!Blurred'
    BY <1>1, <1>4 DEF Notify!Blurred, Notify!Ended
  <2> QED
    BY <1>1, <1>3, <1>6, <2>1, <2>2 DEF Notify!CheckInOrder, Notify!Never
<1>8. ASSUME NEW r \in Runs
      PROVE  Notify!ReadingsApart(r)' /\ Notify!NotMissed(r)' /\ Notify!NotRepeated(r)'
  <2>1. /\ Notify!ReadingsApart(r) /\ Notify!NotMissed(r) /\ Notify!NotRepeated(r)
        /\ run[r].finished \in Nat /\ told[r] \in 0..2 /\ told'[r] \in {told[r], told[r] + 1}
    BY <1>1, <1>4, NotifyTypes DEF Notify!ToldInv
  <2>2. run[r].finished # check[w].now /\ (Notify!Ended(r)' <=> Notify!Ended(r))
    BY <1>1, <2>1 DEF Notify!ReadingsApart, Notify!Ended
  <2>3. Notify!ReadingsApart(r)'
    BY <1>1, <1>3, <1>4, <1>6, <2>1, <2>2 DEF Notify!ReadingsApart
  <2>4. run[r].state = "logged" /\ r \notin excused' /\ run[r].finished < file' => told'[r] > 0
    <3> SUFFICES ASSUME run[r].state = "logged", r \notin excused', run[r].finished < file', told[r] = 0
                 PROVE  told'[r] > 0
      BY <2>1
    <3>1. CASE file' = file
      BY <1>4, <2>1, <3>1 DEF Notify!NotMissed
    <3>2. CASE file' = check[w].now
      <4>1. r \in check[w].found
        BY <1>1, <1>4, <2>1, <3>2 DEF Notify!NotMissed
      <4> QED
        BY <1>4, <4>1
    <3> QED
      BY <1>4, <3>1, <3>2
  <2>5. Notify!NotMissed(r)'
    <3> SUFFICES ASSUME run[r].state = "logged", r \notin excused', NEW v \in Windows,
                        Notify!Checking(v)', run[r].finished < check'[v].now, ~(told'[r] > 0)
                 PROVE  /\ run[r].finished > check'[v].since
                        /\ \/ check'[v].step = "policies"
                           \/ run[r].policy \in check'[v].left
                           \/ r \in check'[v].found
      BY <1>1, <2>4 DEF Notify!NotMissed
    <3> QED
      BY <1>3, <1>4, <1>6, <2>1 DEF Notify!NotMissed
  <2>6. r \in check[w].found =>
          /\ Notify!Ended(r) /\ run[r].finished > check[w].since
          /\ r \notin twice => run[r].finished < check[w].now
    BY <1>1, <1>2, <2>1, <2>2 DEF Notify!NotRepeated, Notify!Ended
  <2>7. r \in check[w].found /\ r \notin twice => told[r] = 0
    <3> SUFFICES ASSUME r \in check[w].found, r \notin twice, told[r] > 0 PROVE FALSE
      BY <2>1
    <3>1. run[r].finished < file /\ ~Notify!Blurred
      BY <2>1, <2>6 DEF Notify!NotRepeated, Notify!Blurred
    <3>2. file # Notify!Never
      BY <2>1, <3>1 DEF Notify!Never
    <3> QED
      BY <1>1, <1>2, <2>1, <2>6, <3>1, <3>2 DEF Notify!CheckInOrder
  <2>8. told'[r] > 0 => Notify!Ended(r)
    BY <1>4, <2>1, <2>6 DEF Notify!NotRepeated
  <2>9. told'[r] > 1 => r \in twice'
    BY <1>4, <2>1, <2>7 DEF Notify!NotRepeated
  <2>10. told'[r] > 0 /\ r \notin twice' => run[r].finished < file'
    <3> SUFFICES ASSUME told'[r] > 0, r \notin twice' PROVE run[r].finished < file'
      OBVIOUS
    <3>1. r \notin twice /\ ~Notify!Blurred
      BY <1>4, <2>8 DEF Notify!Blurred
    <3>2. file < check[w].now
      BY <1>1, <3>1 DEF Notify!CheckInOrder
    <3>3. CASE r \in check[w].found
      <4>1. told[r] = 0 /\ file' = check[w].now
        BY <1>4, <2>7, <3>1, <3>3
      <4> QED
        BY <2>6, <3>1, <3>3, <4>1
    <3>4. CASE r \notin check[w].found
      <4>1. run[r].finished < file
        BY <1>4, <2>1, <3>1, <3>4 DEF Notify!NotRepeated
      <4> QED
        BY <1>2, <1>4, <2>1, <3>2, <4>1
    <3> QED
      BY <3>3, <3>4
  <2>11. Notify!NotRepeated(r)'
    BY <1>1, <1>3, <1>4, <1>6, <2>1, <2>2, <2>8, <2>9, <2>10 DEF Notify!NotRepeated
  <2> QED
    BY <2>3, <2>5, <2>11
<1> QED
  BY <1>5, <1>7, <1>8 DEF Notify!ToldInv

\* Checks that are cut short have told of nothing and stored nothing.
LEMMA QuitKeeps == Notify!ToldInv /\ Notify!Quit => Notify!ToldInv'
<1> SUFFICES ASSUME Notify!ToldInv, Notify!Quit PROVE Notify!ToldInv'
  OBVIOUS
<1>1. /\ Notify!TypeOK /\ Notify!CheckInOrder /\ check' = [w \in Windows |-> Notify!Idle]
      /\ UNCHANGED <<clock, run, file, told, excused, twice>> /\ lost' \in 0..LogFaults
  BY NotifyFault DEF Notify!ToldInv, Notify!Quit
<1>2. /\ check' \in [Windows -> CheckRecords]
      /\ \A w \in Windows : check'[w].step = "idle" /\ check'[w].found = {} /\ ~Notify!Checking(w)'
  BY <1>1, IdleTypes DEF Notify!Checking
<1>3. Notify!TypeOK'
  BY <1>1, <1>2 DEF Notify!TypeOK, CheckRecords, Readings
<1>4. Notify!CheckInOrder'
  BY <1>1, <1>2 DEF Notify!CheckInOrder, Notify!Never
<1>5. ASSUME NEW r \in Runs
      PROVE  Notify!ReadingsApart(r)' /\ Notify!NotMissed(r)' /\ Notify!NotRepeated(r)'
  <2>1. Notify!ReadingsApart(r) /\ Notify!NotMissed(r) /\ Notify!NotRepeated(r)
    BY DEF Notify!ToldInv
  <2> QED
    BY <1>1, <1>2, <2>1 DEF Notify!ReadingsApart, Notify!NotMissed, Notify!NotRepeated, Notify!Ended
<1> QED
  BY <1>3, <1>4, <1>5 DEF Notify!ToldInv

\* Every step keeps the invariant.
LEMMA NotifyNext == Notify!ToldInv /\ [Notify!Next]_(Notify!vars) => Notify!ToldInv'
<1> SUFFICES ASSUME Notify!ToldInv, [Notify!Next]_(Notify!vars) PROVE Notify!ToldInv'
  OBVIOUS
<1>1. CASE Notify!Next
  BY <1>1, StartKeeps, FinishKeeps, InsertKeeps, BeginKeeps, PoliciesKeep, LogsKeep, TellKeeps, QuitKeeps
  DEF Notify!Next
<1>2. CASE UNCHANGED Notify!vars
  BY <1>2 DEF Notify!vars, Notify!ToldInv, Notify!TypeOK, Notify!CheckInOrder, Notify!ReadingsApart,
     Notify!NotMissed, Notify!NotRepeated, Notify!Ended, Notify!Checking, Notify!Blurred
<1> QED
  BY <1>1, <1>2

\* However runs, the checks of any number of windows, failing requests and quits
\* interleave, the user is told once of each scheduled run, but for the runs that
\* excused and twice name.
THEOREM RunsAreTold == Notify!Spec => []ToldOnce
<1>1. Notify!ToldInv => ToldOnce
  BY DEF Notify!ToldInv, ToldOnce, Notify!ToldOnce, Notify!NotMissed, Notify!NotRepeated
<1> QED
  BY <1>1, NotifyInit, NotifyNext, PTL DEF Notify!Spec

-----------------------------------------------------------------------------
(* Inventory *)

Requested == {"idle", "discover", "list", "delete"}
Inventories == [fs : List!Known, snaps : SUBSET Paths]

\* What the list box shows and what is selected of it.
ViewInv ==
    /\ list \in List!Lists /\ inventory \in Inventories
    /\ marked \subseteq list.shown \ External /\ selected \subseteq Paths \ External
    /\ emptied \in BOOLEAN
    /\ List!SelectedIsVisible /\ List!RowsOfInventory

LEMMA ViewOfList == List!ListInv => ViewInv
  BY DEF List!ListInv, ViewInv, List!TypeOK, Inventories

\* A message takes the rows and their selection away.
LEMMA StatusDraws ==
    ASSUME ViewInv, NEW what \in {"loading", "status"}, List!ShowStatus(what), UNCHANGED selecting
    PROVE  ViewInv' /\ list'.what = what
<1>1. /\ list' = [what |-> what, fs |-> List!None, shown |-> {}] /\ marked' = {}
      /\ selected' = IF marked # {} THEN {} ELSE selected
      /\ UNCHANGED <<inventory, emptied>>
  BY DEF List!ShowStatus, List!Status
<1>2. list' \in List!Lists
  BY <1>1 DEF List!Lists, List!Known
<1>3. List!SelectedIsVisible'
  BY <1>1 DEF ViewInv, List!SelectedIsVisible
<1>4. List!RowsOfInventory'
  BY <1>1 DEF List!RowsOfInventory
<1> QED
  BY <1>1, <1>2, <1>3, <1>4 DEF ViewInv

\* What is drawn is of the inventory, and what is selected afterwards is marked.
LEMMA RenderDraws ==
    ASSUME NEW inv \in Inventories, NEW query \in SUBSET Paths, NEW sel \in SUBSET (Paths \ External),
           NEW mode \in BOOLEAN, NEW through \in SUBSET Paths,
           List!Render(inv, query, sel, mode, through),
           inventory' = inv, selecting' = mode
    PROVE  ViewInv' /\ list'.what # "loading" /\ list'.fs = inv.fs
<1>1. CASE List!Empties(inv)
  <2>1. /\ list' = [[what |-> "status", fs |-> List!None, shown |-> {}] EXCEPT !.fs = inv.fs]
        /\ marked' = {} /\ selected' = sel /\ emptied' = TRUE
    BY <1>1 DEF List!Render, List!Status
  <2>2. list'.what = "status" /\ list'.fs = inv.fs /\ list'.shown = {} /\ list' \in List!Lists
    BY <2>1 DEF List!Lists, Inventories
  <2> QED
    BY <2>1, <2>2 DEF ViewInv, List!SelectedIsVisible, List!RowsOfInventory
<1>2. CASE ~List!Empties(inv)
  <2> DEFINE shown == inv.snaps \cap through \cap query
             kept == IF mode THEN sel \cap (shown \ External) ELSE sel
  <2>1. /\ list' = [what |-> "rows", fs |-> inv.fs, shown |-> shown] /\ selected' = kept
        /\ marked' = (IF mode THEN kept \cap shown ELSE {}) /\ emptied' = FALSE
    BY <1>2 DEF List!Render, List!Pruned
  <2>2. list' \in List!Lists /\ list'.what = "rows" /\ list'.fs = inv.fs /\ list'.shown = shown
    BY <2>1 DEF List!Lists, Inventories
  <2>3. marked' \subseteq shown \ External /\ kept \subseteq Paths \ External /\ (mode => marked' = kept)
    BY <2>1
  <2> HIDE DEF shown, kept
  <2> QED
    BY <2>1, <2>2, <2>3 DEF ViewInv, List!SelectedIsVisible, List!RowsOfInventory
<1> QED
  BY <1>1, <1>2

\* A control draws the inventory that is there, or leaves the list.
LEMMA RedrawDraws ==
    ASSUME ViewInv, NEW query \in SUBSET Paths, NEW sel \in SUBSET (Paths \ External),
           NEW mode \in BOOLEAN, NEW through \in SUBSET Paths,
           List!Redraw(query, sel, mode, through), UNCHANGED inventory, selecting' = mode,
           inventory.fs = List!None => sel = selected /\ mode = selecting
    PROVE  ViewInv' /\ (UNCHANGED list \/ (list'.what # "loading" /\ list'.fs = inventory.fs))
<1>1. CASE inventory.fs = List!None
  <2>1. UNCHANGED <<list, marked, emptied, selected, selecting, inventory>>
    BY <1>1 DEF List!Redraw
  <2> QED
    BY <2>1 DEF ViewInv, List!SelectedIsVisible, List!RowsOfInventory
<1>2. CASE inventory.fs # List!None
  <2>1. inventory \in Inventories /\ List!Render(inventory, query, sel, mode, through)
    BY <1>2 DEF List!Redraw, ViewInv
  <2> QED
    BY <2>1, RenderDraws
<1> QED
  BY <1>1, <1>2

\* The requests, the dialog and the selector.
RequestInv ==
    /\ request \in [Futures -> Requested] /\ captured \in [Futures -> List!Jobs]
    /\ dialog \in List!Dialogs /\ unpatient \in BOOLEAN
    /\ List!LoadingEnds /\ List!OneRequest /\ List!OneFilesystem

OtherTypes ==
    /\ selector \in [entries : SUBSET Filesystems, active : Filesystems \cup {List!None}, sensitive : BOOLEAN]
    /\ selecting \in BOOLEAN /\ search \in Searches /\ filter \in Filters
    /\ trouble \in 0..ListTrouble

LEMMA ListParts == List!ListInv <=> ViewInv /\ RequestInv /\ OtherTypes
  BY DEF List!ListInv, ViewInv, RequestInv, OtherTypes, List!TypeOK, Inventories, Requested

LEMMA ListPartsNext == ViewInv' /\ RequestInv' /\ OtherTypes' => List!ListInv'
  BY DEF List!ListInv, ViewInv, RequestInv, OtherTypes, List!TypeOK, Inventories, Requested

LEMMA ListInit == List!Init => List!ListInv
<1> SUFFICES ASSUME List!Init PROVE ViewInv /\ RequestInv /\ OtherTypes
  BY ListParts
<1>1. /\ selector = [entries |-> {}, active |-> List!None, sensitive |-> FALSE]
      /\ inventory = [fs |-> List!None, snaps |-> {}]
      /\ list = [what |-> "loading", fs |-> List!None, shown |-> {}]
      /\ marked = {} /\ selected = {} /\ selecting = FALSE
      /\ search = Paths /\ filter \in Filters
      /\ dialog = [kind |-> List!None, fs |-> List!None, paths |-> {}, fresh |-> FALSE]
      /\ request = [t \in Futures |-> IF t = FirstFuture THEN "discover" ELSE "idle"]
      /\ captured = [t \in Futures |-> [fs |-> List!None, query |-> Paths]]
      /\ trouble = 0 /\ unpatient = FALSE /\ emptied = FALSE
  BY DEF List!Init, List!Status, List!NoDialog, List!NoJob, List!All
<1>2. ViewInv
  <2>1. list \in List!Lists /\ inventory \in Inventories
    BY <1>1 DEF List!Lists, List!Known, Inventories
  <2> QED
    BY <1>1, <2>1 DEF ViewInv, List!SelectedIsVisible, List!RowsOfInventory
<1>3. RequestInv
  <2>1. dialog \in List!Dialogs /\ dialog = List!NoDialog /\ dialog.kind = "none"
    BY <1>1 DEF List!Dialogs, List!NoDialog, List!Known, List!None
  <2>2. captured \in [Futures -> List!Jobs] /\ request \in [Futures -> Requested]
    BY <1>1 DEF List!Jobs, List!Known, List!All, Requested
  <2>3. request[FirstFuture] = "discover" /\ \A t \in Futures : request[t] # "idle" => t = FirstFuture
    BY <1>1, InventoryAssumption
  <2>4. ~List!Quiet /\ \A t \in Futures : request[t] # "list"
    BY <1>1, <2>3, InventoryAssumption DEF List!Quiet
  <2> QED
    BY <1>1, <2>1, <2>2, <2>3, <2>4 DEF RequestInv, List!LoadingEnds, List!OneRequest, List!OneFilesystem
<1>4. OtherTypes
  <2>1. selector \in [entries : SUBSET Filesystems, active : Filesystems \cup {List!None}, sensitive : BOOLEAN]
    BY <1>1
  <2>2. 0 \in 0..ListTrouble /\ Paths \in Searches
    BY InventoryAssumption
  <2> QED
    BY <1>1, <2>1, <2>2 DEF OtherTypes
<1> QED
  BY <1>2, <1>3, <1>4

LEMMA Closed ==
    /\ List!NoDialog \in List!Dialogs /\ List!NoDialog.kind = "none"
    /\ List!Stale(List!NoDialog) = List!NoDialog
    /\ \A d \in List!Dialogs : List!Stale(d) \in List!Dialogs
<1>1. List!NoDialog \in List!Dialogs /\ List!NoDialog.kind = "none"
  BY DEF List!NoDialog, List!Dialogs, List!Known, List!None
<1>2. \A d \in List!Dialogs : List!Stale(d) \in List!Dialogs
  BY DEF List!Dialogs, List!Stale
<1>3. List!Stale(List!NoDialog) = List!NoDialog
  <2> DEFINE d == List!Stale(List!NoDialog)
  <2>1. d \in List!Dialogs
    BY <1>1, <1>2
  <2>2. /\ d.kind = List!NoDialog.kind /\ d.fs = List!NoDialog.fs /\ d.paths = List!NoDialog.paths
        /\ d.fresh = List!NoDialog.fresh
    BY DEF List!NoDialog, List!Stale
  <2> HIDE DEF d
  <2>3. d = List!NoDialog
    BY <1>1, <2>1, <2>2 DEF List!Dialogs
  <2> QED
    BY <2>3 DEF d
<1> QED
  BY <1>1, <1>2, <1>3

\* A user who waited before asking has no other request.
LEMMA StartKeepsRequests ==
    ASSUME RequestInv, NEW t \in Futures, NEW s \in Requested \ {"idle"}, NEW j \in List!Jobs,
           List!Start(t, s, j), List!Asks, dialog' = List!NoDialog,
           s = "list" /\ ~unpatient /\ List!Quiet /\ trouble' = 0 => j.fs = selector'.active
    PROVE  RequestInv'
<1>1. /\ request' = [request EXCEPT ![t] = s] /\ captured' = [captured EXCEPT ![t] = j]
      /\ unpatient' = (unpatient \/ ~List!Quiet)
  BY DEF List!Start, List!Asks
<1>2. request \in [Futures -> Requested] /\ captured \in [Futures -> List!Jobs] /\ unpatient \in BOOLEAN
  BY DEF RequestInv
<1>3. /\ request'[t] = s /\ captured'[t] = j /\ \A u \in Futures \ {t} : request'[u] = request[u]
      /\ request' \in [Futures -> Requested] /\ captured' \in [Futures -> List!Jobs]
  BY <1>1, <1>2
<1>4. ~List!Quiet' /\ unpatient' \in BOOLEAN
  BY <1>1, <1>2, <1>3 DEF List!Quiet
<1>5. ~unpatient' => ~unpatient /\ List!Quiet /\ \A u \in Futures \ {t} : request'[u] = "idle"
  BY <1>1, <1>3 DEF List!Quiet
<1> QED
  BY <1>3, <1>4, <1>5, Closed DEF RequestInv, List!LoadingEnds, List!OneRequest, List!OneFilesystem

\* One whose request is answered has no other, and no dialog.
LEMMA AnswerKeepsRequests ==
    ASSUME RequestInv, NEW t \in Futures, request[t] # "idle", dialog' = List!Stale(dialog),
           UNCHANGED unpatient, NEW s \in Requested, request' = [request EXCEPT ![t] = s],
           captured' \in [Futures -> List!Jobs],
           s = "idle" =>
              /\ list'.what # "loading"
              /\ ~unpatient /\ trouble' = 0 => list'.fs = selector'.active /\ list'.fs = inventory'.fs,
           s = "list" /\ trouble' = 0 => captured'[t].fs = selector'.active
    PROVE  RequestInv'
<1>1. request \in [Futures -> Requested] /\ dialog \in List!Dialogs /\ List!OneRequest /\ unpatient \in BOOLEAN
  BY DEF RequestInv
<1>2. request'[t] = s /\ request' \in [Futures -> Requested]
  BY <1>1
<1>3. dialog' \in List!Dialogs
  BY <1>1, Closed
<1>4. ~unpatient => dialog' = List!NoDialog /\ \A u \in Futures \ {t} : request'[u] = "idle"
  <2>1. ~List!Quiet
    BY DEF List!Quiet
  <2>2. \A u \in Futures \ {t} : request'[u] = request[u]
    BY <1>1
  <2> QED
    BY <1>1, <2>1, <2>2, Closed DEF List!OneRequest
<1>5. List!Quiet' => s = "idle"
  BY <1>2 DEF List!Quiet
<1>6. List!LoadingEnds'
  BY <1>5 DEF List!LoadingEnds
<1>7. List!OneRequest'
  BY <1>4 DEF List!OneRequest
<1>8. List!OneFilesystem'
  <2>1. ~unpatient /\ List!NoDialog = dialog' => dialog'.kind # "reload"
    BY Closed
  <2>2. ASSUME NEW u \in Futures, ~unpatient, request'[u] = "list" PROVE u = t /\ s = "list"
    BY <1>2, <1>4, <2>2
  <2> QED
    BY <1>4, <1>5, <2>1, <2>2 DEF List!OneFilesystem
<1> QED
  BY <1>1, <1>2, <1>3, <1>6, <1>7, <1>8 DEF RequestInv

\* What the user does without a request.
LEMMA StayKeepsRequests ==
    ASSUME RequestInv, UNCHANGED <<request, captured, selector, trouble, inventory>>,
           list'.what = "loading" => list.what = "loading",
           list'.fs \in {list.fs, inventory.fs},
           dialog' \in List!Dialogs, unpatient' \in BOOLEAN,
           ~unpatient' => ~unpatient /\ (dialog' # List!NoDialog => List!Quiet),
           dialog'.kind = "reload" => dialog'.fs = list.fs
    PROVE  RequestInv'
<1>1. List!Quiet' <=> List!Quiet
  BY DEF List!Quiet
<1>2. List!LoadingEnds'
  BY <1>1 DEF RequestInv, List!LoadingEnds
<1>3. List!OneRequest'
  BY <1>1 DEF RequestInv, List!OneRequest
<1>4. List!OneFilesystem'
  <2>1. ~unpatient' /\ dialog'.kind = "reload" => List!Quiet
    BY Closed
  <2> QED
    BY <1>1, <2>1 DEF RequestInv, List!OneFilesystem
<1> QED
  BY <1>2, <1>3, <1>4 DEF RequestInv

-----------------------------------------------------------------------------

LEMMA RefreshKeeps ==
    ASSUME List!ListInv, NEW t \in Futures, List!Refresh(t)
    PROVE  List!ListInv'
<1>1. ViewInv /\ RequestInv /\ OtherTypes
  BY ListParts
<1>2. /\ dialog = List!NoDialog /\ List!Asks
      /\ List!Start(t, "discover", [List!NoJob EXCEPT !.query = search])
      /\ List!ShowStatus("loading") /\ selector' = [selector EXCEPT !.sensitive = FALSE]
      /\ UNCHANGED <<trouble, search, filter, dialog>>
  BY DEF List!Refresh, List!Discover, List!Free
<1>3. UNCHANGED selecting
  BY <1>2 DEF List!ShowStatus
<1>4. ViewInv'
  BY <1>1, <1>2, <1>3, StatusDraws
<1>5. RequestInv'
  <2>1. [List!NoJob EXCEPT !.query = search] \in List!Jobs
    BY <1>1 DEF List!NoJob, List!Jobs, List!Known, OtherTypes
  <2> QED
    BY <1>1, <1>2, <2>1, StartKeepsRequests DEF Requested
<1>6. OtherTypes'
  BY <1>1, <1>2, <1>3 DEF OtherTypes
<1> QED
  BY <1>4, <1>5, <1>6, ListPartsNext

LEMMA SelectKeeps ==
    ASSUME List!ListInv, NEW t \in Futures, NEW fs \in Filesystems, List!Select(t, fs)
    PROVE  List!ListInv'
<1>1. ViewInv /\ RequestInv /\ OtherTypes
  BY ListParts
<1>2. /\ dialog = List!NoDialog /\ List!Asks
      /\ List!Start(t, "list", [fs |-> fs, query |-> search])
      /\ List!ShowStatus("loading") /\ selector' = [selector EXCEPT !.active = fs]
      /\ UNCHANGED <<trouble, search, filter, dialog>>
  BY DEF List!Select, List!Load, List!Free
<1>3. UNCHANGED selecting
  BY <1>2 DEF List!ShowStatus
<1>4. ViewInv'
  BY <1>1, <1>2, <1>3, StatusDraws
<1>5. OtherTypes' /\ selector'.active = fs
  BY <1>1, <1>2, <1>3 DEF OtherTypes
<1>6. RequestInv'
  <2>1. [fs |-> fs, query |-> search] \in List!Jobs
    BY <1>1 DEF OtherTypes, List!Jobs, List!Known
  <2> QED
    BY <1>1, <1>2, <1>5, <2>1, StartKeepsRequests DEF Requested
<1> QED
  BY <1>4, <1>5, <1>6, ListPartsNext

\* The controls draw the inventory again and leave the requests.
LEMMA ControlKeeps ==
    ASSUME List!ListInv, NEW query \in Searches, NEW sel \in SUBSET (Paths \ External),
           NEW mode \in BOOLEAN, NEW through \in Filters,
           List!Redraw(query, sel, mode, through), selecting' = mode,
           inventory.fs = List!None => sel = selected /\ mode = selecting,
           search' = query, filter' = through, dialog = List!NoDialog,
           UNCHANGED <<trouble, selector, inventory, dialog, request, captured, unpatient>>
    PROVE  List!ListInv'
<1>1. ViewInv /\ RequestInv /\ OtherTypes
  BY ListParts
<1>2. ViewInv' /\ (UNCHANGED list \/ (list'.what # "loading" /\ list'.fs = inventory.fs))
  BY <1>1, RedrawDraws, InventoryAssumption
<1>3. RequestInv'
  <2>1. dialog' \in List!Dialogs /\ unpatient' \in BOOLEAN /\ dialog'.kind # "reload"
    BY <1>1, Closed DEF RequestInv
  <2> QED
    BY <1>1, <1>2, <2>1, StayKeepsRequests
<1>4. OtherTypes'
  BY <1>1 DEF OtherTypes
<1> QED
  BY <1>2, <1>3, <1>4, ListPartsNext

LEMMA SearchKeeps ==
    ASSUME List!ListInv, NEW text \in Searches, List!Search(text)
    PROVE  List!ListInv'
<1>1. /\ selected \in SUBSET (Paths \ External) /\ selecting \in BOOLEAN /\ filter \in Filters
  BY ListParts DEF ViewInv, OtherTypes
<1> QED
  BY <1>1, ControlKeeps DEF List!Search, List!Free

LEMMA FilterKeeps ==
    ASSUME List!ListInv, NEW through \in Filters, List!Filter(through)
    PROVE  List!ListInv'
<1>1. /\ selected \in SUBSET (Paths \ External) /\ selecting \in BOOLEAN /\ search \in Searches
  BY ListParts DEF ViewInv, OtherTypes
<1> QED
  BY <1>1, ControlKeeps DEF List!Filter, List!Free

LEMMA ToggleKeeps ==
    ASSUME List!ListInv, List!Toggle
    PROVE  List!ListInv'
<1>1. ViewInv /\ RequestInv /\ OtherTypes
  BY ListParts
<1>2. /\ dialog = List!NoDialog /\ selecting' = ~selecting
      /\ UNCHANGED <<trouble, selector, inventory, search, filter, dialog, request, captured, unpatient>>
  BY DEF List!Toggle, List!Free
<1>3. CASE inventory.fs = List!None
  <2>1. selected' = {} /\ marked' = {} /\ UNCHANGED <<list, emptied>>
    BY <1>3 DEF List!Toggle
  <2>2. ViewInv'
    BY <1>1, <1>2, <2>1 DEF ViewInv, List!SelectedIsVisible, List!RowsOfInventory
  <2>3. RequestInv'
    <3>1. dialog' \in List!Dialogs /\ unpatient' \in BOOLEAN /\ dialog'.kind # "reload"
      BY <1>1, <1>2, Closed DEF RequestInv
    <3> QED
      BY <1>1, <1>2, <2>1, <3>1, StayKeepsRequests
  <2>4. OtherTypes'
    BY <1>1, <1>2 DEF OtherTypes
  <2> QED
    BY <2>2, <2>3, <2>4, ListPartsNext
<1>4. CASE inventory.fs # List!None
  <2>1. List!Redraw(search, {}, ~selecting, filter)
    BY <1>4 DEF List!Toggle
  <2>2. search \in Searches /\ filter \in Filters /\ (~selecting) \in BOOLEAN
    BY <1>1 DEF OtherTypes
  <2> QED
    BY <1>2, <1>4, <2>1, <2>2, ControlKeeps
<1> QED
  BY <1>3, <1>4

LEMMA MarkKeeps ==
    ASSUME List!ListInv, NEW picked \in SUBSET (list.shown \ External), List!Mark(picked)
    PROVE  List!ListInv'
<1>1. ViewInv /\ RequestInv /\ OtherTypes
  BY ListParts
<1>2. /\ dialog = List!NoDialog /\ marked' = picked /\ selected' = picked
      /\ UNCHANGED <<trouble, selector, inventory, list, selecting, search, filter, dialog, request, captured,
                     unpatient, emptied>>
  BY DEF List!Mark, List!Free
<1>3. ViewInv'
  BY <1>1, <1>2 DEF ViewInv, List!Lists, List!SelectedIsVisible, List!RowsOfInventory
<1>4. RequestInv'
  <2>1. dialog' \in List!Dialogs /\ unpatient' \in BOOLEAN /\ dialog'.kind # "reload"
    BY <1>1, <1>2, Closed DEF RequestInv
  <2> QED
    BY <1>1, <1>2, <2>1, StayKeepsRequests
<1>5. OtherTypes'
  BY <1>1, <1>2 DEF OtherTypes
<1> QED
  BY <1>3, <1>4, <1>5, ListPartsNext

\* A dialog changes nothing until it is confirmed.
LEMMA DialogKeeps ==
    ASSUME List!ListInv, dialog' \in List!Dialogs, unpatient' \in BOOLEAN,
           ~unpatient' => ~unpatient /\ (dialog' # List!NoDialog => List!Quiet),
           dialog'.kind = "reload" => dialog'.fs = list.fs,
           UNCHANGED <<trouble, selector, inventory, list, marked, selected, selecting, search, filter,
                       request, captured, emptied>>
    PROVE  List!ListInv'
<1>1. ViewInv /\ RequestInv /\ OtherTypes
  BY ListParts
<1>2. ViewInv' /\ OtherTypes'
  BY <1>1 DEF ViewInv, OtherTypes, List!SelectedIsVisible, List!RowsOfInventory
<1>3. RequestInv'
  BY <1>1, StayKeepsRequests
<1> QED
  BY <1>2, <1>3, ListPartsNext

LEMMA AskKeeps ==
    ASSUME List!ListInv, NEW k \in {"bulk", "delete", "reload"}, NEW fs \in List!Known,
           NEW paths \in SUBSET Paths, List!Ask(k, fs, paths), k = "reload" => fs = list.fs
    PROVE  List!ListInv'
<1>1. /\ dialog' = [kind |-> k, fs |-> fs, paths |-> paths, fresh |-> k = "delete"]
      /\ unpatient' = (unpatient \/ ~List!Quiet)
      /\ UNCHANGED <<trouble, selector, inventory, list, marked, selected, selecting, search, filter,
                     request, captured, emptied>>
  BY DEF List!Ask, List!Asks, List!view, List!controls
<1>2. dialog' \in List!Dialogs /\ dialog'.kind = k /\ dialog'.fs = fs
  BY <1>1 DEF List!Dialogs
<1>3. unpatient' \in BOOLEAN /\ (~unpatient' => ~unpatient /\ List!Quiet)
  BY <1>1
<1> QED
  BY <1>1, <1>2, <1>3, DialogKeeps

LEMMA ClicksKeep ==
    ASSUME List!ListInv, List!BulkClick \/ List!ReloadClick \/ List!Cancel \/ \E p \in Paths : List!DeleteClick(p)
    PROVE  List!ListInv'
<1>1. /\ list.fs \in List!Known /\ inventory.fs \in List!Known /\ list.shown \subseteq Paths
      /\ selected \subseteq Paths
  BY ListParts DEF ViewInv, List!Lists, Inventories
<1>2. CASE List!BulkClick
  BY <1>1, <1>2, AskKeeps DEF List!BulkClick
<1>3. CASE List!ReloadClick
  BY <1>1, <1>3, AskKeeps DEF List!ReloadClick
<1>4. ASSUME NEW p \in Paths, List!DeleteClick(p) PROVE List!ListInv'
  BY <1>1, <1>4, AskKeeps DEF List!DeleteClick
<1>5. CASE List!Cancel
  <2>1. /\ dialog' = List!NoDialog /\ unpatient' = unpatient
        /\ UNCHANGED <<trouble, selector, inventory, list, marked, selected, selecting, search, filter,
                       request, captured, emptied>>
    BY <1>5 DEF List!Cancel, List!view, List!controls
  <2>2. unpatient \in BOOLEAN
    BY ListParts DEF RequestInv
  <2> QED
    BY <2>1, <2>2, Closed, DialogKeeps
<1> QED
  BY <1>2, <1>3, <1>4, <1>5

LEMMA BulkConfirmKeeps ==
    ASSUME List!ListInv, NEW t \in Futures, List!BulkConfirm(t)
    PROVE  List!ListInv'
<1>1. ViewInv /\ RequestInv /\ OtherTypes
  BY ListParts
<1>2. /\ dialog' = List!NoDialog /\ List!Asks /\ List!Start(t, "delete", List!NoJob)
      /\ UNCHANGED <<trouble, selector, inventory, list, marked, selected, selecting, search, filter, emptied>>
  BY DEF List!BulkConfirm, List!view, List!controls
<1>3. ViewInv' /\ OtherTypes'
  BY <1>1, <1>2 DEF ViewInv, OtherTypes, List!SelectedIsVisible, List!RowsOfInventory
<1>4. RequestInv'
  <2>1. List!NoJob \in List!Jobs
    BY DEF List!NoJob, List!Jobs, List!Known, List!All
  <2> QED
    BY <1>1, <1>2, <2>1, StartKeepsRequests DEF Requested
<1> QED
  BY <1>3, <1>4, ListPartsNext

\* The row that goes is no longer selected either.
LEMMA DeleteConfirmKeeps ==
    ASSUME List!ListInv, List!DeleteConfirm
    PROVE  List!ListInv'
<1>1. ViewInv /\ RequestInv /\ OtherTypes
  BY ListParts
<1>2. /\ dialog' = List!NoDialog
      /\ UNCHANGED <<trouble, selector, inventory, selecting, search, filter, request, captured, unpatient, emptied>>
  BY DEF List!DeleteConfirm, List!controls
<1>3. OtherTypes'
  BY <1>1, <1>2 DEF OtherTypes
<1>4. ViewInv' /\ list'.what = list.what /\ list'.fs = list.fs
  <2>1. CASE dialog.fresh
    <3>1. /\ list' = [list EXCEPT !.shown = @ \ dialog.paths]
          /\ marked' = marked \ dialog.paths
          /\ selected' = IF marked \cap dialog.paths = {} THEN selected ELSE marked'
      BY <2>1 DEF List!DeleteConfirm
    <3>2. /\ list' \in List!Lists /\ list'.what = list.what /\ list'.fs = list.fs
          /\ list'.shown = list.shown \ dialog.paths
      BY <1>1, <3>1 DEF ViewInv, List!Lists
    <3>3. marked' \subseteq list'.shown \ External /\ list.shown \subseteq Paths
      BY <1>1, <3>1, <3>2 DEF ViewInv, List!Lists
    <3>4. selected' \subseteq Paths \ External
      BY <1>1, <3>1, <3>3 DEF ViewInv
    <3>5. List!SelectedIsVisible'
      BY <1>1, <1>2, <3>1 DEF ViewInv, List!SelectedIsVisible
    <3>6. List!RowsOfInventory'
      BY <1>1, <1>2, <3>2 DEF ViewInv, List!RowsOfInventory
    <3> QED
      BY <1>1, <1>2, <3>2, <3>3, <3>4, <3>5, <3>6 DEF ViewInv
  <2>2. CASE ~dialog.fresh
    <3>1. UNCHANGED <<list, marked, selected>>
      BY <2>2 DEF List!DeleteConfirm, List!view
    <3> QED
      BY <1>1, <1>2, <3>1 DEF ViewInv, List!SelectedIsVisible, List!RowsOfInventory
  <2> QED
    BY <2>1, <2>2
<1>5. RequestInv'
  <2>1. dialog' \in List!Dialogs /\ unpatient' \in BOOLEAN /\ dialog'.kind # "reload"
    BY <1>1, <1>2, Closed DEF RequestInv
  <2> QED
    BY <1>1, <1>2, <1>4, <2>1, StayKeepsRequests
<1> QED
  BY <1>3, <1>4, <1>5, ListPartsNext

LEMMA ReloadConfirmKeeps ==
    ASSUME List!ListInv, NEW t \in Futures, List!ReloadConfirm(t)
    PROVE  List!ListInv'
<1>1. ViewInv /\ RequestInv /\ OtherTypes
  BY ListParts
<1>2. /\ dialog.kind = "reload" /\ dialog' = List!NoDialog /\ List!Asks
      /\ List!Start(t, "list", [fs |-> dialog.fs, query |-> Paths])
      /\ List!ShowStatus("loading")
      /\ UNCHANGED <<trouble, selector, search, filter>>
  BY DEF List!ReloadConfirm, List!Load, List!All
<1>3. UNCHANGED selecting
  BY <1>2 DEF List!ShowStatus
<1>4. ViewInv'
  BY <1>1, <1>2, <1>3, StatusDraws
<1>5. OtherTypes'
  BY <1>1, <1>2, <1>3 DEF OtherTypes
<1>6. RequestInv'
  <2>1. [fs |-> dialog.fs, query |-> Paths] \in List!Jobs
    BY <1>1 DEF RequestInv, List!Dialogs, List!Jobs, List!All
  <2>2. ~unpatient /\ trouble' = 0 => dialog.fs = selector'.active
    BY <1>1, <1>2 DEF RequestInv, List!OneFilesystem
  <2> QED
    BY <1>1, <1>2, <2>1, <2>2, StartKeepsRequests DEF Requested
<1> QED
  BY <1>4, <1>5, <1>6, ListPartsNext

\* One more failing request.
LEMMA ListTroubled ==
    ASSUME trouble \in 0..ListTrouble, List!Troubled
    PROVE  trouble' \in 0..ListTrouble /\ trouble' # 0
  BY InventoryAssumption DEF List!Troubled

LEMMA FinishGoes ==
    ASSUME RequestInv, NEW t \in Futures, List!Finish(t)
    PROVE  /\ request' = [request EXCEPT ![t] = "idle"] /\ captured' \in [Futures -> List!Jobs]
<1>1. captured' = [captured EXCEPT ![t] = List!NoJob] /\ captured \in [Futures -> List!Jobs]
  BY DEF List!Finish, RequestInv
<1>2. List!NoJob \in List!Jobs
  BY DEF List!NoJob, List!Jobs, List!Known, List!All
<1> QED
  BY <1>1, <1>2 DEF List!Finish

\* The filesystem that is listed first is the one the selector names.
LEMMA DiscoveryKeeps ==
    ASSUME List!ListInv, NEW t \in Futures, List!ApplyDiscovery(t)
    PROVE  List!ListInv'
<1>1. /\ ViewInv /\ RequestInv /\ OtherTypes
      /\ request[t] # "idle" /\ dialog' = List!Stale(dialog) /\ UNCHANGED <<search, filter, unpatient>>
      /\ trouble \in 0..ListTrouble
  BY ListParts DEF List!ApplyDiscovery, OtherTypes
<1>2. ASSUME List!ShowStatus("status"), List!Finish(t), List!Troubled,
             selector' \in [entries : SUBSET Filesystems, active : Filesystems \cup {List!None}, sensitive : BOOLEAN]
      PROVE  List!ListInv'
  <2>1. UNCHANGED selecting
    BY <1>2 DEF List!ShowStatus
  <2>2. ViewInv' /\ list'.what = "status"
    BY <1>1, <1>2, <2>1, StatusDraws
  <2>3. trouble' \in 0..ListTrouble /\ trouble' # 0
    BY <1>1, <1>2, ListTroubled
  <2>4. RequestInv'
    <3>1. request' = [request EXCEPT ![t] = "idle"] /\ captured' \in [Futures -> List!Jobs]
      BY <1>1, <1>2, FinishGoes
    <3> QED
      BY <1>1, <2>2, <2>3, <3>1, AnswerKeepsRequests DEF Requested
  <2>5. OtherTypes'
    BY <1>1, <1>2, <2>1, <2>3 DEF OtherTypes
  <2> QED
    BY <2>2, <2>4, <2>5, ListPartsNext
<1>3. CASE /\ selector' = [selector EXCEPT !.sensitive = TRUE]
           /\ List!ShowStatus("status") /\ List!Finish(t) /\ List!Troubled
  <2>1. selector' \in [entries : SUBSET Filesystems, active : Filesystems \cup {List!None}, sensitive : BOOLEAN]
    BY <1>1, <1>3 DEF OtherTypes
  <2> QED
    BY <1>2, <1>3, <2>1
<1>4. CASE /\ selector' = [entries |-> {}, active |-> List!None, sensitive |-> TRUE]
           /\ List!ShowStatus("status") /\ List!Finish(t) /\ List!Troubled
  <2>1. selector' \in [entries : SUBSET Filesystems, active : Filesystems \cup {List!None}, sensitive : BOOLEAN]
    BY <1>4
  <2> QED
    BY <1>2, <1>4, <2>1
<1>5. ASSUME NEW found \in (SUBSET Filesystems) \ {{}},
             selector' = [entries |-> found, active |-> List!Chosen(found), sensitive |-> TRUE],
             request' = [request EXCEPT ![t] = "list"],
             captured' = [captured EXCEPT ![t] = [captured[t] EXCEPT !.fs = List!Preferred(found)]],
             List!ShowStatus("loading"), UNCHANGED trouble \/ List!Troubled
      PROVE  List!ListInv'
  <2>1. List!Preferred(found) \in Filesystems
    BY DEF List!Preferred
  <2>2. /\ selector' \in [entries : SUBSET Filesystems, active : Filesystems \cup {List!None}, sensitive : BOOLEAN]
        /\ selector'.active = List!Preferred(found)
    BY <1>5, <2>1 DEF List!Chosen
  <2>3. UNCHANGED selecting
    BY <1>5 DEF List!ShowStatus
  <2>4. ViewInv'
    BY <1>1, <1>5, <2>3, StatusDraws
  <2>5. trouble' \in 0..ListTrouble
    BY <1>1, <1>5, ListTroubled
  <2>6. OtherTypes'
    BY <1>1, <2>2, <2>3, <2>5 DEF OtherTypes
  <2>7. captured' \in [Futures -> List!Jobs] /\ captured'[t].fs = selector'.active
    <3>1. captured \in [Futures -> List!Jobs]
      BY <1>1 DEF RequestInv
    <3>2. [captured[t] EXCEPT !.fs = List!Preferred(found)] \in List!Jobs
      BY <2>1, <3>1 DEF List!Jobs, List!Known
    <3> QED
      BY <1>5, <2>2, <3>1, <3>2
  <2>8. RequestInv'
    BY <1>1, <1>5, <2>7, AnswerKeepsRequests DEF Requested
  <2> QED
    BY <2>4, <2>6, <2>8, ListPartsNext
<1> QED
  BY <1>3, <1>4, <1>5 DEF List!ApplyDiscovery

\* So is the one whose listing is drawn, for a user who waits.
LEMMA InventoryKeeps ==
    ASSUME List!ListInv, NEW t \in Futures, List!ShowInventory(t)
    PROVE  List!ListInv'
<1>1. /\ ViewInv /\ RequestInv /\ OtherTypes
      /\ request[t] = "list" /\ List!Finish(t) /\ dialog' = List!Stale(dialog)
      /\ UNCHANGED <<selector, search, filter, unpatient>>
      /\ trouble \in 0..ListTrouble
  BY ListParts DEF List!ShowInventory, OtherTypes
<1>2. request' = [request EXCEPT ![t] = "idle"] /\ captured' \in [Futures -> List!Jobs]
  BY <1>1, FinishGoes
<1>3. ASSUME NEW snaps \in SUBSET Paths, inventory' = [fs |-> captured[t].fs, snaps |-> snaps],
             List!Render(inventory', captured[t].query, selected, selecting, filter),
             UNCHANGED <<selecting, trouble>>
      PROVE  List!ListInv'
  <2>1. captured[t] \in List!Jobs
    BY <1>1 DEF RequestInv
  <2>2. inventory' \in Inventories /\ captured[t].query \in SUBSET Paths
    BY <1>3, <2>1, InventoryAssumption DEF List!Jobs, List!All, Inventories
  <2>3. selected \in SUBSET (Paths \ External) /\ selecting \in BOOLEAN /\ filter \in SUBSET Paths
    BY <1>1, InventoryAssumption DEF ViewInv, OtherTypes
  <2>4. ViewInv' /\ list'.what # "loading" /\ list'.fs = inventory'.fs
    BY <1>3, <2>2, <2>3, RenderDraws
  <2>5. ~unpatient /\ trouble' = 0 => inventory'.fs = selector'.active
    BY <1>1, <1>3 DEF RequestInv, List!OneFilesystem
  <2>6. RequestInv'
    BY <1>1, <1>2, <2>4, <2>5, AnswerKeepsRequests DEF Requested
  <2>7. OtherTypes'
    BY <1>1, <1>3 DEF OtherTypes
  <2> QED
    BY <2>4, <2>6, <2>7, ListPartsNext
<1>4. CASE List!ShowStatus("status") /\ List!Troubled
  <2>1. UNCHANGED selecting
    BY <1>4 DEF List!ShowStatus
  <2>2. ViewInv' /\ list'.what = "status"
    BY <1>1, <1>4, <2>1, StatusDraws
  <2>3. trouble' \in 0..ListTrouble /\ trouble' # 0
    BY <1>1, <1>4, ListTroubled
  <2>4. RequestInv'
    BY <1>1, <1>2, <2>2, <2>3, AnswerKeepsRequests DEF Requested
  <2>5. OtherTypes'
    BY <1>1, <2>1, <2>3 DEF OtherTypes
  <2> QED
    BY <2>2, <2>4, <2>5, ListPartsNext
<1> QED
  BY <1>3, <1>4 DEF List!ShowInventory

LEMMA DeletedKeeps ==
    ASSUME List!ListInv, NEW t \in Futures, List!Deleted(t)
    PROVE  List!ListInv'
<1>1. /\ ViewInv /\ RequestInv /\ OtherTypes
      /\ request[t] = "delete" /\ request' = [request EXCEPT ![t] = "discover"]
      /\ selecting' = FALSE /\ list' = List!Status("loading") /\ marked' = {}
      /\ selected' = (IF selecting \/ marked # {} THEN {} ELSE selected)
      /\ selector' = [selector EXCEPT !.sensitive = FALSE]
      /\ emptied' = (IF selecting THEN List!Empties(inventory) ELSE emptied)
      /\ dialog' = List!Stale(dialog)
      /\ captured' = [captured EXCEPT ![t].query = search]
      /\ UNCHANGED <<inventory, search, filter, trouble, unpatient>>
  BY ListParts DEF List!Deleted
<1>2. ViewInv'
  <2>1. list' \in List!Lists /\ list'.what = "loading" /\ list'.shown = {}
    BY <1>1 DEF List!Lists, List!Known, List!Status
  <2>2. emptied' \in BOOLEAN
    BY <1>1 DEF List!Empties, ViewInv
  <2> QED
    BY <1>1, <2>1, <2>2 DEF ViewInv, List!SelectedIsVisible, List!RowsOfInventory
<1>3. RequestInv'
  <2>1. captured' \in [Futures -> List!Jobs] /\ captured'[t].fs = captured[t].fs
    BY <1>1 DEF RequestInv, List!Jobs, OtherTypes
  <2> QED
    BY <1>1, <2>1, AnswerKeepsRequests DEF Requested
<1>4. OtherTypes'
  BY <1>1 DEF OtherTypes
<1> QED
  BY <1>2, <1>3, <1>4, ListPartsNext

LEMMA ListNext == List!ListInv /\ [List!Next]_(List!vars) => List!ListInv'
<1> SUFFICES ASSUME List!ListInv, [List!Next]_(List!vars) PROVE List!ListInv'
  OBVIOUS
<1>1. CASE List!User
  BY <1>1, RefreshKeeps, BulkConfirmKeeps, ReloadConfirmKeeps, SelectKeeps, SearchKeeps, FilterKeeps,
     MarkKeeps, ClicksKeep, ToggleKeeps, DeleteConfirmKeeps
  DEF List!User
<1>2. CASE \E t \in Futures : List!Future(t)
  BY <1>2, DiscoveryKeeps, InventoryKeeps, DeletedKeeps DEF List!Future
<1>3. CASE UNCHANGED List!vars
  BY <1>3 DEF List!vars, List!ListInv, List!TypeOK, List!SelectedIsVisible, List!RowsOfInventory,
     List!LoadingEnds, List!OneRequest, List!OneFilesystem, List!Quiet
<1> QED
  BY <1>1, <1>2, <1>3 DEF List!Next

\* Whatever is filtered, searched, reloaded or deleted meanwhile, what is queued for
\* deletion is what the user sees selected.
THEOREM SelectionIsSeen == List!Spec => []SelectedIsVisible
<1>1. List!ListInv => SelectedIsVisible
  BY DEF List!ListInv, SelectedIsVisible
<1> QED
  BY <1>1, ListInit, ListNext, PTL DEF List!Spec

\* The list does not stay at "loading", and a user who waits for answers that do not
\* fail sees the filesystem that the selector names.
THEOREM ListIsCurrent == List!Spec => []ShownIsCurrent
<1>1. List!ListInv => ShownIsCurrent
  BY DEF List!ListInv, List!LoadingEnds, List!OneFilesystem, ShownIsCurrent, List!ShownIsCurrent
<1> QED
  BY <1>1, ListInit, ListNext, PTL DEF List!Spec

\* Only the batch button opens the batch's dialog.
LEMMA BulkIsClicked ==
    ASSUME List!ListInv, List!Next, dialog = List!NoDialog, dialog'.kind = "bulk"
    PROVE  List!BulkClick
<1>1. ASSUME NEW t \in Futures, List!Future(t) PROVE FALSE
  <2>1. dialog' = List!Stale(dialog)
    BY <1>1 DEF List!Future, List!ApplyDiscovery, List!ShowInventory, List!Deleted
  <2> QED
    BY <2>1, Closed
<1>2. ASSUME NEW t \in Futures,
             List!Refresh(t) \/ List!BulkConfirm(t) \/ List!ReloadConfirm(t)
             \/ \E fs \in Filesystems : List!Select(t, fs)
      PROVE  FALSE
  BY <1>2, Closed DEF List!Refresh, List!BulkConfirm, List!ReloadConfirm, List!Select
<1>3. ASSUME \/ \E text \in Searches : List!Search(text)
             \/ \E through \in Filters : List!Filter(through)
             \/ \E picked \in SUBSET (list.shown \ External) : List!Mark(picked)
             \/ List!Toggle \/ List!Cancel \/ List!DeleteConfirm
      PROVE  FALSE
  BY <1>3, Closed DEF List!Search, List!Filter, List!Mark, List!Toggle, List!Cancel, List!DeleteConfirm
<1>4. ASSUME List!ReloadClick \/ \E p \in Paths : List!DeleteClick(p) PROVE FALSE
  BY <1>4 DEF List!ReloadClick, List!DeleteClick, List!Ask
<1> QED
  BY <1>1, <1>2, <1>3, <1>4 DEF List!Next, List!User

\* A batch is asked for on rows of the list, of the filesystem it shows.
THEOREM BatchWasShown == List!Spec => BulkDeleteWasShown
<1>1. List!ListInv /\ [List!Next]_(List!vars) =>
        [(dialog = List!NoDialog /\ dialog'.kind = "bulk" /\ ~emptied) =>
            /\ list.what = "rows" /\ dialog'.fs = list.fs
            /\ dialog'.paths \subseteq list.shown \ External]_dialog
  <2> SUFFICES ASSUME List!ListInv, [List!Next]_(List!vars), dialog' # dialog,
                      dialog = List!NoDialog, dialog'.kind = "bulk", ~emptied
               PROVE  /\ list.what = "rows" /\ dialog'.fs = list.fs
                      /\ dialog'.paths \subseteq list.shown \ External
    OBVIOUS
  <2>1. List!Next
    BY DEF List!vars
  <2>2. List!BulkClick
    BY <2>1, BulkIsClicked
  <2>3. /\ dialog'.fs = inventory.fs /\ dialog'.paths = selected /\ selected # {} /\ selecting
    BY <2>2 DEF List!BulkClick, List!Ask
  <2>4. ViewInv
    BY ListParts
  <2>5. selected = marked /\ marked \subseteq list.shown \ External
    BY <2>3, <2>4 DEF ViewInv, List!SelectedIsVisible
  <2>6. list.what = "rows" /\ list.fs = inventory.fs
    BY <2>3, <2>4, <2>5 DEF ViewInv, List!RowsOfInventory
  <2> QED
    BY <2>3, <2>5, <2>6
<1> QED
  BY <1>1, ListInit, ListNext, PTL DEF List!Spec, BulkDeleteWasShown, List!BulkDeleteWasShown

-----------------------------------------------------------------------------
(* The desktop *)

Parts == {"mounts", "list", "notify", "updates", "top"}

\* A step of the desktop is one of each part, or leaves it as it is.
LEMMA PartsStep ==
    /\ DesktopInit =>
         part \in Parts /\ Init /\ List!Init /\ Notify!Init /\ Updates!Init /\ TopMount!Init
    /\ [DesktopNext]_<<vars, listVars, notifyVars, updateVars, topVars, part>> =>
         /\ UNCHANGED part
         /\ [Next]_vars /\ [List!Next]_(List!vars) /\ [Notify!Next]_(Notify!vars)
         /\ [Updates!Next]_(Updates!vars) /\ [TopMount!Next]_(TopMount!vars)
<1>1. /\ UNCHANGED listVars => UNCHANGED List!vars
      /\ UNCHANGED notifyVars => UNCHANGED Notify!vars
      /\ UNCHANGED updateVars => UNCHANGED Updates!vars
      /\ UNCHANGED topVars => UNCHANGED TopMount!vars
  BY DEF listVars, notifyVars, updateVars, topVars,
     List!vars, Notify!vars, Updates!vars, TopMount!vars
<1>2. DesktopNext =>
        /\ UNCHANGED part
        /\ [Next]_vars /\ [List!Next]_(List!vars) /\ [Notify!Next]_(Notify!vars)
        /\ [Updates!Next]_(Updates!vars) /\ [TopMount!Next]_(TopMount!vars)
  BY <1>1 DEF DesktopNext
<1>3. DesktopInit =>
        part \in Parts /\ Init /\ List!Init /\ Notify!Init /\ Updates!Init /\ TopMount!Init
  BY DEF DesktopInit, Parts
<1> QED
  BY <1>1, <1>2, <1>3

\* Each part behaves as it would alone.
THEOREM PartsAreKept ==
    DesktopSpec => Spec /\ List!Spec /\ Notify!Spec /\ Updates!Spec /\ TopMount!Spec
  BY PartsStep, PTL DEF DesktopSpec, Spec, List!Spec, Notify!Spec, Updates!Spec, TopMount!Spec

\* Every part keeps its state in its types.
THEOREM DesktopTypes == DesktopSpec => []DesktopTypeOK
<1>1. /\ part \in Parts /\ TypeOK /\ List!ListInv /\ Notify!ToldInv /\ Updates!UpdateInv /\ TopMount!TopInv
      => DesktopTypeOK
  BY DEF Parts, DesktopTypeOK, List!ListInv, Notify!ToldInv, Updates!UpdateInv, TopMount!TopInv
<1>2. List!Spec => []List!ListInv
  BY ListInit, ListNext, PTL DEF List!Spec
<1>3. Notify!Spec => []Notify!ToldInv
  BY NotifyInit, NotifyNext, PTL DEF Notify!Spec
<1>4. Updates!Spec => []Updates!UpdateInv
  BY UpdateInit, UpdateNext, PTL DEF Updates!Spec
<1>5. TopMount!Spec => []TopMount!TopInv
  BY TopInit, TopNext, PTL DEF TopMount!Spec
<1>6. part \in Parts /\ UNCHANGED part => (part \in Parts)'
  OBVIOUS
<1>7. DesktopSpec => [](part \in Parts)
  BY <1>6, PartsStep, PTL DEF DesktopSpec
<1> QED
  BY <1>1, <1>2, <1>3, <1>4, <1>5, <1>7, PartsAreKept, MountTypes, PTL

\* What holds of each part alone holds of it in the desktop.
THEOREM DesktopIsRight ==
    DesktopSpec =>
        /\ [](SelectedIsVisible /\ ShownIsCurrent /\ ToldOnce /\ UpdatesAreSound /\ StoreReady)
        /\ BulkDeleteWasShown
  BY PartsAreKept, SelectionIsSeen, ListIsCurrent, RunsAreTold, UpdatesAreTrue, StoreIsReady, BatchWasShown, PTL
==================================================
