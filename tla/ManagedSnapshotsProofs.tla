----------------------- MODULE ManagedSnapshotsProofs -----------------------
(***************************************************************************)
(* Theorems about ManagedSnapshots, for every interleaving of any number   *)
(* of clients, whatever fails or dies.                                     *)
(***************************************************************************)
EXTENDS ManagedSnapshots, TLAPS

-----------------------------------------------------------------------------
(* What a step may do to the rows. *)

RowsStay == UNCHANGED <<rows, nextId>>
RowDeleted == /\ \E i \in Nat : /\ \A a \in Anchors : HasRow(a) => rows[a].id # i
                                /\ rows' = [q \in Paths |-> IF rows[q].id = i THEN NoRow ELSE rows[q]]
              /\ UNCHANGED nextId
RowInserted == \E n \in Names : Insert(n, "readonly")
RowUpdated == /\ \E i \in Nat \ {NoId}, st \in {"readonly", "unlocked"} :
                    /\ \A a \in Anchors : HasRow(a) => rows[a].id # i
                    /\ rows' = [q \in Paths |-> IF rows[q].id = i
                                                  THEN [rows[q] EXCEPT !.state = st]
                                                  ELSE rows[q]]
              /\ UNCHANGED nextId

\* Each of them keeps the rows in order and leaves those of the anchors alone.
LEMMA RowsStep ==
    ASSUME TypeOK, RowsInv,
           RowsStay \/ RowDeleted \/ RowInserted \/ RowUpdated
    PROVE  /\ rows' \in [Paths -> Rows] /\ nextId' \in Nat \ {NoId} /\ nextId <= nextId'
           /\ RowsInv'
           /\ \A a \in Anchors : rows'[a] = rows[a]
<1>1. /\ rows \in [Paths -> Rows] /\ nextId \in Nat \ {NoId}
      /\ \A n \in Names : n \in Paths /\ n \notin Anchors
      /\ \A a \in Anchors : a \in Paths
  BY PathsAssumption DEF TypeOK, Paths
<1>2. CASE RowsStay
  BY <1>1, <1>2 DEF RowsStay, RowsInv, HasRow, IsAnchor
<1>3. CASE RowDeleted
  <2>1. PICK i \in Nat : /\ \A a \in Anchors : HasRow(a) => rows[a].id # i
                         /\ rows' = [q \in Paths |-> IF rows[q].id = i THEN NoRow ELSE rows[q]]
    BY <1>3 DEF RowDeleted
  <2>2. nextId' = nextId
    BY <1>3 DEF RowDeleted
  <2>3. \A q \in Paths : rows'[q] = NoRow \/ rows'[q] = rows[q]
    BY <2>1
  <2>4. \A a \in Anchors : rows'[a] = rows[a]
    BY <1>1, <2>1 DEF HasRow
  <2>5. rows' \in [Paths -> Rows]
    BY <1>1, <2>1 DEF Rows, RowStates, NoRow, NoId
  <2>6. RowsInv'
    <3>1. \A q \in Paths : rows'[q].id < nextId' /\ (HasRow(q)' => rows'[q].id # NoId)
      BY <1>1, <2>2, <2>3 DEF RowsInv, HasRow, NoRow, NoId
    <3>2. \A q, t \in Paths : HasRow(q)' /\ rows'[q].id = rows'[t].id => q = t
      BY <1>1, <2>3 DEF RowsInv, HasRow, NoRow, NoId
    <3>3. \A a \in Anchors : HasRow(a)' => IsAnchor(a)'
      BY <1>1, <2>4 DEF RowsInv, HasRow, IsAnchor
    <3>4. QED
      BY <3>1, <3>2, <3>3 DEF RowsInv
  <2>7. QED
    BY <1>1, <2>2, <2>4, <2>5, <2>6
<1>4. CASE RowInserted
  <2>1. PICK n \in Names : Insert(n, "readonly")
    BY <1>4 DEF RowInserted
  <2>2. /\ rows'[n] = [id |-> nextId, state |-> "readonly"] /\ nextId' = nextId + 1
        /\ \A q \in Paths : q # n => rows'[q] = rows[q]
        /\ rows' \in [Paths -> Rows]
    BY <1>1, <2>1 DEF Insert, Rows, RowStates
  <2>3. RowsInv'
    <3>1. \A q \in Paths : rows'[q].id < nextId' /\ (HasRow(q)' => rows'[q].id # NoId)
      BY <1>1, <2>2 DEF RowsInv, HasRow, Rows
    <3>2. \A q, t \in Paths : HasRow(q)' /\ rows'[q].id = rows'[t].id => q = t
      BY <1>1, <2>2 DEF RowsInv, HasRow, Rows
    <3>3. \A a \in Anchors : HasRow(a)' => IsAnchor(a)'
      BY <1>1, <2>2 DEF RowsInv, HasRow, IsAnchor
    <3>4. QED
      BY <3>1, <3>2, <3>3 DEF RowsInv
  <2>4. QED
    BY <1>1, <2>2, <2>3 DEF NoId
<1>5. CASE RowUpdated
  <2>1. PICK i \in Nat \ {NoId}, st \in {"readonly", "unlocked"} :
            /\ \A a \in Anchors : HasRow(a) => rows[a].id # i
            /\ rows' = [q \in Paths |-> IF rows[q].id = i
                                          THEN [rows[q] EXCEPT !.state = st] ELSE rows[q]]
    BY <1>5 DEF RowUpdated
  <2>2. nextId' = nextId
    BY <1>5 DEF RowUpdated
  <2>3. ASSUME NEW q \in Paths
        PROVE  /\ rows'[q].id = rows[q].id /\ rows'[q] \in Rows
               /\ rows'[q] = NoRow <=> rows[q] = NoRow
    <3>1. rows[q] \in [id : Nat, state : RowStates \cup {"none"}]
      BY <1>1 DEF Rows, NoRow
    <3>2. CASE rows[q].id # i
      BY <1>1, <2>1, <3>2
    <3>3. CASE rows[q].id = i
      <4>1. rows'[q] = [id |-> rows[q].id, state |-> st]
        BY <2>1, <3>1, <3>3
      <4>2. rows[q] # NoRow /\ rows'[q] # NoRow
        BY <2>1, <3>3, <4>1 DEF NoRow, NoId
      <4>3. QED
        BY <3>1, <4>1, <4>2 DEF Rows, RowStates, NoRow
    <3>4. QED
      BY <3>2, <3>3
  <2>5. \A a \in Anchors : rows'[a] = rows[a]
    BY <1>1, <2>1 DEF HasRow, NoRow, NoId
  <2>6. rows' \in [Paths -> Rows]
    BY <2>1, <2>3
  <2>7. RowsInv'
    BY <1>1, <2>2, <2>3, <2>5 DEF RowsInv, HasRow, IsAnchor
  <2>8. QED
    BY <1>1, <2>2, <2>5, <2>6, <2>7
<1>6. QED
  BY <1>2, <1>3, <1>4, <1>5

-----------------------------------------------------------------------------
(* What a step may do to the requests. *)

\* Client c goes on, with locals that name no anchor.
SafeMove(c) ==
    \E locals \in Jobs, step \in Steps : With(c, locals, step) /\ Safe(locals, step)

\* The locals of no request name nothing.
LEMMA EndSafe ==
    ASSUME TypeOK, RowsInv, NEW c \in Clients, End(c)
    PROVE  SafeMove(c)
<1>1. NoJob \in Jobs /\ "idle" \in Steps
  BY DEF NoJob, Jobs, NoId, Steps
<1>2. Safe(NoJob, "idle")
  <2>1. nextId \in Nat \ {0} /\ \A a \in Anchors : HasRow(a) => rows[a].id # 0
    BY DEF TypeOK, RowsInv, Paths, NoId
  <2>2. "idle" \notin Targeting /\ "idle" \notin ByRow
    BY DEF Targeting, ByRow
  <2>3. QED
    BY <2>1, <2>2 DEF Safe, NoJob, NoId
<1>3. QED
  BY <1>1, <1>2 DEF SafeMove, End

\* A request that goes on with the locals it has.
LEMMA GotoSafe ==
    ASSUME TypeOK, NEW c \in Clients, NEW step \in Steps, Goto(c, step),
           Safe(job[c], step)
    PROVE  SafeMove(c)
<1>1. job[c] \in Jobs /\ job' = [job EXCEPT ![c] = job[c]]
  BY DEF TypeOK, Goto
<1>2. QED
  BY <1>1 DEF SafeMove, With, Goto

\* A safe move, with one of the four changes of the rows, keeps the invariant.
LEMMA ClientStep ==
    ASSUME TypeOK, AnchorInv, NEW c \in Clients, SafeMove(c),
           RowsStay \/ RowDeleted \/ RowInserted \/ RowUpdated
    PROVE  /\ AnchorInv'
           /\ rows' \in [Paths -> Rows] /\ nextId' \in Nat \ {NoId}
           /\ pc' \in [Clients -> Steps] /\ job' \in [Clients -> Jobs]
           /\ \A a \in Anchors : rows'[a] = rows[a]
<1>1. PICK locals \in Jobs, step \in Steps : With(c, locals, step) /\ Safe(locals, step)
  BY DEF SafeMove
<1>2. /\ pc' \in [Clients -> Steps] /\ job' \in [Clients -> Jobs]
      /\ pc'[c] = step /\ job'[c] = locals
      /\ \A d \in Clients : d # c => pc'[d] = pc[d] /\ job'[d] = job[d]
  BY <1>1 DEF With, TypeOK
<1>3. /\ rows' \in [Paths -> Rows] /\ nextId' \in Nat \ {NoId} /\ nextId <= nextId'
      /\ RowsInv'
      /\ \A a \in Anchors : rows'[a] = rows[a]
  BY RowsStep DEF AnchorInv
<1>4. ASSUME NEW l \in Jobs, NEW s \in Steps, Safe(l, s)
      PROVE  /\ l.id < nextId' /\ (\A i \in l.stale : i # NoId /\ i < nextId')
             /\ s \in Targeting => l.path \in Names
             /\ s \in ByRow => l.id # NoId
             /\ \A a \in Anchors :
                  HasRow(a)' => rows'[a].id # l.id /\ rows'[a].id \notin l.stale
  <2>1. l.id \in Nat /\ l.stale \subseteq Nat /\ nextId \in Nat
    BY DEF Jobs, TypeOK
  <2>2. QED
    BY <1>3, <1>4, <2>1 DEF Safe, HasRow
<1>5. ASSUME NEW d \in Clients
      PROVE  Safe(job[d], pc[d])'
  <2>1. CASE d = c
    BY <1>1, <1>2, <1>4, <2>1 DEF Safe
  <2>2. CASE d # c
    <3>1. job[d] \in Jobs /\ pc[d] \in Steps /\ Safe(job[d], pc[d])
      BY DEF TypeOK, AnchorInv
    <3>2. QED
      BY <1>2, <1>4, <2>2, <3>1 DEF Safe
  <2>3. QED
    BY <2>1, <2>2
<1>6. QED
  BY <1>2, <1>3, <1>5 DEF AnchorInv

\* What a client step may do to the disk and to the bounds.
Around ==
    /\ \/ UNCHANGED disk
       \/ \E n \in Names, v \in {"absent", "ro", "rw"} : disk' = [disk EXCEPT ![n] = v]
    /\ \/ UNCHANGED nested \/ \E n \in Names : nested' = nested \cup {n}
    /\ container' \in BOOLEAN
    /\ UNCHANGED bounds \/ Fault

ClientAction(c) ==
    /\ SafeMove(c) /\ Around
    /\ RowsStay \/ RowDeleted \/ RowInserted \/ RowUpdated

\* Every row but an anchor's can be named by a request.
LEMMA SafeRow ==
    ASSUME TypeOK, RowsInv, NEW q \in Paths, HasRow(q), ~IsAnchor(q)
    PROVE  /\ q \in Names /\ rows[q].id \in Nat \ {NoId} /\ rows[q].id < nextId
           /\ \A a \in Anchors : HasRow(a) => rows[a].id # rows[q].id
<1>1. q \in Names /\ rows[q] \in Rows
  BY DEF Paths, RowsInv, TypeOK
<1>2. rows[q].id \in Nat \ {NoId} /\ rows[q].id < nextId
  BY <1>1 DEF RowsInv, Rows
<1>3. \A a \in Anchors : HasRow(a) => rows[a].id # rows[q].id
  BY <1>1, PathsAssumption DEF RowsInv, Paths
<1>4. QED
  BY <1>1, <1>2, <1>3

\* A request that begins.
LEMMA BeginStep ==
    ASSUME TypeOK, AnchorInv, NEW c \in Clients,
           Create(c) \/ Delete(c) \/ SetRo(c) \/ ListBegin(c)
    PROVE  ClientAction(c)
<1>1. TypeOK /\ RowsInv /\ Names \subseteq Paths /\ nextId \in Nat \ {0}
      /\ container \in BOOLEAN
      /\ \A a \in Anchors : HasRow(a) => rows[a].id # 0
  BY DEF TypeOK, AnchorInv, RowsInv, Paths, NoId
<1>2. CASE Create(c)
  <2>1. PICK n \in Names : CreateBegin(c, n)
    BY <1>2 DEF Create
  <2>2. [NoJob EXCEPT !.path = n] \in Jobs
    BY <1>1 DEF NoJob, Jobs, NoId
  <2>3. \A step \in {"snapshot", "container"} :
            step \in Steps /\ Safe([NoJob EXCEPT !.path = n], step)
    BY <1>1 DEF Safe, Steps, NoJob, NoId, Targeting, ByRow
  <2>4. SafeMove(c)
    BY <2>1, <2>2, <2>3 DEF SafeMove, CreateBegin
  <2>5. QED
    BY <1>1, <2>1, <2>4 DEF ClientAction, Around, RowsStay, CreateBegin
<1>3. CASE Delete(c)
  <2>1. PICK batch \in SUBSET Paths : DeleteBegin(c, batch)
    BY <1>3 DEF Delete
  <2>2. [NoJob EXCEPT !.todo = batch] \in Jobs
    BY <1>1 DEF NoJob, Jobs, NoId
  <2>3. "delete_find" \in Steps /\ Safe([NoJob EXCEPT !.todo = batch], "delete_find")
    BY <1>1 DEF Safe, Steps, NoJob, NoId, Targeting, ByRow
  <2>4. SafeMove(c)
    BY <2>1, <2>2, <2>3 DEF SafeMove, DeleteBegin
  <2>5. QED
    BY <1>1, <2>1, <2>4 DEF ClientAction, Around, RowsStay, DeleteBegin
<1>4. CASE SetRo(c)
  <2>1. PICK q \in Paths, st \in {"readonly", "unlocked"} : SetRoBegin(c, q, st)
    BY <1>4 DEF SetRo
  <2> DEFINE locals == [NoJob EXCEPT !.path = q, !.id = rows[q].id, !.target = st]
  <2>2. /\ q \in Names /\ rows[q].id \in Nat \ {NoId} /\ rows[q].id < nextId
        /\ \A a \in Anchors : HasRow(a) => rows[a].id # rows[q].id
    BY <1>1, <2>1, SafeRow DEF SetRoBegin
  <2>3. locals.path = q /\ locals.id = rows[q].id /\ locals.stale = {}
    BY DEF NoJob, NoId
  <2>4. locals \in Jobs
    BY <1>1, <2>2 DEF Jobs, NoJob, NoId
  <2>5. "set_property" \in Steps /\ Safe(locals, "set_property")
    BY <2>2, <2>3 DEF Safe, Steps, NoId, ByRow, Targeting
  <2>6. SafeMove(c)
    BY <2>1, <2>4, <2>5 DEF SafeMove, SetRoBegin
  <2>7. QED
    BY <1>1, <2>1, <2>6 DEF ClientAction, Around, RowsStay, SetRoBegin
<1>5. CASE ListBegin(c)
  <2>1. PICK printed \in {{}, {q \in Paths : OnDisk(q)} \cup {Top}} :
           /\ With(c, [NoJob EXCEPT !.listing = printed], "list_rows")
           /\ IF printed = {} THEN Fault ELSE UNCHANGED bounds
    BY <1>5 DEF ListBegin
  <2>2. [NoJob EXCEPT !.listing = printed] \in Jobs
    BY <1>1 DEF NoJob, Jobs, NoId
  <2>3. "list_rows" \in Steps /\ Safe([NoJob EXCEPT !.listing = printed], "list_rows")
    BY <1>1 DEF Safe, Steps, NoJob, NoId, Targeting, ByRow
  <2>4. SafeMove(c)
    BY <2>1, <2>2, <2>3 DEF SafeMove
  <2>5. QED
    BY <1>1, <1>5, <2>1, <2>4 DEF ClientAction, Around, RowsStay, ListBegin
<1>6. QED
  BY <1>2, <1>3, <1>4, <1>5

\* A request that goes on.
LEMMA ContinueStep ==
    ASSUME TypeOK, AnchorInv, NEW c \in Clients, Continue(c)
    PROVE  ClientAction(c)
<1>1. /\ RowsInv /\ job[c] \in Jobs /\ Safe(job[c], pc[c])
      /\ Names \subseteq Paths /\ container \in BOOLEAN
  BY DEF TypeOK, AnchorInv, Paths
<1>2. ASSUME NEW step \in Steps, Goto(c, step),
             step \in Targeting => pc[c] \in Targeting,
             step \in ByRow => pc[c] \in ByRow
      PROVE  SafeMove(c)
  <2>1. Safe(job[c], step)
    BY <1>1, <1>2 DEF Safe
  <2>2. QED
    BY <1>2, <2>1, GotoSafe
<1>3. ASSUME End(c)
      PROVE  SafeMove(c)
  BY <1>1, <1>3, EndSafe
<1>4. pc[c] \in Targeting => P(c) \in Names
  BY <1>1 DEF Safe, P
<1>5. /\ pc[c] \in ByRow => job[c].id \in Nat \ {NoId}
      /\ \A a \in Anchors : HasRow(a) => rows[a].id # job[c].id
      /\ job[c].id \in Nat /\ job[c].target \in {"readonly", "unlocked"}
  BY <1>1 DEF Safe, Jobs
<1>6. /\ {"snapshot", "container", "insert"} \subseteq Steps \cap Targeting
      /\ ByRow \subseteq Steps \cap Targeting
      /\ {"idle", "delete_find", "list_rows", "list_prune"} \subseteq Steps \ Targeting
      /\ {"snapshot", "container", "insert"} \cap ByRow = {}
      /\ ByRow = {"delete_check", "delete_subvolume", "delete_row", "set_property",
                  "set_state"}
  BY DEF Steps, Targeting, ByRow
<1>7. CASE CreateContainer(c)
  <2>1. SafeMove(c)
    BY <1>2, <1>3, <1>6, <1>7 DEF CreateContainer
  <2>2. container' \in BOOLEAN /\ (UNCHANGED bounds \/ Fault)
    BY <1>1, <1>7 DEF CreateContainer
  <2>3. QED
    BY <1>7, <2>1, <2>2 DEF CreateContainer, ClientAction, Around, RowsStay
<1>8. CASE CreateSnapshot(c)
  <2>1. SafeMove(c)
    BY <1>2, <1>3, <1>6, <1>8 DEF CreateSnapshot
  <2>2. QED
    BY <1>1, <1>4, <1>6, <1>8, <2>1 DEF CreateSnapshot, ClientAction, Around, RowsStay
<1>9. CASE CreateInsert(c)
  BY <1>1, <1>3, <1>4, <1>6, <1>9
  DEF CreateInsert, ClientAction, Around, RowsStay, RowInserted
<1>10. CASE DeleteFind(c)
  <2>1. ASSUME NEW q \in job[c].todo, HasRow(q), ~IsAnchor(q), Visit(c, q)
        PROVE  SafeMove(c)
    <3> DEFINE locals == [job[c] EXCEPT !.todo = @ \ {q}, !.path = q, !.id = rows[q].id]
    <3>1. q \in Paths
      BY <1>1 DEF Jobs
    <3>2. /\ q \in Names /\ rows[q].id \in Nat \ {NoId} /\ rows[q].id < nextId
          /\ \A a \in Anchors : HasRow(a) => rows[a].id # rows[q].id
      BY <1>1, <2>1, <3>1, SafeRow
    <3>3. /\ locals.path = q /\ locals.id = rows[q].id /\ locals.stale = job[c].stale
          /\ locals \in Jobs
      BY <1>1, <3>1, <3>2 DEF Jobs
    <3>4. Safe(locals, "delete_check")
      BY <1>1, <3>2, <3>3 DEF Safe
    <3>5. QED
      BY <1>6, <2>1, <3>3, <3>4 DEF SafeMove, Visit
  <2>2. ASSUME NEW q \in job[c].todo, PassOver(c, q)
        PROVE  SafeMove(c)
    <3> DEFINE locals == [job[c] EXCEPT !.todo = @ \ {q}]
    <3>1. /\ locals.id = job[c].id /\ locals.stale = job[c].stale /\ locals \in Jobs
      BY <1>1 DEF Jobs
    <3>2. Safe(locals, "delete_find")
      BY <1>1, <1>6, <3>1 DEF Safe
    <3>3. QED
      BY <1>6, <2>2, <3>1, <3>2 DEF SafeMove, PassOver
  <2>3. SafeMove(c)
    BY <1>3, <1>10, <2>1, <2>2 DEF DeleteFind
  <2>4. QED
    BY <1>1, <1>10, <2>3 DEF DeleteFind, ClientAction, Around, RowsStay
<1>11. CASE DeleteCheck(c)
  <2>1. SafeMove(c)
    BY <1>2, <1>6, <1>11 DEF DeleteCheck
  <2>2. QED
    BY <1>1, <1>11, <2>1 DEF DeleteCheck, ClientAction, Around, RowsStay
<1>12. CASE DeleteSubvolume(c)
  <2>1. SafeMove(c)
    BY <1>2, <1>6, <1>12 DEF DeleteSubvolume
  <2>2. QED
    BY <1>1, <1>4, <1>6, <1>12, <2>1 DEF DeleteSubvolume, ClientAction, Around, RowsStay
<1>13. CASE DeleteRowOf(c)
  <2>1. SafeMove(c)
    BY <1>2, <1>6, <1>13 DEF DeleteRowOf
  <2>2. RowsStay \/ RowDeleted
    BY <1>5, <1>13 DEF DeleteRowOf, DeleteRow, RowsStay, RowDeleted
  <2>3. QED
    BY <1>1, <1>13, <2>1, <2>2 DEF DeleteRowOf, ClientAction, Around
<1>14. CASE SetProperty(c)
  <2>1. SafeMove(c)
    BY <1>2, <1>3, <1>6, <1>14 DEF SetProperty
  <2>2. QED
    BY <1>1, <1>4, <1>6, <1>14, <2>1 DEF SetProperty, ClientAction, Around, RowsStay
<1>15. CASE SetState(c)
  <2>1. SafeMove(c)
    BY <1>3, <1>15 DEF SetState
  <2>2. RowsStay \/ RowUpdated
    BY <1>5, <1>6, <1>15 DEF SetState, RowsStay, RowUpdated
  <2>3. QED
    BY <1>1, <1>15, <2>1, <2>2 DEF SetState, ClientAction, Around
<1>16. CASE ListRows(c)
  <2>1. ASSUME With(c, [job[c] EXCEPT !.stale = StaleRows(c)], "list_prune")
        PROVE  SafeMove(c)
    <3> DEFINE locals == [job[c] EXCEPT !.stale = StaleRows(c)]
    <3>1. \A i \in StaleRows(c) : \E q \in Paths : HasRow(q) /\ ~IsAnchor(q) /\ i = rows[q].id
      BY DEF StaleRows
    <3>2. \A i \in StaleRows(c) :
            /\ i \in Nat \ {NoId} /\ i < nextId
            /\ \A a \in Anchors : HasRow(a) => rows[a].id # i
      BY <1>1, <3>1, SafeRow
    <3>3. locals.id = job[c].id /\ locals.stale = StaleRows(c) /\ locals \in Jobs
      BY <1>1, <3>2 DEF Jobs
    <3>4. Safe(locals, "list_prune")
      BY <1>1, <1>6, <3>2, <3>3 DEF Safe
    <3>5. QED
      BY <1>6, <2>1, <3>3, <3>4 DEF SafeMove
  <2>2. SafeMove(c)
    BY <1>3, <1>16, <2>1 DEF ListRows
  <2>3. QED
    BY <1>1, <1>16, <2>2 DEF ListRows, ClientAction, Around, RowsStay
<1>17. CASE ListPrune(c)
  <2>1. ASSUME NEW i \in job[c].stale, With(c, [job[c] EXCEPT !.stale = @ \ {i}], "list_prune")
        PROVE  SafeMove(c)
    <3> DEFINE locals == [job[c] EXCEPT !.stale = @ \ {i}]
    <3>1. locals.id = job[c].id /\ locals.stale = job[c].stale \ {i} /\ locals \in Jobs
      BY <1>1 DEF Jobs
    <3>2. Safe(locals, "list_prune")
      BY <1>1, <1>6, <3>1 DEF Safe
    <3>3. QED
      BY <1>6, <2>1, <3>1, <3>2 DEF SafeMove
  <2>2. SafeMove(c)
    BY <1>3, <1>17, <2>1 DEF ListPrune
  <2>3. \A i \in job[c].stale : i \in Nat /\ \A a \in Anchors : HasRow(a) => rows[a].id # i
    BY <1>1 DEF Safe, Jobs
  <2>4. RowsStay \/ RowDeleted
    BY <1>17, <2>3 DEF ListPrune, DeleteRow, RowsStay, RowDeleted
  <2>5. QED
    BY <1>1, <1>17, <2>2, <2>4 DEF ListPrune, ClientAction, Around
<1>18. QED
  BY <1>7, <1>8, <1>9, <1>10, <1>11, <1>12, <1>13, <1>14, <1>15, <1>16, <1>17 DEF Continue

-----------------------------------------------------------------------------
(* Every step *)

\* A client step keeps the types and the invariant, and touches no anchor.
LEMMA ClientActionStep ==
    ASSUME TypeOK, AnchorInv, NEW c \in Clients, ClientAction(c)
    PROVE  TypeOK' /\ AnchorInv' /\ \A a \in Anchors : AnchorStays(a)
<1>1. /\ AnchorInv'
      /\ rows' \in [Paths -> Rows] /\ nextId' \in Nat \ {NoId}
      /\ pc' \in [Clients -> Steps] /\ job' \in [Clients -> Jobs]
      /\ \A a \in Anchors : rows'[a] = rows[a]
  BY ClientStep DEF ClientAction
<1>2. disk' \in [Paths -> {"absent", "ro", "rw"}] /\ \A a \in Anchors : disk'[a] = disk[a]
  BY PathsAssumption DEF ClientAction, Around, TypeOK, Paths
<1>3. nested' \subseteq Paths /\ container' \in BOOLEAN
  BY DEF ClientAction, Around, TypeOK, Paths
<1>4. gone' \in 0..MaxGone /\ faults' \in 0..MaxFaults /\ crashes' \in 0..MaxCrashes
  BY LimitsAssumption DEF ClientAction, Around, TypeOK, bounds, Fault
<1>5. QED
  BY <1>1, <1>2, <1>3, <1>4 DEF TypeOK, AnchorStays

\* So does whatever happens around the requests, the stage of a rollback with
\* its new row included.
LEMMA EnvironmentStep ==
    ASSUME TypeOK, AnchorInv, Environment
    PROVE  TypeOK' /\ AnchorInv' /\ \A a \in Anchors : AnchorStays(a)
<1>1. /\ disk \in [Paths -> {"absent", "ro", "rw"}] /\ rows \in [Paths -> Rows]
      /\ nextId \in Nat \ {0}
      /\ Names \subseteq Paths /\ Anchors \subseteq Paths /\ Names \cap Anchors = {}
  BY PathsAssumption DEF TypeOK, Paths, NoId
<1>2. ASSUME NEW q \in Paths, NEW v \in {"absent", "ro", "rw"},
             disk' = [disk EXCEPT ![q] = v], UNCHANGED <<nested, container, rows, nextId, pc, job>>,
             gone' \in 0..MaxGone, UNCHANGED <<faults, crashes>>
      PROVE  TypeOK' /\ AnchorInv'
  BY <1>2 DEF TypeOK, AnchorInv, RowsInv, HasRow, IsAnchor, Safe
<1>3. ASSUME NEW a \in Anchors, AnchorRename(a)
      PROVE  TypeOK' /\ AnchorInv' /\ \A b \in Anchors : AnchorStays(b)
  <2>1. a \in Paths /\ gone' \in 0..MaxGone
    BY <1>1, <1>3 DEF AnchorRename, TypeOK, bounds
  <2>2. TypeOK' /\ AnchorInv'
    BY <1>2, <1>3, <2>1 DEF AnchorRename, bounds
  <2>3. \A b \in Anchors : AnchorStays(b)
    BY <1>1, <1>3 DEF AnchorRename, AnchorStays
  <2>4. QED
    BY <2>2, <2>3
<1>4. ASSUME NEW a \in Anchors, AnchorRevert(a)
      PROVE  TypeOK' /\ AnchorInv' /\ \A b \in Anchors : AnchorStays(b)
  <2>1. a \in Paths /\ gone' \in 0..MaxGone
    BY <1>1, <1>4 DEF AnchorRevert, TypeOK, bounds
  <2>2. TypeOK' /\ AnchorInv'
    BY <1>2, <1>4, <2>1 DEF AnchorRevert, bounds
  <2>3. \A b \in Anchors : AnchorStays(b)
    BY <1>1, <1>4 DEF AnchorRevert, AnchorStays
  <2>4. QED
    BY <2>2, <2>3
<1>5. ASSUME NEW n \in Names, GoneOutside(n)
      PROVE  TypeOK' /\ AnchorInv' /\ \A b \in Anchors : AnchorStays(b)
  <2>1. n \in Paths /\ gone' \in 0..MaxGone
    BY <1>1, <1>5, LimitsAssumption DEF GoneOutside, TypeOK
  <2>2. TypeOK' /\ AnchorInv'
    BY <1>2, <1>5, <2>1 DEF GoneOutside
  <2>3. \A b \in Anchors : AnchorStays(b)
    BY <1>1, <1>5 DEF GoneOutside, AnchorStays
  <2>4. QED
    BY <2>2, <2>3
<1>6. ASSUME NEW a \in Anchors, AnchorRow(a)
      PROVE  TypeOK' /\ AnchorInv' /\ \A b \in Anchors : AnchorStays(b)
  <2>1. /\ rows'[a] = [id |-> nextId, state |-> "rollback_anchor"]
        /\ nextId' = nextId + 1 /\ ~HasRow(a)
        /\ \A q \in Paths : q # a => rows'[q] = rows[q]
        /\ rows' \in [Paths -> Rows]
    BY <1>1, <1>6 DEF AnchorRow, Insert, Rows, RowStates
  <2>2. RowsInv'
    <3>1. \A q \in Paths : rows'[q].id < nextId' /\ (HasRow(q)' => rows'[q].id # NoId)
      BY <1>1, <2>1 DEF AnchorInv, RowsInv, HasRow, Rows, NoId
    <3>2. \A q, t \in Paths : HasRow(q)' /\ rows'[q].id = rows'[t].id => q = t
      BY <1>1, <2>1 DEF AnchorInv, RowsInv, HasRow, Rows
    <3>3. \A b \in Anchors : HasRow(b)' => IsAnchor(b)'
      BY <1>1, <2>1 DEF AnchorInv, RowsInv, HasRow, IsAnchor
    <3>4. QED
      BY <3>1, <3>2, <3>3 DEF RowsInv
  <2>3. ASSUME NEW c \in Clients
        PROVE  Safe(job[c], pc[c])'
    <3>1. job[c] \in Jobs /\ Safe(job[c], pc[c]) /\ job' = job /\ pc' = pc
      BY <1>6 DEF TypeOK, AnchorInv, AnchorRow
    <3>2. job[c].id \in Nat /\ job[c].stale \subseteq Nat
      BY <3>1 DEF Jobs
    <3>3. ASSUME NEW b \in Anchors, HasRow(b)'
          PROVE  rows'[b].id # job[c].id /\ rows'[b].id \notin job[c].stale
      BY <1>1, <2>1, <3>1, <3>2, <3>3 DEF Safe, HasRow
    <3>4. QED
      BY <1>1, <2>1, <3>1, <3>2, <3>3 DEF Safe
  <2>4. TypeOK'
    BY <1>1, <1>6, <2>1 DEF TypeOK, AnchorRow, bounds, NoId
  <2>5. \A b \in Anchors : AnchorStays(b)
    BY <1>1, <1>6, <2>1 DEF AnchorRow, AnchorStays
  <2>6. QED
    BY <2>2, <2>3, <2>4, <2>5 DEF AnchorInv
<1>7. ASSUME NEW c \in Clients, Crash(c)
      PROVE  TypeOK' /\ AnchorInv' /\ \A b \in Anchors : AnchorStays(b)
  <2>1. SafeMove(c) /\ RowsStay
    BY <1>7, EndSafe DEF Crash, AnchorInv, RowsStay
  <2>2. /\ AnchorInv'
        /\ rows' \in [Paths -> Rows] /\ nextId' \in Nat \ {NoId}
        /\ pc' \in [Clients -> Steps] /\ job' \in [Clients -> Jobs]
    BY <2>1, ClientStep
  <2>3. crashes' \in 0..MaxCrashes
    BY <1>7, LimitsAssumption DEF Crash, TypeOK
  <2>4. TypeOK'
    BY <1>7, <2>2, <2>3 DEF Crash, TypeOK
  <2>5. QED
    BY <1>7, <2>2, <2>4 DEF Crash, AnchorStays
<1>8. QED
  BY <1>3, <1>4, <1>5, <1>6, <1>7 DEF Environment

\* Every step of the helper, whatever the interleaving.
LEMMA AnyStep ==
    ASSUME TypeOK, AnchorInv, [Next]_vars
    PROVE  TypeOK' /\ AnchorInv' /\ \A a \in Anchors : AnchorStays(a)
<1>1. CASE Environment
  BY <1>1, EnvironmentStep
<1>2. ASSUME NEW c \in Clients,
             Create(c) \/ Delete(c) \/ SetRo(c) \/ ListBegin(c) \/ Continue(c)
      PROVE  TypeOK' /\ AnchorInv' /\ \A a \in Anchors : AnchorStays(a)
  BY <1>2, BeginStep, ContinueStep, ClientActionStep
<1>3. CASE UNCHANGED vars
  BY <1>3 DEF vars, bounds, TypeOK, AnchorInv, RowsInv, HasRow, IsAnchor, Safe, AnchorStays
<1>4. QED
  BY <1>1, <1>2, <1>3 DEF Next

\* Nothing is recorded and nothing is under way at first.
LEMMA InitInv == Init => TypeOK /\ AnchorInv
<1> SUFFICES ASSUME Init PROVE TypeOK /\ AnchorInv
  OBVIOUS
<1>1. NoJob \in Jobs /\ NoJob.id = 0 /\ NoJob.stale = {} /\ NoRow \in Rows /\ NoRow.id = 0
  BY DEF NoJob, Jobs, NoId, NoRow, Rows
<1>2. TypeOK
  <2>1. disk \in [Paths -> {"absent", "ro", "rw"}] /\ rows \in [Paths -> Rows]
    BY <1>1 DEF Init
  <2>2. pc \in [Clients -> Steps] /\ job \in [Clients -> Jobs]
    BY <1>1 DEF Init, Steps
  <2>3. /\ nextId \in Nat \ {NoId}
        /\ gone \in 0..MaxGone /\ faults \in 0..MaxFaults /\ crashes \in 0..MaxCrashes
    <3>1. nextId = 1 /\ gone = 0 /\ faults = 0 /\ crashes = 0
      BY DEF Init
    <3>2. QED
      BY <3>1, LimitsAssumption DEF NoId
  <2>4. nested \subseteq Paths /\ container \in BOOLEAN
    BY DEF Init
  <2>5. QED
    BY <2>1, <2>2, <2>3, <2>4 DEF TypeOK
<1>3. \A q \in Paths : ~HasRow(q) /\ rows[q].id = 0
  BY <1>1 DEF Init, HasRow
<1>4. RowsInv
  BY <1>3 DEF Init, RowsInv, Paths
<1>5. \A c \in Clients : Safe(job[c], pc[c])
  <2>1. ASSUME NEW c \in Clients
        PROVE  job[c] = NoJob /\ pc[c] = "idle"
    BY DEF Init
  <2>2. "idle" \notin Targeting /\ "idle" \notin ByRow
    BY DEF Targeting, ByRow
  <2>3. \A a \in Anchors : ~HasRow(a)
    BY <1>3 DEF Paths
  <2>4. nextId = 1
    BY DEF Init
  <2>5. Safe(NoJob, "idle")
    BY <1>1, <2>2, <2>3, <2>4 DEF Safe
  <2>6. QED
    BY <2>1, <2>5
<1>6. QED
  BY <1>2, <1>4, <1>5 DEF AnchorInv

\* However requests interleave, every state is well typed.
THEOREM SnapshotTypes == Spec => []TypeOK
<1>1. (TypeOK /\ AnchorInv) /\ [Next]_vars => (TypeOK /\ AnchorInv)'
  BY AnyStep
<1>2. QED
  BY InitInv, <1>1, PTL DEF Spec

\* However requests interleave, fail or die, no request deletes, prunes or
\* unlocks a rollback anchor, and only a revert takes its subvolume away.
THEOREM AnchorsAreSafe == Spec => AnchorsStay
<1>1. (TypeOK /\ AnchorInv) /\ [Next]_vars => (TypeOK /\ AnchorInv)'
  BY AnyStep
<1>2. (TypeOK /\ AnchorInv) /\ [Next]_vars
        => [\A a \in Anchors : AnchorStays(a)]_vars
  BY AnyStep
<1>3. QED
  BY InitInv, <1>1, <1>2, PTL DEF Spec, AnchorsStay

-----------------------------------------------------------------------------
(* Creations and deletions that overlap, listings and locks that do not: what  *)
(* the rows tell of the disk.                                                  *)

\* A request that goes on moves alone, and nothing has failed after its step only if
\* nothing failed in it.
LEMMA MoveFacts ==
    ASSUME TypeOK, NEW c \in Clients, Continue(c)
    PROVE  /\ pc[c] # "idle"
           /\ \A d \in Clients : d # c => pc'[d] = pc[d] /\ job'[d] = job[d] /\ P(d)' = P(d)
           /\ gone' = gone /\ crashes' = crashes /\ faults \in Nat /\ faults' >= faults
           /\ faults' = 0 => ~Fault /\ UNCHANGED bounds
           /\ faults' # faults => Fault
<1> USE DEF Continue, CreateContainer, CreateSnapshot, CreateInsert, DeleteFind, DeleteCheck,
     DeleteSubvolume, DeleteRowOf, SetProperty, SetState, ListRows, ListPrune
<1>1. pc[c] # "idle"
  OBVIOUS
<1>2. \/ \E step \in Steps : Goto(c, step)
      \/ \E locals \in Jobs, step \in Steps : With(c, locals, step)
      \/ \E locals, step : With(c, locals, step)
  BY DEF End, Visit, PassOver, Steps
<1>3. \A d \in Clients : d # c => pc'[d] = pc[d] /\ job'[d] = job[d]
  BY <1>2 DEF Goto, With, TypeOK
<1>4. UNCHANGED bounds \/ Fault
  OBVIOUS
<1>5. faults \in Nat
  BY LimitsAssumption DEF TypeOK
<1>6. QED
  BY <1>1, <1>3, <1>4, <1>5 DEF Fault, bounds, P

\* What is known of the ids of the rows and of the requests.
LEMMA IdFacts ==
    ASSUME TypeOK, AnchorInv
    PROVE  /\ rows \in [Paths -> Rows] /\ nextId \in Nat \ {NoId} /\ Names \subseteq Paths
           /\ \A n \in Names : HasRow(n) => rows[n].id \in Nat \ {NoId} /\ rows[n].id < nextId
           /\ \A n, m \in Names : HasRow(n) /\ rows[n].id = rows[m].id => n = m
           /\ \A c \in Clients :
                /\ job[c].id \in Nat /\ job[c].id < nextId
                /\ job[c].target \in {"readonly", "unlocked"}
                /\ job[c].stale \subseteq Nat /\ \A i \in job[c].stale : i # NoId /\ i < nextId
                /\ pc[c] \in Targeting => P(c) \in Names
                /\ pc[c] \in ByRow => job[c].id # NoId
<1>1. rows \in [Paths -> Rows] /\ nextId \in Nat \ {NoId} /\ Names \subseteq Paths
  BY DEF TypeOK, Paths
<1>2. \A n \in Names : HasRow(n) => rows[n].id \in Nat \ {NoId} /\ rows[n].id < nextId
  BY <1>1 DEF AnchorInv, RowsInv, Rows
<1>3. \A n, m \in Names : HasRow(n) /\ rows[n].id = rows[m].id => n = m
  BY <1>1 DEF AnchorInv, RowsInv
<1>4. \A c \in Clients : job[c] \in Jobs /\ Safe(job[c], pc[c])
  BY DEF TypeOK, AnchorInv
<1>5. QED
  BY <1>1, <1>2, <1>3, <1>4 DEF Safe, Jobs, P

\* The four changes of the rows, as the rows of the names see them.
DeletesRow(i) == \A n \in Names : rows'[n] = IF rows[n].id = i THEN NoRow ELSE rows[n]
WritesRow(n, row) == /\ rows'[n] = row
                     /\ \A m \in Names : m # n => rows'[m] = rows[m]

\* A listing, a lock or an unlock is still alone after a step of a request.
LEMMA ContinueAlone ==
    ASSUME TypeOK, Alone, NEW c \in Clients, Continue(c)
    PROVE  Alone'
<1>1. /\ pc[c] # "idle"
      /\ \A d \in Clients : d # c => pc'[d] = pc[d]
  BY MoveFacts
<1>2. pc'[c] \in {"list_rows", "list_prune", "set_property", "set_state"}
        => pc[c] \in {"list_rows", "list_prune", "set_property", "set_state"}
  BY DEF Continue, CreateContainer, CreateSnapshot, CreateInsert, DeleteFind, DeleteCheck,
     DeleteSubvolume, DeleteRowOf, SetProperty, SetState, ListRows, ListPrune,
     Goto, With, End, Visit, PassOver, TypeOK
<1>3. QED
  BY <1>1, <1>2 DEF Alone

\* A step of a request keeps every id with its path.
LEMMA ContinueIdsOfPaths ==
    ASSUME TypeOK, AnchorInv, Alone, IdsOfPaths, NEW c \in Clients, Continue(c)
    PROVE  IdsOfPaths'
<1>1. /\ pc[c] # "idle"
      /\ \A d \in Clients : d # c => pc'[d] = pc[d] /\ job'[d] = job[d] /\ P(d)' = P(d)
  BY MoveFacts
<1>2. /\ rows \in [Paths -> Rows] /\ nextId \in Nat \ {NoId} /\ Names \subseteq Paths
      /\ \A n \in Names : HasRow(n) => rows[n].id \in Nat \ {NoId} /\ rows[n].id < nextId
      /\ \A n, m \in Names : HasRow(n) /\ rows[n].id = rows[m].id => n = m
      /\ \A d \in Clients :
           /\ job[d].id \in Nat /\ job[d].id < nextId
           /\ job[d].target \in {"readonly", "unlocked"}
           /\ pc[d] \in Targeting => P(d) \in Names
           /\ pc[d] \in ByRow => job[d].id # NoId
  BY IdFacts
<1>3. \/ UNCHANGED rows
      \/ \E i : DeletesRow(i) /\ pc[c] \notin {"set_property", "set_state"}
      \/ \E n \in Names : WritesRow(n, [id |-> nextId, state |-> "readonly"])
                          /\ pc[c] = "insert"
      \/ \E n \in Names, st \in {"readonly", "unlocked"} :
             rows[n].id # NoId /\ WritesRow(n, [id |-> rows[n].id, state |-> st])
                          /\ pc[c] = "set_state"
  <2>1. CASE CreateInsert(c)
    <3>1. P(c) \in Names
      BY <1>2, <2>1 DEF CreateInsert, Targeting
    <3>2. QED
      BY <1>2, <2>1, <3>1 DEF CreateInsert, Insert, WritesRow
  <2>2. CASE DeleteRowOf(c) \/ ListPrune(c)
    BY <1>2, <2>2 DEF DeleteRowOf, ListPrune, DeleteRow, DeletesRow
  <2>3. CASE SetState(c)
    <3>1. P(c) \in Names /\ job[c].id # NoId /\ HasRow(P(c)) /\ rows[P(c)].id = job[c].id
      BY <1>2, <2>3 DEF SetState, Targeting, ByRow, IdsOfPaths
    <3>2. CASE rows' = [q \in Paths |-> IF rows[q].id = job[c].id
                                          THEN [rows[q] EXCEPT !.state = job[c].target] ELSE rows[q]]
      <4>1. rows'[P(c)] = [id |-> rows[P(c)].id, state |-> job[c].target]
        BY <1>2, <3>1, <3>2 DEF Rows
      <4>2. \A m \in Names : m # P(c) => rows'[m] = rows[m]
        BY <1>2, <3>1, <3>2
      <4>3. QED
        BY <1>2, <2>3, <3>1, <4>1, <4>2 DEF WritesRow, SetState
    <3>3. QED
      BY <2>3, <3>2 DEF SetState
  <2>4. CASE ~(CreateInsert(c) \/ DeleteRowOf(c) \/ ListPrune(c) \/ SetState(c))
    BY <2>4 DEF Continue, CreateContainer, CreateSnapshot, DeleteFind, DeleteCheck,
       DeleteSubvolume, SetProperty, ListRows
  <2>5. QED
    BY <2>1, <2>2, <2>3, <2>4
<1>4. \A n \in Names : HasRow(n)' =>
        /\ ~IsAnchor(n)'
        /\ \/ HasRow(n) /\ rows'[n].id = rows[n].id
           \/ rows'[n].id = nextId /\ pc[c] = "insert"
  <2>1. \A n \in Names : HasRow(n) => ~IsAnchor(n)
    BY DEF IdsOfPaths
  <2>2. CASE UNCHANGED rows
    BY <2>1, <2>2 DEF HasRow, IsAnchor
  <2>3. ASSUME NEW i, DeletesRow(i)
        PROVE  \A n \in Names : HasRow(n)' =>
                 ~IsAnchor(n)' /\ HasRow(n) /\ rows'[n].id = rows[n].id
    BY <2>1, <2>3 DEF DeletesRow, HasRow, IsAnchor
  <2>4. ASSUME NEW n \in Names, WritesRow(n, [id |-> nextId, state |-> "readonly"]), pc[c] = "insert"
        PROVE  \A m \in Names : HasRow(m)' =>
                 /\ ~IsAnchor(m)'
                 /\ \/ HasRow(m) /\ rows'[m].id = rows[m].id
                    \/ rows'[m].id = nextId
    BY <2>1, <2>4 DEF WritesRow, HasRow, IsAnchor
  <2>5. ASSUME NEW n \in Names, NEW st \in {"readonly", "unlocked"}, rows[n].id # NoId,
               WritesRow(n, [id |-> rows[n].id, state |-> st])
        PROVE  \A m \in Names : HasRow(m)' =>
                 ~IsAnchor(m)' /\ HasRow(m) /\ rows'[m].id = rows[m].id
    BY <2>1, <2>5 DEF WritesRow, HasRow, IsAnchor, NoRow
  <2>6. QED
    BY <1>3, <2>2, <2>3, <2>4, <2>5
<1>5. ASSUME NEW d \in Clients, pc'[d] \in ByRow, NEW n \in Names, HasRow(n)',
             rows'[n].id = job'[d].id
      PROVE  n = P(d)'
  <2>1. CASE pc[d] \in ByRow /\ job'[d].id = job[d].id /\ P(d)' = P(d)
    BY <1>2, <1>4, <1>5, <2>1 DEF IdsOfPaths
  <2>2. CASE d = c /\ ~(pc[c] \in ByRow /\ job'[c].id = job[c].id /\ P(c)' = P(c))
    <3>1. \/ /\ pc[c] \in ByRow /\ job'[c].id = job[c].id /\ P(c)' = P(c)
          \/ DeleteFind(c)
          \/ pc'[c] \notin ByRow
      BY <1>2 DEF Continue, CreateContainer, CreateSnapshot, CreateInsert, DeleteFind, DeleteCheck,
         DeleteSubvolume, DeleteRowOf, SetProperty, SetState, ListRows, ListPrune,
         Goto, With, End, TypeOK, ByRow, P
    <3>2. DeleteFind(c)
      BY <1>5, <2>2, <3>1
    <3>3. PICK q \in job[c].todo : HasRow(q) /\ ~IsAnchor(q) /\ Visit(c, q)
      BY <1>5, <2>2, <3>2 DEF DeleteFind, PassOver, With, End, ByRow, TypeOK
    <3>4. job'[c].id = rows[q].id /\ job'[c].path = q /\ rows' = rows
      BY <3>2, <3>3 DEF Visit, With, TypeOK, DeleteFind, Jobs
    <3>5. q \in Names
      BY <3>3, SafeRow DEF AnchorInv, TypeOK, Jobs
    <3>6. QED
      BY <1>2, <1>5, <2>2, <3>3, <3>4, <3>5 DEF P, HasRow
  <2>3. QED
    BY <1>1, <1>5, <2>1, <2>2
<1>6. ASSUME NEW d \in Clients, pc'[d] \in {"set_property", "set_state"}
      PROVE  HasRow(P(d))' /\ rows'[P(d)'].id = job'[d].id
  <2>1. d = c
    BY <1>1, <1>6 DEF Alone
  <2>2. SetProperty(c)
    BY <1>6, <2>1 DEF Continue, CreateContainer, CreateSnapshot, CreateInsert, DeleteFind,
       DeleteCheck, DeleteSubvolume, DeleteRowOf, SetProperty, SetState, ListRows, ListPrune,
       Goto, With, End, Visit, PassOver, TypeOK
  <2>3. rows' = rows /\ job'[c] = job[c] /\ pc[c] = "set_property"
    BY <1>6, <2>1, <2>2 DEF SetProperty, Goto, With, End, TypeOK
  <2>4. QED
    BY <2>1, <2>3 DEF IdsOfPaths, HasRow, P
<1>7. QED
  BY <1>4, <1>5, <1>6 DEF IdsOfPaths

\* A step of a request keeps what a reconcile pass knows.
LEMMA ContinueListingInv ==
    ASSUME TypeOK, AnchorInv, Alone, IdsOfPaths, ListingInv, NEW c \in Clients, Continue(c)
    PROVE  ListingInv'
<1>1. /\ pc[c] # "idle"
      /\ \A d \in Clients : d # c => pc'[d] = pc[d]
      /\ faults \in Nat /\ faults' >= faults
      /\ faults' = 0 => ~Fault /\ UNCHANGED bounds
      /\ faults' # faults => Fault
  BY MoveFacts
<1>2. \A d \in Clients : pc'[d] \in {"list_rows", "list_prune"} => d = c
  BY <1>1 DEF Alone
<1>3. pc'[c] # "list_rows" /\ (pc'[c] = "list_prune" => ListRows(c) \/ ListPrune(c))
  BY DEF Continue, CreateContainer, CreateSnapshot, CreateInsert, DeleteFind, DeleteCheck,
     DeleteSubvolume, DeleteRowOf, SetProperty, SetState, ListRows, ListPrune,
     Goto, With, End, Visit, PassOver, TypeOK
<1>4. /\ Names \subseteq Paths
      /\ \A n \in Names : HasRow(n) => rows[n].id \in Nat \ {NoId} /\ rows[n].id < nextId
      /\ \A n, m \in Paths : HasRow(n) /\ rows[n].id = rows[m].id => n = m
      /\ job[c] \in Jobs
  BY IdFacts DEF AnchorInv, RowsInv, TypeOK
<1>5. faults' = 0 => faults = 0
  BY <1>1
<1>6. SUFFICES ASSUME NEW n \in Names, pc'[c] = "list_prune", HasRow(n)'
               PROVE  /\ rows'[n].id \in job'[c].stale => ~OnDisk(n)'
                      /\ faults' = 0 => n \in job'[c].listing \/ rows'[n].id \in job'[c].stale
  BY <1>2, <1>3 DEF ListingInv
<1>7. CASE ListRows(c)
  <2>1. /\ job'[c].stale = StaleRows(c) /\ job'[c].listing = job[c].listing
        /\ rows' = rows /\ disk' = disk
    BY <1>4, <1>6, <1>7 DEF ListRows, With, End, TypeOK, Jobs
  <2>2. IF job[c].listing = {} THEN faults > 0 ELSE \A m \in Names : OnDisk(m) => m \in job[c].listing
    BY <1>7 DEF ListingInv, ListRows
  <2>3. rows[n].id \in StaleRows(c) => n \notin job[c].listing /\ job[c].listing # {}
    BY <1>4 DEF StaleRows
  <2>4. HasRow(n) /\ ~IsAnchor(n)
    BY <1>6, <2>1 DEF HasRow, IdsOfPaths
  <2>5. job[c].listing # {} /\ n \notin job[c].listing => rows[n].id \in StaleRows(c)
    BY <1>4, <2>4 DEF StaleRows
  <2>6. QED
    BY <1>5, <2>1, <2>2, <2>3, <2>5 DEF OnDisk
<1>8. CASE ListPrune(c)
  <2>1. PICK i \in job[c].stale :
           /\ With(c, [job[c] EXCEPT !.stale = @ \ {i}], "list_prune")
           /\ \/ DeleteRow(c, i) /\ UNCHANGED bounds
              \/ Fault /\ UNCHANGED rows
    BY <1>6, <1>8 DEF ListPrune, End, With, TypeOK
  <2>2. job'[c].stale = job[c].stale \ {i} /\ job'[c].listing = job[c].listing
    BY <1>4, <2>1 DEF With, TypeOK, Jobs
  <2>3. disk' = disk /\ pc[c] = "list_prune"
    BY <1>8 DEF ListPrune
  <2>4. /\ rows'[n] = rows[n] /\ HasRow(n)
        /\ rows[n].id = i => Fault
    BY <1>4, <1>6, <2>1 DEF DeleteRow, HasRow
  <2>5. /\ rows[n].id \in job[c].stale => ~OnDisk(n)
        /\ faults = 0 => n \in job[c].listing \/ rows[n].id \in job[c].stale
    BY <2>3, <2>4 DEF ListingInv
  <2>6. QED
    BY <1>1, <1>5, <2>2, <2>3, <2>4, <2>5 DEF OnDisk
<1>9. QED
  BY <1>3, <1>6, <1>7, <1>8

\* While nothing fails, a step of a request keeps rows and disk in line.
LEMMA ContinueRecordsInv ==
    ASSUME TypeOK, AnchorInv, OrderlyInv, NEW c \in Clients, Continue(c)
    PROVE  RecordsInv'
<1> SUFFICES ASSUME faults' = 0, crashes' = 0
             PROVE  RecordsInv'
  BY DEF RecordsInv
<1> USE DEF CreateContainer, CreateSnapshot, CreateInsert, DeleteFind, DeleteCheck,
     DeleteSubvolume, DeleteRowOf, SetProperty, SetState, ListRows, ListPrune
<1>1. /\ pc[c] # "idle"
      /\ \A d \in Clients : d # c => pc'[d] = pc[d] /\ job'[d] = job[d] /\ P(d)' = P(d)
      /\ ~Fault /\ faults = 0 /\ crashes = 0
  BY MoveFacts
<1>2. /\ Names \subseteq Paths /\ rows \in [Paths -> Rows] /\ nextId \in Nat \ {NoId}
      /\ \A n \in Names : HasRow(n) => rows[n].id \in Nat \ {NoId} /\ rows[n].id < nextId
      /\ \A n, m \in Names : HasRow(n) /\ rows[n].id = rows[m].id => n = m
      /\ \A d \in Clients :
           /\ job[d].id \in Nat /\ job[d].id < nextId
           /\ job[d].target \in {"readonly", "unlocked"}
           /\ \A i \in job[d].stale : i # NoId
           /\ pc[d] \in Targeting => P(d) \in Names
           /\ pc[d] \in ByRow => job[d].id # NoId
      /\ disk \in [Paths -> {"absent", "ro", "rw"}]
  BY IdFacts DEF TypeOK
<1>3. \A n \in Names : OnDisk(n) =>
        /\ HasRow(n) \/ Creating(n)
        /\ \A d \in Clients :
             pc[d] = "delete_row" /\ P(d) = n => rows[n].id # job[d].id \/ Creating(n)
        /\ n \notin nested =>
             /\ Creating(n) => disk[n] = "ro"
             /\ \/ HasRow(n) => (disk[n] = "ro" <=> rows[n].state = "readonly")
                \/ Creating(n) \/ Setting(n)
             /\ \A d \in Clients : pc[d] = "set_state" /\ P(d) = n =>
                  (disk[n] = "ro" <=> job[d].target = "readonly")
  BY <1>1 DEF OrderlyInv, RecordsInv
<1>4. \A d \in Clients : d # c => pc[d] \notin {"set_property", "set_state"}
  BY <1>1 DEF OrderlyInv, Alone
<1>5. pc[c] \in {"set_property", "set_state", "list_rows", "list_prune"} =>
        \A d \in Clients : d # c => pc[d] = "idle"
  BY DEF OrderlyInv, Alone
<1>6. \A n \in Names :
        /\ pc[c] # "insert" \/ P(c) # n => (Creating(n) => Creating(n)')
        /\ pc'[c] # "insert" \/ P(c)' # n => (Creating(n)' => Creating(n))
  BY <1>1 DEF Creating
<1>7. ASSUME NEW n \in Names, OnDisk(n)', disk'[n] = disk[n], nested' = nested, rows'[n] = rows[n],
             Creating(n)' = Creating(n),
             pc[c] = "set_state" => P(c) # n,
             pc'[c] = "delete_row" => P(c)' # n, pc'[c] = "set_state" => P(c)' # n
      PROVE  /\ HasRow(n)' \/ Creating(n)'
             /\ \A d \in Clients :
                  pc'[d] = "delete_row" /\ P(d)' = n => rows'[n].id # job'[d].id \/ Creating(n)'
             /\ n \notin nested' =>
                  /\ Creating(n)' => disk'[n] = "ro"
                  /\ \/ HasRow(n)' => (disk'[n] = "ro" <=> rows'[n].state = "readonly")
                     \/ Creating(n)' \/ Setting(n)'
                  /\ \A d \in Clients : pc'[d] = "set_state" /\ P(d)' = n =>
                       (disk'[n] = "ro" <=> job'[d].target = "readonly")
  <2>1. OnDisk(n) /\ ~Setting(n) /\ HasRow(n)' = HasRow(n)
    BY <1>4, <1>7 DEF OnDisk, Setting, HasRow
  <2>2. \A d \in Clients : pc'[d] = "delete_row" /\ P(d)' = n =>
          pc[d] = "delete_row" /\ P(d) = n /\ job'[d] = job[d]
    BY <1>1, <1>7
  <2>3. \A d \in Clients : ~(pc'[d] = "set_state" /\ P(d)' = n)
    BY <1>1, <1>4, <1>7
  <2>4. QED
    BY <1>3, <1>7, <2>1, <2>2, <2>3
<1>8. SUFFICES ASSUME NEW n \in Names, OnDisk(n)'
               PROVE  /\ HasRow(n)' \/ Creating(n)'
                      /\ \A d \in Clients : pc'[d] = "delete_row" /\ P(d)' = n =>
                           rows'[n].id # job'[d].id \/ Creating(n)'
                      /\ n \notin nested' =>
                           /\ Creating(n)' => disk'[n] = "ro"
                           /\ \/ HasRow(n)' => (disk'[n] = "ro" <=> rows'[n].state = "readonly")
                              \/ Creating(n)' \/ Setting(n)'
                           /\ \A d \in Clients : pc'[d] = "set_state" /\ P(d)' = n =>
                                (disk'[n] = "ro" <=> job'[d].target = "readonly")
  BY DEF RecordsInv
<1>9. CASE CreateContainer(c) \/ DeleteFind(c) \/ ListRows(c)
  <2>1. /\ UNCHANGED <<disk, nested, rows>>
        /\ pc[c] \notin {"insert", "set_state"}
        /\ pc'[c] \notin {"insert", "delete_row", "set_state"}
    BY <1>9 DEF Goto, With, End, Visit, PassOver, TypeOK
  <2>2. Creating(n)' = Creating(n)
    BY <1>6, <2>1 DEF Creating
  <2>3. QED
    BY <1>7, <1>8, <2>1, <2>2
<1>10. CASE CreateSnapshot(c)
  <2>1. rows' = rows /\ pc[c] = "snapshot" /\ P(c) \in Names
    BY <1>2, <1>10 DEF Targeting
  <2>2. CASE pc'[c] = "idle" /\ UNCHANGED <<disk, nested>>
    <3>1. Creating(n)' = Creating(n)
      BY <1>6, <2>1, <2>2 DEF Creating
    <3>2. QED
      BY <1>7, <1>8, <2>1, <2>2, <3>1
  <2>3. CASE pc'[c] = "insert" /\ job' = job /\ n # P(c)
    <3>1. P(c)' = P(c)
      BY <2>3 DEF P
    <3>2. Creating(n)' = Creating(n)
      BY <1>6, <2>1, <2>3, <3>1 DEF Creating
    <3>3. disk'[n] = disk[n] /\ (n \in nested' <=> n \in nested)
      BY <1>2, <1>10, <2>1, <2>3
    <3>4. \A d \in Clients : pc'[d] = "delete_row" /\ P(d)' = n =>
            pc[d] = "delete_row" /\ P(d) = n /\ job'[d] = job[d]
      BY <1>1, <2>3
    <3>5. \A d \in Clients : pc'[d] # "set_state" /\ pc[d] # "set_state"
      BY <1>1, <1>4, <2>1, <2>3
    <3>6. OnDisk(n) /\ HasRow(n)' = HasRow(n) /\ ~Setting(n)
      BY <1>8, <2>1, <3>3, <3>5 DEF OnDisk, HasRow, Setting
    <3>7. QED
      BY <1>3, <2>1, <3>2, <3>3, <3>4, <3>5, <3>6
  <2>4. CASE pc'[c] = "insert" /\ job' = job /\ n = P(c) /\ (n \notin nested' => disk'[n] = "ro")
    <3>1. Creating(n)'
      BY <2>4 DEF Creating, P
    <3>2. \A d \in Clients : pc'[d] # "set_state"
      BY <1>1, <1>4, <2>4
    <3>3. QED
      BY <2>4, <3>1, <3>2
  <2>5. \/ pc'[c] = "idle" /\ UNCHANGED <<disk, nested>>
        \/ pc'[c] = "insert" /\ job' = job /\ (P(c) \in nested' \/ disk'[P(c)] = "ro")
    BY <1>1, <1>2, <1>10, <2>1 DEF Goto, End, With, TypeOK
  <2>6. QED
    BY <2>2, <2>3, <2>4, <2>5
<1>11. CASE CreateInsert(c)
  <2>1. /\ P(c) \in Names /\ pc[c] = "insert" /\ pc'[c] = "idle" /\ UNCHANGED <<disk, nested>>
        /\ rows'[P(c)] = [id |-> nextId, state |-> "readonly"]
        /\ \A m \in Names : m # P(c) => rows'[m] = rows[m]
    BY <1>1, <1>2, <1>11 DEF Insert, End, With, TypeOK, Targeting
  <2>2. CASE n # P(c)
    <3>1. Creating(n)' = Creating(n)
      BY <1>6, <2>1, <2>2 DEF Creating
    <3>2. QED
      BY <1>7, <1>8, <2>1, <2>2, <3>1
  <2>3. CASE n = P(c)
    <3>1. Creating(n) /\ OnDisk(n)
      BY <1>8, <2>1, <2>3 DEF Creating, OnDisk
    <3>2. n \notin nested => disk[n] = "ro"
      BY <1>3, <3>1
    <3>3. HasRow(n)' /\ rows'[n].id = nextId /\ rows'[n].state = "readonly"
      BY <1>2, <2>1, <2>3 DEF HasRow, NoRow
    <3>4. \A d \in Clients : pc'[d] = "delete_row" => job'[d].id # nextId
      BY <1>1, <1>2, <2>1
    <3>5. \A d \in Clients : pc'[d] # "set_state"
      BY <1>1, <1>4, <2>1
    <3>6. QED
      BY <2>1, <3>2, <3>3, <3>4, <3>5
  <2>4. QED
    BY <2>2, <2>3
<1>12. CASE DeleteCheck(c) \/ DeleteSubvolume(c)
  <2>1. /\ UNCHANGED <<rows, nested, job>> /\ P(c)' = P(c) /\ P(c) \in Names
        /\ pc[c] \in {"delete_check", "delete_subvolume"}
        /\ pc'[c] \in {"delete_subvolume", "delete_find", "delete_row"}
        /\ pc'[c] = "delete_row" => ~OnDisk(P(c))'
        /\ disk'[n] = disk[n] \/ ~OnDisk(n)'
    BY <1>2, <1>12 DEF Goto, TypeOK, Targeting, P, OnDisk
  <2>2. Creating(n)' = Creating(n)
    BY <1>6, <2>1 DEF Creating
  <2>3. QED
    BY <1>7, <1>8, <2>1, <2>2
<1>13. CASE DeleteRowOf(c)
  <2>1. /\ UNCHANGED <<disk, nested, job>> /\ pc[c] = "delete_row" /\ pc'[c] = "delete_find"
        /\ \A m \in Names : rows'[m] = IF rows[m].id = job[c].id THEN NoRow ELSE rows[m]
    BY <1>1, <1>2, <1>13 DEF DeleteRow, Goto, TypeOK
  <2>2. Creating(n)' = Creating(n)
    BY <1>6, <2>1 DEF Creating
  <2>3. CASE rows[n].id # job[c].id
    BY <1>7, <1>8, <2>1, <2>2, <2>3
  <2>4. CASE rows[n].id = job[c].id
    <3>1. job[c].id # NoId /\ HasRow(n) /\ OnDisk(n)
      BY <1>2, <1>8, <2>1, <2>4 DEF ByRow, HasRow, NoRow, OnDisk
    <3>2. n = P(c)
      BY <2>1, <2>4, <3>1 DEF OrderlyInv, IdsOfPaths, ByRow
    <3>3. Creating(n)
      BY <1>3, <2>1, <2>4, <3>1, <3>2
    <3>4. \A d \in Clients : pc'[d] # "set_state"
      BY <1>1, <1>4, <2>1
    <3>5. QED
      BY <1>3, <2>1, <2>2, <3>1, <3>3, <3>4
  <2>5. QED
    BY <2>3, <2>4
<1>14. CASE SetProperty(c)
  <2>1. /\ UNCHANGED <<rows, nested>> /\ pc[c] = "set_property" /\ P(c) \in Names
        /\ pc'[c] \in {"idle", "set_state"} /\ \A d \in Clients : d # c => pc'[d] = "idle"
    BY <1>1, <1>2, <1>5, <1>14 DEF Goto, End, With, TypeOK, Targeting
  <2>2. Creating(n)' = Creating(n)
    BY <1>6, <2>1 DEF Creating
  <2>3. CASE pc'[c] = "idle" /\ disk' = disk
    BY <1>7, <1>8, <2>1, <2>2, <2>3
  <2>4. CASE /\ pc'[c] = "set_state" /\ job' = job
             /\ disk' = [disk EXCEPT ![P(c)] = IF job[c].target = "readonly" THEN "ro" ELSE "rw"]
    <3>1. P(c)' = P(c)
      BY <2>4 DEF P
    <3>2. CASE n # P(c)
      BY <1>2, <1>7, <1>8, <2>1, <2>2, <2>4, <3>1, <3>2
    <3>3. CASE n = P(c)
      <4>1. HasRow(n)' /\ Setting(n)' /\ ~Creating(n)'
        BY <2>1, <2>4, <3>1, <3>3 DEF OrderlyInv, IdsOfPaths, HasRow, Setting, Creating
      <4>2. disk'[n] = "ro" <=> job[c].target = "readonly"
        BY <1>2, <2>4, <3>3
      <4>3. QED
        BY <2>1, <2>4, <4>1, <4>2
    <3>4. QED
      BY <3>2, <3>3
  <2>5. QED
    BY <1>1, <1>14, <2>3, <2>4 DEF Goto, End, With, TypeOK
<1>15. CASE SetState(c)
  <2>1. /\ UNCHANGED <<disk, nested>> /\ pc[c] = "set_state" /\ P(c) \in Names
        /\ \A d \in Clients : pc'[d] = "idle" /\ (d # c => pc[d] = "idle")
    BY <1>1, <1>2, <1>5, <1>15 DEF End, With, TypeOK, Targeting
  <2>2. HasRow(P(c)) /\ rows[P(c)].id = job[c].id /\ job[c].id # NoId
    BY <1>2, <2>1 DEF OrderlyInv, IdsOfPaths, ByRow
  <2>3. rows' = [q \in Paths |-> IF rows[q].id = job[c].id
                                   THEN [rows[q] EXCEPT !.state = job[c].target] ELSE rows[q]]
    BY <1>1, <1>15
  <2>4. ~Creating(n) /\ ~Creating(n)' /\ Creating(n)' = Creating(n)
    BY <2>1 DEF Creating
  <2>5. CASE n # P(c)
    <3>1. rows'[n] = rows[n]
      BY <1>2, <2>1, <2>2, <2>3, <2>5
    <3>2. QED
      BY <1>7, <1>8, <2>1, <2>4, <2>5, <3>1
  <2>6. CASE n = P(c)
    <3>1. rows'[n] = [id |-> rows[n].id, state |-> job[c].target]
      BY <1>2, <2>1, <2>2, <2>3, <2>6 DEF Rows
    <3>2. HasRow(n)'
      BY <2>2, <2>6, <3>1 DEF HasRow, NoRow
    <3>3. OnDisk(n) /\ (n \notin nested => (disk[n] = "ro" <=> job[c].target = "readonly"))
      BY <1>3, <1>8, <2>1, <2>6 DEF OnDisk
    <3>4. QED
      BY <2>1, <2>4, <3>1, <3>2, <3>3
  <2>7. QED
    BY <2>5, <2>6
<1>16. CASE ListPrune(c)
  <2>1. /\ UNCHANGED <<disk, nested>> /\ pc[c] = "list_prune" /\ pc'[c] \in {"list_prune", "idle"}
        /\ OnDisk(n)
    BY <1>8, <1>16 DEF End, With, TypeOK, OnDisk
  <2>2. rows'[n] = rows[n]
    <3>1. CASE \E i \in job[c].stale : DeleteRow(c, i)
      <4>1. PICK i \in job[c].stale : DeleteRow(c, i)
        BY <3>1
      <4>2. HasRow(n) => rows[n].id # i
        BY <2>1 DEF OrderlyInv, ListingInv
      <4>3. QED
        BY <1>2, <4>1, <4>2 DEF DeleteRow, HasRow, NoRow
    <3>2. CASE UNCHANGED rows
      BY <3>2
    <3>3. QED
      BY <1>1, <1>16, <3>1, <3>2
  <2>3. Creating(n)' = Creating(n)
    BY <1>6, <2>1 DEF Creating
  <2>4. QED
    BY <1>7, <1>8, <2>1, <2>2, <2>3
<1>17. QED
  BY <1>9, <1>10, <1>11, <1>12, <1>13, <1>14, <1>15, <1>16 DEF Continue

\* So does a request that begins when it may.
LEMMA BeginOrderlyInv ==
    ASSUME TypeOK, AnchorInv, OrderlyInv, NEW c \in Clients,
           \/ Quiet /\ (ListBegin(c) \/ SetRo(c))
           \/ (\A d \in Clients : pc[d] \in CreateOrDelete) /\ (Create(c) \/ Delete(c))
    PROVE  OrderlyInv'
<1>1. /\ UNCHANGED <<disk, nested, rows, crashes>> /\ pc[c] = "idle"
      /\ pc'[c] \in {"container", "snapshot", "delete_find", "set_property", "list_rows"}
      /\ \A d \in Clients : d # c => pc'[d] = pc[d] /\ job'[d] = job[d] /\ P(d)' = P(d)
      /\ UNCHANGED bounds \/ Fault
  BY DEF ListBegin, SetRo, SetRoBegin, Create, CreateBegin, Delete, DeleteBegin,
     With, TypeOK, P, bounds, Fault
<1>2. faults \in Nat /\ faults' \in Nat /\ faults' >= faults /\ (faults' = 0 => faults = 0)
  BY <1>1, LimitsAssumption DEF TypeOK, bounds, Fault
<1>3. \A d \in Clients :
        /\ pc'[c] \in {"set_property", "list_rows"} /\ d # c => pc'[d] = "idle"
        /\ d # c => pc[d] \notin {"list_rows", "list_prune", "set_property", "set_state"}
  BY <1>1 DEF Quiet, CreateOrDelete, Create, CreateBegin, Delete, DeleteBegin, With, TypeOK
<1>4. Alone'
  BY <1>1, <1>3 DEF Alone
<1>5. /\ \A n \in Names : HasRow(n)' = HasRow(n) /\ IsAnchor(n)' = IsAnchor(n)
                          /\ OnDisk(n)' = OnDisk(n)
      /\ \A n : Creating(n)' = Creating(n) /\ Setting(n)' = Setting(n)
  BY <1>1 DEF HasRow, IsAnchor, OnDisk, Creating, Setting
<1>6. pc'[c] = "set_property" =>
        HasRow(P(c))' /\ rows'[P(c)'].id = job'[c].id /\ P(c)' \in Names
  <2>1. CASE SetRo(c)
    <3>1. PICK q \in Paths, st \in {"readonly", "unlocked"} : SetRoBegin(c, q, st)
      BY <2>1 DEF SetRo
    <3>2. job'[c].path = q /\ job'[c].id = rows[q].id
      BY <3>1 DEF SetRoBegin, With, TypeOK, NoJob
    <3>3. HasRow(q) /\ q \in Names
      BY <3>1, SafeRow DEF SetRoBegin, AnchorInv
    <3>4. QED
      BY <1>1, <3>2, <3>3 DEF HasRow, P
  <2>2. CASE ~SetRo(c)
    BY <2>2 DEF ListBegin, Create, CreateBegin, Delete, DeleteBegin, With, TypeOK
  <2>3. QED
    BY <2>1, <2>2
<1>7. IdsOfPaths'
  <2>1. \A n, m \in Names : HasRow(n) /\ rows[n].id = rows[m].id => n = m
    BY IdFacts
  <2>2. ASSUME NEW d \in Clients, pc'[d] \in ByRow, NEW n \in Names, HasRow(n)', rows'[n].id = job'[d].id
        PROVE  n = P(d)'
    <3>1. CASE d # c
      BY <1>1, <1>5, <2>2, <3>1 DEF OrderlyInv, IdsOfPaths
    <3>2. CASE d = c
      BY <1>1, <1>5, <1>6, <2>1, <2>2, <3>2 DEF ByRow
    <3>3. QED
      BY <3>1, <3>2
  <2>3. \A d \in Clients : pc'[d] \in {"set_property", "set_state"} => d = c /\ pc'[c] = "set_property"
    BY <1>1, <1>3
  <2>4. QED
    BY <1>5, <1>6, <2>2, <2>3 DEF OrderlyInv, IdsOfPaths
<1>8. ListingInv'
  <2>1. \A d \in Clients : pc'[d] \in {"list_rows", "list_prune"} => d = c /\ pc'[c] = "list_rows"
    BY <1>1, <1>3
  <2>2. ASSUME pc'[c] = "list_rows"
        PROVE  IF job'[c].listing = {} THEN faults' > 0
               ELSE \A n \in Names : OnDisk(n)' => n \in job'[c].listing
    <3>1. ListBegin(c)
      BY <2>2 DEF SetRo, SetRoBegin, Create, CreateBegin, Delete, DeleteBegin, With, TypeOK
    <3>2. PICK printed \in {{}, {q \in Paths : OnDisk(q)} \cup {Top}} :
            /\ With(c, [NoJob EXCEPT !.listing = printed], "list_rows")
            /\ IF printed = {} THEN Fault ELSE UNCHANGED bounds
      BY <3>1 DEF ListBegin
    <3>3. job'[c].listing = printed
      BY <3>2 DEF With, TypeOK, NoJob
    <3>4. printed = {} => faults' > 0
      BY <1>2, <3>2 DEF Fault
    <3>5. printed # {} => \A n \in Names : OnDisk(n) => n \in printed
      BY DEF Paths
    <3>6. QED
      BY <1>5, <3>3, <3>4, <3>5
  <2>3. QED
    BY <2>1, <2>2 DEF ListingInv
<1>9. RecordsInv'
  <2>1. \A d \in Clients : pc'[d] \in {"delete_row", "set_state"} =>
          pc[d] = pc'[d] /\ job'[d] = job[d] /\ P(d)' = P(d)
    BY <1>1
  <2>2. QED
    BY <1>1, <1>2, <1>5, <2>1 DEF OrderlyInv, RecordsInv
<1>10. QED
  BY <1>4, <1>7, <1>8, <1>9 DEF OrderlyInv

\* So does whatever happens around the requests.
LEMMA EnvironmentOrderlyInv ==
    ASSUME TypeOK, AnchorInv, OrderlyInv, Environment
    PROVE  OrderlyInv'
<1>1. Names \subseteq Paths /\ Names \cap Anchors = {} /\ Anchors \subseteq Paths
      /\ rows \in [Paths -> Rows] /\ disk \in [Paths -> {"absent", "ro", "rw"}]
  BY PathsAssumption DEF Paths, TypeOK
<1>2. CASE \E c \in Clients : Crash(c)
  <2>1. PICK c \in Clients : Crash(c)
    BY <1>2
  <2>2. /\ crashes' # 0 /\ UNCHANGED <<disk, nested, rows, faults>> /\ pc'[c] = "idle"
        /\ \A d \in Clients : d # c => pc'[d] = pc[d] /\ job'[d] = job[d] /\ P(d)' = P(d)
    BY <2>1, LimitsAssumption DEF Crash, End, With, TypeOK, P
  <2>3. Alone'
    BY <2>2 DEF OrderlyInv, Alone
  <2>4. IdsOfPaths'
    BY <2>2 DEF OrderlyInv, IdsOfPaths, ByRow, HasRow, IsAnchor
  <2>5. ListingInv'
    BY <2>2 DEF OrderlyInv, ListingInv, HasRow, OnDisk
  <2>6. RecordsInv'
    BY <2>2 DEF RecordsInv
  <2>7. QED
    BY <2>3, <2>4, <2>5, <2>6 DEF OrderlyInv
<1>3. CASE ~\E c \in Clients : Crash(c)
  <2>1. /\ UNCHANGED <<nested, pc, job, faults, crashes>>
        /\ \A n \in Names : rows'[n] = rows[n] /\ (disk'[n] = disk[n] \/ disk'[n] = "absent")
    BY <1>1, <1>3 DEF Environment, AnchorRename, AnchorRow, AnchorRevert, GoneOutside, Insert, bounds
  <2>2. /\ \A n \in Names : HasRow(n)' = HasRow(n) /\ IsAnchor(n)' = IsAnchor(n)
        /\ \A n \in Names : OnDisk(n)' => OnDisk(n) /\ disk'[n] = disk[n]
        /\ \A n : Creating(n)' = Creating(n) /\ Setting(n)' = Setting(n)
        /\ \A c \in Clients : P(c)' = P(c)
    BY <2>1 DEF HasRow, IsAnchor, OnDisk, Creating, Setting, P
  <2>3. Alone'
    BY <2>1 DEF OrderlyInv, Alone
  <2>4. IdsOfPaths'
    <3>1. \A c \in Clients : pc[c] \in {"set_property", "set_state"} => P(c) \in Names
      BY IdFacts DEF Targeting
    <3>2. QED
      BY <2>1, <2>2, <3>1 DEF OrderlyInv, IdsOfPaths
  <2>5. ListingInv'
    BY <2>1, <2>2 DEF OrderlyInv, ListingInv
  <2>6. RecordsInv'
    BY <2>1, <2>2 DEF OrderlyInv, RecordsInv
  <2>7. QED
    BY <2>3, <2>4, <2>5, <2>6 DEF OrderlyInv
<1>4. QED
  BY <1>2, <1>3

\* Every step of OrderlySpec keeps OrderlyInv.
LEMMA NextOrderlyInv ==
    TypeOK /\ AnchorInv /\ OrderlyInv /\ [OrderlyNext]_vars => OrderlyInv'
<1>1. ASSUME TypeOK, AnchorInv, OrderlyInv, NEW c \in Clients, Continue(c)
      PROVE  OrderlyInv'
  BY <1>1, ContinueAlone, ContinueIdsOfPaths, ContinueListingInv, ContinueRecordsInv DEF OrderlyInv
<1>2. ASSUME OrderlyInv, UNCHANGED vars
      PROVE  OrderlyInv'
  BY <1>2 DEF vars, bounds, OrderlyInv, Alone, IdsOfPaths, ListingInv, RecordsInv, HasRow,
     IsAnchor, OnDisk, Creating, Setting, P
<1>3. QED
  BY <1>1, <1>2, BeginOrderlyInv, EnvironmentOrderlyInv DEF OrderlyNext

\* An orderly helper is one of those that the code allows, and starts with nothing.
LEMMA OrderlyBasics ==
    /\ Init => OrderlyInv
    /\ OrderlySpec => [](TypeOK /\ AnchorInv)
<1>1. Init => OrderlyInv
  <2> SUFFICES ASSUME Init PROVE OrderlyInv
    OBVIOUS
  <2>1. \A c \in Clients : pc[c] = "idle"
    BY DEF Init
  <2>2. \A n \in Names : ~HasRow(n) /\ ~OnDisk(n)
    BY DEF Init, Paths, HasRow, OnDisk
  <2>3. QED
    BY <2>1, <2>2 DEF OrderlyInv, Alone, IdsOfPaths, ListingInv, RecordsInv, ByRow
<1>2. OrderlyNext => Next
  BY DEF OrderlyNext, Next
<1>3. (TypeOK /\ AnchorInv) /\ [OrderlyNext]_vars => (TypeOK /\ AnchorInv)'
  BY <1>2, AnyStep
<1>4. OrderlySpec => [](TypeOK /\ AnchorInv)
  BY InitInv, <1>3, PTL DEF OrderlySpec
<1>5. QED
  BY <1>1, <1>4

\* OrderlyInv holds in every state of OrderlySpec.
LEMMA AlwaysOrderlyInv == OrderlySpec => [](TypeOK /\ AnchorInv /\ OrderlyInv)
  BY OrderlyBasics, NextOrderlyInv, PTL DEF OrderlySpec

\* However creations and deletions overlap: while nothing fails, every snapshot on disk
\* has its row once the requests have ended.
THEOREM SnapshotsAreRecorded == OrderlySpec => []NoOrphans
<1>1. OrderlyInv => NoOrphans
  BY DEF OrderlyInv, RecordsInv, NoOrphans, Quiet, Creating
<1>2. QED
  BY <1>1, AlwaysOrderlyInv, PTL

\* And its row tells a read-only snapshot from an unlocked one.
THEOREM LocksAreRecorded == OrderlySpec => []LockTruthful
<1>1. TypeOK /\ AnchorInv /\ OrderlyInv => LockTruthful
  BY DEF OrderlyInv, RecordsInv, LockTruthful, Quiet, Creating, Setting
<1>2. QED
  BY <1>1, AlwaysOrderlyInv, PTL

\* A listing that has the helper for itself prunes only rows whose subvolume is gone,
\* whatever fails, dies or disappears around it.
THEOREM PruneIsRight == OrderlySpec => PruneOnlyDeleted
<1>1. ASSUME TypeOK, AnchorInv, OrderlyInv, [OrderlyNext]_vars, NEW c \in Clients, NEW n \in Names,
             pc[c] = "list_prune", pc'[c] = pc[c], HasRow(n), rows'[n] = NoRow
      PROVE  ~OnDisk(n)
  <2>1. n \in Paths /\ rows'[n] # rows[n]
    BY <1>1 DEF Paths, HasRow
  <2>2. ~UNCHANGED vars
    BY <2>1 DEF vars
  <2>3. ~Environment
    BY <1>1, <2>1, PathsAssumption DEF Environment, AnchorRename, AnchorRow, AnchorRevert,
       GoneOutside, Crash, Insert, TypeOK, Paths
  <2>4. PICK d \in Clients : Continue(d)
    BY <1>1, <2>1, <2>2, <2>3 DEF OrderlyNext, ListBegin, SetRo, SetRoBegin, Create, CreateBegin,
       Delete, DeleteBegin
  <2>5. d = c
    BY <1>1, <2>4, MoveFacts DEF OrderlyInv, Alone
  <2>6. PICK i \in job[c].stale : DeleteRow(c, i)
    BY <1>1, <2>1, <2>4, <2>5 DEF Continue, CreateContainer, CreateSnapshot, CreateInsert,
       DeleteFind, DeleteCheck, DeleteSubvolume, DeleteRowOf, SetProperty, SetState, ListRows,
       ListPrune
  <2>7. rows[n].id = i
    BY <2>1, <2>6 DEF DeleteRow
  <2>8. QED
    BY <1>1, <2>6, <2>7 DEF OrderlyInv, ListingInv
<1>2. TypeOK /\ AnchorInv /\ OrderlyInv /\ [OrderlyNext]_vars =>
        [\A c \in Clients, n \in Names :
           pc[c] = "list_prune" /\ pc'[c] = pc[c] /\ HasRow(n) /\ rows'[n] = NoRow
             => ~OnDisk(n)]_vars
  BY <1>1
<1>3. QED
  BY <1>2, AlwaysOrderlyInv, PTL DEF OrderlySpec, PruneOnlyDeleted

\* And once it has ended undisturbed, every row that is left was in its listing.
THEOREM ListingIsComplete == OrderlySpec => ListReconciles
<1>1. ASSUME TypeOK, AnchorInv, OrderlyInv, [OrderlyNext]_vars, NEW c \in Clients, NEW n \in Names,
             pc[c] = "list_prune", pc'[c] = "idle", crashes' = crashes, faults = 0, HasRow(n)
      PROVE  n \in job[c].listing
  <2>1. ~UNCHANGED vars
    BY <1>1 DEF vars
  <2>2. ~Environment
    BY <1>1, LimitsAssumption DEF Environment, AnchorRename, AnchorRow, AnchorRevert, GoneOutside,
       Crash, TypeOK
  <2>3. \A d \in Clients : ~(ListBegin(d) \/ SetRo(d) \/ Create(d) \/ Delete(d))
    BY <1>1 DEF ListBegin, SetRo, SetRoBegin, Create, CreateBegin, Delete, DeleteBegin, With, TypeOK
  <2>4. PICK d \in Clients : Continue(d)
    BY <1>1, <2>1, <2>2, <2>3 DEF OrderlyNext
  <2>5. d = c
    BY <1>1, <2>4, MoveFacts DEF OrderlyInv, Alone
  <2>6. job[c].stale = {}
    BY <1>1, <2>4, <2>5 DEF Continue, CreateContainer, CreateSnapshot, CreateInsert,
       DeleteFind, DeleteCheck, DeleteSubvolume, DeleteRowOf, SetProperty, SetState, ListRows,
       ListPrune, With, End, TypeOK
  <2>7. QED
    BY <1>1, <2>6 DEF OrderlyInv, ListingInv
<1>2. TypeOK /\ AnchorInv /\ OrderlyInv /\ [OrderlyNext]_vars =>
        [\A c \in Clients, n \in Names :
           pc[c] = "list_prune" /\ pc'[c] = "idle" /\ crashes' = crashes
             /\ faults = 0 /\ HasRow(n)
               => n \in job[c].listing]_vars
  BY <1>1
<1>3. QED
  BY <1>2, AlwaysOrderlyInv, PTL DEF OrderlySpec, ListReconciles
=============================================================================
