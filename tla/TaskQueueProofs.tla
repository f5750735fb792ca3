--------------------------- MODULE TaskQueueProofs ---------------------------
(***************************************************************************)
(* Proofs about the task queue, for any tasks, dependencies and limits:    *)
(* one turn per task and dependents that wait, in any number of processes; *)
(* bounded tries and cancellations that stay, in one.                      *)
(***************************************************************************)
EXTENDS TaskQueueProperties, TLAPS, FiniteSetTheorems, WellFoundedInduction

\* The turns in flight, whatever tasks they are of.
IsWork(w) ==
  /\ DOMAIN w = Procs /\ w = [p \in Procs |-> w[p]]
  /\ \A p \in Procs :
       /\ DOMAIN w[p] = Slots /\ w[p] = [s \in Slots |-> w[p][s]]
       /\ \A s \in Slots : w[p][s] = [task |-> w[p][s].task, phase |-> w[p][s].phase]

\* The ranges the proofs need.
Shape ==
  /\ rows \in Rows /\ stale \in [Procs -> Rows \cup {Fresh}]
  /\ IsWork(work)
  /\ DOMAIN rest = Procs /\ rest = [p \in Procs |-> rest[p]]
  /\ tries \in [Tasks -> Nat] /\ requests \in Nat

-----------------------------------------------------------------------------
(* What a step does to the row of t *)

SameCounts(t) == rows'[t].attempts = rows[t].attempts /\ tries'[t] = tries[t]
Stays(t) == rows'[t].status = rows[t].status /\ SameCounts(t)
IsRetried(t) ==
  /\ rows[t].status # "cancelled" /\ tries'[t] = tries[t]
  /\ \E repeated \in BOOLEAN : rows'[t] = ScheduleRetry(rows[t], repeated)
IsOver(t) ==
  /\ rows[t].status # "cancelled" /\ rows'[t].status \in {"completed", "failed"}
  /\ SameCounts(t)
IsDeferred(t) == rows[t].status = "queued" /\ rows'[t].status = "deferred" /\ SameCounts(t)
Starts(t) ==
  /\ rows[t].status = "queued" /\ rows'[t].status = "running"
  /\ rows'[t].attempts = rows[t].attempts /\ tries'[t] = tries[t] + 1
ComesUp(t) ==
  rows[t].status \in {"backlog", "deferred"} /\ rows'[t].status = "queued" /\ SameCounts(t)
IsPushed(t) ==
  /\ \E p \in Procs : rest[p].op = "push" /\ rest[p].enqueue /\ t \in rest[p].tasks
  /\ rows'[t].status = "queued" /\ SameCounts(t)
IsAsked(t) ==
  /\ requests' = requests + 1
  /\ \/ rows'[t].status = "queued" /\ tries'[t] = 0
     \/ rows'[t].status \in {"cancelled", "completed", "failed"} /\ SameCounts(t)

Moves(t) ==
  \/ Stays(t) \/ IsRetried(t) \/ IsOver(t) \/ IsDeferred(t) \/ Starts(t) \/ ComesUp(t)
  \/ IsPushed(t) \/ IsAsked(t)

\* What a step does to the database: a task that is queued again under a turn is
\* in retaken.
Stored ==
  /\ rows' \in Rows /\ stale' \in [Procs -> Rows \cup {Fresh}]
  /\ reverted \subseteq reverted' /\ retaken \subseteq retaken'
  /\ \A t \in Tasks \ retaken' :
       rows'[t].status = "queued" /\ HasTurn(work', t) => rows[t].status = "queued"

\* No turn begins.
NoTurnBegins ==
  \A t \in Tasks, p \in Procs, s \in Slots : work'[p][s].task = t => work[p][s].task = t

\* The conclusion about most steps.
Orderly == Shape' /\ Stored /\ NoTurnBegins /\ \A t \in Tasks \ reverted' : Moves(t)

-----------------------------------------------------------------------------
(* Rows and views *)

LEMMA ViewInRows ==
  ASSUME Shape, NEW p \in Procs
  PROVE  View(p) \in Rows
BY DEF Shape, View

LEMMA RowOperators ==
  ASSUME NEW row \in Row
  PROVE  /\ Completed(row) \in Row /\ DeadLettered(row) \in Row
         /\ \A repeated \in BOOLEAN : ScheduleRetry(row, repeated) \in Row
<1>1. MaxAttempts \in Nat \ {0}
  BY QueueAssumption
<1>2. Completed(row) \in Row /\ DeadLettered(row) \in Row
  BY DEF Row, Statuses, Completed, DeadLettered
<1>3. ASSUME NEW repeated \in BOOLEAN PROVE ScheduleRetry(row, repeated) \in Row
  BY <1>1 DEF Row, Statuses, ScheduleRetry
<1> QED BY <1>2, <1>3

\* A write of the whole table.
LEMMA WriteStores ==
  ASSUME Shape, NEW p \in Procs, NEW t2 \in Rows, NEW D, Write(p, t2, D)
  PROVE  /\ rows' = t2 /\ Stored
         /\ \A t \in (Tasks \cap D) \ reverted' : View(p)[t] = rows[t]
<1>1. rows' = t2
  BY DEF Write
<1>2. stale' \in [Procs -> Rows \cup {Fresh}]
  BY DEF Write, Shape
<1>3. reverted' = reverted \cup {t \in D : View(p)[t] # rows[t]}
  BY DEF Write
<1>4. retaken' = retaken \cup
        {t \in Tasks : t2[t].status = "queued" /\ rows[t].status # "queued" /\ HasTurn(work', t)}
  BY DEF Write
<1> QED BY <1>1, <1>2, <1>3, <1>4 DEF Stored

LEMMA SaveStores ==
  ASSUME Shape, NEW p \in Procs, NEW v \in Rows, Save(p, v)
  PROVE  /\ rows' = v /\ Stored
         /\ \A t \in Tasks \ reverted' : View(p)[t] = rows[t]
BY WriteStores DEF Save

LEMMA SaveOneStores ==
  ASSUME Shape, NEW p \in Procs, NEW t \in Tasks, NEW row \in Row, SaveOne(p, t, row)
  PROVE  /\ rows' = [rows EXCEPT ![t] = row] /\ rows'[t] = row /\ Stored
         /\ \A u \in Tasks : u # t => rows'[u] = rows[u]
         /\ t \notin reverted' => View(p)[t] = rows[t]
<1>1. /\ [rows EXCEPT ![t] = row] \in Rows /\ [rows EXCEPT ![t] = row][t] = row
      /\ \A u \in Tasks : u # t => [rows EXCEPT ![t] = row][u] = rows[u]
  BY DEF Shape, Rows
<1>2. Write(p, [rows EXCEPT ![t] = row], {t})
  BY DEF SaveOne
<1>3. /\ rows' = [rows EXCEPT ![t] = row] /\ Stored
      /\ \A u \in (Tasks \cap {t}) \ reverted' : View(p)[u] = rows[u]
  BY <1>1, <1>2, WriteStores
<1> QED BY <1>1, <1>3

LEMMA NothingStored ==
  ASSUME Shape, UNCHANGED <<rows, stale, retaken, reverted>>
  PROVE  Stored
BY DEF Stored, Shape

-----------------------------------------------------------------------------
(* Steps that leave the turns and the tries *)

\* Nothing but the table, the queue and the timers changes, and rest as typed.
RestKept == DOMAIN rest' = Procs /\ rest' = [p \in Procs |-> rest'[p]]

LEMMA QuietStep ==
  ASSUME Shape, UNCHANGED <<work, tries>>, requests' \in Nat, RestKept, Stored,
         \A t \in Tasks \ reverted' : Moves(t)
  PROVE  Orderly
BY DEF Orderly, Shape, Stored, NoTurnBegins, RestKept, IsWork

\* A save in which some tasks are dead letters.
LEMMA DeadStep ==
  ASSUME Shape, NEW p \in Procs, NEW D,
         Save(p, [t \in Tasks |-> IF t \in D THEN DeadLettered(View(p)[t]) ELSE View(p)[t]]),
         \A t \in D \cap Tasks : View(p)[t].status # "cancelled", UNCHANGED tries
  PROVE  Stored /\ \A t \in Tasks \ reverted' : Moves(t)
<1> DEFINE v2 == [t \in Tasks |-> IF t \in D THEN DeadLettered(View(p)[t]) ELSE View(p)[t]]
<1>1. v2 \in Rows
  BY ViewInRows, RowOperators DEF Rows
<1>2. /\ rows' = v2 /\ Stored
      /\ \A t \in Tasks \ reverted' : View(p)[t] = rows[t]
  <2> HIDE DEF v2
  <2>1. Save(p, v2) BY DEF v2
  <2> QED BY <1>1, <2>1, SaveStores
<1>3. ASSUME NEW t \in Tasks \ reverted' PROVE Moves(t)
  <2>1. rows[t] \in Row /\ rows'[t] = IF t \in D THEN DeadLettered(rows[t]) ELSE rows[t]
    BY <1>2 DEF Shape, Rows
  <2>2. CASE t \in D
    BY <1>2, <2>1, <2>2 DEF Moves, IsOver, SameCounts, DeadLettered, Row
  <2>3. CASE t \notin D
    BY <2>1, <2>3 DEF Moves, Stays, SameCounts
  <2> QED BY <2>2, <2>3
<1> QED BY <1>2, <1>3

LEMMA ProcessNextStep ==
  ASSUME Shape, NEW p \in Procs, NEW k, ProcessNext(p, k), UNCHANGED requests
  PROVE  Orderly
<1>1. UNCHANGED <<work, tries>> /\ requests' \in Nat
  BY DEF ProcessNext, history, Shape
<1>2. RestKept
  BY DEF ProcessNext, RestKept, Shape
<1>3. CASE UNCHANGED <<rows, stale, retaken, reverted>>
  <2>1. \A t \in Tasks : Moves(t)
    BY <1>1, <1>3 DEF Moves, Stays, SameCounts
  <2> QED BY <1>1, <1>2, <1>3, <2>1, NothingStored, QuietStep
<1>4. ASSUME NEW D \in SUBSET InStatus(View(p), "queued"),
             Save(p, [t \in Tasks |-> IF t \in D THEN DeadLettered(View(p)[t]) ELSE View(p)[t]])
      PROVE  Orderly
  <2>1. \A t \in D \cap Tasks : View(p)[t].status # "cancelled"
    BY DEF InStatus
  <2> QED BY <1>1, <1>2, <1>4, <2>1, DeadStep, QuietStep
<1>5. Exhausted(p, Orphans(p, View(p))) \in SUBSET InStatus(View(p), "queued")
  BY DEF Exhausted, Orphans
<1> QED BY <1>3, <1>4, <1>5 DEF ProcessNext, db, history

-----------------------------------------------------------------------------
(* A turn begins *)

\* What Checkout does when it starts the task: its turn is the only new one.
CheckedOut(p) ==
  LET t == rest[p].task
  IN /\ \E s : \A q \in Procs, z \in Slots : q # p \/ z # s => work'[q][z].task = work[q][z].task
     /\ \A q \in Procs, z \in Slots :
          work'[q][z].task # work[q][z].task => work'[q][z].task = t
     /\ \A u \in Tasks : tries'[u] > tries[u] => u = t /\ MayStart(View(p), u)
     /\ \A b \in Tasks \ reverted' : View(p)[b] = rows[b]
     /\ t \in Tasks \ reverted' => rows[t].status = "queued" /\ rows'[t].status = "running"

\* The row of the task it looks at is replaced by one with the same count.
LEMMA CheckoutStep ==
  ASSUME Shape, NEW p \in Procs, Checkout(p)
  PROVE  \/ Orderly /\ UNCHANGED tries
         \/ Shape' /\ Stored /\ CheckedOut(p) /\ \A t \in Tasks \ reverted' : Moves(t)
<1> DEFINE t == rest[p].task
           v == View(p)
<1>1. requests' = requests /\ RestKept /\ requests' \in Nat
  BY DEF Checkout, bounds, RestKept, Shape
<1>2. v \in Rows
  BY ViewInRows
<1>3. CASE UNCHANGED <<rows, stale, retaken, reverted, work, tries>>
  <2>1. \A u \in Tasks : Moves(u)
    BY <1>3 DEF Moves, Stays, SameCounts
  <2> QED BY <1>1, <1>3, <2>1, NothingStored, QuietStep
<1>4. ASSUME NEW e, t \in Tasks => /\ e \in Row /\ e.attempts = v[t].attempts
                                 /\ e.status \in {"failed", "deferred"},
             StillQueued(v, t), Save(p, [v EXCEPT ![t] = e]), UNCHANGED <<work, tries>>
      PROVE  Orderly
  <2>1. /\ [v EXCEPT ![t] = e] \in Rows
        /\ \A u \in Tasks : [v EXCEPT ![t] = e][u] = IF u = t THEN e ELSE v[u]
    BY <1>2, <1>4 DEF Rows
  <2>2. /\ rows' = [v EXCEPT ![t] = e] /\ Stored
        /\ \A u \in Tasks \ reverted' : v[u] = rows[u]
    BY <1>4, <2>1, SaveStores
  <2>3. ASSUME NEW u \in Tasks \ reverted' PROVE Moves(u)
    BY <1>4, <2>1, <2>2 DEF Moves, Stays, IsOver, IsDeferred, SameCounts, StillQueued
  <2> QED BY <1>1, <1>4, <2>2, <2>3, QuietStep
<1>5. CASE /\ StillQueued(v, t) /\ MayStart(v, t)
           /\ \E v2 \in {[v EXCEPT ![t] = DeadLettered(@)],
                         [v EXCEPT ![t].status = "deferred", ![t].retry = IF @ = "none" THEN @ ELSE "due"]} :
                Save(p, v2)
           /\ UNCHANGED <<work, tries>>
  <2> DEFINE e1 == DeadLettered(v[t])
             e2 == [v[t] EXCEPT !.status = "deferred", !.retry = IF @ = "none" THEN @ ELSE "due"]
  <2>1. /\ [v EXCEPT ![t] = DeadLettered(@)] = [v EXCEPT ![t] = e1]
        /\ [v EXCEPT ![t].status = "deferred", ![t].retry = IF @ = "none" THEN @ ELSE "due"]
             = [v EXCEPT ![t] = e2]
    BY <1>2 DEF Rows, Row
  <2>2. t \in Tasks => /\ e1 \in Row /\ e1.attempts = v[t].attempts /\ e1.status = "failed"
                      /\ e2 \in Row /\ e2.attempts = v[t].attempts /\ e2.status = "deferred"
    BY <1>2 DEF Rows, Row, Statuses, DeadLettered
  <2>3. Save(p, [v EXCEPT ![t] = e1]) \/ Save(p, [v EXCEPT ![t] = e2])
    BY <1>5, <2>1
  <2> HIDE DEF e1, e2
  <2> QED BY <1>4, <1>5, <2>2, <2>3
<1>6. ASSUME NEW s, StillQueued(v, t), MayStart(v, t),
             work' = [work EXCEPT ![p][s] = [task |-> t, phase |-> "turn"]],
             tries' = [tries EXCEPT ![t] = @ + 1],
             Save(p, [v EXCEPT ![t].status = "running", ![t].retry = "none"])
      PROVE  Shape' /\ Stored /\ CheckedOut(p) /\ \A u \in Tasks \ reverted' : Moves(u)
  <2> DEFINE v2 == [v EXCEPT ![t].status = "running", ![t].retry = "none"]
  <2>1. /\ v2 \in Rows
        /\ \A u \in Tasks : u # t => v2[u] = v[u]
        /\ t \in Tasks => v2[t].status = "running" /\ v2[t].attempts = v[t].attempts
    BY <1>2 DEF Rows, Row, Statuses
  <2>2. /\ rows' = v2 /\ Stored
        /\ \A u \in Tasks \ reverted' : v[u] = rows[u]
    <3> HIDE DEF v2
    <3>1. Save(p, v2) BY <1>6 DEF v2
    <3> QED BY <2>1, <3>1, SaveStores
  <2>3. /\ IsWork(work')
        /\ s \in Slots => work'[p][s].task = t
        /\ \A q \in Procs, z \in Slots : q # p \/ z # s => work'[q][z] = work[q][z]
    <3> HIDE DEF t
    <3> QED BY <1>6 DEF Shape, IsWork
  <2>4. /\ tries' \in [Tasks -> Nat]
        /\ \A u \in Tasks : tries'[u] = IF u = t THEN tries[u] + 1 ELSE tries[u]
    <3>1. tries \in [Tasks -> Nat]
      BY DEF Shape
    <3>2. CASE t \in Tasks
      BY <1>6, <3>1, <3>2
    <3>3. CASE t \notin Tasks
      BY <1>6, <3>1, <3>3
    <3> QED BY <3>2, <3>3
  <2>5. Shape'
    BY <1>1, <2>2, <2>3, <2>4 DEF Shape, Stored, RestKept
  <2>6. CheckedOut(p)
    <3>1. \A u \in Tasks : tries'[u] > tries[u] => u = t
      BY <2>4 DEF Shape
    <3>2. t \in Tasks \ reverted' => rows[t].status = "queued" /\ rows'[t].status = "running"
      BY <1>6, <2>1, <2>2 DEF StillQueued
    <3>3. \A q \in Procs, z \in Slots :
            work'[q][z].task # work[q][z].task => q = p /\ z = s /\ work'[q][z].task = t
      BY <2>3
    <3>4. \E z0 : \A q \in Procs, z \in Slots :
            q # p \/ z # z0 => work'[q][z].task = work[q][z].task
      BY <2>3
    <3>5. \A u \in Tasks : tries'[u] > tries[u] => u = t /\ MayStart(v, u)
      BY <1>6, <3>1
    <3>6. \A b \in Tasks \ reverted' : v[b] = rows[b]
      BY <2>2
    <3>7. \A q \in Procs, z \in Slots :
            work'[q][z].task # work[q][z].task => work'[q][z].task = t
      BY <3>3
    <3> QED BY <3>2, <3>4, <3>5, <3>6, <3>7 DEF CheckedOut
  <2>7. ASSUME NEW u \in Tasks \ reverted' PROVE Moves(u)
    <3>1. CASE u = t
      BY <1>6, <2>1, <2>2, <2>4, <3>1 DEF Moves, Starts, StillQueued
    <3>2. CASE u # t
      BY <2>1, <2>2, <2>4, <3>2 DEF Moves, Stays, SameCounts
    <3> QED BY <3>1, <3>2
  <2> QED BY <2>2, <2>5, <2>6, <2>7
<1> QED BY <1>3, <1>5, <1>6 DEF Checkout, db

-----------------------------------------------------------------------------
(* A turn ends *)

\* The turns are as typed, and none is new.
WorkEnds == IsWork(work') /\ NoTurnBegins

LEMMA WorkEntryEnds ==
  ASSUME IsWork(work), NEW p \in Procs, NEW s \in Slots,
         work' = [work EXCEPT ![p][s] = NoWork] \/ work' = [work EXCEPT ![p][s].phase = "repair"]
  PROVE  WorkEnds
<1>1. CASE work' = [work EXCEPT ![p][s] = NoWork]
  <2>2. \A q \in Procs, z \in Slots : work'[q][z] = IF q = p /\ z = s THEN NoWork ELSE work[q][z]
    BY <1>1 DEF IsWork
  <2>1. IsWork(work')
    <3>1. /\ DOMAIN work' = Procs /\ work' = [q \in Procs |-> work'[q]]
          /\ \A q \in Procs : DOMAIN work'[q] = Slots /\ work'[q] = [z \in Slots |-> work'[q][z]]
      BY <1>1 DEF IsWork
    <3>2. NoWork = [task |-> NoWork.task, phase |-> NoWork.phase]
      BY DEF NoWork
    <3>3. \A q \in Procs, z \in Slots :
            work'[q][z] = [task |-> work'[q][z].task, phase |-> work'[q][z].phase]
      <4> HIDE DEF NoWork
      <4> QED BY <2>2, <3>2 DEF IsWork
    <3> QED BY <3>1, <3>3 DEF IsWork
  <2>3. NoWork.task \notin Tasks
    BY QueueAssumption DEF NoWork, Tasks
  <2>4. NoTurnBegins
    <3> HIDE DEF NoWork
    <3> QED BY <2>2, <2>3 DEF NoTurnBegins
  <2> QED BY <2>1, <2>4 DEF WorkEnds
<1>2. CASE work' = [work EXCEPT ![p][s].phase = "repair"]
  <2>0. work[p][s] = [task |-> work[p][s].task, phase |-> work[p][s].phase]
    BY DEF IsWork
  <2>1. \A q \in Procs, z \in Slots :
          work'[q][z] = IF q = p /\ z = s THEN [task |-> work[p][s].task, phase |-> "repair"]
                        ELSE work[q][z]
    <3>1. work'[p][s] = [work[p][s] EXCEPT !.phase = "repair"]
      BY <1>2 DEF IsWork
    <3>2. work'[p][s] = [task |-> work[p][s].task, phase |-> "repair"]
      BY <2>0, <3>1
    <3>3. \A q \in Procs, z \in Slots : q # p \/ z # s => work'[q][z] = work[q][z]
      BY <1>2 DEF IsWork
    <3> QED BY <3>2, <3>3
  <2>2. DOMAIN work' = Procs /\ work' = [q \in Procs |-> work'[q]]
    BY <1>2 DEF IsWork
  <2>3. \A q \in Procs : DOMAIN work'[q] = Slots /\ work'[q] = [z \in Slots |-> work'[q][z]]
    BY <1>2 DEF IsWork
  <2>4. \A q \in Procs, z \in Slots :
          work'[q][z] = [task |-> work'[q][z].task, phase |-> work'[q][z].phase]
    BY <2>1 DEF IsWork
  <2>5. NoTurnBegins
    BY <2>1 DEF NoTurnBegins
  <2> QED BY <2>2, <2>3, <2>4, <2>5 DEF WorkEnds, IsWork
<1> QED BY <1>1, <1>2

LEMMA TurnsEndStep ==
  ASSUME Shape, UNCHANGED tries, requests' \in Nat, WorkEnds, RestKept, Stored,
         \A t \in Tasks \ reverted' : Moves(t)
  PROVE  Orderly
BY DEF Orderly, Shape, Stored, WorkEnds, RestKept

LEMMA TurnEndsStep ==
  ASSUME Shape, NEW p \in Procs, NEW t \in Tasks, TurnEnds(p, t)
  PROVE  Orderly
<1> DEFINE old == [task |-> t, phase |-> "turn"]
<1>1. PICK how \in Settled :
        work' = [work EXCEPT ![p] = [s \in Slots |->
                  IF @[s] = old THEN [task |-> t, phase |-> how] ELSE @[s]]]
  BY DEF TurnEnds
<1>2. \A q \in Procs, z \in Slots :
        work'[q][z] = IF q = p /\ work[q][z] = old THEN [task |-> t, phase |-> how] ELSE work[q][z]
  BY <1>1 DEF Shape, IsWork
<1>3. IsWork(work')
  BY <1>1, <1>2 DEF Shape, IsWork
<1>4. NoTurnBegins
  BY <1>2 DEF NoTurnBegins
<1>5. UNCHANGED <<rows, stale, retaken, reverted, rest, tries, requests>>
  BY DEF TurnEnds, db, history, bounds
<1>6. \A u \in Tasks : Moves(u)
  BY <1>5 DEF Moves, Stays, SameCounts
<1>7. RestKept /\ requests' \in Nat
  BY <1>5 DEF RestKept, Shape
<1> QED BY <1>3, <1>4, <1>5, <1>6, <1>7, NothingStored, TurnsEndStep DEF WorkEnds

\* A save in which the row of t is replaced by e.
LEMMA OneRowSaved ==
  ASSUME Shape, NEW p \in Procs, NEW t, NEW e, t \in Tasks => e \in Row,
         Save(p, [View(p) EXCEPT ![t] = e])
  PROVE  /\ Stored
         /\ \A u \in Tasks \ reverted' :
              View(p)[u] = rows[u] /\ rows'[u] = IF u = t THEN e ELSE rows[u]
<1> DEFINE v2 == [View(p) EXCEPT ![t] = e]
<1>1. View(p) \in Rows
  BY ViewInRows
<1>2. v2 \in Rows /\ \A u \in Tasks : v2[u] = IF u = t THEN e ELSE View(p)[u]
  BY <1>1 DEF Rows
<1>3. Save(p, v2)
  OBVIOUS
<1> HIDE DEF v2
<1>4. /\ rows' = v2 /\ Stored
      /\ \A u \in Tasks \ reverted' : View(p)[u] = rows[u]
  BY <1>2, <1>3, SaveStores
<1> QED BY <1>2, <1>4

\* A save of the view as it is.
LEMMA ViewSaved ==
  ASSUME Shape, NEW p \in Procs, Save(p, View(p)), UNCHANGED tries
  PROVE  Stored /\ \A t \in Tasks \ reverted' : Moves(t)
<1>1. /\ rows' = View(p) /\ Stored
      /\ \A u \in Tasks \ reverted' : View(p)[u] = rows[u]
  BY ViewInRows, SaveStores
<1> QED BY <1>1 DEF Moves, Stays, SameCounts

LEMMA RetryStores ==
  ASSUME Shape, NEW p \in Procs, NEW t, NEW first, RetryOrGiveUp(p, View(p), t, first),
         UNCHANGED tries
  PROVE  Stored /\ RestKept /\ \A u \in Tasks \ reverted' : Moves(u)
<1>1. PICK repeated \in BOOLEAN :
        Save(p, [View(p) EXCEPT ![t] = ScheduleRetry(View(p)[t], repeated)])
  BY DEF RetryOrGiveUp, MayRepeat
<1>2. RestKept
  BY DEF RetryOrGiveUp, RestKept, Shape
<1> DEFINE e == ScheduleRetry(View(p)[t], repeated)
<1>3. t \in Tasks => View(p)[t] \in Row /\ e \in Row
  BY ViewInRows, RowOperators DEF Rows
<1>4. /\ Stored
      /\ \A u \in Tasks \ reverted' :
           View(p)[u] = rows[u] /\ rows'[u] = IF u = t THEN e ELSE rows[u]
  <2> HIDE DEF e
  <2>1. Save(p, [View(p) EXCEPT ![t] = e])
    BY <1>1 DEF e
  <2> QED BY <1>3, <2>1, OneRowSaved
<1>5. ASSUME NEW u \in Tasks \ reverted' PROVE Moves(u)
  <2>1. CASE u # t
    BY <1>4, <1>5, <2>1 DEF Moves, Stays, SameCounts
  <2>2. CASE u = t /\ rows[u].status # "cancelled"
    BY <1>4, <1>5, <2>2 DEF Moves, IsRetried
  <2>3. CASE u = t /\ rows[u].status = "cancelled"
    <3>1. rows[u] \in Row
      BY DEF Shape, Rows
    <3>2. rows'[u].status = rows[u].status /\ rows'[u].attempts = rows[u].attempts
      BY <1>4, <1>5, <2>3, <3>1 DEF ScheduleRetry, Row
    <3> QED BY <3>2 DEF Moves, Stays, SameCounts
  <2> QED BY <2>1, <2>2, <2>3
<1> QED BY <1>2, <1>4, <1>5

LEMMA SettleStep ==
  ASSUME Shape, NEW p \in Procs, NEW s \in Slots, Settle(p, s)
  PROVE  Orderly
<1> DEFINE t == work[p][s].task
           v == View(p)
<1>1. UNCHANGED <<tries, requests>> /\ requests' \in Nat
  BY DEF Settle, bounds, Shape
<1>2. work' = [work EXCEPT ![p][s] = NoWork] \/ work' = [work EXCEPT ![p][s].phase = "repair"]
  BY DEF Settle
<1>3. WorkEnds
  BY <1>2, WorkEntryEnds DEF Shape
<1>4. CASE UNCHANGED <<rows, stale, retaken, reverted, rest>>
  <2>1. Stored /\ \A u \in Tasks : Moves(u)
    BY <1>1, <1>4, NothingStored DEF Moves, Stays, SameCounts
  <2>2. RestKept
    BY <1>4 DEF RestKept, Shape
  <2> QED BY <1>1, <1>3, <2>1, <2>2, TurnsEndStep
<1>5. CASE Save(p, v) /\ UNCHANGED rest
  <2>1. Stored /\ \A u \in Tasks \ reverted' : Moves(u)
    BY <1>1, <1>5, ViewSaved
  <2>2. RestKept
    BY <1>5 DEF RestKept, Shape
  <2> QED BY <1>1, <1>3, <2>1, <2>2, TurnsEndStep
<1>6. CASE /\ v[t].status # "cancelled" /\ Save(p, [v EXCEPT ![t] = Completed(@)])
           /\ rest' = [rest EXCEPT ![p] = [op |-> "cascade", task |-> t, last |-> TRUE]]
  <2> DEFINE e == Completed(v[t])
  <2>1. t \in Tasks => /\ v[t] \in Row /\ e \in Row
                      /\ e.status = "completed" /\ e.attempts = v[t].attempts
    <3>1. t \in Tasks => v[t] \in Row
      BY ViewInRows DEF Rows
    <3> HIDE DEF t, v
    <3>2. t \in Tasks => e.status = "completed" /\ e.attempts = v[t].attempts
      BY <3>1 DEF Row, Completed
    <3> QED BY <3>1, <3>2, RowOperators
  <2>2. /\ Stored
        /\ \A u \in Tasks \ reverted' :
             View(p)[u] = rows[u] /\ rows'[u] = IF u = t THEN e ELSE rows[u]
    <3>1. Save(p, [View(p) EXCEPT ![t] = e])
      BY <1>6
    <3> HIDE DEF e, t
    <3> QED BY <2>1, <3>1, OneRowSaved
  <2>3. \A u \in Tasks \ reverted' : Moves(u)
    BY <1>1, <1>6, <2>1, <2>2 DEF Moves, Stays, IsOver, SameCounts
  <2>4. RestKept
    BY <1>6 DEF RestKept, Shape
  <2> QED BY <1>1, <1>3, <2>2, <2>3, <2>4, TurnsEndStep
<1>7. ASSUME NEW first, RetryOrGiveUp(p, v, t, first)
      PROVE  Orderly
  BY <1>1, <1>3, <1>7, RetryStores, TurnsEndStep
<1> QED BY <1>4, <1>5, <1>6, <1>7 DEF Settle

LEMMA FinishRepairStep ==
  ASSUME Shape, NEW p \in Procs, NEW s \in Slots, FinishRepair(p, s)
  PROVE  Orderly
<1>1. UNCHANGED <<tries, requests>> /\ requests' \in Nat
  BY DEF FinishRepair, bounds, Shape
<1>2. WorkEnds
  BY WorkEntryEnds DEF FinishRepair, Shape
<1> QED BY <1>1, <1>2, RetryStores, TurnsEndStep DEF FinishRepair

-----------------------------------------------------------------------------
(* The statements that follow, and the operator *)

\* Nothing of the table changes.
LEMMA TableKept ==
  ASSUME Shape, UNCHANGED <<rows, stale, retaken, reverted, tries>>
  PROVE  Stored /\ \A t \in Tasks : Moves(t)
BY NothingStored DEF Moves, Stays, SameCounts

LEMMA CascadeStep ==
  ASSUME Shape, NEW p \in Procs, Cascade(p)
  PROVE  Orderly
<1> DEFINE v == View(p)
           U == Unblocked(v, rest[p].task)
           v2 == WithStatus(v, U, "queued")
<1>1. UNCHANGED <<work, tries, requests>> /\ requests' \in Nat /\ RestKept
  BY DEF Cascade, bounds, Shape, RestKept
<1>2. CASE UNCHANGED <<rows, stale, retaken, reverted>>
  BY <1>1, <1>2, TableKept, QuietStep
<1>3. CASE Save(p, v2)
  <2>1. v \in Rows /\ \A u \in U : v[u].status = "backlog"
    BY ViewInRows DEF Unblocked, InStatus
  <2> HIDE DEF v, U
  <2>2. v2 \in Rows
    BY <2>1 DEF WithStatus, Rows, Row, Statuses
  <2>3. \A t \in Tasks : /\ v2[t].attempts = v[t].attempts
                         /\ v2[t].status = IF t \in U THEN "queued" ELSE v[t].status
    BY <2>1 DEF WithStatus, Rows, Row
  <2> HIDE DEF v2
  <2>4. /\ rows' = v2 /\ Stored
        /\ \A t \in Tasks \ reverted' : v[t] = rows[t]
    BY <1>3, <2>2, SaveStores DEF v
  <2>5. \A t \in Tasks \ reverted' : Moves(t)
    BY <1>1, <2>1, <2>3, <2>4 DEF Moves, Stays, ComesUp, SameCounts
  <2> QED BY <1>1, <2>4, <2>5, QuietStep
<1> QED BY <1>2, <1>3 DEF Cascade

LEMMA PushStep ==
  ASSUME Shape, NEW p \in Procs, Push(p)
  PROVE  Orderly
<1> DEFINE v == View(p)
           T == rest[p].tasks
           v2 == [t \in Tasks |-> IF t \notin T THEN v[t]
                   ELSE [v[t] EXCEPT !.status = "queued", !.retry = IF @ = "none" THEN @ ELSE "due"]]
<1>1. /\ UNCHANGED <<work, tries, requests>> /\ requests' \in Nat /\ RestKept
      /\ rest[p].op = "push"
  BY DEF Push, bounds, Shape, RestKept
<1>2. CASE UNCHANGED <<rows, stale, retaken, reverted>>
  BY <1>1, <1>2, TableKept, QuietStep
<1>3. CASE rest[p].enqueue /\ Save(p, v2)
  <2>1. v \in Rows
    BY ViewInRows
  <2>0. \A t \in T : rest[p].op = "push" /\ rest[p].enqueue /\ t \in rest[p].tasks
    BY <1>1, <1>3
  <2> HIDE DEF v, T
  <2>2. v2 \in Rows
    BY <2>1 DEF Rows, Row, Statuses
  <2>3. \A t \in Tasks : /\ v2[t].attempts = v[t].attempts
                         /\ v2[t].status = IF t \in T THEN "queued" ELSE v[t].status
    BY <2>1 DEF Rows, Row
  <2> HIDE DEF v2
  <2>4. /\ rows' = v2 /\ Stored
        /\ \A t \in Tasks \ reverted' : v[t] = rows[t]
    BY <1>3, <2>2, SaveStores DEF v
  <2>5. ASSUME NEW t \in Tasks \ reverted' PROVE Moves(t)
    <3>1. SameCounts(t)
      BY <1>1, <2>3, <2>4 DEF SameCounts
    <3>2. CASE t \in T
      BY <2>0, <2>3, <2>4, <3>1, <3>2 DEF Moves, IsPushed
    <3>3. CASE t \notin T
      BY <2>3, <2>4, <3>1, <3>3 DEF Moves, Stays
    <3> QED BY <3>2, <3>3
  <2> QED BY <1>1, <2>4, <2>5, QuietStep
<1> QED BY <1>2, <1>3 DEF Push

LEMMA RequestSteps ==
  ASSUME Shape, NEW p \in Procs, NEW t \in Tasks,
         QueueTask(p, t) \/ RetryTask(p, t) \/ CancelTask(p, t) \/ CompleteTask(p, t)
  PROVE  Orderly
<1> DEFINE v == View(p)
<1>1. UNCHANGED work /\ requests' = requests + 1 /\ requests' \in Nat
  BY DEF Shape, Request, QueueTask, RetryTask, CancelTask, CompleteTask
<1>2. RestKept
  BY DEF Shape, RestKept, ThenEnqueue, QueueTask, RetryTask, CancelTask, CompleteTask
<1>3. v[t] \in Row
  BY ViewInRows DEF Rows
<1>4. ASSUME NEW e \in Row, SaveOne(p, t, e),
             \/ /\ e.status = "queued" /\ tries' = [tries EXCEPT ![t] = 0]
             \/ /\ e.status \in {"cancelled", "completed", "failed"}
                /\ e.attempts = v[t].attempts /\ tries' = tries
      PROVE  Orderly
  <2>1. /\ rows'[t] = e /\ Stored /\ \A u \in Tasks : u # t => rows'[u] = rows[u]
        /\ t \notin reverted' => View(p)[t] = rows[t]
    BY <1>4, SaveOneStores
  <2>2. tries' \in [Tasks -> Nat] /\ \A u \in Tasks : u # t => tries'[u] = tries[u]
    BY <1>4 DEF Shape
  <2>3. tries' = [tries EXCEPT ![t] = 0] => tries'[t] = 0
    BY DEF Shape
  <2>4. t \in Tasks \ reverted' => IsAsked(t)
    BY <1>1, <1>4, <2>1, <2>3 DEF IsAsked, SameCounts
  <2>5. \A u \in Tasks : u # t => Stays(u)
    BY <2>1, <2>2 DEF Stays, SameCounts
  <2>6. \A u \in Tasks \ reverted' : Moves(u)
    BY <2>4, <2>5 DEF Moves
  <2>7. Shape' /\ NoTurnBegins
    BY <1>1, <1>2, <2>1, <2>2 DEF Shape, Stored, RestKept, NoTurnBegins, IsWork
  <2> QED BY <2>1, <2>6, <2>7 DEF Orderly
<1>5. CASE QueueTask(p, t)
  <2>1. [v[t] EXCEPT !.status = "queued"] \in Row /\ [v[t] EXCEPT !.status = "queued"].status = "queued"
    BY <1>3 DEF Row, Statuses
  <2> QED BY <1>4, <1>5, <2>1 DEF QueueTask
<1>6. CASE RetryTask(p, t)
  <2>1. [status |-> "queued", attempts |-> 0, retry |-> "none"] \in Row
    BY QueueAssumption DEF Row, Statuses
  <2> QED BY <1>4, <1>6, <2>1 DEF RetryTask
<1>7. CASE CancelTask(p, t)
  <2>1. /\ [v[t] EXCEPT !.status = "cancelled"] \in Row
        /\ [v[t] EXCEPT !.status = "cancelled"].status = "cancelled"
        /\ [v[t] EXCEPT !.status = "cancelled"].attempts = v[t].attempts
    BY <1>3 DEF Row, Statuses
  <2> QED BY <1>4, <1>7, <2>1 DEF CancelTask
<1>8. CASE CompleteTask(p, t)
  <2>1. /\ Completed(v[t]).status = "completed" /\ Completed(v[t]).attempts = v[t].attempts
        /\ DeadLettered(v[t]).status = "failed" /\ DeadLettered(v[t]).attempts = v[t].attempts
    BY <1>3 DEF Row, Completed, DeadLettered
  <2>2. Completed(v[t]) \in Row /\ DeadLettered(v[t]) \in Row
    BY <1>3, RowOperators
  <2>3. tries' = tries /\ (SaveOne(p, t, Completed(v[t])) \/ SaveOne(p, t, DeadLettered(v[t])))
    BY <1>8 DEF CompleteTask
  <2> QED BY <1>4, <2>1, <2>2, <2>3
<1> QED BY <1>5, <1>6, <1>7, <1>8

-----------------------------------------------------------------------------
(* Recovery *)

LEMMA ResumeQueueStep ==
  ASSUME Shape, NEW p \in Procs, ResumeQueue(p)
  PROVE  Orderly
<1> DEFINE v == View(p)
           v2 == Reap(v)
<1>1. UNCHANGED <<work, tries, requests>> /\ requests' \in Nat /\ RestKept
  BY DEF ResumeQueue, bounds, Shape, RestKept
<1>2. CASE UNCHANGED <<rows, stale, retaken, reverted>>
  BY <1>1, <1>2, TableKept, QuietStep
<1>3. CASE Save(p, v2)
  <2>1. v \in Rows
    BY ViewInRows
  <2>2. v2 \in Rows
    BY <2>1, RowOperators DEF Reap, Rows
  <2>3. \A t \in Tasks :
          v2[t] = IF v[t].status = "running" THEN ScheduleRetry(v[t], FALSE) ELSE v[t]
    BY DEF Reap
  <2> HIDE DEF v, v2
  <2>4. /\ rows' = v2 /\ Stored
        /\ \A t \in Tasks \ reverted' : v[t] = rows[t]
    BY <1>3, <2>2, SaveStores DEF v
  <2>5. ASSUME NEW t \in Tasks \ reverted' PROVE Moves(t)
    <3>1. rows'[t] = IF rows[t].status = "running" THEN ScheduleRetry(rows[t], FALSE) ELSE rows[t]
      BY <2>3, <2>4
    <3>2. CASE rows[t].status = "running"
      BY <1>1, <3>1, <3>2 DEF Moves, IsRetried
    <3>3. CASE rows[t].status # "running"
      BY <1>1, <3>1, <3>3 DEF Moves, Stays, SameCounts
    <3> QED BY <3>2, <3>3
  <2> QED BY <1>1, <2>4, <2>5, QuietStep
<1> QED BY <1>2, <1>3 DEF ResumeQueue

LEMMA RecoverStalledStep ==
  ASSUME Shape, NEW p \in Procs, RecoverStalled(p)
  PROVE  Orderly
<1> DEFINE v == View(p)
           Found(how) == [t \in Tasks |->
                           IF t \notin DOMAIN how \/ how[t] = "none" THEN v[t]
                           ELSE IF how[t] = "empty" THEN DeadLettered(v[t])
                           ELSE IF how[t] = "valid" THEN Completed(v[t])
                           ELSE ScheduleRetry(v[t], FALSE)]
<1>1. UNCHANGED <<work, tries, requests>> /\ requests' \in Nat /\ RestKept
  BY DEF RecoverStalled, Shape, RestKept
<1>2. PICK how \in [InStatus(v, "running") -> {"none", "empty", "valid", "invalid", "stalled"}] :
        Save(p, Found(how))
  BY DEF RecoverStalled
<1> DEFINE v2 == Found(how)
<1>3. v \in Rows
  BY ViewInRows
<1>4. \A t \in DOMAIN how : v[t].status = "running"
  BY DEF InStatus
<1>5. v2 \in Rows
  BY <1>3, RowOperators DEF Rows
<1>6. Save(p, v2)
  BY <1>2
<1>7. \A t \in Tasks :
        \/ v2[t] = v[t]
        \/ /\ v[t].status = "running"
           /\ v2[t] \in {DeadLettered(v[t]), Completed(v[t]), ScheduleRetry(v[t], FALSE)}
  BY <1>4
<1> HIDE DEF v, v2
<1>8. /\ rows' = v2 /\ Stored
      /\ \A t \in Tasks \ reverted' : v[t] = rows[t]
  BY <1>5, <1>6, SaveStores DEF v
<1>9. ASSUME NEW t \in Tasks \ reverted' PROVE Moves(t)
  <2>1. rows[t] \in Row
    BY DEF Shape, Rows
  <2>2. CASE rows'[t] = rows[t]
    BY <1>1, <2>2 DEF Moves, Stays, SameCounts
  <2>3. CASE /\ rows[t].status = "running"
             /\ rows'[t] \in {DeadLettered(rows[t]), Completed(rows[t])}
    BY <1>1, <2>1, <2>3 DEF Moves, IsOver, SameCounts, DeadLettered, Completed, Row
  <2>4. CASE rows[t].status = "running" /\ rows'[t] = ScheduleRetry(rows[t], FALSE)
    BY <1>1, <2>4 DEF Moves, IsRetried
  <2> QED BY <1>7, <1>8, <2>2, <2>3, <2>4
<1> QED BY <1>1, <1>8, <1>9, QuietStep

LEMMA ValidateCompletedStep ==
  ASSUME Shape, NEW p \in Procs, ValidateCompleted(p)
  PROVE  Orderly
<1>1. UNCHANGED <<work, tries, requests>> /\ requests' \in Nat /\ RestKept
  BY DEF ValidateCompleted, Shape, RestKept
<1>2. PICK S \in SUBSET InStatus(View(p), "completed") :
        Save(p, [t \in Tasks |-> IF t \in S THEN DeadLettered(View(p)[t]) ELSE View(p)[t]])
  BY DEF ValidateCompleted
<1>3. \A t \in S \cap Tasks : View(p)[t].status # "cancelled"
  BY DEF InStatus
<1> QED BY <1>1, <1>2, <1>3, DeadStep, QuietStep

LEMMA PromoteDeferredStep ==
  ASSUME Shape, NEW p \in Procs, PromoteDeferred(p)
  PROVE  Orderly
<1> DEFINE v == View(p)
<1>1. UNCHANGED <<work, tries, requests>> /\ requests' \in Nat /\ RestKept
  BY DEF PromoteDeferred, bounds, Shape, RestKept
<1>2. PICK S \in SUBSET InStatus(v, "deferred") : Save(p, WithStatus(v, S, "queued"))
  BY DEF PromoteDeferred
<1> DEFINE v2 == WithStatus(v, S, "queued")
<1>3. v \in Rows /\ \A u \in S : v[u].status = "deferred"
  BY ViewInRows DEF InStatus
<1>4. Save(p, v2)
  BY <1>2
<1> HIDE DEF v
<1>5. v2 \in Rows
  BY <1>3 DEF WithStatus, Rows, Row, Statuses
<1>6. \A t \in Tasks : /\ v2[t].attempts = v[t].attempts
                       /\ v2[t].status = IF t \in S THEN "queued" ELSE v[t].status
  BY <1>3 DEF WithStatus, Rows, Row
<1> HIDE DEF v2
<1>7. /\ rows' = v2 /\ Stored
      /\ \A t \in Tasks \ reverted' : v[t] = rows[t]
  BY <1>4, <1>5, SaveStores DEF v
<1>8. \A t \in Tasks \ reverted' : Moves(t)
  BY <1>1, <1>3, <1>6, <1>7 DEF Moves, Stays, ComesUp, SameCounts
<1> QED BY <1>1, <1>7, <1>8, QuietStep

-----------------------------------------------------------------------------
(* Time and crashes *)

LEMMA ElapseStep ==
  ASSUME Shape, NEW t \in Tasks, Elapse(t)
  PROVE  Orderly
<1> DEFINE due(v) == IF v[t].retry = "waiting" THEN [v EXCEPT ![t].retry = "due"] ELSE v
<1>1. /\ UNCHANGED <<work, tries, requests, retaken, reverted>>
      /\ requests' \in Nat /\ RestKept
  BY DEF Elapse, process, history, bounds, Shape, RestKept
<1>2. ASSUME NEW v \in Rows
      PROVE  /\ due(v) \in Rows
             /\ \A u \in Tasks : due(v)[u].status = v[u].status /\ due(v)[u].attempts = v[u].attempts
  BY DEF Rows, Row
<1>3. rows' = due(rows)
  BY DEF Elapse
<1>4. stale' = [p \in Procs |-> IF stale[p] = Fresh THEN Fresh ELSE due(stale[p])]
  BY DEF Elapse
<1> HIDE DEF due
<1>5. rows' \in Rows /\ \A u \in Tasks : rows'[u].status = rows[u].status
                                        /\ rows'[u].attempts = rows[u].attempts
  BY <1>2, <1>3 DEF Shape
<1>6. stale' \in [Procs -> Rows \cup {Fresh}]
  BY <1>2, <1>4 DEF Shape
<1>7. Stored
  BY <1>1, <1>5, <1>6 DEF Stored
<1>8. \A u \in Tasks : Moves(u)
  BY <1>1, <1>5 DEF Moves, Stays, SameCounts
<1> QED BY <1>1, <1>7, <1>8, QuietStep

LEMMA ExpireStep ==
  ASSUME Shape, NEW p \in Procs, Expire(p)
  PROVE  Orderly
<1>1. /\ UNCHANGED <<rows, work, tries, requests, retaken, reverted>>
      /\ requests' \in Nat /\ RestKept
  BY DEF Expire, process, history, bounds, Shape, RestKept
<1>2. stale' \in [Procs -> Rows \cup {Fresh}]
  BY DEF Expire, Shape
<1>3. Stored /\ \A u \in Tasks : Moves(u)
  BY <1>1, <1>2 DEF Stored, Shape, Moves, Stays, SameCounts
<1> QED BY <1>1, <1>3, QuietStep

LEMMA CrashStep ==
  ASSUME Shape, NEW p \in Procs, Crash(p)
  PROVE  Orderly
<1>1. /\ UNCHANGED <<rows, tries, requests, retaken, reverted>>
      /\ requests' \in Nat /\ RestKept
  BY DEF Crash, history, Shape, RestKept
<1>2. stale' \in [Procs -> Rows \cup {Fresh}]
  BY DEF Crash, Shape
<1>3. Stored /\ \A u \in Tasks : Moves(u)
  BY <1>1, <1>2 DEF Stored, Shape, Moves, Stays, SameCounts
<1>4. WorkEnds
  <2>1. NoWork.task \notin Tasks /\ NoWork = [task |-> NoWork.task, phase |-> NoWork.phase]
    BY QueueAssumption DEF NoWork, Tasks
  <2>2. work' = [work EXCEPT ![p] = [s \in Slots |-> NoWork]]
    BY DEF Crash
  <2> HIDE DEF NoWork
  <2>3. \A q \in Procs, z \in Slots : work'[q][z] = IF q = p THEN NoWork ELSE work[q][z]
    BY <2>2 DEF Shape, IsWork
  <2>4. NoTurnBegins
    BY <2>1, <2>3 DEF NoTurnBegins
  <2>5. IsWork(work')
    BY <2>1, <2>2, <2>3 DEF Shape, IsWork
  <2> QED BY <2>4, <2>5 DEF WorkEnds
<1> QED BY <1>1, <1>3, <1>4, TurnsEndStep

LEMMA StutterStep ==
  ASSUME Shape, UNCHANGED vars
  PROVE  Orderly
<1>1. /\ UNCHANGED <<rows, stale, work, tries, requests, retaken, reverted>>
      /\ requests' \in Nat /\ RestKept
  BY DEF vars, db, process, history, bounds, Shape, RestKept
<1> QED BY <1>1, TableKept, QuietStep

\* Every step but the start of a turn is orderly, and raises no count of tries.
LEMMA AnyStep ==
  ASSUME Shape, [Next]_vars
  PROVE  \/ Orderly /\ \A t \in Tasks : tries'[t] <= tries[t]
         \/ \E p \in Procs : /\ Checkout(p) /\ CheckedOut(p)
                             /\ Shape' /\ Stored /\ \A t \in Tasks \ reverted' : Moves(t)
<1>0. \A t \in Tasks : tries[t] \in Nat
  BY DEF Shape
<1>1. UNCHANGED tries => \A t \in Tasks : tries'[t] <= tries[t]
  BY <1>0
<1>2. ASSUME NEW p \in Procs, Kick(p) \/ DaemonTick(p)
      PROVE  Orderly /\ UNCHANGED tries
  <2>1. UNCHANGED requests /\ \E k : ProcessNext(p, k)
    BY <1>2 DEF Kick, DaemonTick, bounds
  <2>2. UNCHANGED tries
    BY <2>1 DEF ProcessNext, history
  <2> QED BY <2>1, <2>2, ProcessNextStep
<1>3. ASSUME NEW p \in Procs, Checkout(p)
      PROVE  \/ Orderly /\ UNCHANGED tries
             \/ /\ Checkout(p) /\ CheckedOut(p)
                /\ Shape' /\ Stored /\ \A t \in Tasks \ reverted' : Moves(t)
  BY <1>3, CheckoutStep
<1>4. ASSUME NEW p \in Procs, Cascade(p) \/ Push(p)
      PROVE  Orderly /\ UNCHANGED tries
  BY <1>4, CascadeStep, PushStep DEF Cascade, Push
<1>5. ASSUME NEW p \in Procs, NEW t \in Tasks, TurnEnds(p, t)
      PROVE  Orderly /\ UNCHANGED tries
  BY <1>5, TurnEndsStep DEF TurnEnds, history
<1>6. ASSUME NEW p \in Procs, NEW s \in Slots, Settle(p, s) \/ FinishRepair(p, s)
      PROVE  Orderly /\ UNCHANGED tries
  BY <1>6, SettleStep, FinishRepairStep DEF Settle, FinishRepair
<1>7. ASSUME NEW p \in Procs, NEW t \in Tasks,
             QueueTask(p, t) \/ RetryTask(p, t) \/ CancelTask(p, t) \/ CompleteTask(p, t)
      PROVE  Orderly /\ \A u \in Tasks : tries'[u] <= tries[u]
  <2>1. tries' = [tries EXCEPT ![t] = 0] \/ tries' = tries
    BY <1>7 DEF QueueTask, RetryTask, CancelTask, CompleteTask
  <2>2. \A u \in Tasks : tries'[u] <= tries[u]
    BY <1>0, <2>1 DEF Shape
  <2> QED BY <1>7, <2>2, RequestSteps
<1>8. ASSUME NEW p \in Procs,
             \/ RecoverStalled(p) \/ ValidateCompleted(p) \/ PromoteDeferred(p) \/ ResumeQueue(p)
      PROVE  Orderly /\ UNCHANGED tries
  BY <1>8, RecoverStalledStep, ValidateCompletedStep, PromoteDeferredStep, ResumeQueueStep
     DEF RecoverStalled, ValidateCompleted, PromoteDeferred, ResumeQueue
<1>9. ASSUME NEW p \in Procs, Crash(p) \/ Expire(p)
      PROVE  Orderly /\ UNCHANGED tries
  BY <1>9, CrashStep, ExpireStep DEF Crash, Expire, history
<1>10. ASSUME NEW t \in Tasks, Elapse(t)
       PROVE  Orderly /\ UNCHANGED tries
  BY <1>10, ElapseStep DEF Elapse, history
<1>11. CASE UNCHANGED vars
  BY <1>1, <1>11, StutterStep DEF vars, history
<1> QED BY <1>1, <1>2, <1>3, <1>4, <1>5, <1>6, <1>7, <1>8, <1>9, <1>10, <1>11 DEF Next, Steps

-----------------------------------------------------------------------------
(* In any number of processes *)

LEMMA ShapeFromStart == Init => Shape
<1> SUFFICES ASSUME Init PROVE Shape
  OBVIOUS
<1>1. rows \in Rows /\ stale \in [Procs -> Rows \cup {Fresh}]
  BY QueueAssumption DEF Init, EmptyBoard, Rows, Row, Statuses
<1>2. IsWork(work)
  BY DEF Init, EmptyBoard, IsWork, NoWork
<1> QED BY <1>1, <1>2 DEF Init, EmptyBoard, Shape

\* A task that was not queued again under a turn has at most one turn, and none
\* while it is queued.
TurnsCounted ==
  \A t \in Tasks \ (retaken \cup reverted) :
    /\ \A p, q \in Procs, s, z \in Slots :
         work[p][s].task = t /\ work[q][z].task = t => p = q /\ s = z
    /\ rows[t].status = "queued" => ~HasTurn(work, t)

LEMMA TurnsCountedStep ==
  ASSUME Shape, TurnsCounted, [Next]_vars
  PROVE  Shape' /\ TurnsCounted'
<1>1. CASE Orderly
  <2>1. \A t \in Tasks : HasTurn(work', t) => HasTurn(work, t)
    BY <1>1 DEF Orderly, NoTurnBegins, HasTurn
  <2>2. ASSUME NEW t \in Tasks \ (retaken' \cup reverted')
        PROVE  rows'[t].status = "queued" => ~HasTurn(work', t)
    BY <1>1, <2>1, <2>2 DEF Orderly, Stored, TurnsCounted
  <2>3. ASSUME NEW t \in Tasks \ (retaken' \cup reverted'),
               NEW p \in Procs, NEW q \in Procs, NEW s \in Slots, NEW z \in Slots,
               work'[p][s].task = t, work'[q][z].task = t
        PROVE  p = q /\ s = z
    BY <1>1, <2>3 DEF Orderly, Stored, NoTurnBegins, TurnsCounted
  <2> QED BY <1>1, <2>2, <2>3 DEF Orderly, TurnsCounted
<1>2. ASSUME NEW o \in Procs, CheckedOut(o), Shape', Stored
      PROVE  TurnsCounted'
  <2> DEFINE c == rest[o].task
  <2>1. PICK y : \A q \in Procs, z \in Slots : q # o \/ z # y => work'[q][z].task = work[q][z].task
    BY <1>2 DEF CheckedOut
  <2>2. \A q \in Procs, z \in Slots : work'[q][z].task # work[q][z].task => work'[q][z].task = c
    BY <1>2 DEF CheckedOut
  <2>3. c \in Tasks \ reverted' => rows[c].status = "queued" /\ rows'[c].status = "running"
    BY <1>2 DEF CheckedOut
  <2> HIDE DEF c
  <2>4. ASSUME NEW t \in Tasks \ (retaken' \cup reverted')
        PROVE  /\ \A p, q \in Procs, s, z \in Slots :
                    work'[p][s].task = t /\ work'[q][z].task = t => p = q /\ s = z
               /\ rows'[t].status = "queued" => ~HasTurn(work', t)
    <3>1. t \in Tasks \ (retaken \cup reverted)
      BY <1>2, <2>4 DEF Stored
    <3>2. CASE t = c
      <4>1. ~HasTurn(work, t) /\ rows'[t].status = "running"
        BY <2>3, <3>1, <3>2, <2>4 DEF TurnsCounted
      <4>2. \A q \in Procs, z \in Slots : work'[q][z].task = t => q = o /\ z = y
        BY <2>1, <4>1 DEF HasTurn
      <4> QED BY <4>1, <4>2
    <3>3. CASE t # c
      <4>1. \A q \in Procs, z \in Slots : work'[q][z].task = t => work[q][z].task = t
        BY <2>2, <3>3
      <4>2. rows'[t].status = "queued" => ~HasTurn(work', t)
        BY <1>2, <2>4, <3>1, <4>1 DEF Stored, TurnsCounted, HasTurn
      <4> QED BY <3>1, <4>1, <4>2 DEF TurnsCounted
    <3> QED BY <3>2, <3>3
  <2> QED BY <2>4 DEF TurnsCounted
<1> QED BY <1>1, <1>2, AnyStep DEF Orderly

\* The checkout re-reads the row and writes it back before the turn starts
\* (checkoutTask), so two workers, or two processes, never both start a task
\* that they both saw queued: two turns of one task need a task that was queued
\* again while its turn ran, or a decision on an outdated copy.
THEOREM TurnsNeverDoubled == Spec => []OneTurnUnlessRetaken
<1>1. Init => Shape /\ TurnsCounted
  <2>1. Init => TurnsCounted
    BY QueueAssumption DEF Init, EmptyBoard, TurnsCounted, HasTurn, NoWork, Tasks
  <2> QED BY <2>1, ShapeFromStart
<1>2. Shape /\ TurnsCounted /\ [Next]_vars => (Shape /\ TurnsCounted)'
  BY TurnsCountedStep
<1>3. Shape /\ TurnsCounted => OneTurnUnlessRetaken
  BY DEF TurnsCounted, OneTurnUnlessRetaken
<1> QED BY <1>1, <1>2, <1>3, PTL DEF Spec

LEMMA ShapeKept ==
  ASSUME Shape, [Next]_vars
  PROVE  Shape'
BY AnyStep DEF Orderly

\* The dependency guard is looked at twice, by dequeueNextRunnableTask and
\* before the checkout; the second look and the start are one piece of work, so
\* a task starts only while all it waits for is completed.
THEOREM BlockersComeFirst == Spec => DependentsWait
<1>1. ASSUME Shape, [Next]_vars, NEW t \in Tasks, tries'[t] > tries[t], NEW b \in BlockedBy[t]
      PROVE  b \in reverted' \/ rows[b].status = "completed"
  <2>1. tries[t] \in Nat /\ tries'[t] \in Nat /\ b \in Tasks
    BY <1>1, ShapeKept, QueueAssumption DEF Shape
  <2>2. PICK p \in Procs : CheckedOut(p)
    BY <1>1, <2>1, AnyStep
  <2>3. MayStart(View(p), t)
    BY <1>1, <2>2 DEF CheckedOut
  <2>4. View(p)[b].status = "completed"
    BY <2>3 DEF MayStart, BlockersDone
  <2>5. b \notin reverted' => View(p)[b] = rows[b]
    BY <2>1, <2>2 DEF CheckedOut
  <2> QED BY <2>4, <2>5
<1>2. Shape /\ [Next]_vars => Shape'
  BY ShapeKept
<1>3. Shape /\ [Next]_vars =>
        [\A t \in Tasks : tries'[t] > tries[t] =>
           \A b \in BlockedBy[t] : b \in reverted' \/ rows[b].status = "completed"]_vars
  BY <1>1
<1> QED BY <1>2, <1>3, ShapeFromStart, PTL DEF Spec, DependentsWait

-----------------------------------------------------------------------------
(* In one process *)

\* What enqueueTask is about to save as queued is queued.
PushFits ==
  \A p \in Procs : rest[p].op = "push" /\ rest[p].enqueue =>
    \A t \in (Tasks \cap rest[p].tasks) \ reverted : rows[t].status = "queued"

\* Nothing but the daemon's start and the operator comes between the two saves.
LEMMA PushFitsStep ==
  ASSUME NEW p0, Procs = {p0}, Shape, PushFits, [Next]_vars
  PROVE  PushFits'
<1> DEFINE r == rest[p0]
           Fits == r'.op = "push" /\ r'.enqueue =>
                     \A t \in (Tasks \cap r'.tasks) \ reverted' : rows'[t].status = "queued"
           Idle == r' = r \/ r' = NoRest \/ r'.op \in {"checkout", "cascade"} \/ ~r'.enqueue
<1> SUFFICES Fits
  BY DEF PushFits
<1>0. NoRest.op # "push" /\ "checkout" # "push" /\ "cascade" # "push"
  BY DEF NoRest
<1>1. r = NoRest /\ Idle => Fits
  BY <1>0
<1>2. ASSUME \A t \in Tasks : rows'[t].status = rows[t].status, reverted' = reverted, r' = r
      PROVE  Fits
  BY <1>2 DEF PushFits
<1>3. CASE Kick(p0) \/ DaemonTick(p0)
  <2>1. r = NoRest /\ \E k : ProcessNext(p0, k)
    BY <1>3 DEF Kick, DaemonTick, Free
  <2>2. Idle
    BY <2>1 DEF ProcessNext, Shape
  <2> QED BY <1>1, <2>1, <2>2
<1>4. CASE Checkout(p0) \/ Push(p0) \/ Crash(p0)
  <2>1. r' = NoRest
    BY <1>4 DEF Checkout, Push, Crash, Shape
  <2> QED BY <1>0, <2>1
<1>5. CASE Cascade(p0)
  <2> DEFINE v == View(p0)
             U == Unblocked(v, r.task)
             v2 == WithStatus(v, U, "queued")
  <2>1. CASE r' = NoRest
    BY <1>0, <2>1
  <2>2. CASE /\ Save(p0, v2)
             /\ rest' = [rest EXCEPT ![p0] = [op |-> "push", tasks |-> U, enqueue |-> TRUE, last |-> r.last]]
    <3>1. r'.tasks = U
      BY <2>2 DEF Shape
    <3>2. rows' = v2
      BY <2>2 DEF Save, Write
    <3>3. \A t \in Tasks : t \in U => v2[t].status = "queued"
      <4>1. v \in Rows
        BY ViewInRows
      <4> HIDE DEF v, U
      <4> QED BY <4>1 DEF WithStatus, Rows, Row
    <3> QED BY <3>1, <3>2, <3>3
  <2>3. CASE rest' = [rest EXCEPT ![p0] = NoRest]
    BY <2>1, <2>3 DEF Shape
  <2> QED BY <1>5, <2>2, <2>3 DEF Cascade
<1>6. ASSUME NEW t \in Tasks, TurnEnds(p0, t)
      PROVE  Fits
  <2>1. r = NoRest /\ r' = r
    BY <1>6 DEF TurnEnds, Free
  <2> QED BY <1>1, <2>1
<1>7. ASSUME NEW s \in Slots, Settle(p0, s) \/ FinishRepair(p0, s)
      PROVE  Fits
  <2>1. r = NoRest
    BY <1>7 DEF Settle, FinishRepair, Free
  <2> DEFINE cascade == [op |-> "cascade", task |-> work[p0][s].task, last |-> TRUE]
             again == [op |-> "push", tasks |-> {work[p0][s].task}, enqueue |-> FALSE, last |-> TRUE]
  <2>2. ASSUME NEW first, RetryOrGiveUp(p0, View(p0), work[p0][s].task, first)
        PROVE  rest' = rest \/ rest' = [rest EXCEPT ![p0] = again]
    BY <2>2 DEF RetryOrGiveUp
  <2>3. \/ rest' = rest \/ rest' = [rest EXCEPT ![p0] = cascade]
        \/ rest' = [rest EXCEPT ![p0] = again]
    <3>1. CASE Settle(p0, s)
      BY <2>2, <3>1, ZenonT(30) DEF Settle
    <3>2. CASE FinishRepair(p0, s)
      BY <2>2, <3>2 DEF FinishRepair
    <3> QED BY <1>7, <3>1, <3>2
  <2>4. cascade.op = "cascade" /\ ~again.enqueue
    OBVIOUS
  <2> HIDE DEF cascade, again
  <2>5. Idle
    BY <2>3, <2>4 DEF Shape
  <2> QED BY <1>1, <2>1, <2>5
<1>8. ASSUME NEW t \in Tasks, QueueTask(p0, t) \/ RetryTask(p0, t)
      PROVE  Fits
  <2>1. r'.tasks = {t}
    BY <1>8 DEF QueueTask, RetryTask, ThenEnqueue, Shape
  <2>2. View(p0)[t] \in Row
    BY ViewInRows DEF Rows
  <2>3. PICK e \in Row : e.status = "queued" /\ SaveOne(p0, t, e)
    <3>1. /\ [View(p0)[t] EXCEPT !.status = "queued"] \in Row
          /\ [View(p0)[t] EXCEPT !.status = "queued"].status = "queued"
      BY <2>2 DEF Row, Statuses
    <3>2. [status |-> "queued", attempts |-> 0, retry |-> "none"] \in Row
      BY QueueAssumption DEF Row, Statuses
    <3> QED BY <1>8, <3>1, <3>2 DEF QueueTask, RetryTask
  <2>4. rows'[t].status = "queued"
    BY <2>3, SaveOneStores
  <2> QED BY <2>1, <2>4
<1>9. ASSUME NEW t \in Tasks, CancelTask(p0, t) \/ CompleteTask(p0, t)
      PROVE  Fits
  <2>1. r = NoRest
    BY <1>9 DEF CancelTask, CompleteTask, Request, Free
  <2>2. Idle
    BY <1>9 DEF CancelTask, CompleteTask, Shape
  <2> QED BY <1>1, <2>1, <2>2
<1>10. CASE RecoverStalled(p0) \/ ValidateCompleted(p0) \/ PromoteDeferred(p0) \/ ResumeQueue(p0)
  <2>1. r = NoRest /\ r' = r
    BY <1>10 DEF RecoverStalled, ValidateCompleted, PromoteDeferred, ResumeQueue, Free
  <2> QED BY <1>1, <2>1
<1>11. ASSUME NEW t \in Tasks, Elapse(t)
       PROVE  Fits
  <2>1. rows' = IF rows[t].retry = "waiting" THEN [rows EXCEPT ![t].retry = "due"] ELSE rows
    BY <1>11 DEF Elapse
  <2>2. \A u \in Tasks : rows'[u].status = rows[u].status
    BY <2>1 DEF Shape, Rows, Row
  <2>3. reverted' = reverted /\ r' = r
    BY <1>11 DEF Elapse, process, history
  <2> QED BY <1>2, <2>2, <2>3
<1>12. CASE Expire(p0) \/ UNCHANGED vars
  <2>1. UNCHANGED <<rows, reverted, rest>>
    BY <1>12 DEF Expire, vars, db, process, history
  <2> QED BY <1>2, <2>1
<1> QED BY <1>3, <1>4, <1>5, <1>6, <1>7, <1>8, <1>9, <1>10, <1>11, <1>12 DEF Next, Steps

LEMMA PushFitsFromStart == Init => PushFits
BY DEF Init, EmptyBoard, PushFits, NoRest

\* Every late turn, repair turn, sweep and restart looks at the row of the task
\* before it writes, and leaves a cancelled one as it is; only a process that
\* is alone is sure that what it looks at is what it writes over.
THEOREM CancellationStays ==
  ASSUME NEW p0, Procs = {p0}
  PROVE  Spec => CancelledStays
<1>1. ASSUME Shape, PushFits, [Next]_vars, NEW t \in Tasks \ reverted',
             rows[t].status = "cancelled", rows'[t].status # "cancelled"
      PROVE  requests' > requests
  <2>1. Moves(t) /\ t \notin reverted
    BY <1>1, AnyStep DEF Orderly, Stored
  <2>2. ~IsPushed(t)
    BY <1>1, <2>1 DEF IsPushed, PushFits
  <2>3. ~Stays(t) /\ ~IsRetried(t) /\ ~IsOver(t) /\ ~IsDeferred(t) /\ ~Starts(t) /\ ~ComesUp(t)
    BY <1>1 DEF Stays, IsRetried, IsOver, IsDeferred, Starts, ComesUp
  <2>4. IsAsked(t)
    BY <2>1, <2>2, <2>3 DEF Moves
  <2> QED BY <1>1, <2>4 DEF IsAsked, Shape
<1>2. Shape /\ PushFits /\ [Next]_vars => Shape' /\ PushFits'
  BY ShapeKept, PushFitsStep
<1>3. Shape /\ PushFits /\ [Next]_vars =>
        [\A t \in Tasks \ reverted' :
           rows[t].status = "cancelled" /\ rows'[t].status # "cancelled" => requests' > requests]_vars
  BY <1>1
<1> QED BY <1>2, <1>3, ShapeFromStart, PushFitsFromStart, PTL DEF Spec, CancelledStays

\* The tries of a task never run ahead of the attempts on its row by more than
\* the turn that is going on, and there is room for one more while it waits.
TriesBacked ==
  \A t \in Tasks \ reverted :
    /\ tries[t] <= MaxAttempts /\ tries[t] <= rows[t].attempts + 1
    /\ rows[t].status \in {"backlog", "queued", "deferred"} =>
         tries[t] <= rows[t].attempts /\ tries[t] < MaxAttempts

LEMMA TriesBackedStep ==
  ASSUME NEW p0, Procs = {p0}, Shape, PushFits, TriesBacked, [Next]_vars
  PROVE  TriesBacked'
<1> SUFFICES ASSUME NEW t \in Tasks \ reverted'
             PROVE  /\ tries'[t] <= MaxAttempts /\ tries'[t] <= rows'[t].attempts + 1
                    /\ rows'[t].status \in {"backlog", "queued", "deferred"} =>
                         tries'[t] <= rows'[t].attempts /\ tries'[t] < MaxAttempts
  BY DEF TriesBacked
<1>1. Moves(t) /\ t \notin reverted /\ Shape'
  BY AnyStep DEF Orderly, Stored
<1>2. /\ rows[t] \in Row /\ rows'[t] \in Row /\ tries[t] \in Nat /\ tries'[t] \in Nat
      /\ rows[t].attempts \in 0 .. MaxAttempts /\ rows'[t].attempts \in 0 .. MaxAttempts
      /\ MaxAttempts \in Nat \ {0}
  BY <1>1, QueueAssumption DEF Shape, Rows, Row
<1>3. /\ tries[t] <= MaxAttempts /\ tries[t] <= rows[t].attempts + 1
      /\ rows[t].status \in {"backlog", "queued", "deferred"} =>
           tries[t] <= rows[t].attempts /\ tries[t] < MaxAttempts
  BY <1>1 DEF TriesBacked
<1>4. CASE Stays(t) \/ IsOver(t) \/ IsDeferred(t) \/ ComesUp(t)
  BY <1>3, <1>4 DEF Stays, IsOver, IsDeferred, ComesUp, SameCounts
<1>5. CASE Starts(t)
  BY <1>2, <1>3, <1>5 DEF Starts
<1>6. CASE IsPushed(t)
  <2>1. rows[t].status = "queued"
    BY <1>1, <1>6 DEF IsPushed, PushFits
  <2> QED BY <1>3, <1>6, <2>1 DEF IsPushed, SameCounts
<1>7. CASE IsAsked(t)
  BY <1>2, <1>3, <1>7 DEF IsAsked, SameCounts
<1>8. CASE IsRetried(t)
  BY <1>2, <1>3, <1>8 DEF IsRetried, ScheduleRetry
<1> QED BY <1>1, <1>4, <1>5, <1>6, <1>7, <1>8 DEF Moves

\* scheduleRetryOrDeadLetter counts an attempt whenever it queues a task again,
\* and the ends of a turn count before the next can start: no crash, stall or
\* late turn makes a process that is alone start a task more often than
\* maxAttempts before the operator asks for it again.
THEOREM TriesStayBounded ==
  ASSUME NEW p0, Procs = {p0}
  PROVE  Spec => []BoundedTries
<1>1. Init => TriesBacked
  BY QueueAssumption DEF Init, EmptyBoard, TriesBacked
<1>2. Shape /\ PushFits /\ TriesBacked /\ [Next]_vars => (Shape /\ PushFits /\ TriesBacked)'
  BY ShapeKept, PushFitsStep, TriesBackedStep
<1>3. TriesBacked => BoundedTries
  BY DEF TriesBacked, BoundedTries
<1> QED BY <1>1, <1>2, <1>3, ShapeFromStart, PushFitsFromStart, PTL DEF Spec

-----------------------------------------------------------------------------
(* What is in the queue *)

\* A non-empty set of naturals has a least member.
LEMMA LeastPlace ==
  ASSUME NEW S \in SUBSET Nat, S # {}
  PROVE  FirstOf(S) \in S
<1> DEFINE less == OpToRel(<, Nat)
<1>1. \A c, d \in S : d < c => <<d, c>> \in less
  BY Zenon DEF OpToRel
<1>2. IsWellFoundedOn(less, Nat)
  BY NatLessThanWellFounded, Zenon
<1> HIDE DEF less
<1>3. PICK c \in S : \A d \in S : ~(<<d, c>> \in less)
  BY <1>2, WFMin, Zenon
<1>4. \A d \in S : ~(d < c)
  BY <1>1, <1>3, Zenon
<1>5. \A d \in S : c <= d
  <2> SUFFICES ASSUME NEW d \in S PROVE c <= d
    OBVIOUS
  <2>1. c \in Nat /\ d \in Nat /\ ~(d < c)
    BY <1>4
  <2> QED BY <2>1
<1> QED BY <1>5 DEF FirstOf

\* InOrder lists a finite set of naturals in increasing order, each once: a
\* member stands at the place given by how many are not greater.
LEMMA InOrderLists ==
  ASSUME NEW S \in SUBSET Nat, IsFiniteSet(S)
  PROVE  /\ Cardinality(S) \in Nat /\ InOrder(S) \in [1 .. Cardinality(S) -> S]
         /\ \A i, j \in 1 .. Cardinality(S) : i < j => InOrder(S)[i] < InOrder(S)[j]
         /\ \A x \in S : \E i \in 1 .. Cardinality(S) : InOrder(S)[i] = x
<1> DEFINE n == Cardinality(S)
           upTo(x) == {y \in S : y <= x}
           rank == [x \in S |-> Cardinality(upTo(x))]
           list == [i \in 1 .. n |-> CHOOSE x \in S : rank[x] = i]
<1>0. \A x \in S : x \in Nat
  OBVIOUS
<1>1. n \in Nat /\ IsFiniteSet(1 .. n) /\ Cardinality(1 .. n) = n
  BY FS_CardinalityType, FS_Interval
<1>2. ASSUME NEW x \in S PROVE rank[x] \in 1 .. n
  <2>1. upTo(x) \in SUBSET S /\ x \in upTo(x)
    OBVIOUS
  <2>2. IsFiniteSet(upTo(x)) /\ Cardinality(upTo(x)) <= n
    BY <2>1, FS_Subset
  <2>3. Cardinality(upTo(x)) \in Nat /\ Cardinality(upTo(x)) # 0
    BY <2>1, <2>2, FS_CardinalityType, FS_EmptySet
  <2> QED BY <1>1, <2>2, <2>3
<1>3. ASSUME NEW x \in S, NEW z \in S, x < z PROVE rank[x] < rank[z]
  <2>0. x \in Nat /\ z \in Nat /\ x < z
    BY <1>3
  <2>1. upTo(x) \in SUBSET upTo(z) /\ z \in upTo(z) /\ z \notin upTo(x) /\ upTo(z) \in SUBSET S
    <3>1. \A y \in Nat : y <= x => y <= z
      BY <2>0
    <3>2. ~(z <= x) /\ z <= z
      BY <2>0
    <3> QED BY <3>1, <3>2
  <2>2. IsFiniteSet(upTo(z))
    BY <2>1, FS_Subset
  <2>3. Cardinality(upTo(x)) <= Cardinality(upTo(z)) /\ Cardinality(upTo(x)) # Cardinality(upTo(z))
    BY <2>1, <2>2, FS_Subset
  <2>4. rank[x] \in Nat /\ rank[z] \in Nat
    BY <1>1, <1>2
  <2> QED BY <2>3, <2>4
<1>4. rank \in Surjection(S, 1 .. n)
  <2>1. rank \in [S -> 1 .. n]
    BY <1>2
  <2> HIDE DEF rank
  <2>2. \A x, z \in S : rank[x] = rank[z] => x = z
    BY <1>0, <1>1, <1>2, <1>3
  <2>3. rank \in Injection(S, 1 .. n)
    BY <2>1, <2>2 DEF Injection, IsInjective
  <2> QED BY <1>1, <2>3, FS_Injection
<1>5. ASSUME NEW i \in 1 .. n PROVE list[i] \in S /\ rank[list[i]] = i
  <2>1. \E x \in S : rank[x] = i
    BY <1>4 DEF Surjection
  <2> QED BY <2>1
<1>6. \A i, j \in 1 .. n : i < j => list[i] < list[j]
  <2> SUFFICES ASSUME NEW i \in 1 .. n, NEW j \in 1 .. n, i < j PROVE list[i] < list[j]
    OBVIOUS
  <2>1. list[i] \in S /\ list[j] \in S /\ rank[list[i]] = i /\ rank[list[j]] = j
    BY <1>5
  <2> DEFINE x == list[i]
             z == list[j]
  <2>2. x \in S /\ z \in S /\ rank[x] = i /\ rank[z] = j
    BY <2>1
  <2>3. \A c, d \in S : c < d => rank[c] < rank[d]
    BY <1>3
  <2> HIDE DEF list, rank, x, z
  <2>4. x \in Nat /\ z \in Nat /\ x # z
    BY <1>0, <2>2
  <2>5. ~(z < x)
    BY <1>1, <2>2, <2>3
  <2>6. x < z
    BY <2>4, <2>5
  <2> QED BY <2>6 DEF x, z
<1>7. list \in [1 .. n -> S]
  BY <1>5
<1>8. /\ InOrder(S) \in [1 .. n -> S]
      /\ \A i, j \in 1 .. n : i < j => InOrder(S)[i] < InOrder(S)[j]
  <2> HIDE DEF list
  <2>1. \E s \in [1 .. n -> S] : \A i, j \in DOMAIN s : i < j => s[i] < s[j]
    BY <1>6, <1>7
  <2> QED BY <2>1 DEF InOrder
<1>9. \A x \in S : \E i \in 1 .. n : InOrder(S)[i] = x
  <2> DEFINE s == InOrder(S)
  <2>1. s \in [1 .. n -> S] /\ \A i, j \in 1 .. n : i < j => s[i] < s[j]
    BY <1>8
  <2> HIDE DEF s
  <2>2. \A i, j \in 1 .. n : s[i] = s[j] => i = j
    <3>1. \A i \in 1 .. n : s[i] \in Nat
      BY <1>0, <2>1
    <3> HIDE DEF n
    <3> QED BY <1>1, <2>1, <3>1
  <2>3. s \in Injection(1 .. n, S)
    BY <2>1, <2>2 DEF Injection, IsInjective
  <2>4. s \in Surjection(1 .. n, S)
    BY <1>1, <2>3, FS_Injection
  <2> QED BY <2>4 DEF Surjection, s
<1> QED BY <1>1, <1>8, <1>9

\* The entries that are kept are those of the set; none is doubled.
LEMMA SiftedEntries ==
  ASSUME NEW q \in Seq(Tasks), NEW S
  PROVE  /\ Sifted(q, S) \in Seq(Tasks)
         /\ ToSet(Sifted(q, S)) = ToSet(q) \cap S
         /\ IsInjective(q) => IsInjective(Sifted(q, S))
<1> DEFINE P == {i \in DOMAIN q : q[i] \in S}
           m == Cardinality(P)
           s == InOrder(P)
           k == Sifted(q, S)
<1>1. DOMAIN q = 1 .. Len(q) /\ Len(q) \in Nat /\ \A i \in DOMAIN q : q[i] \in Tasks
  OBVIOUS
<1>2. P \in SUBSET Nat /\ IsFiniteSet(P)
  <2>1. IsFiniteSet(DOMAIN q)
    BY <1>1, FS_Interval
  <2> QED BY <1>1, <2>1, FS_Subset
<1>3. /\ m \in Nat /\ s \in [1 .. m -> P]
      /\ \A i, j \in 1 .. m : i < j => s[i] < s[j]
      /\ \A x \in P : \E i \in 1 .. m : s[i] = x
  <2> HIDE DEF P
  <2> QED BY <1>2, InOrderLists
<1>4. k = [i \in DOMAIN s |-> q[s[i]]]
  BY DEF Sifted
<1>5. \A x : x \in P <=> x \in DOMAIN q /\ q[x] \in S
  OBVIOUS
<1> HIDE DEF P, s, k, m
<1>6. DOMAIN k = 1 .. m /\ \A i \in 1 .. m : s[i] \in P /\ k[i] = q[s[i]]
  BY <1>3, <1>4
<1>7. k \in Seq(Tasks)
  <2>1. \A i \in 1 .. m : k[i] \in Tasks
    BY <1>1, <1>5, <1>6
  <2>2. k = [i \in 1 .. m |-> k[i]]
    BY <1>4, <1>6
  <2> QED BY <1>3, <2>1, <2>2
<1>8. ToSet(k) = ToSet(q) \cap S
  <2>1. \A x : x \in ToSet(k) => x \in ToSet(q) \cap S
    BY <1>5, <1>6 DEF ToSet
  <2>2. \A x : x \in ToSet(q) \cap S => x \in ToSet(k)
    BY <1>3, <1>5, <1>6 DEF ToSet
  <2> QED BY <2>1, <2>2
<1>9. IsInjective(q) => IsInjective(k)
  <2> SUFFICES ASSUME IsInjective(q), NEW i \in 1 .. m, NEW j \in 1 .. m, k[i] = k[j] PROVE i = j
    BY <1>6 DEF IsInjective
  <2>1. s[i] = s[j] /\ s[i] \in Nat /\ s[j] \in Nat
    BY <1>2, <1>5, <1>6 DEF IsInjective
  <2> QED BY <1>3, <2>1
<1> QED BY <1>7, <1>8, <1>9 DEF k

\* Pushing a set of tasks adds those that are not there, each once.
LEMMA PushedEntries ==
  ASSUME NEW q \in Seq(Tasks), NEW S \in SUBSET Tasks
  PROVE  /\ PushUnique(q, S) \in Seq(Tasks)
         /\ ToSet(PushUnique(q, S)) = ToSet(q) \cup S
         /\ IsInjective(q) => IsInjective(PushUnique(q, S))
<1> DEFINE N == S \ ToSet(q)
           m == Cardinality(N)
           s == InOrder(N)
           k == PushUnique(q, S)
           l == Len(q)
<1>1. DOMAIN q = 1 .. l /\ l \in Nat /\ \A i \in DOMAIN q : q[i] \in Tasks
  OBVIOUS
<1>2. N \in SUBSET Nat /\ IsFiniteSet(N) /\ N \in SUBSET Tasks
  <2>1. IsFiniteSet(Tasks) /\ Tasks \subseteq Nat
    BY QueueAssumption, FS_Interval DEF Tasks
  <2> QED BY <2>1, FS_Subset
<1>3. /\ m \in Nat /\ s \in [1 .. m -> N]
      /\ \A i, j \in 1 .. m : i < j => s[i] < s[j]
      /\ \A x \in N : \E i \in 1 .. m : s[i] = x
  <2> HIDE DEF N
  <2> QED BY <1>2, InOrderLists
<1>4. k = q \o s
  BY DEF PushUnique
<1>5. \A x : x \in N <=> x \in S /\ x \notin ToSet(q)
  OBVIOUS
<1> HIDE DEF N, s, m, k
<1>6. s \in Seq(Tasks) /\ Len(s) = m
  <2>1. s \in [1 .. m -> Tasks]
    BY <1>2, <1>3
  <2> QED BY <1>3, <2>1
<1>7. k \in Seq(Tasks) /\ DOMAIN k = 1 .. l + m
  BY <1>4, <1>6
<1>8. \A i \in 1 .. l : k[i] = q[i]
  BY <1>4, <1>6
<1>9. \A i \in 1 .. m : l + i \in DOMAIN k /\ k[l + i] = s[i]
  BY <1>1, <1>3, <1>4, <1>6, <1>7
<1>10. \A j \in DOMAIN k : j \in 1 .. l \/ \E i \in 1 .. m : j = l + i
  <2> SUFFICES ASSUME NEW j \in 1 .. l + m, j \notin 1 .. l PROVE j - l \in 1 .. m /\ j = l + (j - l)
    BY <1>7
  <2> QED BY <1>1, <1>3
<1>11. ToSet(k) = ToSet(q) \cup S
  <2>1. \A j \in DOMAIN k : k[j] \in ToSet(q) \cup S
    <3> SUFFICES ASSUME NEW j \in DOMAIN k PROVE k[j] \in ToSet(q) \cup S
      OBVIOUS
    <3>1. CASE j \in 1 .. l
      BY <1>1, <1>8, <3>1 DEF ToSet
    <3>2. CASE \E i \in 1 .. m : j = l + i
      <4>1. PICK i \in 1 .. m : j = l + i
        BY <3>2
      <4> QED BY <1>3, <1>5, <1>9, <4>1
    <3> QED BY <1>10, <3>1, <3>2
  <2>2. \A x : x \in ToSet(q) => x \in ToSet(k)
    <3>1. \A i \in 1 .. l : i \in DOMAIN k
      BY <1>1, <1>3, <1>7
    <3> QED BY <1>1, <1>8, <3>1 DEF ToSet
  <2>3. \A x : x \in N => x \in ToSet(k)
    BY <1>3, <1>9 DEF ToSet
  <2>4. \A x : x \in ToSet(k) => x \in ToSet(q) \cup S
    BY <2>1 DEF ToSet
  <2> QED BY <1>5, <2>2, <2>3, <2>4
<1>12. IsInjective(q) => IsInjective(k)
  <2> SUFFICES ASSUME IsInjective(q), NEW i \in DOMAIN k, NEW j \in DOMAIN k, k[i] = k[j]
               PROVE  i = j
    BY DEF IsInjective
  <2>1. \A x \in 1 .. l, y \in 1 .. m : q[x] # s[y]
    BY <1>1, <1>3, <1>5 DEF ToSet
  <2>2. \A x, y \in 1 .. m : s[x] = s[y] => x = y
    <3>1. \A x \in 1 .. m : s[x] \in Nat
      BY <1>2, <1>3
    <3> QED BY <1>3, <3>1
  <2>3. CASE i \in 1 .. l /\ j \in 1 .. l
    BY <1>1, <1>8, <2>3 DEF IsInjective
  <2>4. CASE i \notin 1 .. l \/ j \notin 1 .. l
    BY <1>8, <1>9, <1>10, <2>1, <2>2, <2>4
  <2> QED BY <2>3, <2>4
<1> QED BY <1>7, <1>11, <1>12 DEF k

-----------------------------------------------------------------------------
(* Types *)

QueueOK == queue \in Seq(Tasks) /\ IsInjective(queue)
WorkOK == work \in [Procs -> [Slots -> Work \cup {NoWork}]]
RestOK(r) ==
  \/ r = NoRest
  \/ r \in [op : {"checkout"}, task : Tasks]
  \/ r \in [op : {"cascade"}, task : Tasks, last : BOOLEAN]
  \/ r \in [op : {"push"}, tasks : SUBSET Tasks, enqueue : BOOLEAN, last : BOOLEAN]
TimersOK ==
  /\ kicks \in [Procs -> 0 .. MaxKicks] /\ pendingKick \in [Procs -> BOOLEAN]
  /\ booted \in [Procs -> BOOLEAN]
OrphansOK == orphanRecoveryAttempts \in [Procs -> [Tasks -> 0 .. MaxOrphan]]
HistoryOK == retaken \subseteq Tasks /\ reverted \subseteq Tasks /\ misses \in 0 .. MaxMisses
BoundsOK == requests \in 0 .. MaxRequests /\ stalls \in 0 .. MaxStalls /\ crashes \in 0 .. MaxCrashes

\* Shape, and the ranges of what it leaves out.
Typed ==
  /\ Shape /\ QueueOK /\ WorkOK /\ (\A p \in Procs : RestOK(rest[p]))
  /\ TimersOK /\ OrphansOK /\ HistoryOK /\ BoundsOK

LEMMA RestParts ==
  ASSUME NEW r, RestOK(r)
  PROVE  /\ r.op = "checkout" => r.task \in Tasks
         /\ r.op = "cascade" => r.task \in Tasks /\ r.last \in BOOLEAN
         /\ r.op = "push" => /\ r.tasks \in SUBSET Tasks
                             /\ r.enqueue \in BOOLEAN /\ r.last \in BOOLEAN
BY DEF RestOK, NoRest

LEMMA WorkParts ==
  ASSUME NEW e \in Work \cup {NoWork}, e.phase # "none"
  PROVE  e.task \in Tasks /\ e.phase \in {"turn", "repair"} \cup Settled
BY DEF Work, NoWork

LEMMA QueueTyped ==
  ASSUME Typed, [Next]_vars
  PROVE  QueueOK'
<1> USE DEF QueueOK
<1>0. queue \in Seq(Tasks) /\ IsInjective(queue)
  BY DEF Typed
<1>1. ASSUME queue' = queue PROVE QueueOK'
  BY <1>0, <1>1
<1>2. ASSUME NEW S \in SUBSET Tasks, queue' = PushUnique(queue, S) PROVE QueueOK'
  BY <1>0, <1>2, PushedEntries
<1>3. ASSUME NEW p \in Procs, NEW k, ProcessNext(p, k) PROVE QueueOK'
  <2> DEFINE v == View(p)
             O == Orphans(p, v)
             dead == Exhausted(p, O)
             v2 == [t \in Tasks |-> IF t \in dead THEN DeadLettered(v[t]) ELSE v[t]]
             q2 == PushUnique(queue, O \ dead)
             n == q2[FirstOf(RunnableIn(q2, v2))]
  <2>1. O \ dead \in SUBSET Tasks
    BY DEF Orphans, InStatus
  <2>2. \/ queue' = queue \/ queue' = LiveQueue(q2, v2)
        \/ queue' = Sifted(LiveQueue(q2, v2), Tasks \ {n})
    BY <1>3 DEF ProcessNext, db
  <2>3. q2 \in Seq(Tasks) /\ IsInjective(q2)
    <3> HIDE DEF O, dead
    <3> QED BY <1>0, <2>1, PushedEntries
  <2> HIDE DEF q2, v2, n
  <2>4. LiveQueue(q2, v2) \in Seq(Tasks) /\ IsInjective(LiveQueue(q2, v2))
    BY <2>3, SiftedEntries DEF LiveQueue
  <2> QED BY <1>0, <2>2, <2>4, SiftedEntries
<1>4. ASSUME NEW p \in Procs, Kick(p) \/ DaemonTick(p) PROVE QueueOK'
  BY <1>3, <1>4 DEF Kick, DaemonTick
<1>5. ASSUME NEW p \in Procs, Checkout(p) PROVE QueueOK'
  <2>1. rest[p].task \in Tasks
    BY <1>5, RestParts DEF Typed, Checkout
  <2>2. queue' = queue \/ queue' = PushUnique(queue, {rest[p].task})
    BY <1>5 DEF Checkout, db
  <2> QED BY <1>1, <1>2, <2>1, <2>2
<1>6. ASSUME NEW p \in Procs, NEW t \in Tasks, NEW first, RetryOrGiveUp(p, View(p), t, first)
      PROVE  QueueOK'
  <2>1. queue' = queue \/ queue' = PushUnique(queue, {t})
    BY <1>6 DEF RetryOrGiveUp
  <2> QED BY <1>1, <1>2, <2>1
<1>7. ASSUME NEW p \in Procs, NEW s \in Slots, Settle(p, s) \/ FinishRepair(p, s) PROVE QueueOK'
  <2>1. work[p][s].task \in Tasks
    <3>1. work[p][s].phase \in {"repair", "valid", "invalid", "thrown"}
      BY <1>7 DEF Settle, FinishRepair, Settled
    <3> QED BY <3>1, WorkParts DEF Typed, WorkOK
  <2>2. queue' = queue \/ \E first : RetryOrGiveUp(p, View(p), work[p][s].task, first)
    BY <1>7, ZenonT(30) DEF Settle, FinishRepair
  <2> QED BY <1>1, <1>6, <2>1, <2>2
<1>8. ASSUME NEW p \in Procs, Push(p) PROVE QueueOK'
  <2>1. rest[p].tasks \in SUBSET Tasks
    BY <1>8, RestParts DEF Typed, Push
  <2>2. queue' = PushUnique(queue, rest[p].tasks)
    BY <1>8 DEF Push
  <2> QED BY <1>2, <2>1, <2>2
<1>9. ASSUME NEW p \in Procs, RecoverStalled(p) PROVE QueueOK'
  <2>1. PICK how \in [InStatus(View(p), "running") -> {"none", "empty", "valid", "invalid", "stalled"}],
             S \in SUBSET Tasks : queue' = PushUnique(queue, S)
    BY <1>9 DEF RecoverStalled, InStatus
  <2> QED BY <1>2, <2>1
<1>10. ASSUME NEW p \in Procs, PromoteDeferred(p) PROVE QueueOK'
  <2>1. PICK S \in SUBSET Tasks : queue' = PushUnique(queue, S)
    BY <1>10 DEF PromoteDeferred, InStatus
  <2> QED BY <1>2, <2>1
<1>11. ASSUME NEW p \in Procs, ResumeQueue(p) PROVE QueueOK'
  <2> DEFINE A == InStatus(View(p), "queued")
             B == {t \in InStatus(View(p), "running") : Reap(View(p))[t].status = "queued"}
  <2>1. queue' = PushUnique(PushUnique(queue, A), B)
    BY <1>11 DEF ResumeQueue
  <2>2. A \in SUBSET Tasks /\ B \in SUBSET Tasks
    BY DEF InStatus
  <2> HIDE DEF A, B
  <2>3. PushUnique(queue, A) \in Seq(Tasks) /\ IsInjective(PushUnique(queue, A))
    BY <1>0, <2>2, PushedEntries
  <2> QED BY <2>1, <2>2, <2>3, PushedEntries
<1>12. ASSUME NEW p \in Procs, NEW t \in Tasks,
              \/ TurnEnds(p, t) \/ QueueTask(p, t) \/ RetryTask(p, t) \/ CancelTask(p, t)
              \/ CompleteTask(p, t)
       PROVE  QueueOK'
  BY <1>1, <1>12 DEF TurnEnds, QueueTask, RetryTask, CancelTask, CompleteTask, Request, db
<1>13. ASSUME NEW p \in Procs,
              Cascade(p) \/ ValidateCompleted(p) \/ Crash(p) \/ Expire(p)
       PROVE  QueueOK'
  BY <1>1, <1>13 DEF Cascade, ValidateCompleted, Crash, Expire
<1>14. CASE UNCHANGED vars \/ \E t \in Tasks : Elapse(t)
  BY <1>1, <1>14 DEF Elapse, vars, db
<1> QED BY <1>4, <1>5, <1>7, <1>8, <1>9, <1>10, <1>11, <1>12, <1>13, <1>14 DEF Next, Steps

\* Cases: one process's entry is replaced by one in range, or none is.
LEMMA RestReplaced ==
  ASSUME Typed, NEW p \in Procs, NEW r, RestOK(r), rest' = [rest EXCEPT ![p] = r]
  PROVE  \A q \in Procs : RestOK(rest'[q])
<1>1. DOMAIN rest = Procs /\ \A q \in Procs : RestOK(rest[q])
  BY DEF Typed, Shape
<1>2. \A q \in Procs : rest'[q] = IF q = p THEN r ELSE rest[q]
  BY <1>1
<1> QED BY <1>1, <1>2

LEMMA RestsInRange ==
  /\ RestOK(NoRest)
  /\ \A t \in Tasks : RestOK([op |-> "checkout", task |-> t])
  /\ \A t \in Tasks, last \in BOOLEAN : RestOK([op |-> "cascade", task |-> t, last |-> last])
  /\ \A S \in SUBSET Tasks, enqueue, last \in BOOLEAN :
       RestOK([op |-> "push", tasks |-> S, enqueue |-> enqueue, last |-> last])
BY DEF RestOK

LEMMA RestsTyped ==
  ASSUME Typed, [Next]_vars
  PROVE  \A p \in Procs : RestOK(rest'[p])
<1> DEFINE Goal == \A p \in Procs : RestOK(rest'[p])
<1>0. \A p \in Procs : RestOK(rest[p])
  BY DEF Typed
<1>1. ASSUME rest' = rest PROVE Goal
  BY <1>0, <1>1
<1>2. ASSUME NEW p \in Procs, rest' = [rest EXCEPT ![p] = NoRest] PROVE Goal
  BY <1>2, RestReplaced, RestsInRange
<1>3. ASSUME NEW p \in Procs, NEW t \in Tasks,
             \/ rest' = [rest EXCEPT ![p] = [op |-> "checkout", task |-> t]]
             \/ \E last \in BOOLEAN :
                  rest' = [rest EXCEPT ![p] = [op |-> "cascade", task |-> t, last |-> last]]
      PROVE  Goal
  BY <1>3, RestReplaced, RestsInRange
<1>4. ASSUME NEW p \in Procs, NEW S \in SUBSET Tasks, NEW enqueue \in BOOLEAN, NEW last \in BOOLEAN,
             rest' = [rest EXCEPT ![p] = [op |-> "push", tasks |-> S, enqueue |-> enqueue, last |-> last]]
      PROVE  Goal
  BY <1>4, RestReplaced, RestsInRange
<1> HIDE DEF Goal
<1>5. ASSUME NEW p \in Procs, Kick(p) \/ DaemonTick(p) PROVE Goal
  <2> DEFINE v == View(p)
             O == Orphans(p, v)
             dead == Exhausted(p, O)
             v2 == [t \in Tasks |-> IF t \in dead THEN DeadLettered(v[t]) ELSE v[t]]
             q2 == PushUnique(queue, O \ dead)
             runnable == RunnableIn(q2, v2)
             n == q2[FirstOf(runnable)]
  <2>1. PICK k : ProcessNext(p, k)
    BY <1>5 DEF Kick, DaemonTick
  <2>2. CASE rest' = rest
    BY <1>1, <2>2
  <2>3. CASE runnable # {} /\ rest' = [rest EXCEPT ![p] = [op |-> "checkout", task |-> n]]
    <3>1. O \ dead \in SUBSET Tasks /\ queue \in Seq(Tasks)
      BY DEF Orphans, InStatus, Typed, QueueOK
    <3>2. q2 \in Seq(Tasks)
      <4> HIDE DEF O, dead
      <4> QED BY <3>1, PushedEntries
    <3>3. runnable \subseteq DOMAIN q2
      BY DEF RunnableIn
    <3> HIDE DEF q2, runnable
    <3>4. FirstOf(runnable) \in DOMAIN q2
      <4>1. runnable \in SUBSET Nat
        BY <3>2, <3>3
      <4> QED BY <2>3, <3>3, <4>1, LeastPlace
    <3>5. n \in Tasks
      BY <3>2, <3>4
    <3> QED BY <1>3, <2>3, <3>5
  <2> QED BY <2>1, <2>2, <2>3 DEF ProcessNext
<1>6. ASSUME NEW p \in Procs, Checkout(p) \/ Push(p) \/ Crash(p) PROVE Goal
  BY <1>2, <1>6 DEF Checkout, Push, Crash
<1>7. ASSUME NEW p \in Procs, Cascade(p) PROVE Goal
  <2> DEFINE U == Unblocked(View(p), rest[p].task)
             last == rest[p].last
  <2>1. last \in BOOLEAN
    BY <1>7, RestParts DEF Typed, Cascade
  <2>2. U \in SUBSET Tasks
    BY DEF Unblocked, InStatus
  <2>3. \/ rest' = [rest EXCEPT ![p] = NoRest]
        \/ rest' = [rest EXCEPT ![p] = [op |-> "push", tasks |-> U, enqueue |-> TRUE, last |-> last]]
    BY <1>7 DEF Cascade
  <2> HIDE DEF U, last
  <2> QED BY <1>2, <1>4, <2>1, <2>2, <2>3
<1>8. ASSUME NEW p \in Procs, NEW t \in Tasks, NEW first, RetryOrGiveUp(p, View(p), t, first)
      PROVE  Goal
  <2>1. \/ rest' = rest
        \/ rest' = [rest EXCEPT ![p] = [op |-> "push", tasks |-> {t}, enqueue |-> FALSE, last |-> TRUE]]
    BY <1>8 DEF RetryOrGiveUp
  <2> QED BY <1>1, <1>4, <2>1
<1>9. ASSUME NEW p \in Procs, NEW s \in Slots, Settle(p, s) \/ FinishRepair(p, s) PROVE Goal
  <2> DEFINE t == work[p][s].task
  <2>1. t \in Tasks
    <3>1. work[p][s].phase \in {"repair", "valid", "invalid", "thrown"}
      BY <1>9 DEF Settle, FinishRepair, Settled
    <3> QED BY <3>1, WorkParts DEF Typed, WorkOK
  <2>2. \/ rest' = rest \/ \E first : RetryOrGiveUp(p, View(p), t, first)
        \/ rest' = [rest EXCEPT ![p] = [op |-> "cascade", task |-> t, last |-> TRUE]]
    BY <1>9, ZenonT(30) DEF Settle, FinishRepair
  <2> HIDE DEF t
  <2> QED BY <1>1, <1>3, <1>8, <2>1, <2>2
<1>10. ASSUME NEW p \in Procs, NEW t \in Tasks, QueueTask(p, t) \/ RetryTask(p, t) PROVE Goal
  <2>1. rest' = [rest EXCEPT ![p] = [op |-> "push", tasks |-> {t}, enqueue |-> TRUE, last |-> FALSE]]
    BY <1>10 DEF QueueTask, RetryTask, ThenEnqueue
  <2> QED BY <1>4, <2>1
<1>11. ASSUME NEW p \in Procs, NEW t \in Tasks,
              TurnEnds(p, t) \/ CancelTask(p, t) \/ CompleteTask(p, t)
       PROVE  Goal
  BY <1>1, <1>3, <1>11 DEF TurnEnds, CancelTask, CompleteTask
<1>12. ASSUME NEW p \in Procs,
              \/ RecoverStalled(p) \/ ValidateCompleted(p) \/ PromoteDeferred(p) \/ ResumeQueue(p)
              \/ Expire(p)
       PROVE  Goal
  BY <1>1, <1>12 DEF RecoverStalled, ValidateCompleted, PromoteDeferred, ResumeQueue, Expire, process
<1>13. ASSUME UNCHANGED vars \/ \E t \in Tasks : Elapse(t) PROVE Goal
  BY <1>1, <1>13 DEF Elapse, vars, process
<1>14. Goal
  BY <1>5, <1>6, <1>7, <1>9, <1>10, <1>11, <1>12, <1>13 DEF Next, Steps
<1> QED BY <1>14 DEF Goal

LEMMA WorkTyped ==
  ASSUME Typed, [Next]_vars
  PROVE  WorkOK'
<1> DEFINE Entries == Work \cup {NoWork}
<1>0. work \in [Procs -> [Slots -> Entries]]
  BY DEF Typed, WorkOK
<1>1. ASSUME work' = work PROVE WorkOK'
  BY <1>0, <1>1 DEF WorkOK
<1>2. ASSUME NEW p \in Procs, NEW s, NEW e \in Entries, work' = [work EXCEPT ![p][s] = e]
      PROVE  WorkOK'
  <2> HIDE DEF Entries
  <2>1. work' \in [Procs -> [Slots -> Entries]]
    BY <1>0, <1>2
  <2> QED BY <2>1 DEF WorkOK, Entries
<1>3. NoWork \in Entries
  OBVIOUS
<1>4. ASSUME NEW p \in Procs, Checkout(p) PROVE WorkOK'
  <2> DEFINE e == [task |-> rest[p].task, phase |-> "turn"]
  <2>1. e \in Entries
    BY <1>4, RestParts DEF Typed, Checkout, Work
  <2>2. work' = work \/ \E s : work' = [work EXCEPT ![p][s] = e]
    BY <1>4 DEF Checkout
  <2> HIDE DEF e, Entries
  <2> QED BY <1>1, <1>2, <2>1, <2>2
<1>5. ASSUME NEW p \in Procs, NEW t \in Tasks, TurnEnds(p, t) PROVE WorkOK'
  <2>1. PICK how \in Settled :
          work' = [work EXCEPT ![p] = [s \in Slots |->
                     IF @[s] = [task |-> t, phase |-> "turn"] THEN [task |-> t, phase |-> how] ELSE @[s]]]
    BY <1>5 DEF TurnEnds
  <2> DEFINE e == [task |-> t, phase |-> how]
             turn == [task |-> t, phase |-> "turn"]
             row == [s \in Slots |-> IF work[p][s] = turn THEN e ELSE work[p][s]]
  <2>2. e \in Entries
    BY DEF Work
  <2>3. work' = [work EXCEPT ![p] = row]
    BY <2>1
  <2> HIDE DEF e, turn, Entries
  <2>4. row \in [Slots -> Entries]
    BY <1>0, <2>2
  <2> HIDE DEF row
  <2>5. work' \in [Procs -> [Slots -> Entries]]
    BY <1>0, <2>3, <2>4
  <2> QED BY <2>5 DEF WorkOK, Entries
<1>6. ASSUME NEW p \in Procs, NEW s \in Slots, Settle(p, s) \/ FinishRepair(p, s) PROVE WorkOK'
  <2> DEFINE e == [work[p][s] EXCEPT !.phase = "repair"]
  <2>1. work[p][s].phase # "none" /\ work[p][s] \in Entries
    BY <1>0, <1>6 DEF Settle, FinishRepair, Settled
  <2>2. e \in Entries
    BY <2>1 DEF Work, NoWork
  <2>3. work' = [work EXCEPT ![p][s] = NoWork] \/ work' = [work EXCEPT ![p][s] = e]
    BY <1>6 DEF Settle, FinishRepair
  <2> HIDE DEF e, Entries
  <2> QED BY <1>2, <1>3, <2>2, <2>3
<1>7. ASSUME NEW p \in Procs, Crash(p) PROVE WorkOK'
  <2> DEFINE none == [s \in Slots |-> NoWork]
  <2>1. work' = [work EXCEPT ![p] = none] /\ none \in [Slots -> Entries]
    BY <1>7 DEF Crash
  <2> HIDE DEF none, Entries
  <2>2. work' \in [Procs -> [Slots -> Entries]]
    BY <1>0, <2>1
  <2> QED BY <2>2 DEF WorkOK, Entries
<1>8. ASSUME NEW p \in Procs,
             \/ Kick(p) \/ DaemonTick(p) \/ Cascade(p) \/ Push(p) \/ RecoverStalled(p)
             \/ ValidateCompleted(p) \/ PromoteDeferred(p) \/ ResumeQueue(p) \/ Expire(p)
      PROVE  WorkOK'
  BY <1>1, <1>8 DEF Kick, DaemonTick, ProcessNext, Cascade, Push, RecoverStalled, ValidateCompleted,
                   PromoteDeferred, ResumeQueue, Expire, process
<1>9. ASSUME NEW p \in Procs, NEW t \in Tasks,
             QueueTask(p, t) \/ RetryTask(p, t) \/ CancelTask(p, t) \/ CompleteTask(p, t)
      PROVE  WorkOK'
  BY <1>1, <1>9 DEF QueueTask, RetryTask, CancelTask, CompleteTask, Request
<1>10. CASE UNCHANGED vars \/ \E t \in Tasks : Elapse(t)
  BY <1>1, <1>10 DEF Elapse, vars, process
<1> QED BY <1>4, <1>5, <1>6, <1>7, <1>8, <1>9, <1>10 DEF Next, Steps

LEMMA TimersReplaced ==
  ASSUME TimersOK, NEW p \in Procs, NEW k \in 0 .. MaxKicks, NEW b \in BOOLEAN
  PROVE  /\ [kicks EXCEPT ![p] = k] \in [Procs -> 0 .. MaxKicks]
         /\ [pendingKick EXCEPT ![p] = b] \in [Procs -> BOOLEAN]
BY DEF TimersOK

LEMMA MoreInRange ==
  ASSUME NEW k \in 0 .. MaxKicks
  PROVE  More(k) \in 0 .. MaxKicks
BY QueueAssumption DEF More

LEMMA FinallyTyped ==
  ASSUME TimersOK, NEW p \in Procs, NEW q, NEW v, NEW k \in 0 .. MaxKicks, Finally(p, q, v, k),
         UNCHANGED booted
  PROVE  TimersOK'
<1>1. PICK c \in 0 .. MaxKicks : kicks' = [kicks EXCEPT ![p] = c]
  <2>1. kicks' = [kicks EXCEPT ![p] = More(k)] \/ kicks' = [kicks EXCEPT ![p] = k]
    BY DEF Finally
  <2> QED BY <2>1, MoreInRange
<1>2. pendingKick' = [pendingKick EXCEPT ![p] = FALSE]
  BY DEF Finally
<1> QED BY <1>1, <1>2, TimersReplaced DEF TimersOK

LEMMA TimersTyped ==
  ASSUME Typed, [Next]_vars
  PROVE  TimersOK'
<1>0. TimersOK /\ kicks \in [Procs -> 0 .. MaxKicks]
  BY DEF Typed, TimersOK
<1>1. ASSUME UNCHANGED <<kicks, pendingKick, booted>> PROVE TimersOK'
  BY <1>0, <1>1 DEF TimersOK
<1>2. ASSUME NEW p \in Procs, NEW k \in 0 .. MaxKicks, kicks' = [kicks EXCEPT ![p] = k],
             UNCHANGED booted,
             pendingKick' = pendingKick \/ \E b \in BOOLEAN : pendingKick' = [pendingKick EXCEPT ![p] = b]
      PROVE  TimersOK'
  BY <1>0, <1>2, TimersReplaced DEF TimersOK
<1>3. ASSUME NEW p \in Procs, NEW k \in 0 .. MaxKicks, ProcessNext(p, k), UNCHANGED booted
      PROVE  TimersOK'
  <2>1. \/ \E q, v : Finally(p, q, v, k)
        \/ kicks' = [kicks EXCEPT ![p] = k] /\ UNCHANGED pendingKick
        \/ kicks' = [kicks EXCEPT ![p] = k] /\ pendingKick' = [pendingKick EXCEPT ![p] = TRUE]
    BY <1>3, ZenonT(30) DEF ProcessNext
  <2>2. TRUE \in BOOLEAN
    OBVIOUS
  <2> QED BY <1>0, <1>2, <1>3, <2>1, <2>2, FinallyTyped
<1>4. ASSUME NEW p \in Procs, Kick(p) \/ DaemonTick(p) PROVE TimersOK'
  <2>1. kicks[p] \in 0 .. MaxKicks /\ UNCHANGED booted
    BY <1>0, <1>4 DEF Kick, DaemonTick
  <2>2. CASE kicks[p] > 0 /\ ProcessNext(p, kicks[p] - 1)
    <3>1. kicks[p] - 1 \in 0 .. MaxKicks
      BY <2>1, <2>2, QueueAssumption
    <3> QED BY <1>3, <2>1, <2>2, <3>1
  <2>3. CASE ProcessNext(p, kicks[p])
    BY <1>3, <2>1, <2>3
  <2> QED BY <1>4, <2>2, <2>3 DEF Kick, DaemonTick
<1>5. ASSUME NEW p \in Procs, Checkout(p) PROVE TimersOK'
  <2>1. UNCHANGED booted /\ kicks[p] \in 0 .. MaxKicks
    BY <1>0, <1>5 DEF Checkout
  <2>2. (\E q, v : Finally(p, q, v, kicks[p])) \/ UNCHANGED <<kicks, pendingKick>>
    BY <1>5, ZenonT(30) DEF Checkout
  <2> QED BY <1>0, <1>1, <2>1, <2>2, FinallyTyped
<1>6. ASSUME NEW p \in Procs, NEW t, NEW first, RetryOrGiveUp(p, View(p), t, first), UNCHANGED booted
      PROVE  TimersOK'
  <2>1. (\E q, v : Finally(p, q, v, kicks[p])) \/ UNCHANGED <<kicks, pendingKick>>
    BY <1>6, ZenonT(30) DEF RetryOrGiveUp
  <2> QED BY <1>0, <1>1, <1>6, <2>1, FinallyTyped
<1>7. ASSUME NEW p \in Procs, NEW s \in Slots, Settle(p, s) \/ FinishRepair(p, s) PROVE TimersOK'
  <2>1. UNCHANGED booted
    BY <1>7 DEF Settle, FinishRepair
  <2>2. \/ \E q, v : Finally(p, q, v, kicks[p])
        \/ UNCHANGED <<kicks, pendingKick>>
        \/ \E t, first : RetryOrGiveUp(p, View(p), t, first)
    BY <1>7, ZenonT(30) DEF Settle, FinishRepair
  <2> QED BY <1>0, <1>1, <1>6, <2>1, <2>2, FinallyTyped
<1>8. ASSUME NEW p \in Procs, Cascade(p) PROVE TimersOK'
  <2>1. UNCHANGED booted
    BY <1>8 DEF Cascade
  <2>2. (\E q, v : Finally(p, q, v, kicks[p])) \/ UNCHANGED <<kicks, pendingKick>>
    BY <1>8, ZenonT(30) DEF Cascade
  <2> QED BY <1>0, <1>1, <2>1, <2>2, FinallyTyped
<1>9. ASSUME NEW p \in Procs, Push(p) PROVE TimersOK'
  <2> DEFINE k == IF rest[p].enqueue THEN More(kicks[p]) ELSE kicks[p]
             full == Cardinality(Active(p)) = MaxConcurrent
             b == IF pendingKick[p] \/ full THEN TRUE ELSE FALSE
  <2>1. k \in 0 .. MaxKicks /\ UNCHANGED booted /\ b \in BOOLEAN
    BY <1>0, <1>9, MoreInRange DEF Push
  <2>2. \/ \E q, v : Finally(p, q, v, k)
        \/ /\ kicks' = [kicks EXCEPT ![p] = k]
           /\ pendingKick' = [pendingKick EXCEPT ![p] = @ \/ full]
    BY <1>9, ZenonT(30) DEF Push
  <2>3. pendingKick[p] \in BOOLEAN
    BY <1>0 DEF TimersOK
  <2>4. (pendingKick[p] \/ full) = b
    BY <2>3
  <2> HIDE DEF k, full
  <2>5. CASE \E q, v : Finally(p, q, v, k)
    BY <1>0, <2>1, <2>5, FinallyTyped
  <2>6. CASE /\ kicks' = [kicks EXCEPT ![p] = k]
             /\ pendingKick' = [pendingKick EXCEPT ![p] = @ \/ full]
    <3>1. pendingKick' = [pendingKick EXCEPT ![p] = b]
      BY <2>4, <2>6
    <3> HIDE DEF b
    <3> QED BY <1>2, <2>1, <2>6, <3>1
  <2> QED BY <2>2, <2>5, <2>6
<1>10. ASSUME NEW p \in Procs, RecoverStalled(p) \/ PromoteDeferred(p) PROVE TimersOK'
  <2>1. /\ UNCHANGED <<pendingKick, booted>>
        /\ \/ kicks' = [kicks EXCEPT ![p] = More(@)]
           \/ kicks' = [kicks EXCEPT ![p] = @]
    BY <1>10 DEF RecoverStalled, PromoteDeferred
  <2>2. kicks[p] \in 0 .. MaxKicks /\ More(kicks[p]) \in 0 .. MaxKicks
    BY <1>0, MoreInRange
  <2> QED BY <1>2, <2>1, <2>2
<1>11. ASSUME NEW p \in Procs, ResumeQueue(p) PROVE TimersOK'
  <2>1. /\ UNCHANGED pendingKick /\ booted' = [booted EXCEPT ![p] = TRUE]
        /\ \/ kicks' = [kicks EXCEPT ![p] = More(@)]
           \/ kicks' = [kicks EXCEPT ![p] = @]
    BY <1>11 DEF ResumeQueue
  <2>2. kicks[p] \in 0 .. MaxKicks /\ More(kicks[p]) \in 0 .. MaxKicks
    BY <1>0, MoreInRange
  <2>3. kicks' \in [Procs -> 0 .. MaxKicks]
    BY <1>0, <2>1, <2>2
  <2>4. booted' \in [Procs -> BOOLEAN]
    BY <1>0, <2>1 DEF TimersOK
  <2> QED BY <1>0, <2>1, <2>3, <2>4 DEF TimersOK
<1>12. ASSUME NEW p \in Procs, Crash(p) PROVE TimersOK'
  <2>1. /\ kicks' = [kicks EXCEPT ![p] = 0] /\ pendingKick' = [pendingKick EXCEPT ![p] = FALSE]
        /\ booted' = [booted EXCEPT ![p] = FALSE]
    BY <1>12 DEF Crash
  <2>2. 0 \in 0 .. MaxKicks
    BY QueueAssumption
  <2> QED BY <1>0, <2>1, <2>2 DEF TimersOK
<1>13. ASSUME NEW p \in Procs, NEW t \in Tasks,
              \/ TurnEnds(p, t) \/ QueueTask(p, t) \/ RetryTask(p, t) \/ CancelTask(p, t)
              \/ CompleteTask(p, t)
       PROVE  TimersOK'
  BY <1>1, <1>13 DEF TurnEnds, QueueTask, RetryTask, CancelTask, CompleteTask, Request
<1>14. ASSUME NEW p \in Procs, ValidateCompleted(p) \/ Expire(p) PROVE TimersOK'
  BY <1>1, <1>14 DEF ValidateCompleted, Expire, process
<1>15. CASE UNCHANGED vars \/ \E t \in Tasks : Elapse(t)
  BY <1>1, <1>15 DEF Elapse, vars, process
<1> QED BY <1>4, <1>5, <1>7, <1>8, <1>9, <1>10, <1>11, <1>12, <1>13, <1>14, <1>15 DEF Next, Steps

LEMMA OrphansTyped ==
  ASSUME Typed, [Next]_vars
  PROVE  OrphansOK'
<1>0. orphanRecoveryAttempts \in [Procs -> [Tasks -> 0 .. MaxOrphan]]
  BY DEF Typed, OrphansOK
<1>1. ASSUME UNCHANGED orphanRecoveryAttempts PROVE OrphansOK'
  BY <1>0, <1>1 DEF OrphansOK
<1>2. ASSUME NEW p \in Procs, NEW c \in [Tasks -> 0 .. MaxOrphan],
             orphanRecoveryAttempts' = [orphanRecoveryAttempts EXCEPT ![p] = c]
      PROVE  OrphansOK'
  BY <1>0, <1>2 DEF OrphansOK
<1>3. ASSUME NEW p \in Procs, Kick(p) \/ DaemonTick(p) PROVE OrphansOK'
  <2> DEFINE O == Orphans(p, View(p))
             c == OrphanCounts(p, O)
  <2>1. \/ UNCHANGED orphanRecoveryAttempts
        \/ orphanRecoveryAttempts' = [orphanRecoveryAttempts EXCEPT ![p] = c]
    BY <1>3 DEF Kick, DaemonTick, ProcessNext
  <2>2. c \in [Tasks -> 0 .. MaxOrphan]
    <3> HIDE DEF O
    <3>1. orphanRecoveryAttempts[p] \in [Tasks -> 0 .. MaxOrphan]
      BY <1>0
    <3>2. \A t \in Tasks : t \in O \ Exhausted(p, O) =>
            orphanRecoveryAttempts[p][t] + 1 \in 0 .. MaxOrphan
      BY <3>1, QueueAssumption DEF Exhausted
    <3>3. 0 \in 0 .. MaxOrphan
      BY QueueAssumption
    <3> QED BY <3>1, <3>2, <3>3 DEF OrphanCounts
  <2> HIDE DEF c
  <2> QED BY <1>1, <1>2, <2>1, <2>2
<1>4. ASSUME NEW p \in Procs, Crash(p) PROVE OrphansOK'
  <2> DEFINE c == [t \in Tasks |-> 0]
  <2>1. orphanRecoveryAttempts' = [orphanRecoveryAttempts EXCEPT ![p] = c]
    BY <1>4 DEF Crash
  <2>2. c \in [Tasks -> 0 .. MaxOrphan]
    BY QueueAssumption
  <2> HIDE DEF c
  <2> QED BY <1>2, <2>1, <2>2
<1>5. ASSUME NEW p \in Procs,
             \/ Checkout(p) \/ Cascade(p) \/ Push(p) \/ RecoverStalled(p) \/ ValidateCompleted(p)
             \/ PromoteDeferred(p) \/ ResumeQueue(p) \/ Expire(p)
      PROVE  OrphansOK'
  BY <1>1, <1>5 DEF Checkout, Cascade, Push, RecoverStalled, ValidateCompleted, PromoteDeferred,
                   ResumeQueue, Expire, process
<1>6. ASSUME NEW p \in Procs, NEW t \in Tasks,
             \/ TurnEnds(p, t) \/ QueueTask(p, t) \/ RetryTask(p, t) \/ CancelTask(p, t)
             \/ CompleteTask(p, t)
      PROVE  OrphansOK'
  BY <1>1, <1>6 DEF TurnEnds, QueueTask, RetryTask, CancelTask, CompleteTask, Request
<1>7. ASSUME NEW p \in Procs, NEW s \in Slots, Settle(p, s) \/ FinishRepair(p, s) PROVE OrphansOK'
  BY <1>1, <1>7 DEF Settle, FinishRepair
<1>8. CASE UNCHANGED vars \/ \E t \in Tasks : Elapse(t)
  BY <1>1, <1>8 DEF Elapse, vars, process
<1> QED BY <1>3, <1>4, <1>5, <1>6, <1>7, <1>8 DEF Next, Steps

LEMMA WriteTyped ==
  ASSUME Typed, NEW p \in Procs, NEW t2, NEW D \in SUBSET Tasks, Write(p, t2, D)
  PROVE  HistoryOK'
<1>1. retaken \subseteq Tasks /\ reverted \subseteq Tasks /\ misses \in 0 .. MaxMisses
  BY DEF Typed, HistoryOK
<1>2. PICK missed \in SUBSET {q \in Procs \ {p} : stale[q] = Fresh /\ t2 # rows} :
        misses' = misses + Cardinality(missed) /\ misses' <= MaxMisses
  BY DEF Write
<1>3. Cardinality(missed) \in Nat
  <2>1. missed \in SUBSET Procs
    OBVIOUS
  <2> QED BY <2>1, QueueAssumption, FS_Subset, FS_CardinalityType
<1>4. misses' \in 0 .. MaxMisses
  BY <1>1, <1>2, <1>3
<1>5. reverted' \subseteq Tasks /\ retaken' \subseteq Tasks
  BY <1>1 DEF Write
<1> QED BY <1>4, <1>5 DEF HistoryOK

LEMMA HistoryTyped ==
  ASSUME Typed, [Next]_vars
  PROVE  HistoryOK'
<1>0. HistoryOK
  BY DEF Typed
<1>1. ASSUME UNCHANGED <<retaken, reverted, misses>> PROVE HistoryOK'
  BY <1>0, <1>1 DEF HistoryOK
<1>2. ASSUME NEW p \in Procs, NEW v, Save(p, v) PROVE HistoryOK'
  BY <1>2, WriteTyped DEF Save
<1>3. ASSUME NEW p \in Procs, NEW t \in Tasks, NEW row, SaveOne(p, t, row) PROVE HistoryOK'
  BY <1>3, WriteTyped DEF SaveOne
<1>4. ASSUME NEW p \in Procs, Kick(p) \/ DaemonTick(p) PROVE HistoryOK'
  <2>1. UNCHANGED <<retaken, reverted, misses>> \/ \E v : Save(p, v)
    BY <1>4, ZenonT(30) DEF Kick, DaemonTick, ProcessNext, history
  <2> QED BY <1>1, <1>2, <2>1
<1>5. ASSUME NEW p \in Procs, Checkout(p) \/ Cascade(p) \/ Push(p) PROVE HistoryOK'
  <2>1. UNCHANGED <<retaken, reverted, misses>> \/ \E v : Save(p, v)
    BY <1>5, ZenonT(30) DEF Checkout, Cascade, Push
  <2> QED BY <1>1, <1>2, <2>1
<1>6. ASSUME NEW p \in Procs, NEW s \in Slots, Settle(p, s) \/ FinishRepair(p, s) PROVE HistoryOK'
  <2>1. UNCHANGED <<retaken, reverted, misses>> \/ \E v : Save(p, v)
    BY <1>6, ZenonT(30) DEF Settle, FinishRepair, RetryOrGiveUp
  <2> QED BY <1>1, <1>2, <2>1
<1>7. ASSUME NEW p \in Procs, NEW t \in Tasks,
             QueueTask(p, t) \/ RetryTask(p, t) \/ CancelTask(p, t) \/ CompleteTask(p, t)
      PROVE  HistoryOK'
  <2>1. \E row : SaveOne(p, t, row)
    BY <1>7, ZenonT(30) DEF QueueTask, RetryTask, CancelTask, CompleteTask
  <2> QED BY <1>3, <2>1
<1>8. ASSUME NEW p \in Procs,
             \/ RecoverStalled(p) \/ ValidateCompleted(p) \/ PromoteDeferred(p) \/ ResumeQueue(p)
      PROVE  HistoryOK'
  <2>1. UNCHANGED <<retaken, reverted, misses>> \/ \E v : Save(p, v)
    BY <1>8, ZenonT(30) DEF RecoverStalled, ValidateCompleted, PromoteDeferred, ResumeQueue
  <2> QED BY <1>1, <1>2, <2>1
<1>9. ASSUME NEW p \in Procs, Expire(p) \/ Crash(p) \/ \E t \in Tasks : TurnEnds(p, t) \/ Elapse(t)
      PROVE  HistoryOK'
  BY <1>1, <1>9 DEF Expire, Crash, TurnEnds, Elapse, history
<1>10. CASE UNCHANGED vars \/ \E t \in Tasks : Elapse(t)
  BY <1>1, <1>10 DEF Elapse, vars, history
<1> QED BY <1>4, <1>5, <1>6, <1>7, <1>8, <1>9, <1>10 DEF Next, Steps

LEMMA BoundsTyped ==
  ASSUME Typed, [Next]_vars
  PROVE  BoundsOK'
<1>0. BoundsOK /\ {MaxRequests, MaxStalls, MaxCrashes} \subseteq Nat
  BY QueueAssumption DEF Typed
<1>1. ASSUME UNCHANGED bounds PROVE BoundsOK'
  BY <1>0, <1>1 DEF BoundsOK, bounds
<1>2. ASSUME NEW p \in Procs, Kick(p) \/ DaemonTick(p) \/ Checkout(p) \/ Cascade(p) \/ Push(p)
      PROVE  BoundsOK'
  BY <1>1, <1>2 DEF Kick, DaemonTick, Checkout, Cascade, Push
<1>3. ASSUME NEW p \in Procs, NEW s \in Slots, Settle(p, s) \/ FinishRepair(p, s) PROVE BoundsOK'
  BY <1>1, <1>3 DEF Settle, FinishRepair
<1>4. ASSUME NEW p \in Procs, NEW t \in Tasks,
             QueueTask(p, t) \/ RetryTask(p, t) \/ CancelTask(p, t) \/ CompleteTask(p, t)
      PROVE  BoundsOK'
  <2>1. requests < MaxRequests /\ requests' = requests + 1 /\ UNCHANGED <<stalls, crashes>>
    BY <1>4 DEF QueueTask, RetryTask, CancelTask, CompleteTask, Request
  <2> QED BY <1>0, <2>1 DEF BoundsOK
<1>5. ASSUME NEW p \in Procs, RecoverStalled(p) \/ ValidateCompleted(p) PROVE BoundsOK'
  <2>1. stalls < MaxStalls /\ stalls' = stalls + 1 /\ UNCHANGED <<requests, crashes>>
    BY <1>5 DEF RecoverStalled, ValidateCompleted
  <2> QED BY <1>0, <2>1 DEF BoundsOK
<1>6. ASSUME NEW p \in Procs, Crash(p) PROVE BoundsOK'
  <2>1. crashes < MaxCrashes /\ crashes' = crashes + 1 /\ UNCHANGED <<requests, stalls>>
    BY <1>6 DEF Crash
  <2> QED BY <1>0, <2>1 DEF BoundsOK
<1>7. ASSUME NEW p \in Procs,
             PromoteDeferred(p) \/ ResumeQueue(p) \/ Expire(p) \/ \E t \in Tasks : TurnEnds(p, t)
      PROVE  BoundsOK'
  BY <1>1, <1>7 DEF PromoteDeferred, ResumeQueue, Expire, TurnEnds
<1>8. CASE UNCHANGED vars \/ \E t \in Tasks : Elapse(t)
  BY <1>1, <1>8 DEF Elapse, vars
<1> QED BY <1>2, <1>3, <1>4, <1>5, <1>6, <1>7, <1>8 DEF Next, Steps

\* An empty board is in range, whether or not the daemons have resumed the queue.
LEMMA TypedFromStart ==
  ASSUME NEW resumed \in BOOLEAN, EmptyBoard(resumed)
  PROVE  Typed
<1>1. Shape
  BY QueueAssumption DEF EmptyBoard, Shape, IsWork, Rows, Row, Statuses, NoWork
<1>2. QueueOK
  BY DEF EmptyBoard, QueueOK, IsInjective
<1>3. WorkOK /\ \A p \in Procs : RestOK(rest[p])
  BY DEF EmptyBoard, WorkOK, RestOK
<1>4. TimersOK /\ OrphansOK /\ HistoryOK /\ BoundsOK
  BY QueueAssumption DEF EmptyBoard, TimersOK, OrphansOK, HistoryOK, BoundsOK
<1> QED BY <1>1, <1>2, <1>3, <1>4 DEF Typed

LEMMA TypedStep ==
  ASSUME Typed, [Next]_vars
  PROVE  Typed'
<1>1. Shape'
  BY ShapeKept DEF Typed
<1> QED BY <1>1, QueueTyped, RestsTyped, WorkTyped, TimersTyped, OrphansTyped, HistoryTyped, BoundsTyped
        DEF Typed

LEMMA TypedIsTypeOK == Typed => TypeOK
BY DEF Typed, TypeOK, Shape, QueueOK, WorkOK, RestOK, TimersOK, OrphansOK, HistoryOK, BoundsOK

\* Type correctness.  In particular no sequence of pushes, retries, dequeues,
\* recoveries and restarts puts a task twice into the queue (pushQueueUnique).
THEOREM BoardTypes == Spec => []TypeOK
<1>1. Init => Typed
  BY TypedFromStart DEF Init
<1> QED BY <1>1, TypedStep, TypedIsTypeOK, PTL DEF Spec

-----------------------------------------------------------------------------
(* Nothing is forgotten *)

\* A process that is alone has no outdated copy.
Alone == \A p \in Procs : Procs = {p} => stale[p] = Fresh

LEMMA AloneStep ==
  ASSUME Typed, Alone, [Next]_vars
  PROVE  Alone'
<1> SUFFICES ASSUME NEW p \in Procs, Procs = {p} PROVE stale'[p] = Fresh
  BY DEF Alone
<1>0. DOMAIN stale = Procs /\ stale[p] = Fresh
  BY DEF Typed, Shape, Alone
<1> DEFINE Written == \E t2, D : Write(p, t2, D)
<1>1. ASSUME Written PROVE stale'[p] = Fresh
  BY <1>1 DEF Write
<1>2. ASSUME stale' = stale PROVE stale'[p] = Fresh
  BY <1>0, <1>2
<1>3. (\E v : Save(p, v)) \/ (\E t, row : SaveOne(p, t, row)) => Written
  BY Zenon DEF Save, SaveOne
<1> HIDE DEF Written
<1>4. ASSUME Kick(p) \/ DaemonTick(p) PROVE stale'[p] = Fresh
  <2>1. stale' = stale \/ \E v : Save(p, v)
    BY <1>4, ZenonT(30) DEF Kick, DaemonTick, ProcessNext, db
  <2> QED BY <1>1, <1>2, <1>3, <2>1
<1>5. ASSUME Checkout(p) \/ Cascade(p) \/ Push(p) PROVE stale'[p] = Fresh
  <2>1. stale' = stale \/ \E v : Save(p, v)
    BY <1>5, ZenonT(30) DEF Checkout, Cascade, Push, db
  <2> QED BY <1>1, <1>2, <1>3, <2>1
<1>6. ASSUME NEW s \in Slots, Settle(p, s) \/ FinishRepair(p, s) PROVE stale'[p] = Fresh
  <2>1. stale' = stale \/ \E v : Save(p, v)
    BY <1>6, ZenonT(30) DEF Settle, FinishRepair, RetryOrGiveUp
  <2> QED BY <1>1, <1>2, <1>3, <2>1
<1>7. ASSUME NEW t \in Tasks, QueueTask(p, t) \/ RetryTask(p, t) \/ CancelTask(p, t) \/ CompleteTask(p, t)
      PROVE  stale'[p] = Fresh
  <2>1. \E row : SaveOne(p, t, row)
    BY <1>7, ZenonT(30) DEF QueueTask, RetryTask, CancelTask, CompleteTask
  <2> QED BY <1>1, <1>3, <2>1
<1>8. ASSUME RecoverStalled(p) \/ ValidateCompleted(p) \/ PromoteDeferred(p) \/ ResumeQueue(p)
      PROVE  stale'[p] = Fresh
  <2>1. stale' = stale \/ \E v : Save(p, v)
    BY <1>8, ZenonT(30) DEF RecoverStalled, ValidateCompleted, PromoteDeferred, ResumeQueue
  <2> QED BY <1>1, <1>2, <1>3, <2>1
<1>9. ASSUME Expire(p) \/ Crash(p) PROVE stale'[p] = Fresh
  BY <1>0, <1>9 DEF Expire, Crash
<1>10. ASSUME NEW t \in Tasks, TurnEnds(p, t) PROVE stale'[p] = Fresh
  BY <1>2, <1>10 DEF TurnEnds, db
<1>11. ASSUME NEW t \in Tasks, Elapse(t) PROVE stale'[p] = Fresh
  BY <1>0, <1>11 DEF Elapse
<1>12. CASE UNCHANGED vars
  BY <1>2, <1>12 DEF vars, db
<1> QED BY <1>4, <1>5, <1>6, <1>7, <1>8, <1>9, <1>10, <1>11, <1>12 DEF Next, Steps

\* t is in the queue q, or a handler that has r still to do puts it there or starts it.
Held(r, q, t) ==
  \/ t \in ToSet(q)
  \/ r.op = "checkout" /\ r.task = t
  \/ r.op = "push" /\ t \in r.tasks

\* The daemon of p goes on, and every queued task is held.
AllHeld(p) == booted[p] => \A t \in InStatus(rows, "queued") : Held(rest[p], queue, t)

LEMMA ViewAlone ==
  ASSUME Typed, Alone, NEW p \in Procs, Procs = {p}
  PROVE  View(p) = rows /\ rows \in Rows
BY DEF Typed, Shape, Alone, View

\* Where nothing is held by a handler, all that is queued is in the queue.
LEMMA QueuedInQueue ==
  ASSUME Typed, NEW p \in Procs, AllHeld(p), booted[p], rest[p].op \notin {"checkout", "push"}
  PROVE  \A t \in Tasks : rows[t].status = "queued" => t \in ToSet(queue)
BY DEF AllHeld, Held, InStatus

LEMMA ProcessNextHolds ==
  ASSUME Typed, Alone, NEW p \in Procs, Procs = {p}, AllHeld(p), Kick(p) \/ DaemonTick(p)
  PROVE  AllHeld(p)'
<1> SUFFICES ASSUME booted'[p], NEW t \in Tasks, rows'[t].status = "queued"
             PROVE  Held(rest'[p], queue', t)
  BY DEF AllHeld, InStatus
<1> DEFINE v == View(p)
           O == Orphans(p, v)
           dead == Exhausted(p, O)
           v2 == [u \in Tasks |-> IF u \in dead THEN DeadLettered(v[u]) ELSE v[u]]
           q2 == PushUnique(queue, O \ dead)
           live == LiveQueue(q2, v2)
           n == q2[FirstOf(RunnableIn(q2, v2))]
<1>1. booted[p] /\ rest[p] = NoRest /\ v = rows /\ rows \in Rows
  BY ViewAlone DEF Kick, DaemonTick, Free
<1>2. \A u \in Tasks : rows[u].status = "queued" => u \in ToSet(queue)
  BY <1>1, QueuedInQueue DEF NoRest
<1>3. O = {} /\ dead = {}
  <2>1. O = {}
    BY <1>1, <1>2 DEF Orphans, InStatus
  <2> HIDE DEF O
  <2> QED BY <2>1 DEF Exhausted
<1>4. v2 = rows
  <2>1. v2 = [u \in Tasks |-> rows[u]]
    BY <1>1, <1>3
  <2> HIDE DEF v2
  <2> QED BY <1>1, <2>1 DEF Rows
<1>5. q2 \in Seq(Tasks) /\ ToSet(q2) = ToSet(queue)
  <2>1. queue \in Seq(Tasks) /\ O \ dead = {}
    BY <1>3 DEF Typed, QueueOK
  <2> DEFINE new == O \ dead
  <2>2. new = {} /\ q2 = PushUnique(queue, new)
    BY <2>1
  <2> HIDE DEF new, q2
  <2>3. new \in SUBSET Tasks
    BY <2>2
  <2>4. q2 \in Seq(Tasks) /\ ToSet(q2) = ToSet(queue) \cup new
    BY <2>1, <2>2, <2>3, PushedEntries
  <2> QED BY <2>2, <2>4
<1>6. live \in Seq(Tasks) /\ ToSet(live) = ToSet(q2) \cap InStatus(rows, "queued")
  <2> HIDE DEF q2, v2
  <2> QED BY <1>4, <1>5, SiftedEntries DEF LiveQueue
<1>7. ToSet(Sifted(live, Tasks \ {n})) = ToSet(live) \cap (Tasks \ {n})
  <2> HIDE DEF live, n
  <2> QED BY <1>6, SiftedEntries
<1>8. /\ rows' = rows
      /\ \/ queue' = queue /\ rest' = rest
         \/ queue' = live /\ rest' = rest
         \/ /\ queue' = Sifted(live, Tasks \ {n})
            /\ rest' = [rest EXCEPT ![p] = [op |-> "checkout", task |-> n]]
  <2>1. PICK k : ProcessNext(p, k)
    BY DEF Kick, DaemonTick
  <2>2. rows' = rows
    <3>1. dead # {} \/ rows' = rows
      BY <2>1, ZenonT(30) DEF ProcessNext, db
    <3> QED BY <1>3, <3>1
  <2>3. \/ queue' = queue /\ rest' = rest
        \/ queue' = live /\ rest' = rest
        \/ /\ queue' = Sifted(live, Tasks \ {n})
           /\ rest' = [rest EXCEPT ![p] = [op |-> "checkout", task |-> n]]
    BY <2>1, ZenonT(30) DEF ProcessNext, db
  <2> QED BY <2>2, <2>3
<1>9. t \in ToSet(queue) /\ t \in ToSet(live)
  BY <1>2, <1>5, <1>6, <1>8 DEF InStatus
<1> HIDE DEF live, n
<1>10. CASE queue' = queue \/ queue' = live
  BY <1>9, <1>10 DEF Held
<1>11. CASE /\ queue' = Sifted(live, Tasks \ {n})
            /\ rest' = [rest EXCEPT ![p] = [op |-> "checkout", task |-> n]]
  <2>1. rest'[p].op = "checkout" /\ rest'[p].task = n
    BY <1>11 DEF Typed, Shape
  <2> QED BY <1>7, <1>9, <1>11, <2>1 DEF Held
<1> QED BY <1>8, <1>10, <1>11

LEMMA CheckoutHolds ==
  ASSUME Typed, Alone, NEW p \in Procs, Procs = {p}, AllHeld(p), Checkout(p)
  PROVE  AllHeld(p)'
<1> SUFFICES ASSUME booted'[p], NEW t \in Tasks, rows'[t].status = "queued"
             PROVE  t \in ToSet(queue')
  BY DEF AllHeld, InStatus, Held
<1> DEFINE u == rest[p].task
           v == View(p)
<1>1. booted[p] /\ rest[p].op = "checkout" /\ v = rows /\ rows \in Rows
  BY ViewAlone DEF Checkout
<1>2. u \in Tasks /\ queue \in Seq(Tasks)
  BY <1>1, RestParts DEF Typed, QueueOK
<1>3. rows[t].status = "queued" => t \in ToSet(queue) \/ t = u
  BY <1>1 DEF AllHeld, InStatus, Held
<1>4. CASE ~StillQueued(v, u) /\ queue' = queue /\ rows' = rows
  BY <1>1, <1>3, <1>4 DEF StillQueued
<1>5. CASE queue' = PushUnique(queue, {u}) /\ rows' = rows
  <2>1. ToSet(queue') = ToSet(queue) \cup {u}
    BY <1>2, <1>5, PushedEntries
  <2> QED BY <1>3, <1>5, <2>1
<1>6. ASSUME NEW t2, Save(p, t2), queue' = queue, t2[u].status # "queued",
             \A x \in Tasks : x # u => t2[x] = rows[x]
      PROVE  t \in ToSet(queue')
  <2>1. rows' = t2
    BY <1>6 DEF Save, Write
  <2>2. t # u /\ rows'[t] = rows[t]
    BY <1>6, <2>1
  <2> QED BY <1>3, <1>6, <2>2
<1>7. \/ ~StillQueued(v, u) /\ queue' = queue /\ rows' = rows
      \/ queue' = PushUnique(queue, {u}) /\ rows' = rows
      \/ /\ queue' = queue
         /\ \/ Save(p, [v EXCEPT ![u] = DeadLettered(@)])
            \/ Save(p, [v EXCEPT ![u].status = "deferred", ![u].retry = IF @ = "none" THEN @ ELSE "due"])
            \/ Save(p, [v EXCEPT ![u].status = "running", ![u].retry = "none"])
  BY ZenonT(60) DEF Checkout, db
<1> HIDE DEF u, v
<1>8. CASE queue' = queue /\ Save(p, [v EXCEPT ![u] = DeadLettered(@)])
  <2> DEFINE t2 == [v EXCEPT ![u] = DeadLettered(@)]
  <2>1. t2[u].status # "queued" /\ \A x \in Tasks : x # u => t2[x] = rows[x]
    BY <1>1, <1>2 DEF Rows, Row, DeadLettered
  <2> HIDE DEF t2
  <2>2. Save(p, t2)
    BY <1>8 DEF t2
  <2> QED BY <1>6, <1>8, <2>1, <2>2
<1>9. CASE /\ queue' = queue
           /\ Save(p, [v EXCEPT ![u].status = "deferred", ![u].retry = IF @ = "none" THEN @ ELSE "due"])
  <2> DEFINE t2 == [v EXCEPT ![u].status = "deferred", ![u].retry = IF @ = "none" THEN @ ELSE "due"]
  <2>1. t2[u].status # "queued" /\ \A x \in Tasks : x # u => t2[x] = rows[x]
    BY <1>1, <1>2 DEF Rows, Row, DeadLettered
  <2> HIDE DEF t2
  <2>2. Save(p, t2)
    BY <1>9 DEF t2
  <2> QED BY <1>6, <1>9, <2>1, <2>2
<1>10. CASE queue' = queue /\ Save(p, [v EXCEPT ![u].status = "running", ![u].retry = "none"])
  <2> DEFINE t2 == [v EXCEPT ![u].status = "running", ![u].retry = "none"]
  <2>1. t2[u].status # "queued" /\ \A x \in Tasks : x # u => t2[x] = rows[x]
    BY <1>1, <1>2 DEF Rows, Row, DeadLettered
  <2> HIDE DEF t2
  <2>2. Save(p, t2)
    BY <1>10 DEF t2
  <2> QED BY <1>6, <1>10, <2>1, <2>2
<1> QED BY <1>4, <1>5, <1>7, <1>8, <1>9, <1>10

LEMMA CascadeHolds ==
  ASSUME Typed, Alone, NEW p \in Procs, Procs = {p}, AllHeld(p), Cascade(p)
  PROVE  AllHeld(p)'
<1> SUFFICES ASSUME booted'[p], NEW t \in Tasks, rows'[t].status = "queued"
             PROVE  Held(rest'[p], queue', t)
  BY DEF AllHeld, InStatus
<1> DEFINE v == View(p)
           U == Unblocked(v, rest[p].task)
           push == [op |-> "push", tasks |-> U, enqueue |-> TRUE, last |-> rest[p].last]
<1>1. booted[p] /\ rest[p].op = "cascade" /\ v = rows /\ rows \in Rows /\ queue' = queue
  BY ViewAlone DEF Cascade
<1>2. \A u \in Tasks : rows[u].status = "queued" => u \in ToSet(queue)
  BY <1>1, QueuedInQueue
<1>3. \/ rows' = rows
      \/ rows' = WithStatus(v, U, "queued") /\ rest' = [rest EXCEPT ![p] = push]
  BY DEF Cascade, Save, Write
<1>4. CASE rows' = rows
  BY <1>1, <1>2, <1>4 DEF Held
<1>5. CASE rows' = WithStatus(v, U, "queued") /\ rest' = [rest EXCEPT ![p] = push]
  <2>1. rest'[p].op = "push" /\ rest'[p].tasks = U
    BY <1>5 DEF Typed, Shape
  <2> HIDE DEF U
  <2>2. t \notin U => rows'[t] = rows[t]
    BY <1>1, <1>5 DEF WithStatus
  <2> QED BY <1>1, <1>2, <2>1, <2>2 DEF Held
<1> QED BY <1>3, <1>4, <1>5

LEMMA PushHolds ==
  ASSUME Typed, Alone, NEW p \in Procs, Procs = {p}, AllHeld(p), Push(p)
  PROVE  AllHeld(p)'
<1> SUFFICES ASSUME booted'[p], NEW t \in Tasks, rows'[t].status = "queued"
             PROVE  t \in ToSet(queue')
  BY DEF AllHeld, InStatus, Held
<1> DEFINE S == rest[p].tasks
<1>1. booted[p] /\ rest[p].op = "push" /\ View(p) = rows /\ queue' = PushUnique(queue, S)
  BY ViewAlone DEF Push
<1>2. S \in SUBSET Tasks /\ queue \in Seq(Tasks)
  BY <1>1, RestParts DEF Typed, QueueOK
<1>3. rows[t].status = "queued" => t \in ToSet(queue) \/ t \in S
  BY <1>1 DEF AllHeld, InStatus, Held
<1>4. t \notin S => rows'[t] = rows[t]
  BY <1>1 DEF Push, Save, Write
<1> HIDE DEF S
<1>5. ToSet(queue') = ToSet(queue) \cup S
  BY <1>1, <1>2, PushedEntries
<1> QED BY <1>3, <1>4, <1>5

\* A failed turn: the task is no longer queued, or is pushed.
LEMMA RetryHolds ==
  ASSUME Typed, Alone, NEW p \in Procs, Procs = {p}, AllHeld(p), rest[p] = NoRest,
         NEW u \in Tasks, NEW first \in BOOLEAN, RetryOrGiveUp(p, View(p), u, first), UNCHANGED booted
  PROVE  AllHeld(p)'
<1> SUFFICES ASSUME booted'[p], NEW t \in Tasks, rows'[t].status = "queued"
             PROVE  Held(rest'[p], queue', t)
  BY DEF AllHeld, InStatus
<1> DEFINE v == View(p)
           again == [op |-> "push", tasks |-> {u}, enqueue |-> FALSE, last |-> TRUE]
<1>1. booted[p] /\ v = rows /\ rows \in Rows /\ queue \in Seq(Tasks)
  BY ViewAlone DEF Typed, QueueOK
<1>2. \A x \in Tasks : rows[x].status = "queued" => x \in ToSet(queue)
  BY <1>1, QueuedInQueue DEF NoRest
<1>3. PICK repeated : LET v2 == [v EXCEPT ![u] = ScheduleRetry(@, repeated)]
                          push == v2[u].status = "queued"
                      IN /\ Save(p, v2)
                         /\ \/ push /\ rest' = [rest EXCEPT ![p] = again] /\ queue' = queue
                            \/ push /\ queue' = PushUnique(queue, {u})
                            \/ ~push /\ queue' = queue
  BY Zenon DEF RetryOrGiveUp
<1> DEFINE v2 == [v EXCEPT ![u] = ScheduleRetry(@, repeated)]
<1>4. \A x \in Tasks : x # u => v2[x] = rows[x]
  BY <1>1
<1> HIDE DEF v2
<1>5. /\ rows' = v2
      /\ \/ v2[u].status = "queued" /\ rest' = [rest EXCEPT ![p] = again] /\ queue' = queue
         \/ v2[u].status = "queued" /\ queue' = PushUnique(queue, {u})
         \/ v2[u].status # "queued" /\ queue' = queue
  BY <1>3 DEF v2, Save, Write
<1>6. t = u \/ t \in ToSet(queue)
  BY <1>2, <1>4, <1>5
<1>7. CASE rest' = [rest EXCEPT ![p] = again] /\ queue' = queue
  <2>1. rest'[p].op = "push" /\ rest'[p].tasks = {u}
    BY <1>7 DEF Typed, Shape
  <2> QED BY <1>6, <1>7, <2>1 DEF Held
<1>8. CASE queue' = PushUnique(queue, {u})
  <2>1. ToSet(queue') = ToSet(queue) \cup {u}
    BY <1>1, <1>8, PushedEntries
  <2> QED BY <1>6, <2>1 DEF Held
<1>9. CASE v2[u].status # "queued" /\ queue' = queue
  <2>1. t # u
    BY <1>5, <1>9
  <2> QED BY <1>6, <1>9, <2>1 DEF Held
<1> QED BY <1>5, <1>7, <1>8, <1>9

LEMMA SettleHolds ==
  ASSUME Typed, Alone, NEW p \in Procs, Procs = {p}, AllHeld(p), NEW s \in Slots,
         Settle(p, s) \/ FinishRepair(p, s)
  PROVE  AllHeld(p)'
<1> DEFINE u == work[p][s].task
           v == View(p)
<1>1. u \in Tasks
  <2>1. work[p][s].phase \in {"repair", "valid", "invalid", "thrown"}
    BY DEF Settle, FinishRepair, Settled
  <2> QED BY <2>1, WorkParts DEF Typed, WorkOK
<1>2. rest[p] = NoRest /\ UNCHANGED booted /\ v = rows /\ rows \in Rows
  BY ViewAlone DEF Settle, FinishRepair, Free
<1>3. \A x \in Tasks : booted[p] /\ rows[x].status = "queued" => x \in ToSet(queue)
  BY <1>2, QueuedInQueue DEF NoRest
<1>4. \/ \E first \in BOOLEAN : RetryOrGiveUp(p, View(p), u, first)
      \/ queue' = queue /\ (rows' = rows \/ Save(p, v) \/ Save(p, [v EXCEPT ![u] = Completed(@)]))
  <2>1. CASE FinishRepair(p, s)
    BY <2>1 DEF FinishRepair
  <2>2. CASE Settle(p, s)
    <3>1. (work[p][s].phase = "invalid") \in BOOLEAN
      OBVIOUS
    <3> QED BY <2>2, <3>1, ZenonT(30) DEF Settle
  <2> QED BY <2>1, <2>2
<1>5. CASE \E first \in BOOLEAN : RetryOrGiveUp(p, View(p), u, first)
  <2> HIDE DEF u
  <2> QED BY <1>1, <1>2, <1>5, RetryHolds
<1>6. CASE queue' = queue /\ (rows' = rows \/ Save(p, v) \/ Save(p, [v EXCEPT ![u] = Completed(@)]))
  <2>1. rows' = rows \/ rows' = [rows EXCEPT ![u] = Completed(@)]
    BY <1>2, <1>6 DEF Save, Write
  <2>2. \A x \in Tasks : rows'[x].status = "queued" => rows[x].status = "queued"
    <3> HIDE DEF u
    <3>1. Completed(rows[u]).status = "completed"
      BY <1>1, <1>2 DEF Completed, Rows, Row
    <3> QED BY <1>1, <1>2, <2>1, <3>1 DEF Rows
  <2> QED BY <1>2, <1>3, <1>6, <2>2 DEF AllHeld, Held, InStatus
<1> QED BY <1>4, <1>5, <1>6

\* The operator's routes: the one task they touch is left to be pushed, or is not queued.
LEMMA RequestHolds ==
  ASSUME Typed, Alone, NEW p \in Procs, Procs = {p}, AllHeld(p), NEW u \in Tasks,
         QueueTask(p, u) \/ RetryTask(p, u) \/ CancelTask(p, u) \/ CompleteTask(p, u)
  PROVE  AllHeld(p)'
<1> SUFFICES ASSUME booted'[p], NEW t \in Tasks, rows'[t].status = "queued"
             PROVE  Held(rest'[p], queue', t)
  BY DEF AllHeld, InStatus
<1>1. booted[p] /\ rest[p] = NoRest /\ queue' = queue /\ View(p) = rows /\ rows \in Rows
  BY ViewAlone DEF QueueTask, RetryTask, CancelTask, CompleteTask, Request, Free
<1>2. \A x \in Tasks : rows[x].status = "queued" => x \in ToSet(queue)
  BY <1>1, QueuedInQueue DEF NoRest
<1>3. t # u => rows'[t] = rows[t]
  <2>1. \E row : SaveOne(p, u, row)
    BY ZenonT(30) DEF QueueTask, RetryTask, CancelTask, CompleteTask
  <2>2. PICK row : rows' = [rows EXCEPT ![u] = row]
    BY <2>1 DEF SaveOne, Write
  <2> QED BY <1>1, <2>2 DEF Rows
<1>4. CASE QueueTask(p, u) \/ RetryTask(p, u)
  <2>1. rest'[p].op = "push" /\ rest'[p].tasks = {u}
    BY <1>4 DEF QueueTask, RetryTask, ThenEnqueue, Typed, Shape
  <2> QED BY <1>1, <1>2, <1>3, <2>1 DEF Held
<1>5. CASE CancelTask(p, u) \/ CompleteTask(p, u)
  <2> DEFINE row == rows[u]
  <2>1. row \in Row
    BY <1>1 DEF Rows
  <2>2. \/ SaveOne(p, u, [row EXCEPT !.status = "cancelled"])
        \/ SaveOne(p, u, Completed(row)) \/ SaveOne(p, u, DeadLettered(row))
    BY <1>1, <1>5 DEF CancelTask, CompleteTask
  <2>3. \A e : SaveOne(p, u, e) => rows'[u] = e
    BY <1>1 DEF SaveOne, Write, Rows
  <2> HIDE DEF row
  <2>4. /\ [row EXCEPT !.status = "cancelled"].status # "queued"
        /\ Completed(row).status # "queued" /\ DeadLettered(row).status # "queued"
    BY <2>1 DEF Row, Completed, DeadLettered
  <2>5. rows'[u].status # "queued"
    BY <2>2, <2>3, <2>4
  <2> QED BY <1>1, <1>2, <1>3, <2>5 DEF Held
<1> QED BY <1>4, <1>5

\* What a sweep queues again it also pushes.
LEMMA SweepHolds ==
  ASSUME Typed, NEW p \in Procs, AllHeld(p), booted[p], rest[p] = NoRest,
         NEW S \in SUBSET Tasks, queue' = PushUnique(queue, S),
         \A t \in Tasks : rows'[t].status = "queued" => rows[t].status = "queued" \/ t \in S
  PROVE  AllHeld(p)'
<1>1. \A t \in Tasks : rows[t].status = "queued" => t \in ToSet(queue)
  BY QueuedInQueue DEF NoRest
<1>2. ToSet(queue') = ToSet(queue) \cup S
  BY PushedEntries DEF Typed, QueueOK
<1> QED BY <1>1, <1>2 DEF AllHeld, Held, InStatus

LEMMA SweepsHold ==
  ASSUME Typed, Alone, NEW p \in Procs, Procs = {p}, AllHeld(p), booted[p],
         RecoverStalled(p) \/ ValidateCompleted(p) \/ PromoteDeferred(p)
  PROVE  AllHeld(p)'
<1> DEFINE v == View(p)
<1>1. rest[p] = NoRest /\ v = rows /\ rows \in Rows
  BY ViewAlone DEF RecoverStalled, ValidateCompleted, PromoteDeferred, Free
<1>2. ASSUME NEW t \in Tasks
      PROVE  DeadLettered(rows[t]).status = "failed" /\ Completed(rows[t]).status = "completed"
  BY <1>1 DEF DeadLettered, Completed, Rows, Row
<1>3. CASE RecoverStalled(p)
  <2>1. PICK how \in [InStatus(v, "running") -> {"none", "empty", "valid", "invalid", "stalled"}] :
          LET Found(h) == {t \in DOMAIN how : how[t] = h}
              v2 == [t \in Tasks |->
                       IF t \notin DOMAIN how \/ how[t] = "none" THEN v[t]
                       ELSE IF how[t] = "empty" THEN DeadLettered(v[t])
                       ELSE IF how[t] = "valid" THEN Completed(v[t])
                       ELSE ScheduleRetry(v[t], FALSE)]
              again == {t \in Found("invalid") \cup Found("stalled") : v2[t].status = "queued"}
          IN Save(p, v2) /\ queue' = PushUnique(queue, again)
    BY <1>3, Zenon DEF RecoverStalled
  <2> DEFINE found == {t \in DOMAIN how : how[t] = "invalid"} \cup {t \in DOMAIN how : how[t] = "stalled"}
             v2 == [t \in Tasks |->
                       IF t \notin DOMAIN how \/ how[t] = "none" THEN v[t]
                       ELSE IF how[t] = "empty" THEN DeadLettered(v[t])
                       ELSE IF how[t] = "valid" THEN Completed(v[t])
                       ELSE ScheduleRetry(v[t], FALSE)]
             again == {t \in found : v2[t].status = "queued"}
  <2>2. rows' = v2 /\ queue' = PushUnique(queue, again)
    BY <2>1 DEF Save, Write
  <2>3. DOMAIN how \subseteq Tasks /\ \A t \in DOMAIN how : how[t] \in {"none", "empty", "valid", "invalid", "stalled"}
    BY DEF InStatus
  <2>4. again \in SUBSET Tasks
    BY <2>3
  <2>5. ASSUME NEW t \in Tasks, v2[t].status = "queued" PROVE rows[t].status = "queued" \/ t \in again
    <3>1. CASE t \in found
      BY <2>5, <3>1
    <3>2. CASE t \notin found
      <4>1. v2[t] \in {rows[t], DeadLettered(rows[t]), Completed(rows[t])}
        BY <1>1, <2>3, <3>2
      <4> HIDE DEF v2
      <4> QED BY <1>2, <2>5, <4>1
    <3> QED BY <3>1, <3>2
  <2> HIDE DEF v2, again
  <2> QED BY <1>1, <2>2, <2>4, <2>5, SweepHolds
<1>4. CASE ValidateCompleted(p)
  <2>1. PICK S \in SUBSET InStatus(v, "completed") :
          Save(p, [t \in Tasks |-> IF t \in S THEN DeadLettered(v[t]) ELSE v[t]])
    BY <1>4 DEF ValidateCompleted
  <2>2. /\ queue' = queue /\ booted' = booted /\ rest' = rest
        /\ rows' = [t \in Tasks |-> IF t \in S THEN DeadLettered(v[t]) ELSE v[t]]
    BY <1>4, <2>1 DEF ValidateCompleted, Save, Write
  <2>3. \A t \in Tasks : rows'[t].status = "queued" => rows[t].status = "queued"
    BY <1>1, <1>2, <2>2
  <2> QED BY <2>2, <2>3 DEF AllHeld, InStatus
<1>5. CASE PromoteDeferred(p)
  <2>1. PICK S \in SUBSET InStatus(v, "deferred") :
          Save(p, WithStatus(v, S, "queued")) /\ queue' = PushUnique(queue, S)
    BY <1>5 DEF PromoteDeferred
  <2>2. S \in SUBSET Tasks
    BY DEF InStatus
  <2>3. \A t \in Tasks : t \notin S => rows'[t] = rows[t]
    BY <1>1, <2>1 DEF Save, Write, WithStatus
  <2> QED BY <1>1, <2>1, <2>2, <2>3, SweepHolds
<1> QED BY <1>3, <1>4, <1>5

\* resumeQueue puts every task that is queued, or that it queues, into the queue.
LEMMA ResumeHolds ==
  ASSUME Typed, Alone, NEW p \in Procs, Procs = {p}, ResumeQueue(p)
  PROVE  AllHeld(p)'
<1> SUFFICES ASSUME NEW t \in Tasks, rows'[t].status = "queued" PROVE t \in ToSet(queue')
  BY DEF AllHeld, InStatus, Held
<1> DEFINE v == View(p)
           v2 == Reap(v)
           A == InStatus(v, "queued")
           B == {x \in InStatus(v, "running") : v2[x].status = "queued"}
<1>1. v = rows /\ rows \in Rows /\ queue \in Seq(Tasks)
  BY ViewAlone DEF Typed, QueueOK
<1>2. queue' = PushUnique(PushUnique(queue, A), B)
  BY DEF ResumeQueue
<1>3. rows' = v2
  <2>1. rows' = v2 \/ (rows' = rows /\ ~(queue' # queue \/ v2 # v))
    BY ZenonT(30) DEF ResumeQueue, Save, Write
  <2> QED BY <1>1, <2>1
<1>4. t \in A \/ t \in B
  <2>1. v2[t] = IF v[t].status = "running" THEN ScheduleRetry(v[t], FALSE) ELSE v[t]
    BY DEF Reap
  <2> HIDE DEF v2
  <2> QED BY <1>3, <2>1 DEF InStatus
<1>5. A \in SUBSET Tasks /\ B \in SUBSET Tasks
  BY DEF InStatus
<1> HIDE DEF A, B
<1>6. PushUnique(queue, A) \in Seq(Tasks) /\ ToSet(PushUnique(queue, A)) = ToSet(queue) \cup A
  BY <1>1, <1>5, PushedEntries
<1>7. ToSet(queue') = ToSet(queue) \cup A \cup B
  BY <1>2, <1>5, <1>6, PushedEntries
<1> QED BY <1>4, <1>7

LEMMA HeldStep ==
  ASSUME Typed, Alone, NEW p \in Procs, Procs = {p}, AllHeld(p), [Next]_vars
  PROVE  AllHeld(p)'
<1>1. ASSUME \A t \in Tasks : rows'[t].status = rows[t].status, UNCHANGED <<queue, rest, booted>>
      PROVE  AllHeld(p)'
  BY <1>1 DEF AllHeld, InStatus
<1>2. CASE Kick(p) \/ DaemonTick(p)
  BY <1>2, ProcessNextHolds
<1>3. CASE Checkout(p) \/ Cascade(p) \/ Push(p)
  BY <1>3, CheckoutHolds, CascadeHolds, PushHolds
<1>4. ASSUME NEW s \in Slots, Settle(p, s) \/ FinishRepair(p, s) PROVE AllHeld(p)'
  BY <1>4, SettleHolds
<1>5. ASSUME NEW t \in Tasks, QueueTask(p, t) \/ RetryTask(p, t) \/ CancelTask(p, t) \/ CompleteTask(p, t)
      PROVE  AllHeld(p)'
  BY <1>5, RequestHolds
<1>6. CASE RecoverStalled(p) \/ ValidateCompleted(p) \/ PromoteDeferred(p)
  <2>1. booted' = booted
    BY <1>6 DEF RecoverStalled, ValidateCompleted, PromoteDeferred
  <2>2. CASE booted[p]
    BY <1>6, <2>2, SweepsHold
  <2>3. CASE ~booted[p]
    BY <2>1, <2>3 DEF AllHeld
  <2> QED BY <2>2, <2>3
<1>7. CASE ResumeQueue(p)
  BY <1>7, ResumeHolds
<1>8. CASE Crash(p)
  <2>1. ~booted'[p]
    BY <1>8 DEF Crash, Typed, TimersOK
  <2> QED BY <2>1 DEF AllHeld
<1>9. ASSUME NEW t \in Tasks, Elapse(t) PROVE AllHeld(p)'
  <2>1. rows' = IF rows[t].retry = "waiting" THEN [rows EXCEPT ![t].retry = "due"] ELSE rows
    BY <1>9 DEF Elapse
  <2>2. \A u \in Tasks : rows'[u].status = rows[u].status
    BY <2>1 DEF Typed, Shape, Rows, Row
  <2>3. UNCHANGED <<queue, rest, booted>>
    BY <1>9 DEF Elapse, process
  <2> QED BY <1>1, <2>2, <2>3
<1>10. CASE Expire(p) \/ UNCHANGED vars \/ \E t \in Tasks : TurnEnds(p, t)
  BY <1>1, <1>10 DEF Expire, TurnEnds, vars, db, process
<1> QED BY <1>2, <1>3, <1>4, <1>5, <1>6, <1>7, <1>8, <1>9, <1>10 DEF Next, Steps

\* Once resumeQueue has run, a process that is alone has each queued task in the
\* queue or in the hands of a handler: no retry, cascade, request, sweep or
\* dequeue drops one between two of its writes, so the orphan scan finds nothing.
THEOREM QueuedStaysHeld == Spec => []NothingForgotten
<1> DEFINE Inv == Typed /\ Alone /\ \A p \in Procs : Procs = {p} => AllHeld(p)
<1>1. Init => Inv
  BY TypedFromStart DEF Init, EmptyBoard, Alone, AllHeld, InStatus
<1>2. Inv /\ [Next]_vars => Inv'
  BY TypedStep, AloneStep, HeldStep
<1>3. Inv => NothingForgotten
  BY DEF NothingForgotten, AllHeld, Held
<1> QED BY <1>1, <1>2, <1>3, PTL DEF Spec
=============================================================================
