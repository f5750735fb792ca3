-------------------------- MODULE SessionRunManager --------------------------
(***************************************************************************)
(* The session run manager (src/lib/server/runtime/session-run-manager/):  *)
(* every chat message, heartbeat, subagent turn and internal follow-up of  *)
(* one process becomes a run, waits in the queue of an execution lane, and *)
(* is executed by that lane one at a time.                                 *)
(*                                                                         *)
(* A handler of the code runs to completion on the event loop; the only    *)
(* await is the chat turn itself.  A handler is therefore one action.  Its *)
(* body is a chain of the manager's own functions, each of which is an     *)
(* operator from manager states to manager states: Now is the current      *)
(* state as a record and Become(s) makes s the next one.                   *)
(*                                                                         *)
(* A definition headed "Bug:" is a mutation of the one after it.  The      *)
(* specification uses none of them: putting one in the place of its        *)
(* neighbour shows that a property notices.                                *)
(***************************************************************************)
EXTENDS Integers, FiniteSets

CONSTANTS
  Sessions,   \* chat sessions
  Groups,     \* executionGroupKeys: lanes shared by the runs of several sessions
  Inputs,     \* the enqueue requests callers make
  MaxRuns,    \* bound: runs ever created
  MaxCrashes, \* bound: process restarts
  MaxEstops,  \* bound: emergency stops engaged
  MaxHolds,   \* bound: external holds of one session at a time
  MaxForeign  \* bound: times another process works on one of the sessions

Lanes == Sessions \cup Groups      \* "session:<id>" or an executionGroupKey
Runs == 1 .. MaxRuns
NoRun == 0

Sources == {"chat", "webhook", "heartbeat", "subagent", "mission"}
Modes == {"followup", "steer", "collect"}
Statuses == {"none", "queued", "running", "completed", "failed", "cancelled", "lost"}
Terminal == {"completed", "failed", "cancelled"}

\* dedupe: the caller passes its dedupeKey, one per session and source.
InputType == [session : Sessions, lane : Lanes, source : Sources,
              mode : Modes, dedupe : BOOLEAN]
NoInput == [session |-> "none"]

ASSUME Assumption ==
  /\ Inputs \subseteq InputType
  /\ NoInput \notin InputType
  /\ MaxRuns \in Nat /\ MaxCrashes \in Nat /\ MaxEstops \in Nat
  /\ MaxHolds \in Nat /\ MaxForeign \in Nat

Internal(in) == in.source \notin {"chat", "webhook"}
Heartbeat(in) == in.source = "heartbeat"                \* isInternalHeartbeatRun
Recoverable(in) == in.source \in {"heartbeat", "subagent"} \* isRestartRecoverableSource
AutonomyManaged(in) == in.source # "chat"

VARIABLES
  lastRun,                  \* runs 1..lastRun exist
  input,                    \* the request each run was created from
  recoveredFrom,            \* recoveredFromRunId, or NoRun
  status,                   \* entry.run.status, in memory
  ledger,                   \* status of the run in the persisted run ledger
  queued,                   \* runs in a lane's queue array
  place,                    \* their order in that array
  aged,                     \* those queued for STALE_QUEUED_RUN_MS or more
  runningByExecution,       \* the entry each lane says is running
  executing,                \* runs whose chat turn has not returned
  aborted,                  \* runs whose abort signal is raised
  unsettled,                \* runs whose promise is pending
  counted,                  \* entries with nonHeartbeatCounted
  nonHeartbeatWorkCount,
  activityLeaseRenewTimers,
  activityLease,            \* who holds the session's activity lease row
  deferredDrainTimers,
  externalSessionHolds,
  todo,                     \* runs a recovery loop has still to treat
  sweeping,                 \* the loop is the watchdog's, not start-up recovery's
  recovered,                \* recoveryState.completed
  estop,                    \* emergency stop level, persisted
  pendingStops,             \* engage requests that have yet to cancel the runs
  crashes, estops, foreign  \* counters of the bounded environment events

env == <<todo, sweeping, recovered, estop, pendingStops, crashes, estops, foreign>>
mgr == <<lastRun, input, recoveredFrom, status, ledger, queued, place, aged,
         runningByExecution, executing, aborted, unsettled, counted,
         nonHeartbeatWorkCount, activityLeaseRenewTimers, activityLease,
         deferredDrainTimers, externalSessionHolds>>
vars == <<mgr, env>>

\* The manager's state as one value, and the values it takes.
Manager ==
  [lastRun : 0 .. MaxRuns, input : [Runs -> InputType \cup {NoInput}],
   recoveredFrom : [Runs -> Runs \cup {NoRun}],
   status : [Runs -> Statuses], ledger : [Runs -> Statuses],
   queued : SUBSET Runs, place : [Runs -> Int], aged : SUBSET Runs,
   running : [Lanes -> Runs \cup {NoRun}], executing : SUBSET Runs,
   aborted : SUBSET Runs, unsettled : SUBSET Runs, counted : SUBSET Runs,
   work : [Sessions -> Nat], leaseTimers : SUBSET Sessions,
   lease : [Sessions -> {"none", "self", "other"}],
   drainTimers : SUBSET Lanes, holds : [Sessions -> Nat]]

Now == [lastRun |-> lastRun, input |-> input, recoveredFrom |-> recoveredFrom,
        status |-> status, ledger |-> ledger, queued |-> queued, place |-> place,
        aged |-> aged, running |-> runningByExecution, executing |-> executing,
        aborted |-> aborted, unsettled |-> unsettled, counted |-> counted,
        work |-> nonHeartbeatWorkCount, leaseTimers |-> activityLeaseRenewTimers,
        lease |-> activityLease, drainTimers |-> deferredDrainTimers,
        holds |-> externalSessionHolds]

Become(next) == \E s \in {next} :
  /\ lastRun' = s.lastRun /\ input' = s.input /\ recoveredFrom' = s.recoveredFrom
  /\ status' = s.status /\ ledger' = s.ledger /\ queued' = s.queued
  /\ place' = s.place /\ aged' = s.aged /\ runningByExecution' = s.running
  /\ executing' = s.executing /\ aborted' = s.aborted /\ unsettled' = s.unsettled
  /\ counted' = s.counted /\ nonHeartbeatWorkCount' = s.work
  /\ activityLeaseRenewTimers' = s.leaseTimers /\ activityLease' = s.lease
  /\ deferredDrainTimers' = s.drainTimers /\ externalSessionHolds' = s.holds

-----------------------------------------------------------------------------
(* Helpers over a manager state s *)

OfSession(s, x) == {r \in Runs : s.input[r] # NoInput /\ s.input[r].session = x}
OfLane(s, k) == {r \in Runs : s.input[r] # NoInput /\ s.input[r].lane = k}
SessionsOf(s, R) == {x \in Sessions : R \cap OfSession(s, x) # {}}
Queue(s, k) == s.queued \cap OfLane(s, k)
RunningRuns(s) == {s.running[k] : k \in Lanes} \ {NoRun}
Mark(f, R, v) == [r \in Runs |-> IF r \in R THEN v ELSE f[r]]

First(s, Q) == CHOOSE r \in Q : \A q \in Q : s.place[r] <= s.place[q]
Last(s, Q) == CHOOSE r \in Q : \A q \in Q : s.place[q] <= s.place[r]

\* decrementNonHeartbeatWork for every entry of R: an uncounted entry is
\* skipped, a count never goes below zero.
DecrementWork(s, R) ==
  LET n(x) == Cardinality(R \cap s.counted \cap OfSession(s, x))
  IN [s EXCEPT !.counted = @ \ R,
               !.work = [x \in Sessions |-> IF n(x) >= s.work[x] THEN 0 ELSE s.work[x] - n(x)]]

\* reconcileSessionActivityLease for every session of X.
ReconcileLease(s, X) ==
  LET busy == {x \in X : s.work[x] > 0}
      idle == X \ busy
      acquires(x) == x \in busy \ s.leaseTimers /\ s.lease[x] = "none"
      releases(x) == x \in idle /\ s.lease[x] = "self"
  IN [s EXCEPT !.leaseTimers = (@ \cup busy) \ idle,
               !.lease = [x \in Sessions |-> IF acquires(x) THEN "self"
                                             ELSE IF releases(x) THEN "none"
                                             ELSE s.lease[x]]]

\* Bug: the promises of the dequeued entries are not settled.
DequeueUnanswered(s, R, verdict) ==
  [s EXCEPT !.queued = @ \ R, !.aged = @ \ R,
            !.status = Mark(@, R, verdict), !.ledger = Mark(@, R, verdict)]

\* Queued entries R leave their queues with a final status; their promises settle.
Dequeue(s, R, verdict) ==
  [s EXCEPT !.queued = @ \ R, !.aged = @ \ R, !.unsettled = @ \ R,
            !.status = Mark(@, R, verdict), !.ledger = Mark(@, R, verdict)]

\* Bug: the work of cancelled entries stays counted.
CancelQueuedCounted(s, R) == Dequeue(s, R, "cancelled")

CancelQueued(s, R) == DecrementWork(Dequeue(s, R, "cancelled"), R)

CancelPendingForSession(s, x) ==
  ReconcileLease(CancelQueued(s, s.queued \cap OfSession(s, x)), {x})

\* Bug: the record is cancelled but the signal is not raised.
AbortRecordOnly(s, R) ==
  [s EXCEPT !.status = Mark(@, R, "cancelled"), !.ledger = Mark(@, R, "cancelled")]

\* abortSessionRuntime: the run is recorded cancelled at once; its turn goes on
\* until it notices the signal.
AbortRuntime(s, R) ==
  [s EXCEPT !.aborted = @ \cup R,
            !.status = Mark(@, R, "cancelled"),
            !.ledger = Mark(@, {r \in R : s.status[r] # "cancelled"}, "cancelled")]

\* The running map forgets the entries R (their turns may still execute).
Evict(s, R) == [s EXCEPT !.running = [k \in Lanes |-> IF @[k] \in R THEN NoRun ELSE @[k]]]

-----------------------------------------------------------------------------
(* drainExecution *)

\* User turns first, then internal work, heartbeats last.
NextEntry(s, k) ==
  LET Q == Queue(s, k)
      user == {r \in Q : ~Internal(s.input[r])}
      work == {r \in Q : ~Heartbeat(s.input[r])}
  IN First(s, IF user # {} THEN user ELSE IF work # {} THEN work ELSE Q)

\* Bug: heartbeats do not look at the activity lease.
BlockedByHolds(s, r) == s.holds[s.input[r].session] > 0

\* A heartbeat waits for the session's activity lease, any run for its holds.
Blocked(s, r) ==
  LET x == s.input[r].session
  IN \/ Heartbeat(s.input[r]) /\ s.lease[x] # "none"
     \/ s.holds[x] > 0

\* Bug: a lane is drained though an entry of it is running.
AnyLanes(s, K) == K

IdleLanes(s, K) == {k \in K : s.running[k] = NoRun}

\* Bug: no retry is armed for a run that waits for a hold.
LeasedLanes(s, K) ==
  {k \in IdleLanes(s, K) : /\ Queue(s, k) # {} /\ Heartbeat(s.input[NextEntry(s, k)])
                           /\ s.lease[s.input[NextEntry(s, k)].session] # "none"}

BlockedLanes(s, K) == {k \in IdleLanes(s, K) : Queue(s, k) # {} /\ Blocked(s, NextEntry(s, k))}
StartingLanes(s, K) == {k \in IdleLanes(s, K) : Queue(s, k) # {} /\ ~Blocked(s, NextEntry(s, k))}

\* Bug: a blocked entry goes to the tail of its queue.
PutLast(s, k) == s.place[Last(s, Queue(s, k))] + 1

\* queue.unshift: a blocked entry goes back at the head of its queue.
PutBack(s, k) ==
  LET head == First(s, Queue(s, k))
  IN IF NextEntry(s, k) = head THEN s.place[head] ELSE s.place[head] - 1

\* drainExecution on each lane of K: a lane with a running entry is left alone,
\* a blocked one arms its retry timer, the others start their next entry.
Drain(s, K) ==
  LET start == StartingLanes(s, K)
      wait == BlockedLanes(s, K)
      began == {NextEntry(s, k) : k \in start}
  IN [s EXCEPT
        !.drainTimers = (@ \ IdleLanes(s, K)) \cup wait,
        !.place = [r \in Runs |-> IF \E k \in wait : r = NextEntry(s, k)
                                  THEN PutBack(s, CHOOSE k \in wait : r = NextEntry(s, k))
                                  ELSE @[r]],
        !.queued = @ \ began, !.aged = @ \ began,
        !.executing = @ \cup began,
        !.running = [k \in Lanes |-> IF k \in start THEN NextEntry(s, k) ELSE @[k]],
        !.status = Mark(@, began, "running"), !.ledger = Mark(@, began, "running")]

\* Bug: a turn that was told to stop may end completed.
VerdictOfTurn(s, r, ok) == IF ok THEN "completed" ELSE "failed"

Verdict(s, r, ok) ==
  IF r \in s.aborted THEN "cancelled" ELSE IF ok THEN "completed" ELSE "failed"

\* The code after the awaited turn: the verdict, then the finally block, which
\* clears the lane whoever it says is running, and drains it.
FinishRun(s, r, ok) ==
  LET in == s.input[r]
      done == [s EXCEPT !.status[r] = Verdict(s, r, ok), !.ledger[r] = Verdict(s, r, ok),
                        !.executing = @ \ {r}, !.unsettled = @ \ {r},
                        !.running[in.lane] = NoRun]
  IN Drain(ReconcileLease(DecrementWork(done, {r}), {in.session}), {in.lane})

-----------------------------------------------------------------------------
(* repairSessionRunQueue and enqueueSessionRun *)

\* In the idle lanes of K, the stale entries of session x fail; a lane with
\* other entries of x is drained; one with entries of other sessions only is not.
Repair(s, x, K) ==
  LET mine == s.queued \cap OfSession(s, x)
      hit == {k \in IdleLanes(s, K) : Queue(s, k) \cap mine # {}}
      stale == {r \in s.aged \cap mine : s.input[r].lane \in hit}
      kicked == {k \in hit : (Queue(s, k) \cap mine) \ stale # {}}
      purged == DecrementWork(Dequeue(s, stale, "failed"), stale)
      drained == Drain([purged EXCEPT !.drainTimers = @ \ hit], kicked)
  IN IF stale = {} THEN drained ELSE ReconcileLease(drained, {x})

\* findDedupeMatch looks in the session's own lane only.
Deduplicated(s, in) ==
  /\ in.dedupe
  /\ \E r \in Queue(s, in.session) \cup ({s.running[in.session]} \ {NoRun}) :
       s.input[r].session = in.session /\ s.input[r].source = in.source /\ s.input[r].dedupe

Steer(s, in) ==
  LET current == {s.running[in.lane]} \cap OfSession(s, in.session)
  IN CancelPendingForSession([s EXCEPT !.aborted = @ \cup current], in.session)

Preempt(s, in) ==
  LET current == {r \in {s.running[in.lane]} \ {NoRun} : Heartbeat(s.input[r])}
  IN Evict(AbortRuntime(s, current), current)

CanCoalesce(s, in) ==
  /\ in.mode = "collect" /\ Queue(s, in.lane) # {}
  /\ LET c == Last(s, Queue(s, in.lane))
     IN s.input[c].mode = "collect" /\ s.input[c].source = in.source /\ c \notin s.aged

\* A new entry: registered and pushed.
Register(s, in, origin) ==
  LET r == s.lastRun + 1
  IN [s EXCEPT !.lastRun = r, !.input[r] = in, !.recoveredFrom[r] = origin,
               !.status[r] = "queued", !.ledger[r] = "queued",
               !.queued = @ \cup {r}, !.place[r] = r, !.unsettled = @ \cup {r}]

IncrementWork(s, r, x) == [s EXCEPT !.counted = @ \cup {r}, !.work[x] = @ + 1]

Push(s, in, origin) ==
  LET pushed == Register(s, in, origin)
  IN IF Heartbeat(in) THEN pushed
     ELSE ReconcileLease(IncrementWork(pushed, pushed.lastRun, in.session), {in.session})

\* soon: the last queued entry is younger than COLLECT_COALESCE_WINDOW_MS.
EnqueueRun(s, in, origin, soon) ==
  LET s1 == Repair(s, in.session, {in.lane})
      s2 == IF in.mode = "steer" THEN Steer(s1, in) ELSE s1
      s3 == IF in.source = "chat" THEN Preempt(s2, in) ELSE s2
  IN IF Deduplicated(s1, in) THEN s1
     ELSE IF soon /\ CanCoalesce(s3, in) THEN s3
     ELSE Drain(Push(s3, in, origin), {in.lane})

-----------------------------------------------------------------------------
(* Actions *)

Init ==
  /\ lastRun = 0
  /\ input = [r \in Runs |-> NoInput]
  /\ recoveredFrom = [r \in Runs |-> NoRun]
  /\ status = [r \in Runs |-> "none"] /\ ledger = status
  /\ queued = {} /\ aged = {} /\ place = [r \in Runs |-> 0]
  /\ runningByExecution = [k \in Lanes |-> NoRun]
  /\ executing = {} /\ aborted = {} /\ unsettled = {} /\ counted = {}
  /\ nonHeartbeatWorkCount = [x \in Sessions |-> 0]
  /\ activityLeaseRenewTimers = {}
  /\ activityLease = [x \in Sessions |-> "none"]
  /\ deferredDrainTimers = {}
  /\ externalSessionHolds = [x \in Sessions |-> 0]
  /\ todo = {} /\ sweeping = FALSE /\ recovered = FALSE
  /\ estop = "none" /\ pendingStops = 0
  /\ crashes = 0 /\ estops = 0 /\ foreign = 0

\* No handler is in the middle of its loop, and this process has recovered
\* the persisted runs (every entry point does so before anything else).
Ready == recovered /\ todo = {}

\* Bug: an all-stop refuses autonomy-managed runs only.
AdmittedUnderAll(in) == AutonomyManaged(in) => estop = "none"

\* checks of enqueueSessionRun that throw before any change of state
Admitted(in) == estop # "all" /\ (AutonomyManaged(in) => estop = "none")

EnqueueSessionRun(in) ==
  /\ Ready /\ Admitted(in)
  /\ lastRun < MaxRuns
  /\ \E soon \in BOOLEAN : Become(EnqueueRun(Now, in, NoRun, soon))
  /\ UNCHANGED env

\* The chat turn of r returns (ok) or throws; the code after the await runs.
FinishTurn(r) ==
  /\ todo = {} /\ r \in executing
  /\ \E ok \in BOOLEAN : Become(FinishRun(Now, r, ok))
  /\ UNCHANGED env

\* run.abort(), a caller's signal, or the runtime timer of a started run.
AbortSignal(r) ==
  /\ todo = {} /\ r \in (queued \cup executing) \ aborted
  /\ Become([Now EXCEPT !.aborted = @ \cup {r}])
  /\ UNCHANGED env

\* Bug: the timer is cleared and the lane not drained.
TimerOnly(k) ==
  /\ todo = {} /\ k \in deferredDrainTimers
  /\ Become([Now EXCEPT !.drainTimers = @ \ {k}])
  /\ UNCHANGED env

DeferredDrain(k) ==
  /\ todo = {} /\ k \in deferredDrainTimers
  /\ Become(Drain([Now EXCEPT !.drainTimers = @ \ {k}], {k}))
  /\ UNCHANGED env

\* The renew interval of a session's lease: stop when there is no work left,
\* otherwise acquire again.
RenewLease(x) ==
  /\ todo = {} /\ x \in activityLeaseRenewTimers
  /\ Become(ReconcileLease([Now EXCEPT !.leaseTimers = @ \ {x}], {x}))
  /\ UNCHANGED env

AcquireExternalHold(x) ==
  /\ todo = {} /\ externalSessionHolds[x] < MaxHolds
  /\ Become([Now EXCEPT !.holds[x] = @ + 1])
  /\ UNCHANGED env

ReleaseExternalHold(x) ==
  /\ todo = {} /\ externalSessionHolds[x] > 0
  /\ Become(Drain([Now EXCEPT !.holds[x] = @ - 1], {x}))
  /\ UNCHANGED env

\* heartbeat-wake repairs a session whose entries wait in idle lanes.
RepairForWake(x) ==
  /\ Ready
  /\ queued \cap OfSession(Now, x) # {}
  /\ RunningRuns(Now) \cap OfSession(Now, x) = {}
  /\ activityLease[x] = "none"
  /\ Become(Repair(Now, x, Lanes))
  /\ UNCHANGED env

-----------------------------------------------------------------------------
(* Cancellation *)

\* One running entry of the session is aborted and forgotten, its queue emptied.
CancelSessionRuns(x) ==
  LET mine == RunningRuns(Now) \cap OfSession(Now, x)
      stop(R) == DecrementWork(Evict(AbortRuntime(Now, R), R), R)
  IN /\ Ready
     /\ \/ mine = {} /\ Become(CancelPendingForSession(Now, x))
        \/ \E r \in mine : Become(CancelPendingForSession(stop({r}), x))
     /\ UNCHANGED env

CancelQueuedRunsForSession(x) ==
  /\ Ready
  /\ LET R == queued \cap OfSession(Now, x)
     IN R # {} /\ Become(ReconcileLease(CancelQueued(Now, R), {x}))
  /\ UNCHANGED env

CancelQueuedRunById(r) ==
  /\ Ready /\ r \in queued
  /\ Become(ReconcileLease(CancelQueued(Now, {r}), {input[r].session}))
  /\ UNCHANGED env

\* Heartbeats switched off: a running one is aborted but keeps its lane.
CancelAllHeartbeatRuns ==
  LET beats(R) == {r \in R : Heartbeat(input[r])}
  IN /\ Ready
     /\ Become(AbortRuntime(Dequeue(Now, beats(queued), "cancelled"), beats(RunningRuns(Now))))
     /\ UNCHANGED env

\* Bug: the renew timers are cleared and the leases kept.
CancelAllAndTimers(s) ==
  LET R == RunningRuns(s)
  IN [Evict(AbortRuntime(Dequeue(s, s.queued, "cancelled"), R), R)
        EXCEPT !.work = [x \in Sessions |-> 0], !.leaseTimers = {}]

\* Every queue is emptied, every running entry aborted and forgotten, and the
\* work counts cleared; leases are left to their renew timers.
CancelAll(s) ==
  LET R == RunningRuns(s)
  IN [Evict(AbortRuntime(Dequeue(s, s.queued, "cancelled"), R), R)
        EXCEPT !.work = [x \in Sessions |-> 0]]

EngageEstop(level) ==
  /\ Ready /\ estops < MaxEstops
  /\ estop' = level /\ estops' = estops + 1
  /\ pendingStops' = IF level = "all" THEN pendingStops + 1 ELSE pendingStops
  /\ UNCHANGED <<mgr, todo, sweeping, recovered, crashes, foreign>>

\* The engage request goes on after awaiting the daemon's stop.
CancelAllRuns ==
  /\ Ready /\ pendingStops > 0
  /\ Become(CancelAll(Now))
  /\ pendingStops' = pendingStops - 1
  /\ UNCHANGED <<todo, sweeping, recovered, estop, crashes, estops, foreign>>

ResumeEstop ==
  /\ Ready /\ estop # "none"
  /\ estop' = "none"
  /\ UNCHANGED <<mgr, todo, sweeping, recovered, pendingStops, crashes, estops, foreign>>

-----------------------------------------------------------------------------
(* The watchdog, restarts and recovery *)

\* The runs the watchdog looks at: the running entries, and those the ledger
\* calls running.
StartedRuns == RunningRuns(Now) \cup {r \in Runs : ledger[r] = "running"}

\* sweepStuckRuns, first loop: running entries past their limit are aborted and
\* forgotten; the lane is not drained.  The second loop will treat the runs the
\* ledger calls running that no lane of this process knows.
SweepStuckRuns(overdue) ==
  LET R == overdue \cap RunningRuns(Now)
      swept == ReconcileLease(DecrementWork(Evict(AbortRuntime(Now, R), R), R), SessionsOf(Now, R))
      orphans == {r \in overdue : swept.ledger[r] = "running" /\ r \notin RunningRuns(swept)}
  IN /\ Ready
     /\ Become(swept)
     /\ todo' = orphans /\ sweeping' = TRUE
     /\ UNCHANGED <<recovered, estop, pendingStops, crashes, estops, foreign>>

\* The process dies: its memory is gone, its lease rows stay until they expire.
Crash ==
  /\ todo = {} /\ crashes < MaxCrashes
  /\ crashes' = crashes + 1 /\ recovered' = FALSE /\ pendingStops' = 0
  /\ Become([Now EXCEPT
       !.status = Mark(@, {r \in Runs : @[r] \in {"queued", "running"}}, "lost"),
       !.queued = {}, !.aged = {}, !.executing = {}, !.aborted = {}, !.unsettled = {},
       !.running = [k \in Lanes |-> NoRun],
       !.counted = {}, !.work = [x \in Sessions |-> 0], !.leaseTimers = {},
       !.lease = [x \in Sessions |-> IF @[x] = "self" THEN "other" ELSE @[x]],
       !.drainTimers = {}, !.holds = [x \in Sessions |-> 0]])
  /\ UNCHANGED <<todo, sweeping, estop, estops, foreign>>

\* Bug: runs that were queued are not recovered.
BeginRecoveryOfRunning ==
  /\ ~recovered
  /\ recovered' = TRUE
  /\ todo' = {r \in Runs : ledger[r] = "running"} /\ sweeping' = FALSE
  /\ UNCHANGED <<mgr, estop, pendingStops, crashes, estops, foreign>>

\* ensureRecoveredPersistedRuns, at the first call of any entry point.
BeginRecovery ==
  /\ ~recovered
  /\ recovered' = TRUE
  /\ todo' = {r \in Runs : ledger[r] \in {"queued", "running"}} /\ sweeping' = FALSE
  /\ UNCHANGED <<mgr, estop, pendingStops, crashes, estops, foreign>>

\* Whether the loop wants to enqueue run r again once it is marked interrupted.
\* Start-up recovery spares runs that are recoveries themselves; the watchdog
\* spares lanes that are busy or already hold a run of the session.
WantsRequeue(r) ==
  /\ Recoverable(input[r]) /\ estop = "none"
  /\ ~sweeping => recoveredFrom[r] = NoRun
  /\ sweeping => /\ runningByExecution[input[r].lane] = NoRun
                 /\ Queue(Now, input[r].lane) \cap OfSession(Now, input[r].session) = {}

\* Bug: the interrupted run keeps its ledger status.
NotInterrupted(s, r) == s

\* markPersistedRunInterrupted: the ledger's record only; the entry of a turn
\* that is still executing keeps its own status.
Interrupted(s, r) == [s EXCEPT !.ledger[r] = "cancelled"]

\* One iteration: oldest first at start-up, newest first in the watchdog.  The
\* enqueue may be refused (budget), which is caught and logged.
RecoverNext ==
  /\ \E r \in todo :
       /\ \A q \in todo : IF sweeping THEN q <= r ELSE r <= q
       /\ todo' = todo \ {r}
       /\ \/ Become(Interrupted(Now, r))
          \/ /\ WantsRequeue(r) /\ lastRun < MaxRuns
             /\ \E soon \in BOOLEAN : Become(EnqueueRun(Interrupted(Now, r), input[r], r, soon))
  /\ UNCHANGED <<sweeping, recovered, estop, pendingStops, crashes, estops, foreign>>

-----------------------------------------------------------------------------
(* Time and the other process *)

\* STALE_QUEUED_RUN_MS pass.  No timer that could start a run lets them pass.
Age ==
  /\ Ready /\ queued # aged
  /\ \A k \in deferredDrainTimers : StartingLanes(Now, {k}) = {}
  /\ Become([Now EXCEPT !.aged = queued])
  /\ UNCHANGED env

\* Another process takes the session's lease for work of its own, and lets go;
\* a dead process's row goes when it expires.
ForeignAcquire(x) ==
  /\ todo = {} /\ foreign < MaxForeign /\ activityLease[x] = "none"
  /\ Become([Now EXCEPT !.lease[x] = "other"])
  /\ foreign' = foreign + 1
  /\ UNCHANGED <<todo, sweeping, recovered, estop, pendingStops, crashes, estops>>

ForeignRelease(x) ==
  /\ todo = {} /\ activityLease[x] = "other"
  /\ Become([Now EXCEPT !.lease[x] = "none"])
  /\ UNCHANGED env

-----------------------------------------------------------------------------
Next ==
  \/ \E in \in Inputs : EnqueueSessionRun(in)
  \/ \E r \in Runs : FinishTurn(r) \/ AbortSignal(r) \/ CancelQueuedRunById(r)
  \/ \E k \in Lanes : DeferredDrain(k)
  \/ \E x \in Sessions : \/ RenewLease(x) \/ AcquireExternalHold(x) \/ ReleaseExternalHold(x)
                         \/ RepairForWake(x) \/ CancelSessionRuns(x)
                         \/ CancelQueuedRunsForSession(x)
                         \/ ForeignAcquire(x) \/ ForeignRelease(x)
  \/ CancelAllHeartbeatRuns \/ CancelAllRuns \/ ResumeEstop
  \/ \E level \in {"autonomy", "all"} : EngageEstop(level)
  \/ \E overdue \in SUBSET StartedRuns : SweepStuckRuns(overdue)
  \/ Crash \/ BeginRecovery \/ RecoverNext \/ Age

Spec == Init /\ [][Next]_vars

\* WF_vars(FinishTurn(r)), with what enables it written out.
WeakTurnFairness(r) == []<>~(todo = {} /\ r \in executing) \/ []<><<FinishTurn(r)>>_vars

\* What the event loop and the other parties grant: a turn returns or throws,
\* armed timers fire, a hold is let go (by its caller or its TTL), a foreign
\* lease row is released or expires, recovery goes on once entered and is
\* entered again after a restart.
Fairness ==
  /\ \A r \in Runs : WeakTurnFairness(r)
  /\ \A k \in Lanes : WF_vars(DeferredDrain(k))
  /\ \A x \in Sessions : /\ WF_vars(RenewLease(x))
                         /\ WF_vars(ReleaseExternalHold(x))
                         /\ WF_vars(ForeignRelease(x))
  /\ WF_vars(BeginRecovery) /\ WF_vars(RecoverNext)

FairSpec == Spec /\ Fairness
=============================================================================
