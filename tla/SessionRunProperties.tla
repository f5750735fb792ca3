------------------------ MODULE SessionRunProperties ------------------------
(***************************************************************************)
(* What the session run manager promises: properties of SessionRunManager. *)
(***************************************************************************)
EXTENDS SessionRunManager

\* Every variable stays in its range (the shapes of state.ts and types.ts).
TypeOK ==
  /\ Now \in Manager
  /\ todo \in SUBSET Runs /\ sweeping \in BOOLEAN /\ recovered \in BOOLEAN
  /\ estop \in {"none", "autonomy", "all"} /\ pendingStops \in Nat
  /\ crashes \in Nat /\ estops \in Nat /\ foreign \in Nat

\* No caller is left waiting: a run's promise is pending exactly while the run
\* waits in a queue or its turn executes, and no run does both.
NoRunLost == unsettled = queued \cup executing /\ queued \cap executing = {}

\* The per-execution serial lock, as far as the code keeps it: two turns of one
\* lane overlap only if some run of that lane has been aborted before (steered,
\* preempted, stopped, swept or cancelled by its caller).
SerialUntilAbort ==
  \A k \in Lanes : OfLane(Now, k) \cap aborted = {} =>
    executing \cap OfLane(Now, k) \subseteq {runningByExecution[k]}

\* What subagent-swarm.ts:235-237 relies on: a lane never executes two turns at
\* once, turns that have been told to stop aside.
SerialLane == \A r, q \in executing \ aborted : input[r].lane = input[q].lane => r = q

\* The runs of the process that have yet to end.
Live(s) == s.queued \cup s.executing

\* The work count never exceeds the counted entries that are still live, so it
\* cannot keep the activity lease of a session that has gone idle.
Backed(s) ==
  \A x \in Sessions : s.work[x] <= Cardinality(s.counted \cap Live(s) \cap OfSession(s, x))

WorkCountBacked == Backed(Now)

\* A lane whose entries wait although nothing will ever look at them: no turn
\* executes there, no retry timer is armed.
Stranded(s, k) ==
  Queue(s, k) # {} /\ k \notin s.drainTimers /\ s.executing \cap OfLane(s, k) = {}

\* What the test at session-run-manager.test.ts:868 says of the repair: it
\* "re-kicks a recent queued entry when the execution lane is idle".
NoStrandedQueue == todo = {} => \A k \in Lanes : ~Stranded(Now, k)

\* No step strands a lane, except a repair that fails a stale entry of it.
StrandedOnlyByRepair ==
  [][\A k \in Lanes : Stranded(Now, k)' /\ ~Stranded(Now, k) =>
       \E r \in aged \cap OfLane(Now, k) : status'[r] = "failed"]_vars

\* Once the cancellation of an all-stop has run, nothing waits to start until
\* it is resumed, whatever timers, restarts or recoveries come in between.
AllStopEmptiesQueues ==
  estop = "all" /\ pendingStops = 0 => queued = {}

\* The parts of the inductive invariant.  A run's status and ledger record fit
\* where the run is: unborn, queued, executing (told to stop or not), or over.
StatusFits(s, r) ==
  /\ r > s.lastRun => /\ s.status[r] = "none" /\ s.ledger[r] = "none"
                      /\ r \notin s.queued \cup s.executing \cup s.aborted
  /\ r <= s.lastRun /\ r \notin s.queued \cup s.executing => s.status[r] \in Terminal \cup {"lost"}
  /\ r \in s.queued => s.status[r] = "queued"
  /\ r \in s.executing => \/ s.status[r] = "running"
                          \/ s.status[r] = "cancelled" /\ r \in s.aborted

\* An executing run is the one its lane says is running, unless some run of the
\* lane has been aborted.
HoldsItsLane(s, r) ==
  \/ s.running[s.input[r].lane] = r
  \/ \E q \in s.aborted : s.input[q].lane = s.input[r].lane

\* User turns, internal work, heartbeats: the order in which a drain takes them.
Class(in) == IF ~Internal(in) THEN 1 ELSE IF Heartbeat(in) THEN 3 ELSE 2
SameClass(s, r, q) ==
  s.input[r].lane = s.input[q].lane /\ Class(s.input[r]) = Class(s.input[q])

\* A queued entry is on file as queued; the entries of one lane and class stand
\* in the order of their creation; only work that exists is counted, heartbeats
\* are not.
Filed(s) ==
  /\ s.aged \subseteq s.queued
  /\ \A r \in s.queued : s.ledger[r] = "queued" /\ s.place[r] <= r
  /\ \A r, q \in s.queued : r < q /\ SameClass(s, r, q) => s.place[r] < s.place[q]
  /\ \A r \in s.counted : r <= s.lastRun /\ ~Heartbeat(s.input[r])
  /\ \A r \in Runs : r > s.lastRun => s.recoveredFrom[r] = NoRun

\* What the queues, the running map, the promises and the statuses say about
\* each other never comes apart.
Sound(s) ==
  /\ \A r \in Runs : s.input[r] # NoInput <=> r <= s.lastRun
  /\ s.queued \cap s.executing = {} /\ s.unsettled = s.queued \cup s.executing
  /\ \A r \in Runs : StatusFits(s, r)
  /\ \A k \in Lanes : s.running[k] # NoRun =>
       s.running[k] \in s.executing /\ s.input[s.running[k]].lane = k
  /\ \A r \in s.executing : HoldsItsLane(s, r)
  /\ Filed(s)

\* The ledger calls a run queued or running only if the process holds it, once
\* start-up recovery has run.
Open(s, r) == s.ledger[r] \in {"queued", "running"}

NoGhostRuns == Ready => {r \in Runs : Open(Now, r)} \subseteq Live(Now)

\* An interrupted run is re-enqueued at most once.
RecoveredOnce ==
  \A r, q \in Runs : recoveredFrom[r] # NoRun /\ recoveredFrom[r] = recoveredFrom[q] => r = q

\* A recovery loop has the records nobody holds in hand and no queued run, and a
\* run that was recovered is closed and in no loop any more.
RecoveryFits ==
  /\ ~recovered => todo = {} /\ queued = {}
  /\ todo \cap queued = {} /\ \A r \in todo : r <= lastRun
  /\ recovered => \A r \in Runs : Open(Now, r) => r \in Live(Now) \cup todo
  /\ \A r \in Runs : recoveredFrom[r] # NoRun =>
       recoveredFrom[r] <= lastRun /\ ~Open(Now, recoveredFrom[r]) /\ recoveredFrom[r] \notin todo
  /\ RecoveredOnce

\* While no restart, emergency stop or other process has come in, the counts miss
\* no live work and the leases follow the counts.
Calm(s) ==
  /\ \A x \in Sessions : Cardinality(s.counted \cap OfSession(s, x)) <= s.work[x]
  /\ \A r \in Live(s) \ s.aborted : ~Heartbeat(s.input[r]) => r \in s.counted
  /\ \A x \in Sessions : s.lease[x] # "other" /\ (s.work[x] > 0 => s.lease[x] = "self")
  /\ \A x \in s.leaseTimers : s.lease[x] = "self"

\* The strengthening of TypeOK and the safety invariants above that every action
\* preserves.
IInv ==
  /\ TypeOK /\ Sound(Now) /\ Backed(Now) /\ RecoveryFits /\ AllStopEmptiesQueues
  /\ pendingStops > 0 => estops > 0
  /\ crashes = 0 /\ estops = 0 /\ foreign = 0 => Calm(Now)

\* A run's verdict is final: a late answer of a turn, a repair or a sweep never
\* turns one final status into another.
VerdictIsFinal ==
  [][\A r \in Runs : status[r] \in Terminal => status'[r] = status[r]]_vars

\* Entries of one lane and class start in the order they were enqueued, however
\* often a blocked one was put back at the head in between.
FifoWithinClass ==
  [][\A r, q \in Runs :
       r \in queued \ queued' /\ r \in executing' /\ q \in queued /\ q \in queued'
       /\ SameClass(Now, r, q) => r < q]_vars

\* In a process that has not restarted, with no emergency stop and no other
\* process at work, a heartbeat turn never starts on a session that has work of
\* its own queued or executing and not aborted.  (After those events the lease
\* row can be missing while there is work: see LeasePublished.)
HeartbeatYields ==
  [][\A r \in executing' \ (executing \cup aborted') :
       Heartbeat(input'[r]) /\ crashes = 0 /\ estops = 0 /\ foreign = 0 =>
       \A q \in ((queued' \cup executing') \ aborted') \cap 1 .. lastRun :
         input[q].session = input'[r].session => Heartbeat(input[q])]_vars

\* What the test at session-run-manager.test.ts:594 says: a session with user
\* work, here a turn nobody has aborted, publishes its activity lease.
LeasePublished ==
  \A r \in executing \ aborted : ~Heartbeat(input[r]) => activityLease[input[r].session] # "none"

\* Every caller is answered: a pending promise settles (or dies with a restart).
EveryRunSettles == \A r \in Runs : r \in unsettled ~> r \notin unsettled

\* An idle session's activity lease does not stay behind: heartbeats and the
\* other processes get the session back.
LeaseLetGo ==
  \A x \in Sessions :
    activityLease[x] = "self" /\ nonHeartbeatWorkCount[x] = 0
      ~> activityLease[x] # "self" \/ nonHeartbeatWorkCount[x] > 0

-----------------------------------------------------------------------------
(* The caller's view of the runs, and the specification it implements *)

Phase(s, r) ==
  IF r \in s.queued THEN "waiting"
  ELSE IF r \in s.executing THEN IF r \in s.aborted THEN "stopping" ELSE "executing"
  ELSE IF r > s.lastRun THEN "unborn"
  ELSE s.status[r]

Lifecycle == INSTANCE RunLifecycle
               WITH N <- MaxRuns, born <- lastRun, phase <- [r \in Runs |-> Phase(Now, r)]

\* The manager implements the lifecycle its callers rely on.
ImplementsLifecycle == Lifecycle!Spec
=============================================================================
