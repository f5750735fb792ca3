# SwarmClaw, verified: models and proofs of the runtime

SwarmClaw is a self-hosted runtime for swarms of LLM agents: chat sessions,
heartbeats, delegated subagents, task queues, schedules, connectors and
protocols run in a Next.js web process and a daemon process that share one
SQLite database.  This directory holds TLA+ modules for the parts of it where
concurrency, restarts and timeouts decide whether it is right, TLC
configurations that check them on small instances, and proofs that TLAPS checks
for every instance.  `PROJECT.json` is the index: components, runs, the mutant
that each property catches, the source lines of every definition, findings,
hazards and theorems.

Paths below are relative to `src/src/lib/server/` unless they start with `src/`.

    tlc -config chat.cfg MCSessionRunManager           # any run of PROJECT.json
    tlapm SessionRunProofs.tla                         # the proofs

## 1. The system

One Node process serves the UI and the API, another (or the same) is the daemon.
Both execute agents.  Everything in a process happens on one event loop: a
handler runs until its next `await`, and what it found before the `await` may no
longer hold after it.  Across processes, the shared state is the SQLite file:
row-level JSON documents, an in-process cache with a time to live on top
(`storage-cache.ts`), named lock rows that expire (`storage-locks.ts`), and
`patchStoredItem`, a read-modify-write of one row in a transaction.

| Component | Keeps | Operations | What makes it hard | Correct when |
|---|---|---|---|---|
| **Session run manager** (`runtime/session-run-manager/`) | per lane a queue and a running entry; per session a work count, an activity lease, external holds; retry timers; the persisted run ledger | enqueue (repair, dedupe, steer, preempt, coalesce, push, drain), turn end, abort, cancel one/session/heartbeats/all, watchdog sweep, recovery, hold, lease renewal | a turn is a long `await`; an aborted turn lives on; timers; restarts; another process's lease | every promise settles, a lane runs one turn at a time, verdicts are final, no work is lost or done twice after a restart |
| **Emergency stop** (`runtime/estop.ts`, `src/src/app/api/autonomy/estop/route.ts`) | a persisted level | engage, resume (perhaps by approval) | the request awaits the daemon's stop before it cancels runs | nothing starts under an all-stop |
| **Run ledger** (`runtime/run-ledger.ts`) | one record per run, an event log | patch, list, prune | shared by both processes | agrees with the process that executes the run |
| **Connector outbox** (`connectors/outbox.ts`) | one row per message to be sent: status, attempts, due time, claim | enqueue with dedupe, claim, deliver, complete, fail and back off, reclaim a stale claim | the send is an `await` between claim and completion; several processes drain one table; crash in between | a message is delivered at least once, and once unless a claim went stale; a replaced one is not sent |
| **Task queue** (`runtime/queue/`, `tasks/task-checkout.ts`) | queue of task ids, tasks, attempts, checkouts | enqueue, process next, checkout, finish attempt, retry, recover orphans and stalls, resume | queue and task are two rows; a cached read decides a checkout; attempts outlive their task's state | a task has one live attempt; a cancelled one stays cancelled; a failed one retries at most as often as allowed; none is forgotten |
| **Scheduler** (`runtime/scheduler.ts`, `schedules/`) | schedules with next run time, the tasks made for them | tick, run now, pause, resume, edit, archive, restore | task, row and queue are separate statements; gates that skip or defer | one run in flight; the only slot of a `once` is not lost |
| **Watch jobs** (`runtime/watch-jobs.ts`) | watch jobs with status, next check, time-out | create, poll due, trigger on events, cancel | the tick's `await`s against triggers, cancels and other ticks; rows made from an old list | a watch fires once, and ends |
| **Heartbeats and wakes** (`runtime/heartbeat-service.ts`, `heartbeat-wake.ts`, `wake-dispatcher.ts`) | pending wakes, flush timer and retries, deferred wakes | request, coalesce, flush, defer, drain | retries against new requests, sessions that are busy | every wake reaches a turn, or gives way to more urgent ones |
| **Session mailbox** (`chatrooms/session-mailbox.ts`, `human-question-answer.ts`) | envelopes in the session's row, cards in the chat log, waits | ask, answer, supersede, bridge, wait, ack, clear | a turn writes the whole row back; several stores are closed one after the other | an open card can be answered, an answer resumes the agent once |
| **Daemon lease** (`daemon/controller.ts`, `runtime/daemon-state/core.ts`) | a lock row with owner and expiry, local intervals, health state | start, renew, lose, stop, health checks, sweeps | a renewal that comes late, a second process taking over | at most one daemon acts, once leases have expired |
| **Subagents** (`agents/subagent-swarm.ts`, `subagent-lineage.ts`, `delegation-jobs.ts`) | swarm members, lineage tree, jobs | spawn, settle, wait by join policy, cancel subtree, restore | results after cancellation, restore after restart | a swarm settles exactly when its policy says |
| **Missions** (`missions/mission-service.ts`) | status, milestones, budget use | transitions, usage recording, budget stop | usage arrives after the status changed | a final mission does not move |
| **Approvals** (`approvals.ts`) | pending decisions | request, decide, act on decision | decision and effect are two steps | an approval is acted on once |
| **Structured sessions** (`protocols/`) | a row per run with a cursor, the state of its phase and of its parallel branches; a lock row per run; pending executions per process | create, execute step by step, spawn and join branches, dispatch a task, pause, resume, skip, retry, cancel, archive, recover | a turn writes back the row from before it; a lock shorter than a turn with its retries; children and parent are two rows; recovery asks once | one process works on a run, a join waits for every branch, what can go on goes on |
| **MCP pool** (`mcp-connection-pool.ts`) | clients by config, connects in flight | get or connect, evict, close | a connect in flight when the entry is evicted | no client is leaked or used after close |
| **Keyed queue** (`src/src/lib/keyed-queue.ts`) | a promise chain per key | enqueue with timeout | a timed-out operation goes on | nothing in the repository uses it but its test |
| **Connectors** (`connectors/`) | connections, reconnect state, ingress and delivery | start, stop, reconnect with backoff, route messages | lifecycle against inbound messages | one live connection per connector |
| **Chat execution, tools, providers, memory, chatrooms** | messages, tool loops, memories | one chat turn and what it calls | size, LLM behaviour | a turn ends |
| **Storage** (`storage.ts`, `storage-cache.ts`, `storage-locks.ts`) | documents, cache, lock rows | load, save collection, patch, lock | whole-collection saves, cached reads | no update is lost |

Interactions.  Everything that makes an agent work ends in
`enqueueSessionRun`: the chat API, webhooks and connectors (user turns),
heartbeat-wake and the heartbeat service, the subagent runner (with a swarm's
bucket as `executionGroupKey`), the task queue and protocol steps, the main
loop's follow-ups.  The daemon's intervals call the watchdog sweep, heartbeat
ticks, webhook retries, the outbox and the queue.  Callers await the promise of
the run (`RunEntry.promise`); holds are taken by code that works on a session
outside the manager (for instance a protocol step).

## 2. Hazards

They are listed with their lines in `PROJECT.json`.  The ones the first models
are built around:

* a turn that was told to stop still executes: its lane has been given away, its
  record is final, and when it returns its `finally` block clears the lane of
  whoever holds it (`drain.ts:236`);
* retries that depend on a timer: a blocked head entry goes back into the queue
  and only its timer (or the turn on the lane) will look at it again;
* counters and a lease row kept beside the queues they count;
* a stop that is written first and executed after an `await`;
* recovery that reads the ledger, after a crash or while the process lives.

## 3. Plan

Order of the modules, the most important behaviour first.  Done:

1. `SessionRunManager` with `SessionRunProperties`, `RunLifecycle`,
   `MCSessionRunManager`, `SessionRunProofs`: everything the other components
   rely on to execute agents.

2. `ConnectorOutbox` with `ConnectorOutboxProperties`, `MCConnectorOutbox`,
   `ConnectorOutboxProofs`: delivery across processes.
3. `TaskQueue` with `TaskQueueProperties`, `MCTaskQueue`, `TaskQueueProofs`: queue, tasks,
   attempts and checkouts of two processes over the cached store.
4. `DaemonLease`, `McpPool`, `WatchJobs`, `WakeQueue`, `Scheduler`, `HumanQuestions`,
   composed for TLC by `MCServices`; proofs in `DaemonLeaseProofs`, `WatchJobsProofs` and,
   for the other four, `ServiceProofs`.
5. `ProtocolRun` with `ProtocolRunProofs`: structured sessions across processes; checked
   in `MCTaskQueue`.  `CompositionProofs`: type correctness of what `MCTaskQueue` and
   `MCServices` put together.


Left, in this order:

6. `ExternalHold`: the timers of holds, whose key is a millisecond timestamp; two
   processes recovering one run ledger.
7. The heartbeat service: its tick, deferred wakes, and `WakeQueue` composed with
   the manager's promise about a run.
8. The rest of `protocols/`: readiness of a DAG as a pure algorithm against a reference
   definition, for-each, subflow and swarm steps; `TaskQueue` as what ends its tasks.
9. `SubagentSwarm` (join policies, cancellation of a subtree), `Missions` (budget),
   `Approvals`, `ProviderHealth`.

Abstract specifications worth stating: a job that is executed by one worker at a time
for `TaskQueue`; "fires once" for schedules and watches.

Theorems still worth proving about the core: `StrandedOnlyByRepair`, `NoGhostRuns`,
`WorkCountBacked`, `RecoveredOnce`, `HeartbeatYields`; each needs its own
strengthening, and TLC agrees with all of them.

## 4. The session run manager

### Modules

* `SessionRunManager` - the state, Init, one action per entry point, Next, Spec,
  Fairness.  Definitions headed "Bug:" are mutations that `PROJECT.json` names;
  the specification does not use them.
* `SessionRunProperties` - type invariant, safety invariants, action properties,
  liveness, the inductive invariant `IInv` (proved, not run), and the refinement.
* `RunLifecycle` - the abstract specification: what the caller of
  `enqueueSessionRun` is promised about its run.
* `MCSessionRunManager` - the traffic TLC drives the manager with.
* `SessionRunProofs` - the proofs.

### State and actions

The manager's state object (`state.ts:37-55`) is the record `Now`: each field of
the code is a variable of the same name (`runningByExecution`,
`nonHeartbeatWorkCount`, `activityLeaseRenewTimers`, `deferredDrainTimers`,
`externalSessionHolds`) or a set of runs (`queued`, `executing`, `aborted`,
`unsettled`, `counted`).  A lane's queue array is `queued` with an order
`place`; `unshift` gives a place below the head.  A handler is a chain of the
code's functions, so each of these is an operator from a manager state to a
manager state (`Repair`, `Steer`, `Preempt`, `Push`, `Drain`, `FinishRun`,
`ReconcileLease`, `DecrementWork`, `AbortRuntime`, ...), composed in the order of
the code, and an action is its guard and `Become(chain(Now))`.  Control that the
code has is all there: the dedupe that looks in one lane only, the preemption
that forgets a heartbeat's lane before the new entry is pushed, the retry timer
on each blocked path, the `finally` block that deletes the lane's entry
unconditionally, the cancellation that clears the counts but not the marks, the
all-stop that is persisted before an `await` and carried out after it.

The chat turn is the one `await`: `executing` are the runs whose turn has not
returned, and between its start and `FinishTurn` every other action may happen.
`aborted` is the raised abort signal; an aborted turn still returns, at any time
or (without fairness) never.  Recovery and the watchdog's second loop enqueue
while they iterate; the loop does not yield, so `todo` blocks the other actions
until it is through.  `Crash` clears the memory and leaves the ledger, the stop
level and the lease rows.

The other process appears as the holder `"other"` of a session's lease row: it
may take a free row and let go.  A dead process's own row becomes one of these
and goes when it expires.

### What is abstracted

* Time: `Age` says that every queued entry has waited `STALE_QUEUED_RUN_MS`; it
  happens only when no armed retry timer could have started something.  Whether
  a coalesce falls within its window is a free choice (`soon`).
* Budget refusals: a recovered enqueue may be refused (`RecoverNext`'s first
  disjunct).  A refused ordinary enqueue changes nothing.
* The runtime timer and a caller's signal are the same event, `AbortSignal`.
  A subagent job cancelled with its parent session is one too.
* Main-loop follow-ups after a turn are ordinary `EnqueueSessionRun` steps.
* Not in the model: previews, events, usage, run metadata and attachments; the
  cap of 500 recent runs (a hazard); the drain depth guard of 25, which no lane
  reaches at these bounds; the timers of holds (a hazard: planned module
  `ExternalHold`), whose effect, a hold that ends, is `ReleaseExternalHold`.
* If the daemon's stop throws, `engage` never cancels: `CancelAllRuns` is then
  simply never taken, which the safety runs include.

### Runs

Every property of a passing run has a mutant in `PROJECT.json`: the plausible bug
that it catches under that run's configuration.

| Run | Instance | Shows |
|---|---|---|
| `chat` | one session; follow-up, steering, heartbeat and internal requests; 3 runs; another process's lease | `SerialUntilAbort`: a lane runs one turn at a time until one of its runs is aborted. `VerdictIsFinal`. `HeartbeatYields`: a heartbeat does not start on a session that has work of its own. `ImplementsLifecycle`: the refinement |
| `swarm` | two sessions sharing a subagent lane, a hold and a crash, 3 runs | `NoRunLost` (a promise is pending exactly while its run waits or executes), `WorkCountBacked`, `NoGhostRuns`, `RecoveredOnce`; `FifoWithinClass`: putting a blocked entry back does not reorder; `StrandedOnlyByRepair`: a lane with waiting entries keeps a timer or a returning turn, unless a repair fails one of its entries |
| `fair` | one session's own lane, an emergency stop and a hold, 2 runs, fair | `AllStopEmptiesQueues`, `EveryRunSettles`, `LeaseLetGo`: an idle session's lease is released |
| `serial_lane`, `lease_after_stop`, `stranded` | as named in the cfg | violated: the findings below |

Bounds.  Three runs are one that executes, one that was aborted or waits, and a
third that comes between: every hazard listed needs at most three.  Two sessions
are needed only where a lane is shared.  One crash and one stop reach every
phase of recovery, since the action guards do not count them.  Model values are
not declared symmetric: the requests of a run name them.

Fairness (`FairSpec`).  A turn returns or throws, since its runtime timer and the
provider's own timeouts end it; Node fires armed timers; holds are released by
their caller or by their TTL; a lease row of another process is released or
expires; the recovery loop, once entered, goes on, and a restarted process enters
it (every entry point does, the daemon's intervals among them).  Nothing is
assumed about enqueues, aborts, cancellations, sweeps or emergency stops.
`WeakTurnFairness` writes the enabling condition of `FinishTurn` out, which is
the same formula as `WF` and cheaper for TLC.

### Findings

The three violation runs show where the code does something else than its
comments or tests say; each counterexample is a handful of steps.

1. `serial_lane` - *a late turn unlocks its successor's lane*.  A heartbeat is
   executing; a user message preempts it, and starts on the lane; the heartbeat's
   turn returns, its `finally` block (`drain.ts:236`) deletes the lane's running
   entry, which is now the user's, and drains: the next entry starts beside the
   user's turn.  `agents/subagent-swarm.ts:235-237` builds the swarm's limit on
   parallelism on this lock.  Two consequences are in the model and have no run of
   their own: a turn forgotten in this way is not in the running map when
   `cancelAllRuns` goes through it, so an all-stop does not tell it to stop; and the
   watchdog's second loop takes it for an orphan and may enqueue its work again.
2. `lease_after_stop` - `cancelAllRuns` clears the work counts but leaves
   `nonHeartbeatCounted` on the entries it aborts.  When such a turn returns after
   the stop was resumed, its decrement takes the count of a new user turn, whose
   lease is then released while it executes.
3. `stranded` - `repairSessionRunQueue` clears the retry timer of a lane when it
   fails a stale entry (`recovery.ts:146`), and drains the lane again only for
   entries of the session it repairs (line 165).  On a lane that two sessions
   share, the other one's entries keep no timer; they wait until something else is
   enqueued on the lane.  `EveryRunSettles` is for this reason checked, and true,
   of a session's own lane only.

### Proofs

`SessionRunProofs` proves, for all sessions, groups, requests and bounds that
satisfy `Assumption` (the requests have the input type, the bounds are naturals):

| Theorem | Says |
|---|---|
| `Invariance` | `Spec => []IInv` |
| `TypeCorrect` | `TypeOK`: every variable stays in its range, no work count goes below zero (proved, not run) |
| `NoRunIsLost`, `NoGhosts`, `RecoveredAtMostOnce`, `WorkIsBacked`, `AllStopHolds`, `SerialWithoutAborts` | `NoRunLost`, `NoGhostRuns`, `RecoveredOnce`, `WorkCountBacked`, `AllStopEmptiesQueues`, `SerialUntilAbort`, the invariants the runs check |
| `VerdictsAreFinal`, `FifoInClass`, `HeartbeatsYield`, `StrandedByRepairOnly` | `Spec => VerdictIsFinal`, `FifoWithinClass`, `HeartbeatYields`, `StrandedOnlyByRepair`, the action properties the runs check |
| `Refinement` | `Spec => ImplementsLifecycle`: every step maps to a step of `RunLifecycle` or a stutter |

Why a stronger invariant.  `NoRunLost` alone is not inductive: that a drain
starts only a run nobody executes needs the statuses, the ledger and the running
map to fit the queues, and that an abort never touches a finished run needs
the running map to name executing runs only.  `IInv` is the conjunction of

- `TypeOK`;
- `Sound`: runs exist exactly up to `lastRun`; waiting and executing exclude each
  other and together are the pending promises; each run's status fits where it is; a
  lane's running entry executes and is of that lane; an executing run holds its
  lane unless one of the lane's runs was aborted; a queue's places are distinct and
  in the order the class was entered; only entries of a queue are aged, and only
  runs that exist and are no heartbeats are counted;
- `Backed`: a session's work counter does not exceed the number of its counted runs
  that wait or execute;
- `RecoveryFits`: the records a recovery loop has still to go through belong to runs nobody
  holds; a run that was recovered is closed and in no loop any more; no two runs
  come from one interrupted run;
- `AllStopEmptiesQueues`, and that a pending cancellation stems from an emergency stop;
- `Calm`, as long as there was no crash, no emergency stop and no other process at the leases:
  the counters miss no live work (aborted runs and heartbeats aside), and a session with
  work has its lease.

The argument has five layers: (1) sets and their least members; (2) every
function of the manager maps manager states to manager states; (3) what every
function does to the runs that exist already (`Keeps`), and that it keeps the state
sound and *moves the runs forward only* (`Evolves`), except that a push makes
one run join (`Joins`) and a turn's end finishes one (`Finishes`); (4) that every
function keeps the counters backed and, in calm, complete (`Balances`, with `Yields` for
where a heartbeat may start), and ages or strands nothing unless it is a repair that fails a
stale entry (`Serves`); (5) hence every action is one of four moves, `Evolves`, `Joins`,
`Finishes` or, for a crash, `Dies`.  The invariants, the finality of verdicts and
the refinement are then facts about four moves instead of twenty actions.  The exceptions
are few and named in the proof: a crash, an emergency stop and foreign holds give up
`Calm`, `Age` makes entries stale, and `RecoverySteps` follows the recovery loop, which
takes several steps.

Only model-checked: liveness (`EveryRunSettles`, `LeaseLetGo`), which is out of the
prover's reach.
## 5. The connector outbox

### Modules

* `ConnectorOutbox` - the table, the worker of each process, and the callers.
* `ConnectorOutboxProperties` - the type invariant and what callers rely on.
* `MCConnectorOutbox` - the requests TLC makes.
* `ConnectorOutboxProofs` - the proofs.

### State and actions

The table is one function of rows per column (`status`, `key`, `wait`, `age`,
`attempts`); the rows exist in the order of their creation.  Each process has the
worker state of `outbox.ts:63-75` (`timer`, `running`, `pendingKick`), the batch it
is working on, the row it is sending with the phase of the send, and the duplicate
window of `connector-outbound.ts:45-64` (`recent`), which is memory of the process.

A handler is cut where the code is: `FindExisting` and `Insert` are the two
database statements of `enqueueConnectorOutbox` (another process may act between
them, this one cannot); `RunOutbox` is the timer's callback up to the list of
candidates, `Claim` the transaction of `claimEntry`, `StartSend` the call of
`sendConnectorMessage`, `Arrive` the platform's side of it, `Resend` its retry
after a recoverable connection error, `FinishSend` and `FailSend` the two write-backs,
which save the copy claimed before the `await` whatever the row says by now, and
`EndBatch` the `finally` block.  `StartWorker` and `StopWorker` are the daemon's
calls; `Crash` forgets everything but the table.

Time is relative.  `wait` counts the ticks until `sendAt`, `age` those since
`processingStartedAt`, `recent` those a key still counts as sent, `lag` those since
the batch began, whose `now` all of its claims use.  `Tick` lowers or raises them
together and stops counting where no comparison of the code could tell the
difference, so that behaviours need no bound on their length.

Two history variables: `copies` counts the messages of a row that reached the
platform, and `doubted` collects the rows whose send may have arrived although
somebody took it for undone: a stale claim that was taken over, an error after the
message had arrived.  Those are the cases in which at-least-once delivery must
send twice.

Not in the model: payloads (a message is its dedupe key), the choice of
connector, `onlyIds` and `maxItems` (used by tests), and permanent errors of a
missing connector, which take the same path as any other error here and there.

### Runs

| Run | Instance | Shows |
|---|---|---|
| `outbox_two` | two processes, two rows, replacing follow-ups, a stop | `TwiceOnlyIfDoubted`; `EndsAreFinal`: a row that has ended changes only if its claim went stale or it was cancelled under its send |
| `outbox_ends` | one process, two rows, two attempts, a crash, fair | `EveryEntryEnds` |
| `outbox_retry`, `outbox_replaced` | as named in the cfg | violated: the findings below |

Bounds.  `MaxLag` bounds the ticks of one batch; it reaches `ClaimStale` in
`outbox_two`, so that claims made late in a batch go stale at once.  The delays are
smaller than the code's but keep their order where a comparison can see it:
backoff below the duplicate window below the stale limit in the run about retries.
The two workers of `outbox_two` are interchangeable, and its properties are
invariants and a property of single steps, so it uses symmetry; retries after a
failure and crashes are in `outbox_ends`, a single process without symmetry.

Fairness (`FairSpec`): callers go on to their second statement, timers fire, a send
returns or throws (the platform clients have timeouts), the batch goes on, the
daemon of a process starts its worker, time passes.  `outbox_ends` has no
`StopWorker`: an operator who stops the daemon for good stops delivery.

### Findings

1. `outbox_retry` - *a failed send makes its own retry a duplicate*.  The window
   of 30 s opens when the send begins and nothing closes it when the send throws.
   The retries after 5 s and 10 s fall into it, are answered "suppressed", and the row
   ends as a success; nothing was sent.
2. `outbox_replaced` - *a cancellation is written over*.  A follow-up is replaced
   while its send is under way: the write-back saves the claimed copy as sent, or,
   if the send failed, as pending and due again.

In the model, too, but without a run: two rows of one key are both delivered when
the second is enqueued while the first is due or being sent, since the look-up
ignores the one (`outbox.ts:331`) and does not return the other (line 270).

### Proofs

`ConnectorOutboxProofs` proves, for all processes, keys, requests, rows and
waits that satisfy `OutboxAssumption`:

| Theorem | Says |
|---|---|
| `DeliveredOnce` | `Spec => []TwiceOnlyIfDoubted` |
| `EndsStay` | `Spec => EndsAreFinal` |

The inductive invariant `OutboxIInv` says of each row nobody doubts: at most one
worker sends it; while one does, the row says processing, or cancelled; until that
send arrives there is no copy; and a copy without a sender is a row that says sent,
or one that was left processing by a crash or was cancelled.  The claim is where it is needed: a row that is
pending has no copy, so sending it is right, and one that is processing can be
claimed only as stale, which makes it doubtful.  The write-backs share one
lemma (`WriteBackKeeps`), whose premise `Doubtless` states when the new status fits
the copies.

## 6. The task queue

### Modules

* `TaskQueue` - the queue row, the task table, and the processes that work on them.
* `TaskQueueProperties` - the type invariant and what the board's users rely on.
* `TaskQueueProofs` - the proofs.
* `MCTaskQueue` - the dependency graphs of the instances, and the structured sessions
  (below) beside the queue.
* `CompositionProofs` - the proofs about the modules that are checked together.

### State and actions

`rows` and `queue` are the database.  Each process reads the tasks through the
cache of `storage-cache.ts`: `stale[p]` is the copy it still has when another
process has written since (or `Fresh`), `View(p)` what `loadTasks` returns, and
`Save` the save of a whole collection from that view, which restores what the copy
holds.  `work[p]` are the `processNext` calls that await a turn, one per slot;
`kicks` the armed timers that will call it again; `pendingKick` the mark left by a
call that found every slot taken; `orphanRecoveryAttempts` the counts of
`queue/orphan-recovery.ts`.

`ProcessNext` runs from its entry to the save of the queue, with the orphan scan and
the choice of the first runnable task; `Checkout` from there to the await: second
look, dependency guard, gates, the transaction of `checkoutTask`.  `TurnEnds` settles
a turn for every attempt that joined it; `Settle` and `FinishRepair` are what
follows the two awaits, and end in the `finally` block (`Finally`).  Where the code
carries out two statements (row and queue, or completion and cascade), the second
is the variable `rest`, which nothing of the same process overtakes and a crash
deletes.  The routes of the operator, the stall recovery, the validation of
completed tasks, the promotion of deferred ones and the daemon's `resumeQueue` are
an action each.  A retry time is a phase of the row (`waiting`, then `due`).

Left out: claims of a pool, workspaces and resume handles, what is told to whom when
a task ends.

### Runs

| Run | Instance | Shows |
|---|---|---|
| `tasks` | one process with the daemon, a task and its dependent, one slot, two attempts, a stall, a crash, two requests, fair | `BoardTypeOK`: every variable in its range, and no task twice in the queue; `NothingForgotten`: after `resumeQueue` no queued task needs the orphan scan; `BoundedTries`; `CancelledStays`; `TasksMoveOn` |
| `services` | two processes on one table, one of them with an outdated copy | `OneTurnUnlessRetaken`: two processes that both see a task queued do not both start it; `DependentsWait`: a task starts only when its blockers are completed at that moment |

What a process decides on, or restores from, an outdated copy is collected in
`reverted`, and a task that is queued again under a live turn in `retaken`; the
properties are about the others.  That both sets fill up is the finding behind the
two stale-state hazards of `PROJECT.json`: `checkoutTask` runs in a transaction, but
decides on the cached table (`tasks/task-checkout.ts:19`).  With one process
`reverted` stays empty, and the properties are unconditional.

One armed timer (`MaxKicks`) beside the daemon's interval is enough: what the timer
calls is what the interval calls, at any time, so a second one adds no behaviour.

Fairness (`Fairness`): handlers go on, timers fire, turns end (they have a timeout), a
daemon that went down is started again, retry times come.  `TasksMoveOn` therefore
rests on the daemon's interval, which is what the code's own comment says of it.

### Proofs

`TaskQueueProofs` classifies every step by what it does to the row of a task (`Moves`:
it stays, is retried, is over, is deferred, starts, comes up, is pushed, is asked for) and
shows, for every action and whatever a cache holds, that a task outside `reverted`
moves in one of these ways and that no turn begins but in `Checkout` (`AnyStep`).
From this follow:

* `TurnsNeverDoubled` (`[]OneTurnUnlessRetaken`), in any number of processes.  The
  strengthening is `TurnsCounted`: a task that is queued has no turn, unless it is in
  `retaken`; so the one that starts it starts its only turn, and leaves it running.
* `BlockersComeFirst` (`DependentsWait`), in any number of processes.
* `CancellationStays` (`CancelledStays`) and `TriesStayBounded` (`[]BoundedTries`), for
  one process with any number of crashes, stalls and requests.  `PushFits` says that what
  `enqueueTask` is about to save as queued already is queued; with it `TriesBacked`,
  the strengthening, counts the tries against the attempts on the row.  With two
  processes the premise is needed: the second save of `enqueueTask`
  (`queue/core.ts`) does not look whether another process has started or
  cancelled the task since the first.

* `BoardTypes` (`[]TypeOK`), in any number of processes.  `Typed` is `Shape`, the part that
  the classification needs, with the ranges of the rest; one lemma per variable takes it
  through every action.  Its hard part is the queue row, on which no task may stand
  twice: `SiftedEntries` and `PushedEntries` say what filtering and pushing leave
  of a list without repetitions, and rest on `InOrderLists`: a finite set of places
  has an increasing listing, by the rank of each place and the least place of a rank
  (`LeastPlace`, from the well-foundedness of the naturals).  The filters are written over
  places, not with `SelectSeq`, whose recursive definition the provers cannot open.
* `QueuedStaysHeld` (`[]NothingForgotten`), for a process that is alone: once its daemon
  has resumed the queue, every task that the table calls queued stands on the queue
  row, or is about to be put there by a second statement of the same process.  The
  strengthening is `Typed`, that a process alone has no outdated copy (`Alone`), and
  `AllHeld`, which names that second statement.  Each action that makes a row queued
  also pushes the task or leaves the push in `rest`; `ProcessNext` takes only dead
  entries and the task it starts off the row; a crash clears `booted`, and
  `resumeQueue` puts back all that it finds.

`TasksMoveOn` is liveness, and only model-checked.

### Structured sessions (`ProtocolRun`, `ProtocolRunProofs`)

A run of `protocols/` works through its steps in the process that holds its lease.
`stored` are the rows: status, the cursor `step` into the plan, `said` and `errand`
(phaseState), `branch` (what the parent knows of its children) and `joined`.
`execution[p][r]` is the pending `runProtocolRun` of `r` in `p`: queued behind its timer,
between two steps, or in a turn, with the `copy` of the row that the turn will
write back.  `runLease` is the lock row.  `StartRun`, `StepRun` and `TurnReturns` are
the three stretches between awaits; the `finally` block, the parent's update
(`Synced`) and the requests it causes (`ToResume`, `Requested`) are parts of them.
`Act` is `performProtocolRunAction`; `RecoverRuns` is `ensureProtocolEngineRecovered`,
once in the life of a process.  A dispatched task is its verdict (`errand`).  Its
executor completes it and tells the run (`ErrandDone`, the success path of
`processNext`; between the two the process may die); whoever else ends it tells
nobody (`ErrandClosed`: a failure, a cancellation, the PATCH of an operator,
`reconcileFinishedRunningTasks`), and the history `untold` keeps that.

Left out: loops, conditions, for-each, subflow and swarm steps, plans with
dependencies between their steps (`dag-scheduler.ts`), remote delegation, a
dispatched task that is queued again after it ended, and the text of prompts and
artifacts.

The run `tasks` is about either the board or a session: its first state chooses, and
the other stands still where its fairness asks for nothing.  A main run is either a
parallel step with two branches of one decision each, and the join, or a dispatched
task and a discussion of two turns; two processes, of which operators talk to one;
two upsets (a crash, an action of the operator, a turn that outlives its lease).

* `OneExecutor`: no two processes work on a run, unless its lease ran out under a
  turn (`lapsed`: a turn of 90 seconds is tried up to four times, the lease is 120
  seconds long, and nothing renews it meanwhile).
* `JoinAfterBranches`: a join is passed only when every branch has ended, but for a
  branch that a late turn took back from its end (`revived`).  It is checked where
  no turn of the parent comes between the parallel step and its join; such a turn
  writes the parent's view of its branches back too.
* `StopUndoneOnlyByTurn`: a run that an operator paused, cancelled or archived, or that
  completed, moves only by an operator again, or by a turn that was under way and
  writes its copy back.  Recovery, callbacks and the end of a branch leave it alone.
* `RunsGoOn`: what can take a step does not wait for ever.  Exempt are the runs in
  `forgotten`: a request was refused because of a dead process's lease, or the
  process died that was to start a draft; both are never asked for again, since
  recovery asks once and passes drafts over (`protocol-run-lifecycle.ts:307`).
  A run that waits for a task in `untold` is owed a step only while a process has yet
  to recover (`WillBeTold`): without a restart it waits for ever.

Fairness (`ProtocolFairness`): every event loop goes on (timers fire, turns return within
their limit, recovery runs when the process is up again), and the lease of a dead
process runs out.  Operators owe nothing, nor does the board.

Seen and not promised by any text of the repository: only the success path of
`processNext` wakes a run (`queue/core.ts:1715`).  A run whose task failed, was
completed by hand (`tasks/task-route-service.ts:206`) or found finished by
`reconcileFinishedRunningTasks` (`queue/core.ts:750`) waits until a process starts; the model
has it, and `RunsGoOn` says so.  Resuming a run that waits for a task dispatches a second one
(`protocol-step-processors.ts:613`).

`ProtocolRunProofs` proves, for any servers, plans, branches and bounds, `LeaseOfWorker`
(`ProtocolSpec => []ProtocolIInv`) and `NeverTwoExecutors` (`[]OneExecutor`).  The
strengthening is the lease: who works on a run that is not in `lapsed` owns its lock
row, and the row is live.  A start takes the row only from nobody, from itself or
from one whose time is over, so whoever else worked would be in `lapsed`; a release in
the `finally` block is by the owner; a crash renames the owner of rows whose process
no longer works on anything.

The rows come next.  `Outcome` classifies every step: it writes one row that follows
the stored one (`CarriesOn`) or the copy of a turn that ends (`ComesFromTurn`), it is
the parallel step (`Forks`), it wakes runs that waited (`Wakes`), or it writes nothing.
One lemma per action proves it (`AnyOutcome`), together with what rows, copies and
executions look like afterwards; a second one says where a turn has its copy from
(`AnyTurns`).  From these two:

* `SessionInvariance`, the inductive invariant.  What makes it inductive is that a row
  names a task only on the step that dispatched it (so waking never moves a
  cursor out of the plan), and that no branch exists before the parallel step
  (`ForkedOnce`: without it a second fork would undo the end of a branch).
* `SessionTypes` (`[]ProtocolTypeOK`).
* `StopsAreKept` (`StopUndoneOnlyByTurn`).
* `JoinsWait` (`JoinAfterBranches`), under `JoinsBeforeTurns`: in no plan does a join
  come after a turn of the same run.  The premise is needed: the turn writes back
  the parent's view of its branches, and a branch that an operator restarted
  meanwhile would count as ended.  The strengthening is `JoinInv`: while a join is ahead
  of the cursor, a branch the parent has seen end has ended; and a turn of the
  parent knows whether the join was passed.

## 7. The services

Six smaller components have a module each.  They share no state in the models, so
`MCServices` puts them, and the task queue of two processes, under one run: the
first state chooses the `part` a behaviour is about, the others stand still in a
state in which their fairness asks for nothing.  The state space is the sum of
the parts, not their product.

### The daemon's lease (`DaemonLease`, `DaemonLeaseProperties`, `DaemonLeaseProofs`)

`lease` is the row `daemon-primary` of the lock table, with `live` for "not
expired"; each statement on it is a step (`asked` holds how far
`acquireDaemonLease` has come).  A process is up while its services run
(`running`) or a stop awaits its connectors (`stopping`, a count, since stops may
overlap).  The pid of the owner is looked for on the own machine only, so an owner
on another machine may look dead while it lives (`LooksDead`).  History:
`excuse` says why an active daemon may be without the row (it overslept its renewal;
the row was taken away by a process of another machine; it gave the row up itself,
by a second stop or the end of a stop after which it was started anew).  Left out: the
emergency stop and a `daemonAutostartEnabled` that changes.

`OneDaemon` and `TwoDaemonsEnd` are checked for two processes on two machines with
one fault and one stop.  The second needs that the interval of a renewal and the
retry timer fire, and that a synchronous call goes on.  An owner that lives on another machine and is taken for dead contradicts
the comment at `daemon/lease-owner.ts:15`; it is part of the hazard at `daemon-state/core.ts:257`.

### The MCP pool (`McpPool`, `ServiceProofs`)

One server: the pool treats servers apart.  `entry` and `inflight` are the two maps,
`fetch` the calls of `getOrConnectMcpClient` that await a disconnect, a connect, or
the connect of another; `opened` the clients whose transport is open.  A
configuration is its fingerprint, a number that an edit raises.  Three turns,
two edits, three connects.  `LostOnlyByLateDelete` says where a client leaks, and
that this is the only place: the delete after the disconnect of a stale client
(`mcp-connection-pool.ts:80`) removes whatever entry it finds.

### Watches (`WatchJobs`, `WatchJobsProofs`)

A tick (`processDueWatchJobs`) is a list, the watches still to evaluate, and the rows
to write, which were made from the list; nothing keeps two ticks apart.  Polled
watches end by an evaluation, told ones by an envelope, an approval or a webhook.
`WokenOnce` is about ticks that neither overlap nor crash; `TriggeredWasWoken` and
`WatchEnds` hold through both.  Two ticks, a watch of each sort, a crash or an
evaluation that throws.

### Wakes (`WakeQueue`, `ServiceProofs`)

`pending` by target, one timer with its kind, the lane as a bit.  `FlushWakes` is
the whole of `flushWakes`: drop (`DropWakes`), deliver, or wait for a retry under the session that
was chosen; any of them may throw.  Three events of two urgencies, two kept.  Fairness:
timers fire and the lane becomes free, and since a retry comes every second it finds
the lane free in the end.  Events of the heartbeat service's own tick, and its
deferred wakes, are not modelled.

### The scheduler (`Scheduler`, `ServiceProofs`)

One schedule of each kind and mode, with the tasks made for it.  The handler's first
statement is its action, the statements that follow are `left`, which a crash
deletes.  `answers` collects how slots were answered since the schedule was made
active.  `OneRunInFlight` exempts an edited schedule, whose reused task keeps the key
it was made with (`tasks/task-lifecycle.ts:55`); `OnceIsNotLost` names the cases in
which the code may skip the only slot of a `once`, and excludes all others.  One of the cases is a
loss: the row is saved as completed before the structured session is launched
(`scheduler.ts:367`), and the launch throws when a participant is gone
(`protocol-run-lifecycle.ts:209`), so the slot is spent without a run (`launchThrew`).
The throw also ends the tick for the schedules behind it; their rows are still due
at the next.  Two tasks, two requests of the operator, a crash.

### Questions to the human (`HumanQuestions`, `ServiceProofs`)

`card` is the question in the chat log, `box` the session's mailbox, `wait` the watch
of `wait_for_reply`.  A handler leaves a script of statements, carried out one by
one, which a crash cuts off.  A turn keeps a copy of the session's row across its
awaits and writes it back as a whole (`TurnReads`, `TurnSaves`): an open request that is
lost so is in `orphaned`, and exempt from `CardIsAnswerable`; a closed one that is open
again is exempt from nothing.  It does the same to the log, whose copies are taken before
other awaits (`TurnReadsLog`, `TurnWritesLog`): `replaceAllMessages` saves the user's
messages only, so a card may be gone (`lost`) or, if its question was settled meanwhile,
pending again with buttons that nobody answers (`reopened`).  The agent may ask with a type that
`answerHumanQuestion` does not look for (in `orphaned`, too), or under a correlationId
it has used before: then the answer closes the older card, and the new one stays
pending (`namesakes`).  `CardIsAnswerable` names these cases and excludes all others.
Two questions, one with a card and one without; one slip (a crash, a request
removed by hand, a row or a log written back).

### Run

`services` checks `ServicesTypeOK` (the type invariants of all parts) and the
properties above.  Each property it checks has a mutant that the run refutes.
`OneConnect`, `TriggeredWasWoken` and `GivesWayToUrgent` are proved and not run: the
first two follow, in what they find, `LostOnlyByLateDelete` and `WokenOnce`.

### Proofs

`DaemonLeaseProofs` proves, for any machines and processes, `LeaseInvariance`
(`LeaseSpec => []LeaseIInv`) and `OneDaemonAtATime` (`[]OneDaemon`).  `OneDaemon` alone
says nothing about the row; `LeaseIInv` adds that who counts as holder is up
(`HolderIsUp`: a start that does not look at the row again starts nothing new), and
that who is up without an excuse owns a row whose time is not over (`UpHasRow`).
Then every change of the row is made by its owner, at the expense of one whose
time is over, or leaves an excuse.

`ServiceProofs` proves, for any number of turns, edits and connects of the pool,
`ConnectsShared` (`[]OneConnect`), `PoolHoldsOpenClients` (`[]PooledIsOpen`) and
`OnlyLateDeleteLoses` (`LostOnlyByLateDelete`).  The strengthening is that the turn in
`inflight` is the one that connects, that the pool is empty meanwhile, and that the
client it will have is new: nothing in the pool names it yet (`ClientIsNew`), without
which an eviction of an old client could be one of the new.

It proves, for any events, urgencies and limit, `NoWakeIsLost`
(`[]EveryEventAccounted`), with the strengthening that whatever waits does so behind an
armed timer, and `GivesWay` (`GivesWayToUrgent`): where `uniqueWakeEvents` leaves an event
out, it kept as many as it can, none less urgent, also where a retry merges the
wakes of the agent with those of the session that was chosen for them.

Of the scheduler it proves, for any number of tasks, requests and crashes,
`ScheduleRunsOnce` (`[]OneRunInFlight`) and `OnceIsAnswered` (`[]OnceIsNotLost`).  The first
needs what `left` still holds: before the first edit all tasks have the key of the row, and where
a task is yet to be put on the queue no other is in flight, nor is another to be put there
(`UneditedIsSerial`); and no row that is yet to be saved is older than the schedule
(`RowsAreFresh`), for no request of the operator comes between the statements of a handler.  The
second needs that a row yet to be saved as completed has its answer already, if only that the
launch threw, or the start of the run behind it in `left`, and the same of a row that was archived as completed
(`CompletedIsAnswered`).

Of the questions it proves, for any questions and slips, `CardsCanBeAnswered`
(`[]CardIsAnswerable`) and `AgentResumedOnce` (`[]ResumedOnce`).  Both rest on what a script
looks like at any of its statements (`ScriptFits`): a card is followed by its request, a closing by
the stop of the wait, and no reply or ack comes before the card is closed.  Then a question that
was shown and is not settled has its request, or has it ahead (`ShownIsOpen`); the card of a
settled one is pending only in the cases named (`CardsOfSettled`, which is also why no copy of
the log shows a card for the first time); and a wait that is active while its question is
settled was made late, or has its stop ahead (`WaitsAreStopped`).  The proof found that a request which a turn reopens need not
be exempt from `ResumedOnce`: its wait was stopped all the same.

`WatchJobsProofs` proves, for any number of watches and overlapping ticks,
`TriggeredMeansWoken` (`[]TriggeredWasWoken`) and `AgentWokenOnce` (`[]WokenOnce`).  The
first needs that a row a tick has yet to write says triggered only if the agent was
woken (`TriggeredRowsWoke`).  The second needs, while nothing overlaps or is cut off,
that there is one tick, that a watch that woke its agent is no longer active or will
be written as triggered by that tick (`WokenAreSpent`), and that what the tick has
still to look at, or writes as active, has woken nobody (`TickIsFresh`).

`CompositionProofs` proves the type invariants of the two compositions, for any values of
the constants: `BoardAndSessionTypes` (`BoardSpec => []BoardTypeOK`, of `MCTaskQueue`) and
`ServiceTypes` (`ServicesSpec => []ServicesTypeOK`, of `MCServices`).  A step of the whole is a
step of each part or leaves it alone, so the parts' inductive invariants are one of the
whole; those of the watches and of the wakes get the ranges they leave out
(`WatchTyped`, `WakeTyped`).

With these, every invariant and action property of the passing runs is a theorem.  What
remains with TLC needs fairness and is out of the prover's reach: `EveryRunSettles`,
`LeaseLetGo`, `EveryEntryEnds`, `TasksMoveOn`, `RunsGoOn`, `TwoDaemonsEnd`, `WatchEnds` and
`EventsSettle`.  Three theorems have a premise that the code needs, given with each: one
process for `CancelledStays` and `BoundedTries`, and no join after a turn for
`JoinAfterBranches`.  `NothingForgotten` itself speaks of a process that is alone.

## 8. Not modelled

`PROJECT.json` lists every component with its status.  The large ones without a
module are: one chat turn's interior (prompting, tool loops, providers: LLM
behaviour and I/O; the manager sees it as an `await` that returns, throws or is
aborted), session tools, memory and knowledge search, the UI, the API routes
(thin), the CLI and Electron shells, the bundled extensions under
`src/extensions`, evaluation, and import/export.

Hazards seen while reading that `PROJECT.json` leaves out, because no property speaks
of them and no text of the repository says what is promised:

* a turn the running map forgot survives an all-stop (`cancellation.ts:124`), and
  the watchdog takes it for an orphan (`recovery.ts:192`); both follow from the
  overlap `SerialLane` shows;
* an enqueue fails runs that waited 15 s behind a hold (`recovery.ts:142`);
* the list of 500 recent runs drops promises of queued ones (`state.ts:88`);
* start-up recovery of one process takes the live runs of another for interrupted
  (`run-ledger.ts:140`);
* two outbox rows of one key can both be delivered (`outbox.ts:331`), a worker polls
  while another process sends (`outbox.ts:182`), and one that was stopped goes on
  after its batch (`outbox.ts:367`);
* `resumeQueue` takes the running tasks of another process for lost
  (`queue/core.ts:2057`), and a blocker completed by the sweep unblocks nobody
  (`queue/core.ts:802`);
* an eviction during a connect has no effect (`mcp-connection-pool.ts:109`);
* pending wakes are lost by a restart, or by a store that throws
  (`heartbeat-wake.ts:169`, `315`).

Steps the models merge, or inputs they leave out, in components they have:

* a database write that throws, in every module; in the scheduler a wake or an enqueue
  that throws after the row was saved would spend the slot as a launch does;
* `Synced` loads a run's parent and writes it in one step (`protocol-step-helpers.ts:148`),
  `Insert` cancels the rows it replaces and adds its own in one
  (`outbox.ts:274`, `304`), `RecoverStalled` and the other sweeps save tasks and queue
  in one (`queue/core.ts:1978`, `2079`, `2120`): each pair is synchronous, so only
  another process, or a crash between the two, could come between;
* a turn connects to an MCP server with the configuration it was given when it
  began, which may be older than that of the server's row
  (`session-tools/index.ts:357`);
* wakes that name both a session and an agent (`heartbeat-wake.ts:147`).
