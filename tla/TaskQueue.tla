------------------------------ MODULE TaskQueue ------------------------------
(***************************************************************************)
(* The task queue (src/lib/server/runtime/queue/core.ts) with the checkout *)
(* (tasks/task-checkout.ts), the attempts (execution-engine/task-attempt.  *)
(* ts), the dependencies (dag-validation.ts) and the operator's routes     *)
(* (tasks/task-route-service.ts).                                          *)
(*                                                                         *)
(* The tasks are rows of a table, the queue is one row of another.  Every  *)
(* process reads the tasks through a cache that lives ten seconds and      *)
(* writes them back as a whole, so it may decide on, and restore, rows     *)
(* that another process has changed.  A handler runs to its next await;    *)
(* the awaits are the agent's turn and a repair turn.  A second statement  *)
(* that a crash can cut off is a step of its own (rest).  Definitions      *)
(* headed "Bug:" are mutations nothing here uses.                          *)
(***************************************************************************)
EXTENDS Integers, FiniteSets, SequencesExt

CONSTANTS
  Procs,           \* processes that share the database
  Daemons,         \* those that run the daemon
  NumTasks,        \* tasks, in the order of their ids
  BlockedBy,       \* of each task, the tasks it waits for
  Operations,      \* what the operator does
  MaxConcurrent,   \* settings.taskQueueConcurrency
  MaxAttempts,     \* maxAttempts of every task
  MaxOrphan,       \* MAX_ORPHAN_RECOVERY_ATTEMPTS
  MaxKicks,        \* bound: timers of processNext worth telling apart
  MaxRequests,     \* bound: operator's requests
  MaxStalls,       \* bound: recovery sweeps that find something
  MaxCrashes,      \* bound: process crashes
  MaxMisses        \* bound: writes that a cache of another process does not see

Tasks == 1 .. NumTasks
Slots == 1 .. MaxConcurrent

ASSUME QueueAssumption ==
  /\ NumTasks \in Nat /\ IsFiniteSet(Procs) /\ Daemons \subseteq Procs
  /\ BlockedBy \in [Tasks -> SUBSET Tasks]
  /\ Operations \subseteq {"queue", "retry", "cancel", "complete"}
  /\ {MaxConcurrent, MaxAttempts, MaxKicks} \subseteq Nat \ {0}
  /\ {MaxOrphan, MaxRequests, MaxStalls, MaxCrashes, MaxMisses} \subseteq Nat

Statuses == {"backlog", "queued", "running", "completed", "failed", "cancelled", "deferred"}

\* retry: "waiting" until retryScheduledAt has come; "due" while the error of
\* the retry still stands on the row.
Row == [status : Statuses, attempts : 0 .. MaxAttempts, retry : {"none", "waiting", "due"}]
Rows == [Tasks -> Row]

Fresh == <<>>
NoWork == [task |-> 0, phase |-> "none"]
Settled == {"valid", "invalid", "thrown"}
Work == [task : Tasks, phase : {"turn", "repair"} \cup Settled]
NoRest == [op |-> "none"]

VARIABLES
  rows, queue,     \* the database
  stale,           \* the copy in a process's cache that others have outdated, or Fresh
  work,            \* the processNext calls that await a turn, one per slot
  rest,            \* the statement a handler has still to carry out
  kicks,           \* timers that will call processNext
  pendingKick,
  booted,          \* the daemon of the process has resumed the queue
  orphanRecoveryAttempts,
  tries,           \* checkouts of each task since the operator's last retry
  retaken,         \* tasks that were queued again under a live turn
  reverted,        \* tasks decided on, or restored, from an outdated copy
  requests, stalls, crashes, misses

db == <<rows, queue, stale>>
process == <<work, rest, kicks, pendingKick, booted, orphanRecoveryAttempts>>
history == <<tries, retaken, reverted, misses>>
bounds == <<requests, stalls, crashes>>
vars == <<db, process, history, bounds>>

-----------------------------------------------------------------------------
(* The store *)

\* loadTasks
View(p) == IF stale[p] = Fresh THEN rows ELSE stale[p]

HasTurn(w, t) == \E p \in Procs, s \in Slots : w[p][s].task = t

\* The table becomes t2; p drops its cache, and any other process may have
\* cached the table as it was.  D are the tasks that are decided or restored;
\* work' is known when it is evaluated.
Write(p, t2, D) ==
  /\ rows' = t2
  /\ \E missed \in SUBSET {q \in Procs \ {p} : stale[q] = Fresh /\ t2 # rows} :
       /\ misses' = misses + Cardinality(missed) /\ misses' <= MaxMisses
       /\ stale' = [q \in Procs |-> IF q = p THEN Fresh ELSE IF q \in missed THEN rows ELSE stale[q]]
  /\ reverted' = reverted \cup {t \in D : View(p)[t] # rows[t]}
  /\ retaken' = retaken \cup
       {t \in Tasks : t2[t].status = "queued" /\ rows[t].status # "queued" /\ HasTurn(work', t)}

\* saveTasks: all rows of the view.  saveTask: one row.
Save(p, v) == Write(p, v, Tasks)
SaveOne(p, t, row) == Write(p, [rows EXCEPT ![t] = row], {t})

-----------------------------------------------------------------------------
(* Helpers *)

WithStatus(v, S, st) == [t \in Tasks |-> IF t \in S THEN [v[t] EXCEPT !.status = st] ELSE v[t]]
InStatus(v, st) == {t \in Tasks : v[t].status = st}

\* The numbers in S, a finite set, in increasing order.
InOrder(S) ==
  CHOOSE s \in [1 .. Cardinality(S) -> S] : \A i, j \in DOMAIN s : i < j => s[i] < s[j]

\* The entries of q that are in S, in the order of q.
Sifted(q, S) == LET places == InOrder({i \in DOMAIN q : q[i] \in S})
              IN [n \in DOMAIN places |-> q[places[n]]]

\* Bug: an entry may stand twice.
PushAgain(q, S) == q \o InOrder(S)

\* pushQueueUnique, for each of S.
PushUnique(q, S) == q \o InOrder(S \ ToSet(q))

BlockersDone(v, t) == \A b \in BlockedBy[t] : v[b].status = "completed"

\* Bug: an entry whose time has not come leaves the queue.
LiveAndDue(q, v) == Sifted(q, {t \in InStatus(v, "queued") : v[t].retry # "waiting"})

\* dequeueNextRunnableTask: stale entries leave the queue, and with them the
\* first task whose time has come and whose blockers are done (next, in ProcessNext).
LiveQueue(q, v) == Sifted(q, InStatus(v, "queued"))

\* Bug: a task that was ever given a time stays where it is.
NeverRetried(v, t) == v[t].status = "queued" /\ v[t].retry = "none" /\ BlockersDone(v, t)

MayRun(v, t) ==
  LET row == v[t] IN row.status = "queued" /\ row.retry # "waiting" /\ BlockersDone(v, t)

\* The places in q of the tasks that may run.
RunnableIn(q, v) == {i \in DOMAIN q : MayRun(v, q[i])}

FirstOf(places) == CHOOSE i \in places : \A j \in places : i <= j

\* Bug: a retry is scheduled whatever became of the task meanwhile.
RetryAnything(row, repeated) ==
  IF row.attempts + 1 < MaxAttempts
  THEN [status |-> "queued", attempts |-> row.attempts + 1, retry |-> "waiting"]
  ELSE [status |-> "failed", attempts |-> MaxAttempts, retry |-> "none"]

\* Bug: the attempt is not counted.
RetryUncounted(row, repeated) ==
  IF row.status = "cancelled" THEN [row EXCEPT !.retry = IF @ = "none" THEN "none" ELSE "due"]
  ELSE [row EXCEPT !.status = "queued", !.retry = "waiting"]

\* scheduleRetryOrDeadLetter.  Attempts beyond MaxAttempts make no difference.
ScheduleRetry(row, repeated) ==
  IF row.status = "cancelled" THEN [row EXCEPT !.retry = IF @ = "none" THEN "none" ELSE "due"]
  ELSE LET n == IF row.attempts < MaxAttempts THEN row.attempts + 1 ELSE MaxAttempts
       IN IF n < MaxAttempts /\ ~repeated
          THEN [status |-> "queued", attempts |-> n, retry |-> "waiting"]
          ELSE [status |-> "failed", attempts |-> n, retry |-> "none"]

\* isRepeatedRetryFailure: the error of a retry stands on the row, and is the same.
MayRepeat(row) == IF row.retry = "none" THEN {FALSE} ELSE BOOLEAN

Completed(row) == [row EXCEPT !.status = "completed", !.retry = "none"]
DeadLettered(row) == [row EXCEPT !.status = "failed", !.retry = "none"]

More(n) == IF n < MaxKicks THEN n + 1 ELSE n
Active(p) == {s \in Slots : work[p][s] # NoWork}

\* The event loop of p may take up something new: what follows a statement or
\* a settled turn is done first.
Free(p) == rest[p] = NoRest /\ \A s \in Slots : work[p][s].phase \notin Settled

\* The finally block of processNext, when k timers are armed: it looks at the
\* queue q and the tasks v it finds then.
Finally(p, q, v, k) ==
  /\ pendingKick' = [pendingKick EXCEPT ![p] = FALSE]
  /\ kicks' = [kicks EXCEPT ![p] = IF pendingKick[p] \/ RunnableIn(q, v) # {} THEN More(k) ELSE k]

-----------------------------------------------------------------------------
\* An empty board, in processes whose daemon has resumed the queue, or not yet.
EmptyBoard(resumed) ==
  /\ rows = [t \in Tasks |-> [status |-> "backlog", attempts |-> 0, retry |-> "none"]]
  /\ queue = <<>>
  /\ stale = [p \in Procs |-> Fresh]
  /\ work = [p \in Procs |-> [s \in Slots |-> NoWork]]
  /\ rest = [p \in Procs |-> NoRest]
  /\ kicks = [p \in Procs |-> 0] /\ pendingKick = [p \in Procs |-> FALSE]
  /\ booted = [p \in Procs |-> resumed]
  /\ orphanRecoveryAttempts = [p \in Procs |-> [t \in Tasks |-> 0]]
  /\ tries = [t \in Tasks |-> 0] /\ retaken = {} /\ reverted = {}
  /\ requests = 0 /\ stalls = 0 /\ crashes = 0 /\ misses = 0

Init == EmptyBoard(FALSE)

-----------------------------------------------------------------------------
(* processNext *)

\* The scan of the first worker: queued tasks that are not in the queue.
Orphans(p, v) == IF Active(p) = {} THEN InStatus(v, "queued") \ ToSet(queue) ELSE {}
Exhausted(p, O) == {t \in O : orphanRecoveryAttempts[p][t] >= MaxOrphan}

\* trackOrphanRecovery and pruneOrphanRecovery
OrphanCounts(p, O) ==
  IF Active(p) # {} THEN orphanRecoveryAttempts[p]
  ELSE [t \in Tasks |-> IF t \in O \ Exhausted(p, O) THEN orphanRecoveryAttempts[p][t] + 1 ELSE 0]

\* At its limit of workers the call leaves a mark.  Otherwise: recover orphans,
\* take the first runnable task out of the queue, save the queue.
ProcessNext(p, k) ==
  \/ /\ Cardinality(Active(p)) = MaxConcurrent
     /\ pendingKick' = [pendingKick EXCEPT ![p] = TRUE]
     /\ kicks' = [kicks EXCEPT ![p] = k]
     /\ UNCHANGED <<db, work, rest, orphanRecoveryAttempts, history>>
  \/ /\ Cardinality(Active(p)) < MaxConcurrent
     /\ UNCHANGED work
     /\ LET v == View(p)
            O == Orphans(p, v)
            dead == Exhausted(p, O)
            v2 == [t \in Tasks |-> IF t \in dead THEN DeadLettered(v[t]) ELSE v[t]]
            q2 == PushUnique(queue, O \ dead)
            runnable == RunnableIn(q2, v2)
            next == q2[FirstOf(runnable)]
        IN /\ orphanRecoveryAttempts' = [orphanRecoveryAttempts EXCEPT ![p] = OrphanCounts(p, O)]
           /\ IF dead # {} THEN Save(p, v2) ELSE UNCHANGED <<rows, stale, retaken, reverted, misses>>
           /\ IF runnable = {}
              THEN /\ queue' = LiveQueue(q2, v2)
                   /\ Finally(p, queue', v2, k) /\ UNCHANGED rest
              ELSE /\ queue' = Sifted(LiveQueue(q2, v2), Tasks \ {next})
                   /\ rest' = [rest EXCEPT ![p] = [op |-> "checkout", task |-> next]]
                   /\ kicks' = [kicks EXCEPT ![p] = k] /\ UNCHANGED pendingKick
     /\ UNCHANGED tries

Kick(p) == /\ Free(p) /\ kicks[p] > 0
           /\ ProcessNext(p, kicks[p] - 1)
           /\ UNCHANGED <<booted, bounds>>

\* startQueueProcessor's interval, while the daemon runs.
DaemonTick(p) == /\ Free(p) /\ booted[p] /\ queue # <<>>
                 /\ ProcessNext(p, kicks[p])
                 /\ UNCHANGED <<booted, bounds>>

\* Bug: the row is not looked at again before it is taken.
Unchecked(v, t) == TRUE

\* The second look at the row, and checkoutTask's own.
StillQueued(v, t) == v[t].status = "queued"

\* Bug: a task starts although what it waits for was undone meanwhile.
Unguarded(v, t) == TRUE

\* The dependency guard.
MayStart(v, t) == BlockersDone(v, t)

\* The rest of processNext up to its await: the guards, the gates (no such
\* agent, no capability, no credential; agent disabled, budget spent), the
\* checkout.  An attempt joins the live turn of its task, if there is one
\* (runningByTaskId).
Checkout(p) ==
  /\ rest[p].op = "checkout"
  /\ rest' = [rest EXCEPT ![p] = NoRest]
  /\ LET t == rest[p].task
         v == View(p)
         ends(v2, q2) == Finally(p, q2, v2, kicks[p]) /\ UNCHANGED <<work, tries>>
     IN \/ /\ ~StillQueued(v, t)
           /\ ends(v, queue) /\ UNCHANGED <<db, retaken, reverted, misses>>
        \/ /\ StillQueued(v, t) /\ ~MayStart(v, t)
           /\ queue' = PushUnique(queue, {t})
           /\ ends(v, queue') /\ UNCHANGED <<rows, stale, retaken, reverted, misses>>
        \/ /\ StillQueued(v, t) /\ MayStart(v, t)
           /\ \E v2 \in {[v EXCEPT ![t] = DeadLettered(@)],
                         [v EXCEPT ![t].status = "deferred", ![t].retry = IF @ = "none" THEN @ ELSE "due"]} :
                ends(v2, queue) /\ Save(p, v2)
           /\ UNCHANGED queue
        \/ /\ StillQueued(v, t) /\ MayStart(v, t)
           /\ LET s == CHOOSE s \in Slots \ Active(p) : \A o \in Slots \ Active(p) : s <= o
              IN work' = [work EXCEPT ![p][s] = [task |-> t, phase |-> "turn"]]
           /\ tries' = [tries EXCEPT ![t] = @ + 1]
           /\ Save(p, [v EXCEPT ![t].status = "running", ![t].retry = "none"])
           /\ UNCHANGED <<queue, kicks, pendingKick>>
  /\ UNCHANGED <<booted, orphanRecoveryAttempts, bounds>>

-----------------------------------------------------------------------------
(* A turn ends *)

\* The turn of t in p returns, with or without valid evidence, or throws; all
\* the attempts that wait for it hear of it.
TurnEnds(p, t) ==
  /\ Free(p)
  /\ \E s \in Slots : work[p][s] = [task |-> t, phase |-> "turn"]
  /\ \E how \in Settled :
       work' = [work EXCEPT ![p] = [s \in Slots |->
                  IF @[s] = [task |-> t, phase |-> "turn"] THEN [task |-> t, phase |-> how] ELSE @[s]]]
  /\ UNCHANGED <<db, rest, kicks, pendingKick, booted, orphanRecoveryAttempts, history, bounds>>

\* The task is retried or given up, in the view v; pushFirst says whether the queue
\* is saved before the tasks, or afterwards by a statement of its own.
RetryOrGiveUp(p, v, t, pushFirst) ==
  \E repeated \in MayRepeat(v[t]) :
    LET v2 == [v EXCEPT ![t] = ScheduleRetry(@, repeated)]
        push == v2[t].status = "queued"
    IN /\ Save(p, v2)
       /\ IF push /\ ~pushFirst
          THEN /\ rest' = [rest EXCEPT ![p] = [op |-> "push", tasks |-> {t}, enqueue |-> FALSE, last |-> TRUE]]
               /\ UNCHANGED <<queue, kicks, pendingKick>>
          ELSE /\ queue' = IF push THEN PushUnique(queue, {t}) ELSE queue
               /\ Finally(p, queue', v2, kicks[p]) /\ UNCHANGED rest

\* The attempt of slot s goes on after its await.
Settle(p, s) ==
  /\ rest[p] = NoRest /\ work[p][s].phase \in Settled
  /\ LET t == work[p][s].task
         how == work[p][s].phase
         v == View(p)
         gone == v[t].status = "cancelled"
     IN \/ /\ gone
           /\ work' = [work EXCEPT ![p][s] = NoWork]
           /\ IF how = "thrown" THEN UNCHANGED <<rows, stale, retaken, reverted, misses>> ELSE Save(p, v)
           /\ Finally(p, queue, v, kicks[p])
           /\ UNCHANGED <<queue, rest>>
        \/ /\ ~gone /\ how = "valid"
           /\ work' = [work EXCEPT ![p][s] = NoWork]
           /\ Save(p, [v EXCEPT ![t] = Completed(@)])
           /\ rest' = [rest EXCEPT ![p] = [op |-> "cascade", task |-> t, last |-> TRUE]]
           /\ UNCHANGED <<queue, kicks, pendingKick>>
        \/ /\ ~gone /\ how \in {"invalid", "thrown"}
           /\ work' = [work EXCEPT ![p][s] = NoWork]
           /\ RetryOrGiveUp(p, v, t, how = "invalid")
        \/ /\ ~gone /\ how = "thrown"
           /\ work' = [work EXCEPT ![p][s].phase = "repair"]
           /\ Save(p, v)
           /\ UNCHANGED <<queue, rest, kicks, pendingKick>>
  /\ UNCHANGED <<booted, orphanRecoveryAttempts, tries, bounds>>

\* The repair turn has returned or thrown.
FinishRepair(p, s) ==
  /\ Free(p) /\ work[p][s].phase = "repair"
  /\ work' = [work EXCEPT ![p][s] = NoWork]
  /\ RetryOrGiveUp(p, View(p), work[p][s].task, FALSE)
  /\ UNCHANGED <<booted, orphanRecoveryAttempts, tries, bounds>>

\* cascadeUnblock: the tasks that waited for t and have nothing left to wait for.
Unblocked(v, t) ==
  {u \in InStatus(v, "backlog") : /\ t \in BlockedBy[u] /\ v[t].status = "completed"
                                  /\ BlockersDone(v, u)}

Cascade(p) ==
  /\ rest[p].op = "cascade"
  /\ UNCHANGED work
  /\ LET v == View(p)
         U == Unblocked(v, rest[p].task)
     IN IF U = {}
        THEN /\ rest' = [rest EXCEPT ![p] = NoRest]
             /\ IF rest[p].last THEN Finally(p, queue, v, kicks[p]) ELSE UNCHANGED <<kicks, pendingKick>>
             /\ UNCHANGED <<rows, stale, retaken, reverted, misses>>
        ELSE /\ Save(p, WithStatus(v, U, "queued"))
             /\ rest' = [rest EXCEPT ![p] = [op |-> "push", tasks |-> U, enqueue |-> TRUE, last |-> rest[p].last]]
             /\ UNCHANGED <<kicks, pendingKick>>
  /\ UNCHANGED <<queue, booted, orphanRecoveryAttempts, tries, bounds>>

\* The queue's own statement.  In enqueueTask it follows a save of the task as
\* queued and due, and a timer is armed; a retry is only pushed.
Push(p) ==
  /\ rest[p].op = "push"
  /\ UNCHANGED work
  /\ LET r == rest[p]
         v == View(p)
         v2 == [t \in Tasks |-> IF t \notin r.tasks THEN v[t]
                  ELSE [v[t] EXCEPT !.status = "queued", !.retry = IF @ = "none" THEN @ ELSE "due"]]
         k == IF r.enqueue THEN More(kicks[p]) ELSE kicks[p]
     IN /\ queue' = PushUnique(queue, r.tasks)
        /\ IF r.enqueue THEN Save(p, v2) ELSE UNCHANGED <<rows, stale, retaken, reverted, misses>>
        /\ IF r.last THEN Finally(p, queue', IF r.enqueue THEN v2 ELSE v, k)
           ELSE /\ kicks' = [kicks EXCEPT ![p] = k]
                /\ pendingKick' = [pendingKick EXCEPT ![p] = @ \/ Cardinality(Active(p)) = MaxConcurrent]
  /\ rest' = [rest EXCEPT ![p] = NoRest]
  /\ UNCHANGED <<booted, orphanRecoveryAttempts, tries, bounds>>

-----------------------------------------------------------------------------
(* The operator's routes *)

Request(p, op) == /\ Free(p) /\ op \in Operations /\ requests < MaxRequests
                  /\ requests' = requests + 1
                  /\ UNCHANGED <<work, queue, kicks, pendingKick, booted, orphanRecoveryAttempts,
                                 stalls, crashes>>

ThenEnqueue(p, t) ==
  rest' = [rest EXCEPT ![p] = [op |-> "push", tasks |-> {t}, enqueue |-> TRUE, last |-> FALSE]]

\* updateTaskFromRoute with status "queued": refused while a blocker is open.
QueueTask(p, t) ==
  /\ Request(p, "queue")
  /\ View(p)[t].status # "queued" /\ BlockersDone(View(p), t)
  /\ SaveOne(p, t, [View(p)[t] EXCEPT !.status = "queued"])
  /\ ThenEnqueue(p, t) /\ tries' = [tries EXCEPT ![t] = 0]

\* retryTaskFromRoute
RetryTask(p, t) ==
  /\ Request(p, "retry")
  /\ View(p)[t].status = "failed" /\ BlockersDone(View(p), t)
  /\ SaveOne(p, t, [status |-> "queued", attempts |-> 0, retry |-> "none"])
  /\ ThenEnqueue(p, t) /\ tries' = [tries EXCEPT ![t] = 0]

\* updateTaskFromRoute with status "cancelled".  A turn that runs is not told.
CancelTask(p, t) ==
  /\ Request(p, "cancel")
  /\ View(p)[t].status # "cancelled"
  /\ SaveOne(p, t, [View(p)[t] EXCEPT !.status = "cancelled"])
  /\ UNCHANGED <<rest, tries>>

\* updateTaskFromRoute with status "completed"; without evidence the task fails.
CompleteTask(p, t) ==
  /\ Request(p, "complete")
  /\ View(p)[t].status # "completed"
  /\ \/ /\ SaveOne(p, t, Completed(View(p)[t]))
        /\ rest' = [rest EXCEPT ![p] = [op |-> "cascade", task |-> t, last |-> FALSE]]
     \/ /\ SaveOne(p, t, DeadLettered(View(p)[t]))
        /\ UNCHANGED rest
  /\ UNCHANGED tries

-----------------------------------------------------------------------------
(* Recovery, by the daemon's health check and by whoever lists the tasks *)

\* recoverStalledRunningTasks with reconcileFinishedRunningTasks.  The session
\* of a running task is found finished with nothing said ("empty"), with valid
\* or with invalid evidence, or the task is found idle ("stalled"): the time of
\* the last activity is that of the checkout as long as the turn lasts.
RecoverStalled(p) ==
  /\ Free(p) /\ stalls < MaxStalls /\ stalls' = stalls + 1
  /\ UNCHANGED work
  /\ LET v == View(p)
     IN \E how \in [InStatus(v, "running") -> {"none", "empty", "valid", "invalid", "stalled"}] :
          LET Found(h) == {t \in DOMAIN how : how[t] = h}
              v2 == [t \in Tasks |->
                       IF t \notin DOMAIN how \/ how[t] = "none" THEN v[t]
                       ELSE IF how[t] = "empty" THEN DeadLettered(v[t])
                       ELSE IF how[t] = "valid" THEN Completed(v[t])
                       ELSE ScheduleRetry(v[t], FALSE)]
              again == {t \in Found("invalid") \cup Found("stalled") : v2[t].status = "queued"}
          IN /\ Found("none") # DOMAIN how
             /\ Save(p, v2)
             /\ queue' = PushUnique(queue, again)
             /\ kicks' = [kicks EXCEPT ![p] =
                  IF Found("stalled") # {} /\ again \cup Found("valid") # {} THEN More(@) ELSE @]
  /\ UNCHANGED <<rest, pendingKick, booted, orphanRecoveryAttempts, tries, requests, crashes>>

\* validateCompletedTasksQueue: the evidence of some completed tasks is gone.
ValidateCompleted(p) ==
  /\ Free(p) /\ stalls < MaxStalls /\ stalls' = stalls + 1
  /\ UNCHANGED work
  /\ \E S \in SUBSET InStatus(View(p), "completed") \ {{}} :
       Save(p, [t \in Tasks |-> IF t \in S THEN DeadLettered(View(p)[t]) ELSE View(p)[t]])
  /\ UNCHANGED <<queue, rest, kicks, pendingKick, booted, orphanRecoveryAttempts, tries,
                 requests, crashes>>

\* promoteDeferred: the agents of some deferred tasks are available again.
PromoteDeferred(p) ==
  /\ Free(p) /\ booted[p]
  /\ UNCHANGED work
  /\ \E S \in SUBSET InStatus(View(p), "deferred") \ {{}} :
       /\ Save(p, WithStatus(View(p), S, "queued"))
       /\ queue' = PushUnique(queue, S)
  /\ kicks' = [kicks EXCEPT ![p] = More(@)]
  /\ UNCHANGED <<rest, pendingKick, booted, orphanRecoveryAttempts, tries, bounds>>

\* Bug: what was running when the process died is not looked at.
ReapNone(v) == v

\* The tasks that were running are retried or given up: their turns are lost,
\* or belong to another process.
Reap(v) == [t \in Tasks |-> IF v[t].status = "running" THEN ScheduleRetry(v[t], FALSE) ELSE v[t]]

\* resumeQueue, once in the life of a process that starts the daemon.
ResumeQueue(p) ==
  /\ Free(p) /\ p \in Daemons /\ ~booted[p]
  /\ booted' = [booted EXCEPT ![p] = TRUE]
  /\ UNCHANGED work
  /\ LET v2 == Reap(View(p))
         reaped == {t \in InStatus(View(p), "running") : v2[t].status = "queued"}
     IN /\ queue' = PushUnique(PushUnique(queue, InStatus(View(p), "queued")), reaped)
        /\ IF queue' # queue \/ v2 # View(p) THEN Save(p, v2)
           ELSE UNCHANGED <<rows, stale, retaken, reverted, misses>>
        /\ kicks' = [kicks EXCEPT ![p] = IF queue' # <<>> THEN More(@) ELSE @]
  /\ UNCHANGED <<rest, pendingKick, orphanRecoveryAttempts, tries, bounds>>

-----------------------------------------------------------------------------
(* Time, and crashes *)

\* retryScheduledAt of t comes.
Elapse(t) ==
  LET due(v) == IF v[t].retry = "waiting" THEN [v EXCEPT ![t].retry = "due"] ELSE v
  IN /\ rows[t].retry = "waiting"
     /\ rows' = due(rows)
     /\ stale' = [p \in Procs |-> IF stale[p] = Fresh THEN Fresh ELSE due(stale[p])]
     /\ UNCHANGED <<queue, process, history, bounds>>

\* The time to live of the cached tasks is over.
Expire(p) ==
  /\ stale[p] # Fresh
  /\ stale' = [stale EXCEPT ![p] = Fresh]
  /\ UNCHANGED <<rows, queue, process, history, bounds>>

Crash(p) ==
  /\ crashes < MaxCrashes /\ crashes' = crashes + 1
  /\ stale' = [stale EXCEPT ![p] = Fresh]
  /\ work' = [work EXCEPT ![p] = [s \in Slots |-> NoWork]]
  /\ rest' = [rest EXCEPT ![p] = NoRest]
  /\ kicks' = [kicks EXCEPT ![p] = 0] /\ pendingKick' = [pendingKick EXCEPT ![p] = FALSE]
  /\ booted' = [booted EXCEPT ![p] = FALSE]
  /\ orphanRecoveryAttempts' = [orphanRecoveryAttempts EXCEPT ![p] = [t \in Tasks |-> 0]]
  /\ UNCHANGED <<rows, queue, history, requests, stalls>>

-----------------------------------------------------------------------------
Steps ==
  \/ \E p \in Procs :
       \/ Kick(p) \/ DaemonTick(p) \/ Checkout(p) \/ Cascade(p) \/ Push(p)
       \/ \E t \in Tasks : TurnEnds(p, t)
       \/ \E s \in Slots : Settle(p, s) \/ FinishRepair(p, s)
       \/ \E t \in Tasks : QueueTask(p, t) \/ RetryTask(p, t) \/ CancelTask(p, t) \/ CompleteTask(p, t)
       \/ RecoverStalled(p) \/ ValidateCompleted(p) \/ PromoteDeferred(p) \/ ResumeQueue(p)
       \/ Crash(p)
  \/ \E t \in Tasks : Elapse(t)

Next == Steps \/ \E p \in Procs : Expire(p)

Spec == Init /\ [][Next]_vars

\* Handlers go on, timers and the daemon's interval fire, turns end (they have
\* a timeout), a daemon that went down is started again, time passes.  Nothing
\* is assumed of the operator and of the sweeps.
Fairness ==
  /\ \A p \in Procs :
       /\ WF_vars(Kick(p)) /\ WF_vars(DaemonTick(p)) /\ WF_vars(ResumeQueue(p))
       /\ WF_vars(Checkout(p)) /\ WF_vars(Cascade(p)) /\ WF_vars(Push(p)) /\ WF_vars(Expire(p))
       /\ \A t \in Tasks : WF_vars(TurnEnds(p, t))
       /\ \A s \in Slots : WF_vars(Settle(p, s)) /\ WF_vars(FinishRepair(p, s))
  /\ \A t \in Tasks : WF_vars(Elapse(t))

FairSpec == Spec /\ Fairness
=============================================================================
