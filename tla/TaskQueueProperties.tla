------------------------- MODULE TaskQueueProperties -------------------------
(***************************************************************************)
(* What the task queue promises to those who put tasks on the board.       *)
(***************************************************************************)
EXTENDS TaskQueue

\* Every variable stays in its range, and no task stands twice in the queue.
TypeOK ==
  /\ rows \in Rows /\ queue \in Seq(Tasks) /\ IsInjective(queue)
  /\ stale \in [Procs -> Rows \cup {Fresh}]
  /\ work \in [Procs -> [Slots -> Work \cup {NoWork}]]
  /\ \A p \in Procs :
       \/ rest[p] = NoRest
       \/ rest[p] \in [op : {"checkout"}, task : Tasks]
       \/ rest[p] \in [op : {"cascade"}, task : Tasks, last : BOOLEAN]
       \/ rest[p] \in [op : {"push"}, tasks : SUBSET Tasks, enqueue : BOOLEAN, last : BOOLEAN]
  /\ kicks \in [Procs -> 0 .. MaxKicks] /\ pendingKick \in [Procs -> BOOLEAN]
  /\ booted \in [Procs -> BOOLEAN]
  /\ orphanRecoveryAttempts \in [Procs -> [Tasks -> 0 .. MaxOrphan]]
  /\ tries \in [Tasks -> Nat] /\ retaken \subseteq Tasks /\ reverted \subseteq Tasks
  /\ requests \in 0 .. MaxRequests /\ stalls \in 0 .. MaxStalls /\ crashes \in 0 .. MaxCrashes
  /\ misses \in 0 .. MaxMisses

\* A process that has resumed the queue after a start, and is alone, keeps
\* every queued task in the queue or is about to put it there: none waits for
\* the orphan scan.
NothingForgotten ==
  \A p \in Procs : booted[p] /\ Procs = {p} =>
    \A t \in InStatus(rows, "queued") :
      \/ t \in ToSet(queue)
      \/ rest[p].op = "checkout" /\ rest[p].task = t
      \/ rest[p].op = "push" /\ t \in rest[p].tasks

\* Nothing but the operator moves a cancelled task, whatever late turn, repair
\* turn, sweep or restart comes upon it, unless a process writes an outdated
\* copy of it back.
CancelledStays ==
  [][\A t \in Tasks \ reverted' :
       rows[t].status = "cancelled" /\ rows'[t].status # "cancelled" => requests' > requests]_vars

\* A task is started at most maxAttempts times for each time the operator asks
\* for it, through crashes, stalls and late turns.
BoundedTries == \A t \in Tasks \ reverted : tries[t] <= MaxAttempts

\* Two turns of one task go on only if it was queued again under a live turn
\* (a stall, a daemon's start, the operator), or a process decided on an
\* outdated copy: two processes that both see it queued do not both start it.
OneTurnUnlessRetaken ==
  \A t \in Tasks \ (retaken \cup reverted), p, q \in Procs, s, z \in Slots :
    work[p][s].task = t /\ work[q][z].task = t => p = q /\ s = z

\* A task starts only when all it waits for is completed at that moment.
DependentsWait ==
  [][\A t \in Tasks : tries'[t] > tries[t] =>
       \A b \in BlockedBy[t] : b \in reverted' \/ rows[b].status = "completed"]_vars

\* A queued task does not wait for ever for anything but its blockers: its
\* retry timer, a full house, a lost timer, a crash all pass.
TasksMoveOn ==
  \A t \in Tasks : rows[t].status = "queued" /\ BlockersDone(rows, t)
                     ~> rows[t].status # "queued" \/ ~BlockersDone(rows, t)
=============================================================================
