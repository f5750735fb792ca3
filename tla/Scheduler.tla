------------------------------- MODULE Scheduler -------------------------------
(***************************************************************************)
(* One schedule: the scheduler's tick (src/lib/server/runtime/scheduler.   *)
(* ts), the operator's routes (schedules/schedule-route-service.ts,        *)
(* schedule-lifecycle.ts) and the board tasks they start                   *)
(* (tasks/task-lifecycle.ts).                                              *)
(*                                                                         *)
(* In one process a handler runs to its end.  What it reads and the first  *)
(* statement it writes are a step; each statement that follows is a step,  *)
(* and a crash may cut it off.  Left out: the repair of odd times          *)
(* (computeNextRuns), related schedules, copies in the cache of another    *)
(* process.                                                                *)
(***************************************************************************)
EXTENDS Integers, FiniteSets, Sequences

CONSTANTS
  Kinds,             \* of the schedule: "once", "interval"
  Modes,             \* its taskMode: "task", "wake", "protocol"
  MaxBoard,          \* bound: board tasks
  MaxScheduleEdits,  \* bound: requests of the operator
  MaxScheduleFaults  \* bound: crashes

ASSUME ScheduleAssumption ==
  /\ Kinds \subseteq {"once", "interval"} /\ Modes \subseteq {"task", "wake", "protocol"}
  /\ {MaxBoard, MaxScheduleEdits, MaxScheduleFaults} \subseteq Nat

Board == 1 .. MaxBoard
InFlight == {"queued", "running"}

VARIABLES
  kind, mode,
  schedule,   \* the row: status, archivedFromStatus, nextRunAt, linkedTaskId, and its
              \* signature (prompt and cadence)
  board,      \* the tasks of this schedule, with the signature they were made with
  left,       \* statements the handler has still to carry out
  gate,       \* what the tick finds: agent and extension are there ("open"), one of
              \* them is disabled ("skip"), the extension is not loaded ("defer"), the
              \* agent is deleted ("gone")
  session,    \* a structured session of the schedule is active
  answers,    \* how slots were answered since the schedule was last made active
  edits, scheduleFaults

scheduleVars == <<kind, mode, schedule, board, left, gate, session, answers, edits, scheduleFaults>>

ScheduleStatuses == {"active", "paused", "completed", "failed", "archived"}
ScheduleRow == [status : ScheduleStatuses, from : ScheduleStatuses, next : {"none", "future", "past"},
                linked : {0} \cup Board, signature : 1 .. MaxScheduleEdits + 1]
Answers == {"started", "disabled", "inFlight", "sessionActive", "launchThrew", "cutOff"}

Unused == {t \in Board : board[t].status = "none"}
ActiveAndDue == schedule.status = "active" /\ schedule.next = "past"

-----------------------------------------------------------------------------
ScheduleInit ==
  /\ kind \in Kinds /\ mode \in Modes
  /\ schedule = [status |-> "active", from |-> "active", next |-> "future", linked |-> 0, signature |-> 1]
  /\ board = [t \in Board |-> [status |-> "none", signature |-> 1]]
  /\ left = <<>>
  /\ gate = "open" /\ session = FALSE
  /\ answers = {} /\ edits = 0 /\ scheduleFaults = 0

\* Bug: the tasks in flight are not looked at.
NoneRunning(signature) == FALSE

\* inFlightScheduleKeys
RunInFlight(signature) == \E t \in Board : board[t].status \in InFlight /\ board[t].signature = signature

\* advanceSchedule
Advanced(row) ==
  IF kind = "once" THEN [row EXCEPT !.status = "completed", !.next = "none"]
  ELSE [row EXCEPT !.next = "future"]

\* prepareScheduledTaskRun: the linked task is used again, with the signature it
\* was made with, unless it is in flight.
PreparedTask ==
  IF schedule.linked # 0 /\ board[schedule.linked].status \notin InFlight
  THEN [id |-> schedule.linked, signature |-> board[schedule.linked].signature]
  ELSE [id |-> 1 + MaxBoard - Cardinality(Unused), signature |-> schedule.signature]

SaveScheduled(task) ==
  /\ task.id \in Board
  /\ board' = [board EXCEPT ![task.id] = [status |-> "backlog", signature |-> task.signature]]

\* Bug: an extension that is not loaded costs the slot.
DeferredAdvances(row) == Advanced(row)

\* A slot of an extension that is not loaded yet: the row stays due.
Deferred(row) == row

\* The slot of a disabled agent or extension is missed.
Skipped(row) == Advanced(row)

\* The tick finds the schedule active and due.
Tick ==
  /\ left = <<>> /\ ActiveAndDue
  /\ \/ /\ gate = "defer"
        /\ schedule' = Deferred(schedule) /\ UNCHANGED <<board, left, answers>>
     \/ /\ gate = "skip"
        /\ schedule' = Skipped(schedule) /\ UNCHANGED <<board, left>>
        /\ answers' = answers \cup {"disabled"}
     \/ /\ gate \in {"open", "skip", "gone"} /\ RunInFlight(schedule.signature)
        /\ schedule' = Advanced(schedule) /\ UNCHANGED <<board, left>>
        /\ answers' = answers \cup {"inFlight"}
     \/ /\ gate = "gone" /\ ~RunInFlight(schedule.signature)
        /\ schedule' = [schedule EXCEPT !.status = "failed"] /\ UNCHANGED <<board, left, answers>>
     \/ /\ gate = "open" /\ ~RunInFlight(schedule.signature) /\ mode # "task"
        /\ schedule' = Advanced(schedule) /\ UNCHANGED <<board, answers>>
        /\ left' = <<[do |-> mode, task |-> 0, row |-> schedule']>>
     \/ /\ gate = "open" /\ ~RunInFlight(schedule.signature) /\ mode = "task"
        /\ SaveScheduled(PreparedTask)
        /\ LET t == PreparedTask.id
               row == [Advanced(schedule) EXCEPT !.linked = t]
           IN left' = <<[do |-> "save", task |-> t, row |-> row], [do |-> "enqueue", task |-> t, row |-> row]>>
        /\ UNCHANGED <<schedule, answers>>
  /\ UNCHANGED <<kind, mode, gate, session, edits, scheduleFaults>>

\* runScheduleNow: whatever the row's status, unless archived, and its slot.
RunNow ==
  /\ edits < MaxScheduleEdits /\ edits' = edits + 1
  /\ left = <<>> /\ schedule.status # "archived" /\ gate = "open"
  /\ ~RunInFlight(schedule.signature)
  /\ SaveScheduled(PreparedTask)
  /\ LET t == PreparedTask.id
         row == [schedule EXCEPT !.linked = t]
     IN left' = <<[do |-> "enqueueByHand", task |-> t, row |-> row], [do |-> "save", task |-> t, row |-> row]>>
  /\ UNCHANGED <<kind, mode, schedule, gate, session, answers, scheduleFaults>>

\* The next statement: upsertSchedule, enqueueTask, dispatchWake, or the launch
\* of a structured session, if none is active; createProtocolRun throws when a
\* participant is gone, and nothing catches it before the tick has ended.
Statement ==
  /\ left # <<>> /\ left' = Tail(left)
  /\ LET s == Head(left)
     IN \/ /\ s.do = "save" /\ schedule' = s.row
           /\ UNCHANGED <<board, session, answers>>
        \/ /\ s.do \in {"enqueue", "enqueueByHand"}
           /\ board' = [board EXCEPT ![s.task].status = "queued"]
           /\ answers' = answers \cup (IF s.do = "enqueue" THEN {"started"} ELSE {})
           /\ UNCHANGED <<schedule, session>>
        \/ /\ s.do = "wake"
           /\ answers' = answers \cup {"started"}
           /\ UNCHANGED <<schedule, board, session>>
        \/ /\ s.do = "protocol"
           /\ session' = TRUE
           /\ answers' = answers \cup {IF session THEN "sessionActive" ELSE "started"}
           /\ UNCHANGED <<schedule, board>>
        \/ /\ s.do = "protocol" /\ ~session
           /\ answers' = answers \cup {"launchThrew"}
           /\ UNCHANGED <<schedule, board, session>>
  /\ UNCHANGED <<kind, mode, gate, edits, scheduleFaults>>

-----------------------------------------------------------------------------
(* The operator *)

\* nextRunAt computed anew: the time of a once may be over.
Recomputed == IF kind = "once" THEN {"past", "future"} ELSE {"future"}

\* updateScheduleFromRoute: pause, resume, or an edit of prompt or cadence.
Update ==
  /\ schedule.status # "archived"
  /\ \E next \in Recomputed :
       \/ schedule' = [schedule EXCEPT !.status = "paused", !.next = IF @ = "none" THEN next ELSE @]
       \/ schedule.status # "active"
          /\ schedule' = [schedule EXCEPT !.status = "active", !.next = next]
       \/ schedule' = [schedule EXCEPT !.signature = edits + 2, !.next = next]
       \/ schedule' = [schedule EXCEPT !.signature = edits + 2, !.next = IF @ = "none" THEN next ELSE @]
  /\ UNCHANGED board

\* archiveScheduleCluster: its tasks are cancelled, queued or not.
Archive ==
  /\ schedule' = [schedule EXCEPT !.status = "archived", !.next = "none",
                                  !.from = IF schedule.status = "archived" THEN @ ELSE schedule.status]
  /\ board' = [t \in Board |-> IF t \in Unused THEN board[t] ELSE [board[t] EXCEPT !.status = "over"]]

\* restoreArchivedScheduleCluster
Restore ==
  /\ schedule.status = "archived"
  /\ \E next \in Recomputed :
       schedule' = [schedule EXCEPT !.status = schedule.from,
                                    !.next = IF schedule.from = "active" THEN next ELSE "none"]
  /\ UNCHANGED board

Route ==
  /\ edits < MaxScheduleEdits /\ edits' = edits + 1
  /\ left = <<>>
  /\ Update \/ Archive \/ Restore
  /\ answers' = IF schedule'.status = "active" /\ schedule.status # "active" THEN {} ELSE answers
  /\ UNCHANGED <<kind, mode, left, gate, session, scheduleFaults>>

-----------------------------------------------------------------------------
(* The world *)

SlotComes ==
  /\ left = <<>> /\ schedule.next = "future"
  /\ schedule' = [schedule EXCEPT !.next = "past"]
  /\ UNCHANGED <<kind, mode, board, left, gate, session, answers, edits, scheduleFaults>>

\* The task queue takes up a task, and ends it.
TaskMoves(t) ==
  /\ left = <<>>
  /\ \/ board[t].status = "queued" /\ board' = [board EXCEPT ![t].status = "running"]
     \/ board[t].status = "running" /\ board' = [board EXCEPT ![t].status = "over"]
  /\ UNCHANGED <<kind, mode, schedule, left, gate, session, answers, edits, scheduleFaults>>

SessionEnds ==
  /\ left = <<>> /\ session /\ session' = FALSE
  /\ UNCHANGED <<kind, mode, schedule, board, left, gate, answers, edits, scheduleFaults>>

GateChanges ==
  /\ left = <<>> /\ gate' \in {"open", "skip", "defer", "gone"} \ {gate}
  /\ UNCHANGED <<kind, mode, schedule, board, left, session, answers, edits, scheduleFaults>>

\* The process dies: what its handler had left is lost.
SchedulerDies ==
  /\ left # <<>> /\ scheduleFaults < MaxScheduleFaults
  /\ scheduleFaults' = scheduleFaults + 1
  /\ left' = <<>>
  /\ answers' = answers \cup {"cutOff"}
  /\ UNCHANGED <<kind, mode, schedule, board, gate, session, edits>>

ScheduleNext ==
  \/ Tick \/ RunNow \/ Statement \/ Route
  \/ SlotComes \/ SessionEnds \/ GateChanges \/ SchedulerDies
  \/ \E t \in Board : TaskMoves(t)

ScheduleSpec == ScheduleInit /\ [][ScheduleNext]_scheduleVars

-----------------------------------------------------------------------------
ScheduleTypeOK ==
  /\ kind \in Kinds /\ mode \in Modes /\ schedule \in ScheduleRow
  /\ board \in [Board -> [status : {"none", "backlog", "queued", "running", "over"},
                          signature : 1 .. MaxScheduleEdits + 1]]
  /\ Len(left) <= 2
  /\ gate \in {"open", "skip", "defer", "gone"} /\ session \in BOOLEAN
  /\ answers \subseteq Answers
  /\ edits \in 0 .. MaxScheduleEdits /\ scheduleFaults \in 0 .. MaxScheduleFaults

\* A schedule has one run in flight at most, through crashes between the task,
\* the row and the queue, and runs asked for by hand; unless it was edited (a
\* task that is used again keeps the signature it was made with).
OneRunInFlight ==
  Cardinality({t \in Board : board[t].status \in InFlight}) > 1 => schedule.signature > 1

\* A schedule that runs once counts as completed only when its slot was answered:
\* its run was started, was cut off by a crash, or the launch of its session
\* threw (the row is saved before, so that nothing tries again: its run is lost),
\* or the slot fell to something the code may skip it for; never because its
\* extension was not loaded when the slot came.
OnceIsNotLost == schedule.status = "completed" => answers # {} \/ left # <<>>
=============================================================================
