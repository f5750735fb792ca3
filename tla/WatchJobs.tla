------------------------------ MODULE WatchJobs ------------------------------
(***************************************************************************)
(* Watches (src/lib/server/runtime/watch-jobs.ts): an agent waits for a    *)
(* time, a task, a file, a page (polled), or for an envelope, an approval, *)
(* a webhook (told), and is woken once.                                    *)
(*                                                                         *)
(* The scheduler's tick takes a list of the active watches, awaits the     *)
(* evaluation of each that is due, and writes what it found at its end, as *)
(* whole rows made from that list.  Nothing keeps a tick from starting     *)
(* while another still awaits.                                             *)
(***************************************************************************)
EXTENDS Integers

CONSTANTS
  Polled, Told,   \* the watches, by what ends them
  Ticks,          \* calls of processDueWatchJobs that may overlap
  MaxWatchFaults  \* bound: crashes of the daemon, evaluations that throw

Watches == Polled \cup Told
ASSUME WatchAssumption == Polled \cap Told = {} /\ MaxWatchFaults \in Nat

VARIABLES
  watch,     \* the rows: a status, and whether nextCheckAt of a polled one has come
  holds,     \* conditions of polled watches that hold by now, and go on holding
  tooLate,   \* watches whose timeoutAt has come
  tick,      \* of each tick: the watches still to evaluate, one at a time in any
             \* order, and the rows to write
  wakes,     \* wakes dispatched for each watch: none, one, more
  overlap,   \* some tick started while another was under way
  watchFaults

watchVars == <<watch, holds, tooLate, tick, wakes, overlap, watchFaults>>

WatchStatuses == {"none", "active", "triggered", "failed", "cancelled"}
WatchRow == [status : WatchStatuses, due : BOOLEAN]
NoTick == [on |-> FALSE, left |-> {}, updates |-> <<>>]

Again(n) == IF n < 2 THEN n + 1 ELSE n
Became(w, st) == [watch[w] EXCEPT !.status = st]

WatchFault == watchFaults < MaxWatchFaults /\ watchFaults' = watchFaults + 1

WatchInit ==
  /\ watch = [w \in Watches |-> [status |-> "none", due |-> FALSE]]
  /\ holds = {} /\ tooLate = {}
  /\ tick = [k \in Ticks |-> NoTick]
  /\ wakes = [w \in Watches |-> 0]
  /\ overlap = FALSE /\ watchFaults = 0

-----------------------------------------------------------------------------
\* createWatchJob
CreateWatch(w) ==
  /\ watch[w].status = "none"
  /\ \E due \in (IF w \in Polled THEN BOOLEAN ELSE {FALSE}) :
       watch' = [watch EXCEPT ![w] = [status |-> "active", due |-> due]]
  /\ UNCHANGED <<holds, tooLate, tick, wakes, overlap, watchFaults>>

\* cancelWatchJob, whatever the watch has become
CancelWatch(w) ==
  /\ watch[w].status # "none"
  /\ watch' = [watch EXCEPT ![w] = Became(w, "cancelled")]
  /\ UNCHANGED <<holds, tooLate, tick, wakes, overlap, watchFaults>>

\* Bug: the row of a watch that was told is not written.
StaysActive(S) == watch

\* upsertWatchJobs, of the watches that were told
ToldRows(S) == [w \in Watches |-> IF w \in S THEN Became(w, "triggered") ELSE watch[w]]

\* triggerMailboxWatchJobs, triggerApprovalWatchJobs, triggerWebhookWatchJobs:
\* the active watches that match, in one step.
Tell(S) ==
  /\ S # {} /\ \A w \in S : watch[w].status = "active"
  /\ watch' = ToldRows(S)
  /\ wakes' = [w \in Watches |-> IF w \in S THEN Again(wakes[w]) ELSE wakes[w]]
  /\ UNCHANGED <<holds, tooLate, tick, overlap, watchFaults>>

-----------------------------------------------------------------------------
(* processDueWatchJobs *)

\* The rows of the tick's list are active.  Those whose time is out will be
\* written as failed; those that are told, or not due, are passed over.
StartTick(k) ==
  /\ ~tick[k].on
  /\ LET listed == {w \in Watches : watch[w].status = "active"}
     IN /\ listed # {}
        /\ tick' = [tick EXCEPT ![k] =
             [on |-> TRUE, left |-> {w \in (listed \cap Polled) \ tooLate : watch[w].due},
              updates |-> [w \in listed \cap tooLate |-> Became(w, "failed")]]]
  /\ overlap' = (overlap \/ \E j \in Ticks : tick[j].on)
  /\ UNCHANGED <<watch, holds, tooLate, wakes, watchFaults>>

\* wakeFromWatch
Woken(w) == [wakes EXCEPT ![w] = Again(@)]

\* One more row to write.
WithRow(updates, w, row) ==
  [v \in DOMAIN updates \cup {w} |-> IF v = w THEN row ELSE updates[v]]

\* The evaluation of w ends: the agent is woken at once, the row is written
\* later; or the watch, or one whose evaluation threw, is to be looked at again.
Evaluated(k, w) ==
  /\ w \in tick[k].left
  /\ \E st \in {"triggered", "active"} :
       /\ \/ st = (IF w \in holds THEN "triggered" ELSE "active") /\ UNCHANGED watchFaults
          \/ st = "active" /\ w \in holds /\ WatchFault
       /\ wakes' = IF st = "triggered" THEN Woken(w) ELSE wakes
       /\ tick' = [tick EXCEPT ![k].left = @ \ {w},
                              ![k].updates = WithRow(@, w, [status |-> st, due |-> st = "triggered"])]
  /\ UNCHANGED <<watch, holds, tooLate, overlap>>

\* Bug: the rows are lost.
NothingWritten(updates) == watch

\* upsertWatchJobs, of the rows made from the tick's list
Written(updates) == [w \in Watches |-> IF w \in DOMAIN updates THEN updates[w] ELSE watch[w]]

TickEnds(k) ==
  /\ tick[k].on /\ tick[k].left = {}
  /\ watch' = Written(tick[k].updates)
  /\ tick' = [tick EXCEPT ![k] = NoTick]
  /\ UNCHANGED <<holds, tooLate, wakes, overlap, watchFaults>>

-----------------------------------------------------------------------------
\* nextCheckAt, timeoutAt and what is waited for come in their own time.  They
\* matter to an active watch only.
CheckComes(w) ==
  /\ watch[w].status = "active" /\ w \in Polled /\ ~watch[w].due
  /\ watch' = [watch EXCEPT ![w].due = TRUE]
  /\ UNCHANGED <<holds, tooLate, tick, wakes, overlap, watchFaults>>

ConditionComes(w) ==
  /\ watch[w].status = "active" /\ w \in Polled \ holds
  /\ holds' = holds \cup {w}
  /\ UNCHANGED <<watch, tooLate, tick, wakes, overlap, watchFaults>>

TimeoutComes(w) ==
  /\ watch[w].status = "active" /\ w \notin tooLate
  /\ tooLate' = tooLate \cup {w}
  /\ UNCHANGED <<watch, holds, tick, wakes, overlap, watchFaults>>

\* The daemon dies with its ticks; another takes over.
DaemonDies ==
  /\ WatchFault
  /\ tick' = [k \in Ticks |-> NoTick]
  /\ UNCHANGED <<watch, holds, tooLate, wakes, overlap>>

WatchNext ==
  \/ \E w \in Watches :
       CreateWatch(w) \/ CancelWatch(w) \/ CheckComes(w) \/ ConditionComes(w) \/ TimeoutComes(w)
  \/ \E S \in SUBSET Told : Tell(S)
  \/ \E k \in Ticks : StartTick(k) \/ TickEnds(k) \/ \E w \in Polled : Evaluated(k, w)
  \/ DaemonDies

WatchSpec == WatchInit /\ [][WatchNext]_watchVars

\* The interval fires, evaluations end (fetches have a timeout), time passes.
WatchFairness ==
  /\ \A k \in Ticks :
       WF_watchVars(StartTick(k) \/ TickEnds(k) \/ \E w \in Polled : Evaluated(k, w))
  /\ \A w \in Watches : WF_watchVars(CheckComes(w))

-----------------------------------------------------------------------------
WatchTypeOK ==
  /\ watch \in [Watches -> WatchRow] /\ holds \subseteq Polled /\ tooLate \subseteq Watches
  /\ \A k \in Ticks :
       /\ tick[k].left \subseteq Polled
       /\ DOMAIN tick[k].updates \subseteq Watches
       /\ ~tick[k].on => tick[k] = NoTick
  /\ wakes \in [Watches -> 0 .. 2] /\ overlap \in BOOLEAN
  /\ watchFaults \in 0 .. MaxWatchFaults

\* The agent is woken once for a watch, whatever cancels, times out or tells it
\* during a tick, as long as ticks do not overlap and none is cut off between
\* the wake and the write.
WokenOnce == ~overlap /\ watchFaults = 0 => \A w \in Watches : wakes[w] <= 1

\* A watch that counts as triggered has woken its agent, through crashes,
\* overlapping ticks and rows written from an old list.
TriggeredWasWoken == \A w \in Watches : watch[w].status = "triggered" => wakes[w] > 0

\* Watches whose condition holds, or whose time is out, do not stay active for
\* ever: a crash of the tick or the write of an overlapping one only delays them.
Overdue == {w \in Watches : watch[w].status = "active" /\ w \in holds \cup tooLate}
WatchEnds == Overdue # {} ~> Overdue = {}
=============================================================================
