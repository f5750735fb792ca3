------------------------------ MODULE WakeQueue ------------------------------
(***************************************************************************)
(* Wakes on demand (src/lib/server/runtime/heartbeat-wake.ts, reached      *)
(* through wake-dispatcher.ts): events for an agent or a session are       *)
(* gathered by target, and a timer hands what was gathered to the          *)
(* session's lane as one run.  While the lane is busy the events wait, and *)
(* only the most important of one target are kept.                         *)
(*                                                                         *)
(* One agent with one session.  A handler is synchronous, so a step.       *)
(***************************************************************************)
EXTENDS Integers, FiniteSets

CONSTANTS
  Events,         \* things worth waking for
  Urgency,        \* priority of each
  MaxWakeEvents   \* MAX_WAKE_EVENTS

ASSUME WakeAssumption ==
  IsFiniteSet(Events) /\ Urgency \in [Events -> Nat] /\ MaxWakeEvents \in Nat \ {0}

\* wakeTargetKey: the agent, the session, or the agent in this session
Targets == {"agent", "session", "both"}

VARIABLES
  pending,    \* state.pending: events gathered for each target
  wakeTimer,  \* timerKind, or "none"
  laneBusy,   \* the session has a run queued or running, or is leased
  wakeable,   \* the session exists, its agent is enabled and has a heartbeat
  requested, delivered, evicted, dropped

wakeVars == <<pending, wakeTimer, laneBusy, wakeable, requested, delivered, evicted, dropped>>

WakeInit ==
  /\ pending = [k \in Targets |-> {}] /\ wakeTimer = "none"
  /\ laneBusy = FALSE /\ wakeable = TRUE
  /\ requested = {} /\ delivered = {} /\ evicted = {} /\ dropped = {}

\* Bug: the newest are kept.
AnyKept(S) == {T \in SUBSET S : Cardinality(T) = IF Cardinality(S) < MaxWakeEvents THEN Cardinality(S) ELSE MaxWakeEvents}

\* uniqueWakeEvents: the most important; of equally important ones the newest,
\* which this model does not tell.
KeptOf(S) == {T \in AnyKept(S) : \A d \in S \ T, e \in T : Urgency[d] <= Urgency[e]}

\* Bug: a retry timer that is due comes first, and nothing else is armed.
KeepTimer(kind) == {wakeTimer}

\* scheduleFlush: a timer that fires earlier stays, and a retry timer is not
\* replaced by another.
ArmedTimer(kind) ==
  IF wakeTimer = "none" THEN {kind}
  ELSE IF wakeTimer = "retry" /\ kind = "normal" THEN {"retry", "normal"} ELSE {wakeTimer}

\* requestHeartbeatNow, with a target of agent or session
RequestWake(e, k) ==
  /\ e \notin requested /\ requested' = requested \cup {e}
  /\ \E T \in KeptOf(pending[k] \cup {e}) :
       /\ pending' = [pending EXCEPT ![k] = T]
       /\ evicted' = evicted \cup ((pending[k] \cup {e}) \ T)
  /\ wakeTimer' \in ArmedTimer("normal")
  /\ UNCHANGED <<laneBusy, wakeable, delivered, dropped>>

\* Bug: only the first target is dealt with, the others are forgotten.
NoneRetried(K) == {}

\* The targets among K whose wakes find the lane busy.
Retried(K) == K

Gathered == {k \in Targets : pending[k] # {}}

\* What waits for the retry: a wake of the agent does so under the session that
\* was chosen for it, unless it threw before that.
Waiting(late, threw) ==
  LET target(k) == IF k = "agent" /\ k \notin threw THEN "both" ELSE k
  IN [k \in Targets |-> UNION {pending[j] : j \in {j \in late : target(j) = k}}]

\* flushWakes, of wakes whose session cannot be woken.
DropWakes ==
  /\ ~wakeable \/ Gathered = {}
  /\ dropped' = dropped \cup UNION {pending[k] : k \in Gathered}
  /\ pending' = [k \in Targets |-> {}] /\ wakeTimer' = "none"
  /\ UNCHANGED <<laneBusy, delivered, evicted>>

\* flushWakes.  The first wake that finds the lane free takes it, the others
\* wait.  Some may throw on their way (a store, the emergency stop): these wait
\* where they were.
HandOver(first, threw) ==
  /\ first \cap threw = {} /\ (wakeable \/ first = {})
  /\ IF laneBusy THEN first = {} ELSE Cardinality(first) = 1 \/ threw = Gathered
  /\ LET late == Retried(Gathered \ first)
         waiting == Waiting(late, threw)
     IN /\ \E a \in KeptOf(waiting["agent"]), s \in KeptOf(waiting["session"]),
              b \in KeptOf(waiting["both"]) :
             pending' = [k \in Targets |-> IF k = "agent" THEN a ELSE IF k = "session" THEN s ELSE b]
        /\ evicted' = evicted \cup UNION {waiting[k] \ pending'[k] : k \in Targets}
        /\ wakeTimer' = IF late = {} THEN "none" ELSE "retry"
  /\ delivered' = delivered \cup UNION {pending[k] : k \in first}
  /\ laneBusy' = (laneBusy \/ first # {})
  /\ UNCHANGED dropped

FlushWakes ==
  /\ wakeTimer # "none"
  /\ DropWakes \/ (Gathered # {} /\ \E first, threw \in SUBSET Gathered : HandOver(first, threw))
  /\ UNCHANGED <<wakeable, requested>>

\* The lane is taken by other work, and becomes free.
LaneTaken == ~laneBusy /\ laneBusy' = TRUE
             /\ UNCHANGED <<pending, wakeTimer, wakeable, requested, delivered, evicted, dropped>>
LaneFreed == laneBusy /\ laneBusy' = FALSE
             /\ UNCHANGED <<pending, wakeTimer, wakeable, requested, delivered, evicted, dropped>>

\* The operator disables the agent, its heartbeat, or deletes the session.
Disabled == wakeable /\ wakeable' = FALSE
            /\ UNCHANGED <<pending, wakeTimer, laneBusy, requested, delivered, evicted, dropped>>

WakeNext ==
  \/ \E e \in Events, k \in {"agent", "session"} : RequestWake(e, k)
  \/ FlushWakes \/ LaneTaken \/ LaneFreed \/ Disabled

WakeSpec == WakeInit /\ [][WakeNext]_wakeVars

\* Timers fire; and since the retry comes every second, it comes again and again
\* at a moment the lane is free, and does not always throw.
WakeFairness ==
  /\ WF_wakeVars(FlushWakes)
  /\ SF_wakeVars(FlushWakes /\ ~laneBusy /\ (delivered' # delivered \/ dropped' # dropped))
  /\ WF_wakeVars(LaneFreed)

-----------------------------------------------------------------------------
WakeTypeOK ==
  /\ pending \in [Targets -> SUBSET Events] /\ wakeTimer \in {"none", "normal", "retry"}
  /\ laneBusy \in BOOLEAN /\ wakeable \in BOOLEAN
  /\ \A k \in Targets : Cardinality(pending[k]) <= MaxWakeEvents
  /\ UNION {requested, delivered, evicted, dropped} \subseteq Events

\* No event is lost between the timer and the lane: each that was asked for is
\* waiting behind an armed timer, or was handed over, or gave way to others, or
\* its agent cannot be woken.
EveryEventAccounted ==
  \A e \in requested :
    \/ wakeTimer # "none" /\ \E k \in Targets : e \in pending[k]
    \/ e \in delivered \cup evicted \cup dropped

\* An event gives way only to as many as can be kept, none less urgent.
GivesWayToUrgent ==
  [][\A e \in evicted' \ evicted :
       \E k \in Targets : /\ Cardinality(pending'[k]) = MaxWakeEvents
                          /\ \A f \in pending'[k] : Urgency[f] >= Urgency[e]]_wakeVars

\* The events are settled in the end, however often the lane is found busy or
\* other events arrive for the same target.
Unsettled == requested \ (delivered \cup evicted \cup dropped)
EventsSettle == Unsettled # {} ~> Unsettled = {}
=============================================================================
