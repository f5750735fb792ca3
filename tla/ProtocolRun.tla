----------------------------- MODULE ProtocolRun -----------------------------
(***************************************************************************)
(* Structured sessions (src/lib/server/protocols).  A run works through    *)
(* its steps in the server process that holds its lease: discussions of    *)
(* one or more agent turns, a parallel step that spawns a child run for    *)
(* each branch, the join that waits for them, a task to wait for.          *)
(* Operators act on any run at any time.  A step goes on to the next       *)
(* await: the end of an agent's turn, or the timer between two steps.      *)
(* Left out: loops, conditions, for-each, subflow and swarm steps, plans   *)
(* with dependencies between their steps, delegation to remote agents, and *)
(* a dispatched task that is queued again after it ended.                  *)
(***************************************************************************)
EXTENDS Integers, Sequences, FiniteSets

CONSTANTS
  Servers,      \* processes that share the store
  Desks,        \* those of them that operators talk to
  MainRun,      \* the run that was asked for
  Branches,     \* the children of its parallel step
  Plans,        \* what the main run may be made of, sequences of kinds of steps
  BranchPlan,   \* what each branch is made of
  Speakers,     \* turns of a discussion
  Errands,      \* ids for the tasks that are dispatched
  Gone,         \* the owner of a lease whose process died
  NoServer, NoErrand,
  MaxUpsets     \* bound: actions of operators, crashes and long turns

Runs == Branches \cup {MainRun}
StepKinds == {"discuss", "decide", "parallel", "join", "dispatch"}

ASSUME ProtocolAssumption ==
  /\ MainRun \notin Branches /\ IsFiniteSet(Branches) /\ Branches # {}
  /\ Desks \subseteq Servers
  /\ Plans \subseteq Seq(StepKinds) /\ BranchPlan \in Seq({"discuss", "decide", "dispatch"})
  \* A parallel step runs once: no turn comes before it.
  /\ \A steps \in Plans : \A i \in DOMAIN steps : steps[i] = "parallel" => i = 1
  /\ Speakers \in Nat \ {0} /\ MaxUpsets \in Nat
  /\ Gone \notin Servers /\ NoServer \notin Servers /\ Gone # NoServer /\ NoErrand \notin Errands

VARIABLES
  plan,         \* the steps of the main run
  stored,       \* protocol_runs, the rows
  execution,    \* runProtocolRun of a run in a process; what is not "off" is pending
  runLease,     \* runtime_locks: the row of each run
  hasRecovered, \* protocolRecoveryState.completed, per process
  errand,       \* the status of the dispatched tasks
  callbacks,    \* completions whose run is about to be woken
  lapsed,       \* history: runs whose lease ran out under a turn
  forgotten,    \* history: runs whose request was lost with a process
  revived,      \* history: runs that a turn took back from an end or a pause
  untold,       \* history: dispatched tasks whose end was told to no run
  upsets

traces == <<lapsed, forgotten, revived, untold>>   \* the histories
protocolVars ==
  <<plan, stored, execution, runLease, hasRecovered, errand, callbacks, traces, upsets>>

Terminals == {"completed", "failed", "cancelled", "archived"}
Halted == {"completed", "paused", "cancelled", "archived"}
RunStatuses == Terminals \cup {"none", "draft", "running", "waiting", "paused"}

\* branch: parallelState, the status of each branch as the parent knows it;
\* said and errand: phaseState.
NoSession == [status |-> "none", step |-> 1, said |-> 0, errand |-> NoErrand,
              branch |-> [b \in Branches |-> "none"], joined |-> FALSE]
Off == [at |-> "off", copy |-> NoSession]
Queued == [at |-> "queued", copy |-> NoSession]
Between == [at |-> "between", copy |-> NoSession]
NoHold == [owner |-> NoServer, live |-> FALSE]

\* currentStep; "end" when the cursor is behind the last step.
StepsOf(r) == IF r = MainRun THEN plan ELSE BranchPlan
KindOf(r, row) == IF row.step > Len(StepsOf(r)) THEN "end" ELSE StepsOf(r)[row.step]

\* The cursor moves on; phaseState is cleared.
Onward(row) == [row EXCEPT !.step = @ + 1, !.said = 0, !.errand = NoErrand]

\* Every process has come up, and looked at a store without runs.
ProtocolInit ==
  /\ plan \in Plans /\ stored = [r \in Runs |-> NoSession]
  /\ execution = [p \in Servers |-> [r \in Runs |-> Off]]
  /\ runLease = [r \in Runs |-> NoHold]
  /\ hasRecovered = [p \in Servers |-> TRUE]
  /\ errand = [t \in Errands |-> "none"] /\ callbacks = {}
  /\ lapsed = {} /\ forgotten = {} /\ revived = {} /\ untold = {} /\ upsets = 0

Upset == upsets < MaxUpsets /\ upsets' = upsets + 1

-----------------------------------------------------------------------------
(* Parents and requests *)

\* syncProtocolParentFromChildRun: the parent learns the status of its branch.
Synced(rows, r) ==
  IF r \in Branches /\ rows[MainRun].branch[r] # "none"
  THEN [rows EXCEPT ![MainRun].branch[r] = rows[r].status] ELSE rows

\* Bug: one branch is enough.
AnyBranchReady(row) == \E b \in Branches : row.branch[b] \in Terminals

\* joinReady
JoinReady(row) == \A b \in Branches : row.branch[b] \in Terminals

\* Bug: the parent is left to wait.
NobodyToResume(rows, r) == {}

\* The parent that the end of its last branch lets go on.
ToResume(rows, r) ==
  IF r \in Branches /\ rows[MainRun].branch[r] # "none" /\ JoinReady(rows[MainRun])
     /\ rows[MainRun].status = "waiting"
  THEN {MainRun} ELSE {}

\* requestProtocolRunExecution, for each run of R: nothing for one that is pending.
Requested(p, R, all) ==
  [all EXCEPT ![p] = [r \in Runs |-> IF r \in R /\ @[r].at = "off" THEN Queued ELSE @[r]]]

\* The row of r is written and told to its parent; then R is requested.
Announce(p, r, rows, R, all) ==
  LET told == Synced(rows, r)
  IN stored' = told /\ execution' = Requested(p, R \cup ToResume(told, r), all)

-----------------------------------------------------------------------------
(* runProtocolRun *)

\* The execution of r in p ends: sync, release of the lease, no longer pending.
Leave(p, r, rows) ==
  /\ Announce(p, r, rows, {}, [execution EXCEPT ![p][r] = Off])
  /\ runLease' = IF runLease[r].owner = p THEN [runLease EXCEPT ![r] = NoHold] ELSE runLease

\* It goes on, at another await.  The lease is renewed when a step and when a turn
\* begins, unless it has another owner.
GoOn(p, r, rows, where) ==
  /\ stored' = rows
  /\ execution' = [execution EXCEPT ![p][r] = where]
  /\ LET begins == execution[p][r].at = "between" \/ where.at = "turn"
     IN runLease' = IF runLease[r].owner = p /\ begins
                    THEN [runLease EXCEPT ![r].live = TRUE] ELSE runLease

\* A step has written row: the loop ends unless the run still runs.
AfterStep(p, r, row) ==
  IF row.status \in {"running", "draft"}
  THEN GoOn(p, r, [stored EXCEPT ![r] = row], Between)
  ELSE Leave(p, r, [stored EXCEPT ![r] = row])

\* The catch block writes into the stored row, not into the copy.
Throws(p, r) == Leave(p, r, [stored EXCEPT ![r].status = "failed"])

\* Bug: the lease of another process is ignored.
AnyLease(p, r) == TRUE

\* tryAcquireRuntimeLock
Acquirable(p, r) == ~runLease[r].live \/ runLease[r].owner = p

\* The timer of a request fires.
StartRun(p, r) ==
  /\ execution[p][r].at = "queued"
  /\ \/ /\ ~Acquirable(p, r)
        /\ execution' = [execution EXCEPT ![p][r] = Off]
        /\ forgotten' = IF runLease[r].owner = Gone THEN forgotten \cup {r} ELSE forgotten
        /\ UNCHANGED <<stored, runLease>>
     \/ /\ Acquirable(p, r) /\ stored[r].status \in Halted
        /\ execution' = [execution EXCEPT ![p][r] = Off]
        /\ runLease' = [runLease EXCEPT ![r] = NoHold]
        /\ forgotten' = forgotten \ {r} /\ UNCHANGED stored
     \/ /\ Acquirable(p, r) /\ stored[r].status = "failed"
        /\ Announce(p, r, stored, {}, [execution EXCEPT ![p][r] = Off])
        /\ runLease' = [runLease EXCEPT ![r] = NoHold]
        /\ forgotten' = forgotten \ {r}
     \/ /\ Acquirable(p, r) /\ stored[r].status \in {"draft", "running", "waiting"}
        /\ LET rows == [stored EXCEPT ![r].status = IF @ = "waiting" THEN "running" ELSE @]
           IN Announce(p, r, rows, {}, [execution EXCEPT ![p][r] = Between])
        /\ runLease' = [runLease EXCEPT ![r] = [owner |-> p, live |-> TRUE]]
        /\ forgotten' = forgotten \ {r}
  /\ UNCHANGED <<plan, hasRecovered, errand, callbacks, lapsed, revived, untold, upsets>>

\* Bug: the loop looks at its row no more than for a pause.
OnlyPaused(row) == row.status = "paused"

\* The loop's look at the latest row.
Stopped(row) == row.status \in Halted

\* beginStep, beginPhase
Begun(row) == [row EXCEPT !.status = IF @ = "draft" THEN "running" ELSE @]

\* processParallelStep: the children are drafts until they are executed.
Fork(p, r, row) ==
  LET children == [b \in Branches |-> [NoSession EXCEPT !.status = "draft"]]
      parent == [Onward(row) EXCEPT !.status = "waiting",
                                    !.branch = [b \in Branches |-> "draft"]]
  IN /\ stored' = [s \in Runs |-> IF s = r THEN parent ELSE children[s]]
     /\ execution' = Requested(p, Branches, [execution EXCEPT ![p][r] = Off])
     /\ runLease' = IF runLease[r].owner = p THEN [runLease EXCEPT ![r] = NoHold] ELSE runLease

\* processJoinStep: without branches, or with none that completed, it throws.
Join(p, r, row) ==
  IF \A b \in Branches : row.branch[b] = "none" THEN Throws(p, r)
  ELSE IF ~JoinReady(row) THEN AfterStep(p, r, [row EXCEPT !.status = "waiting"])
  ELSE IF \A b \in Branches : row.branch[b] # "completed" THEN Throws(p, r)
  ELSE AfterStep(p, r, [Onward(row) EXCEPT !.joined = TRUE])

\* The id of the next task.
NewErrand == CHOOSE t \in Errands : errand[t] = "none"

\* processDispatchTaskPhase: a new task, also when the run waited for one before.
Dispatch(p, r, row) ==
  \E t \in Errands :
    /\ t = NewErrand /\ errand[t] = "none" /\ errand' = [errand EXCEPT ![t] = "queued"]
    /\ AfterStep(p, r, [row EXCEPT !.status = "waiting", !.errand = t])

\* The timer between two steps fires: a look at the latest row, then its step.
StepRun(p, r) ==
  /\ execution[p][r].at = "between"
  /\ LET row == Begun(stored[r])
         kind == KindOf(r, row)
     IN \/ Stopped(stored[r]) /\ Leave(p, r, stored) /\ UNCHANGED errand
        \/ /\ ~Stopped(stored[r])
           /\ \/ /\ kind = "end"
                 /\ AfterStep(p, r, [row EXCEPT !.status = "completed"]) /\ UNCHANGED errand
              \/ /\ kind \in {"discuss", "decide"} /\ UNCHANGED errand
                 /\ GoOn(p, r, [stored EXCEPT ![r] = row], [at |-> "turn", copy |-> row])
              \/ kind = "parallel" /\ Fork(p, r, row) /\ UNCHANGED errand
              \/ kind = "join" /\ Join(p, r, row) /\ UNCHANGED errand
              \/ kind = "dispatch" /\ Dispatch(p, r, row)
  /\ UNCHANGED <<plan, hasRecovered, callbacks, traces, upsets>>

\* A turn is back: its response goes into the copy from before the turn, and the
\* copy into the store.  Only a decision lets the error of its agent through.
TurnReturns(p, r) ==
  /\ execution[p][r].at = "turn"
  /\ LET row == execution[p][r].copy
         kind == KindOf(r, row)
     IN \/ /\ kind = "discuss" /\ row.said + 1 < Speakers
           /\ LET next == [row EXCEPT !.said = @ + 1]
              IN GoOn(p, r, [stored EXCEPT ![r] = next], [at |-> "turn", copy |-> next])
        \/ (kind = "discuss" => row.said + 1 >= Speakers) /\ AfterStep(p, r, Onward(row))
        \/ kind = "decide" /\ Throws(p, r)
  /\ revived' = revived \cup {s \in {r} : /\ stored[s].status \in Terminals \cup {"paused"}
                                           /\ stored'[s].status = "running"}
  /\ UNCHANGED <<plan, hasRecovered, errand, callbacks, lapsed, forgotten, untold, upsets>>

-----------------------------------------------------------------------------
(* Operators *)

\* createProtocolRun
CreateRun(p) ==
  /\ p \in Desks /\ stored[MainRun].status = "none"
  /\ Announce(p, MainRun, [stored EXCEPT ![MainRun].status = "running"], {MainRun}, execution)
  /\ UNCHANGED <<plan, runLease, hasRecovered, errand, callbacks, traces, upsets>>

\* performProtocolRunAction
Act(p, r) ==
  /\ p \in Desks /\ stored[r].status # "none" /\ Upset
  /\ \/ \E end \in {"cancelled", "paused", "archived"} :
          Announce(p, r, [stored EXCEPT ![r].status = end], {}, execution)
     \/ \* retry_phase
        Announce(p, r, [stored EXCEPT ![r].status = "running", ![r].said = 0,
                                       ![r].errand = NoErrand], {r}, execution)
     \/ \* skip_phase
        LET last == stored[r].step >= Len(StepsOf(r))
            row == [Onward(stored[r]) EXCEPT
                      !.status = IF last THEN "completed" ELSE "running",
                      !.step = IF last THEN Len(StepsOf(r)) + 1 ELSE @]
        IN Announce(p, r, [stored EXCEPT ![r] = row], IF last THEN {} ELSE {r}, execution)
     \/ \* start, resume, and inject_context on a run that waits or is paused
        Announce(p, r, [stored EXCEPT ![r].status = "running"], {r}, execution)
  /\ UNCHANGED <<plan, runLease, hasRecovered, errand, callbacks, traces>>

-----------------------------------------------------------------------------
(* Dispatched tasks *)

\* Its executor completes it and tells the run (the success path of processNext),
\* also when it finds the task completed by somebody else.
ErrandDone(p, t) ==
  /\ errand[t] = "queued" \/ (errand[t] = "completed" /\ t \in untold)
  /\ errand' = [errand EXCEPT ![t] = "completed"]
  /\ callbacks' = callbacks \cup {<<p, t>>} /\ untold' = untold \ {t}

\* It ends and no run is told: it fails or is cancelled, an operator closes it
\* (task-route-service.ts), or reconcileFinishedRunningTasks finds it finished.
ErrandClosed(t) ==
  /\ errand[t] = "queued"
  /\ \E verdict \in {"completed", "failed"} : errand' = [errand EXCEPT ![t] = verdict]
  /\ untold' = untold \cup {t} /\ UNCHANGED callbacks

ErrandEnds(p, t) ==
  /\ ErrandDone(p, t) \/ ErrandClosed(t)
  /\ UNCHANGED <<plan, stored, execution, runLease, hasRecovered, lapsed, forgotten, revived,
                 upsets>>

\* The runs that wait for t.
WaitsFor(rows, t) == {r \in Runs : rows[r].errand = t /\ rows[r].status = "waiting"}

\* wakeProtocolRunFromTaskCompletion, for a task that has ended
Awoken(rows, R) ==
  [r \in Runs |-> IF r \in R THEN [Onward(rows[r]) EXCEPT !.status = "running"] ELSE rows[r]]

WakeFromErrand(p, t) ==
  /\ <<p, t>> \in callbacks /\ callbacks' = callbacks \ {<<p, t>>}
  /\ LET R == WaitsFor(stored, t)
     IN stored' = Awoken(stored, R) /\ execution' = Requested(p, R, execution)
  /\ UNCHANGED <<plan, runLease, hasRecovered, errand, traces, upsets>>

-----------------------------------------------------------------------------
(* Crashes, restarts, leases *)

\* Runs that were cut off, and joins that are ready.
CutOff(rows) ==
  {r \in Runs : \/ rows[r].status = "running"
                \/ /\ r = MainRun /\ rows[r].status = "waiting"
                   /\ JoinReady(rows[r]) /\ ~rows[r].joined}

\* ensureProtocolEngineRecovered, once in the life of a process, with its start or
\* its first listing of the runs: every branch is told to its parent, then the
\* rows as they were before are gone through.
RecoverRuns(p) ==
  /\ ~hasRecovered[p] /\ hasRecovered' = [hasRecovered EXCEPT ![p] = TRUE]
  /\ LET rows == [stored EXCEPT ![MainRun].branch =
                    [b \in Branches |-> IF @[b] = "none" THEN @[b] ELSE stored[b].status]]
         cut == CutOff(stored)
         resumed == UNION {ToResume(rows, b) : b \in Branches}
         ended == {t \in Errands : errand[t] \in {"completed", "failed"}}
         awoken == UNION {WaitsFor(rows, t) : t \in ended} \ cut
     IN /\ stored' = Awoken(rows, awoken)
        /\ execution' = Requested(p, cut \cup resumed \cup awoken, execution)
  /\ UNCHANGED <<plan, runLease, errand, callbacks, traces, upsets>>

\* p dies and comes back under another owner string.  A draft that only p was
\* to start is asked for by nobody.
ServerCrashes(p) ==
  /\ Upset
  /\ execution' = [execution EXCEPT ![p] = [r \in Runs |-> Off]]
  /\ hasRecovered' = [hasRecovered EXCEPT ![p] = FALSE]
  /\ callbacks' = {c \in callbacks : c[1] # p}
  /\ runLease' = [r \in Runs |->
       IF runLease[r].owner = p THEN [runLease[r] EXCEPT !.owner = Gone] ELSE runLease[r]]
  /\ forgotten' = forgotten \cup
       {r \in Runs : /\ stored[r].status = "draft"
                     /\ \A q \in Servers \ {p} : execution[q][r].at = "off"}
  /\ UNCHANGED <<plan, stored, errand, lapsed, revived, untold>>

\* 120 seconds without a renewal: the owner died, or its turn is on its retries.
RunLeaseLapses(r) ==
  /\ runLease[r].live /\ runLease' = [runLease EXCEPT ![r].live = FALSE]
  /\ IF runLease[r].owner = Gone THEN UNCHANGED <<lapsed, upsets>>
     ELSE /\ execution[runLease[r].owner][r].at = "turn"
          /\ lapsed' = lapsed \cup {r} /\ Upset
  /\ UNCHANGED <<plan, stored, execution, hasRecovered, errand, callbacks, forgotten, revived,
                 untold>>

\* What the event loop of p has to do: timers fire, turns end (their time is
\* limited), a process that came up again recovers, completions are told.
EventLoop(p) ==
  \/ RecoverRuns(p)
  \/ \E r \in Runs : StartRun(p, r) \/ StepRun(p, r) \/ TurnReturns(p, r)
  \/ \E t \in Errands : WakeFromErrand(p, t)

ProtocolNext ==
  \/ \E p \in Servers :
       \/ EventLoop(p) \/ CreateRun(p) \/ ServerCrashes(p)
       \/ \E r \in Runs : Act(p, r)
       \/ \E t \in Errands : ErrandEnds(p, t)
  \/ \E r \in Runs : RunLeaseLapses(r)

ProtocolSpec == ProtocolInit /\ [][ProtocolNext]_protocolVars

\* Every event loop goes on, and time passes.
ProtocolFairness ==
  /\ \A p \in Servers : WF_protocolVars(EventLoop(p))
  /\ WF_protocolVars(\E r \in Runs : runLease[r].owner = Gone /\ RunLeaseLapses(r))

-----------------------------------------------------------------------------
(* Properties *)

\* Every variable stays in its range; a run that executes has been created.
ProtocolTypeOK ==
  /\ plan \in Plans /\ DOMAIN stored = Runs
  /\ \A r \in Runs :
       /\ stored[r].status \in RunStatuses /\ stored[r].step \in 1 .. Len(StepsOf(r)) + 1
       /\ stored[r].said \in 0 .. Speakers - 1 /\ stored[r].errand \in Errands \cup {NoErrand}
       /\ stored[r].branch \in [Branches -> RunStatuses] /\ stored[r].joined \in BOOLEAN
  /\ \A p \in Servers, r \in Runs :
       /\ execution[p][r].at \in {"off", "queued", "between", "turn"}
       /\ execution[p][r].at # "off" => stored[r].status # "none"
  /\ runLease \in [Runs -> [owner : Servers \cup {Gone, NoServer}, live : BOOLEAN]]
  /\ hasRecovered \in [Servers -> BOOLEAN]
  /\ errand \in [Errands -> {"none", "queued", "completed", "failed"}]
  /\ callbacks \subseteq Servers \X Errands
  /\ lapsed \subseteq Runs /\ forgotten \subseteq Runs /\ revived \subseteq Runs
  /\ untold \subseteq Errands
  /\ upsets \in 0 .. MaxUpsets

\* p is between two steps of r, or in a turn.
WorksOn(p, r) == execution[p][r].at \in {"between", "turn"}

\* No two processes work on one run, unless its lease ran out under a turn.
OneExecutor ==
  \A r \in Runs \ lapsed, p, q \in Servers : WorksOn(p, r) /\ WorksOn(q, r) => p = q

\* A join is passed only when every branch has ended; a branch that a late turn
\* took back from its end may still run.
JoinAfterBranches ==
  [][~stored[MainRun].joined /\ stored'[MainRun].joined
       => \A b \in Branches \ revived : stored[b].status \in Terminals]_protocolVars

\* A stopped run goes on only if an operator says so, or if a turn was under
\* way when it was stopped, and writes its copy back.
StopUndoneOnlyByTurn ==
  [][\A r \in Runs :
       stored[r].status \in Halted /\ stored'[r].status # stored[r].status
       => \/ upsets' # upsets
          \/ \E p \in Servers : /\ execution[p][r].at = "turn"
                               /\ execution'[p][r] # execution[p][r]
    ]_protocolVars

\* Somebody tells the end of t to the run that waits for it: its executor, or a
\* process that came up and has yet to recover.
WillBeTold(t) == t \notin untold \/ \E p \in Servers : ~hasRecovered[p]

\* What nothing keeps from going on: a run that runs, a branch that was spawned,
\* a wait that is over and known to be.
OwedAStep(r) ==
  /\ r \notin forgotten
  /\ \/ stored[r].status \in {"running", "draft"}
     \/ /\ stored[r].status = "waiting"
        /\ \/ KindOf(r, stored[r]) = "join" /\ JoinReady(stored[r])
           \/ /\ stored[r].errand # NoErrand /\ WillBeTold(stored[r].errand)
              /\ errand[stored[r].errand] \in {"completed", "failed"}

\* Nothing is owed a step for ever, unless a crash cost it its request.  A run
\* whose task was failed, closed by an operator or found finished by the queue's
\* reconciliation is owed one only when a process starts: it waits until then.
Owed == {r \in Runs : OwedAStep(r)}
RunsGoOn == Owed # {} ~> Owed = {}
=============================================================================
