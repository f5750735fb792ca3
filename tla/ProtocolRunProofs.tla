-------------------------- MODULE ProtocolRunProofs --------------------------
(***************************************************************************)
(* Proofs about structured sessions, for any servers, plans and branches.  *)
(* First the lease: two processes never work on one run unless it ran out  *)
(* under a turn.  Then the rows: every step is classified by what it does  *)
(* to them (Outcome), and from this follow their types, that what was      *)
(* stopped stays so, and that a join waits for its branches.               *)
(***************************************************************************)
EXTENDS ProtocolRun, TLAPS

Leases == [owner : Servers \cup {Gone, NoServer}, live : BOOLEAN]

\* all is a table of executions, whatever an execution is.
IsTable(all) ==
  /\ DOMAIN all = Servers /\ all = [p \in Servers |-> all[p]]
  /\ \A p \in Servers : DOMAIN all[p] = Runs /\ all[p] = [r \in Runs |-> all[p][r]]

Working(all, p, r) == all[p][r].at \in {"between", "turn"}

\* Who works on a run holds its lease, and the lease has not run out.
WorkerHoldsLease ==
  \A r \in Runs \ lapsed, p \in Servers :
    Working(execution, p, r) => runLease[r].owner = p /\ runLease[r].live

ProtocolIInv ==
  /\ IsTable(execution) /\ runLease \in [Runs -> Leases]
  /\ WorkerHoldsLease

-----------------------------------------------------------------------------
(* Tables of executions *)

\* one differs from all in the entry of r in p, which is e.
ReplacesEntry(all, one, p, r, e) ==
  /\ IsTable(one) /\ one[p][r] = e
  /\ \A q \in Servers, s \in Runs : q # p \/ s # r => one[q][s] = all[q][s]

\* A request makes nobody work.
LEMMA RequestMakesNoWork ==
  ASSUME NEW all, IsTable(all), NEW p \in Servers, NEW R
  PROVE  /\ IsTable(Requested(p, R, all))
         /\ \A q \in Servers, s \in Runs :
              Working(Requested(p, R, all), q, s) <=> Working(all, q, s)
<1> DEFINE line == [r \in Runs |-> IF r \in R /\ all[p][r].at = "off" THEN Queued ELSE all[p][r]]
<1>1. Requested(p, R, all) = [all EXCEPT ![p] = line]
  BY DEF Requested
<1>2. IsTable([all EXCEPT ![p] = line])
  BY DEF IsTable
<1>3. \A s \in Runs : line[s].at \in {"between", "turn"} <=> all[p][s].at \in {"between", "turn"}
  BY DEF Queued
<1>4. \A q \in Servers, s \in Runs :
        [all EXCEPT ![p] = line][q][s] = IF q = p THEN line[s] ELSE all[q][s]
  BY DEF IsTable
<1> QED BY <1>1, <1>2, <1>3, <1>4 DEF Working

\* p turns to r, or away from it, and requests runs.
LEMMA EntryAndRequest ==
  ASSUME NEW all, NEW one, NEW p \in Servers, NEW r \in Runs, NEW e,
         ReplacesEntry(all, one, p, r, e),
         NEW R, NEW new, new = one \/ new = Requested(p, R, one)
  PROVE  /\ IsTable(new)
         /\ Working(new, p, r) <=> e.at \in {"between", "turn"}
         /\ \A q \in Servers, s \in Runs :
              q # p \/ s # r => (Working(new, q, s) <=> Working(all, q, s))
<1>1. /\ IsTable(new)
      /\ \A q \in Servers, s \in Runs : Working(new, q, s) <=> Working(one, q, s)
  BY RequestMakesNoWork DEF ReplacesEntry
<1> QED BY <1>1 DEF ReplacesEntry, Working

-----------------------------------------------------------------------------
(* The moves of an execution *)

\* r is no longer worked on in p.  The lease goes only if p had it or nobody else had.
LEMMA EndOfExecution ==
  ASSUME ProtocolIInv, NEW p \in Servers, NEW r \in Runs, NEW R,
         \/ execution' = [execution EXCEPT ![p][r] = Off]
         \/ execution' = Requested(p, R, [execution EXCEPT ![p][r] = Off]),
         \/ runLease' = runLease
         \/ /\ runLease' = [runLease EXCEPT ![r] = NoHold]
            /\ runLease[r].owner = p \/ ~runLease[r].live,
         lapsed' = lapsed
  PROVE  ProtocolIInv'
<1> DEFINE one == [execution EXCEPT ![p][r] = Off]
<1>0. ReplacesEntry(execution, one, p, r, Off)
  BY DEF ReplacesEntry, ProtocolIInv, IsTable
<1>1. /\ IsTable(execution') /\ ~Working(execution', p, r)
      /\ \A q \in Servers, s \in Runs :
           q # p \/ s # r => (Working(execution', q, s) <=> Working(execution, q, s))
  <2>1. execution' = one \/ execution' = Requested(p, R, one)
    OBVIOUS
  <2> HIDE DEF one
  <2>2. Off.at \notin {"between", "turn"}
    BY DEF Off
  <2>3. /\ IsTable(execution')
        /\ Working(execution', p, r) <=> Off.at \in {"between", "turn"}
        /\ \A q \in Servers, s \in Runs :
             q # p \/ s # r => (Working(execution', q, s) <=> Working(execution, q, s))
    <3> HIDE DEF Off
    <3> QED BY <1>0, <2>1, EntryAndRequest
  <2> QED BY <2>2, <2>3
<1>2. NoHold \in Leases
  BY DEF NoHold, Leases
<1>3. runLease' \in [Runs -> Leases]
  BY <1>2 DEF ProtocolIInv
<1>4. ASSUME NEW s \in Runs \ lapsed', NEW q \in Servers, Working(execution', q, s)
      PROVE  runLease'[s].owner = q /\ runLease'[s].live
  <2>1. Working(execution, q, s) /\ ~(q = p /\ s = r)
    BY <1>1, <1>4
  <2>2. runLease[s].owner = q /\ runLease[s].live
    BY <1>4, <2>1 DEF ProtocolIInv, WorkerHoldsLease
  <2> QED BY <2>1, <2>2 DEF ProtocolIInv
<1> QED BY <1>1, <1>3, <1>4 DEF ProtocolIInv, WorkerHoldsLease

LEMMA LeaveEnds ==
  ASSUME ProtocolIInv, NEW p \in Servers, NEW r \in Runs, NEW rows, Leave(p, r, rows),
         lapsed' = lapsed
  PROVE  ProtocolIInv'
<1>1. PICK R : execution' = Requested(p, R, [execution EXCEPT ![p][r] = Off])
  BY DEF Leave, Announce
<1>2. \/ runLease' = runLease
      \/ runLease[r].owner = p /\ runLease' = [runLease EXCEPT ![r] = NoHold]
  BY DEF Leave
<1> QED BY <1>1, <1>2, EndOfExecution

\* p goes on with r.
LEMMA ExecutionGoesOn ==
  ASSUME ProtocolIInv, NEW p \in Servers, NEW r \in Runs, NEW rows, NEW where,
         Working(execution, p, r), GoOn(p, r, rows, where), lapsed' = lapsed
  PROVE  ProtocolIInv'
<1>0. IsTable(execution) /\ execution' = [execution EXCEPT ![p][r] = where]
  BY DEF ProtocolIInv, GoOn
<1>1. /\ IsTable(execution')
      /\ \A q \in Servers, s \in Runs : q # p \/ s # r => execution'[q][s] = execution[q][s]
  BY <1>0 DEF IsTable
<1>2. \/ runLease' = runLease
      \/ runLease[r].owner = p /\ runLease' = [runLease EXCEPT ![r].live = TRUE]
  BY DEF GoOn
<1>3. runLease' \in [Runs -> Leases]
  BY <1>2 DEF ProtocolIInv, Leases
<1>4. ASSUME NEW s \in Runs \ lapsed', NEW q \in Servers, Working(execution', q, s)
      PROVE  runLease'[s].owner = q /\ runLease'[s].live
  <2>1. Working(execution, q, s)
    BY <1>1, <1>4 DEF Working
  <2>2. runLease[s].owner = q /\ runLease[s].live
    BY <1>4, <2>1 DEF ProtocolIInv, WorkerHoldsLease
  <2> QED BY <1>2, <2>2 DEF ProtocolIInv, Leases
<1> QED BY <1>1, <1>3, <1>4 DEF ProtocolIInv, WorkerHoldsLease

\* A request alone, and steps that leave executions and leases.
LEMMA OnlyRequests ==
  ASSUME ProtocolIInv, NEW p \in Servers, NEW R,
         execution' = Requested(p, R, execution), runLease' = runLease, lapsed' = lapsed
  PROVE  ProtocolIInv'
BY RequestMakesNoWork DEF ProtocolIInv, WorkerHoldsLease

\* A step has written its row.
LEMMA StepWritten ==
  ASSUME ProtocolIInv, NEW p \in Servers, NEW r \in Runs, NEW row,
         Working(execution, p, r), AfterStep(p, r, row), lapsed' = lapsed
  PROVE  ProtocolIInv'
<1>1. CASE row.status \in {"running", "draft"}
  BY <1>1, ExecutionGoesOn DEF AfterStep
<1>2. CASE row.status \notin {"running", "draft"}
  BY <1>2, LeaveEnds DEF AfterStep
<1> QED BY <1>1, <1>2

-----------------------------------------------------------------------------
(* The actions *)

LEMMA StartRunStep ==
  ASSUME ProtocolIInv, NEW p \in Servers, NEW r \in Runs, StartRun(p, r)
  PROVE  ProtocolIInv'
<1>0. lapsed' = lapsed
  BY DEF StartRun
<1>1. CASE execution' = [execution EXCEPT ![p][r] = Off] /\ UNCHANGED runLease
  BY <1>0, <1>1, EndOfExecution
<1>2. CASE /\ Acquirable(p, r) /\ runLease' = [runLease EXCEPT ![r] = NoHold]
           /\ \/ execution' = [execution EXCEPT ![p][r] = Off]
              \/ Announce(p, r, stored, {}, [execution EXCEPT ![p][r] = Off])
  <2>1. \E R : \/ execution' = [execution EXCEPT ![p][r] = Off]
               \/ execution' = Requested(p, R, [execution EXCEPT ![p][r] = Off])
    BY <1>2 DEF Announce
  <2> QED BY <1>0, <1>2, <2>1, EndOfExecution DEF Acquirable
<1>3. ASSUME NEW rows, Acquirable(p, r),
             Announce(p, r, rows, {}, [execution EXCEPT ![p][r] = Between]),
             runLease' = [runLease EXCEPT ![r] = [owner |-> p, live |-> TRUE]]
      PROVE  ProtocolIInv'
  <2> DEFINE one == [execution EXCEPT ![p][r] = Between]
  <2>0. ReplacesEntry(execution, one, p, r, Between)
    BY DEF ReplacesEntry, ProtocolIInv, IsTable
  <2>1. PICK R : execution' = Requested(p, R, one)
    BY <1>3 DEF Announce
  <2>2. /\ IsTable(execution')
        /\ \A q \in Servers, s \in Runs :
             q # p \/ s # r => (Working(execution', q, s) <=> Working(execution, q, s))
    <3> HIDE DEF one
    <3> QED BY <2>0, <2>1, EntryAndRequest
  <2>3. runLease' \in [Runs -> Leases]
    BY <1>3 DEF ProtocolIInv, Leases
  <2>4. ASSUME NEW s \in Runs \ lapsed', NEW q \in Servers, Working(execution', q, s)
        PROVE  runLease'[s].owner = q /\ runLease'[s].live
    <3>1. CASE q = p /\ s = r
      BY <1>3, <3>1 DEF ProtocolIInv
    <3>2. CASE q # p \/ s # r
      <4>1. runLease[s].owner = q /\ runLease[s].live
        BY <1>0, <2>2, <2>4, <3>2 DEF ProtocolIInv, WorkerHoldsLease
      <4>2. s # r
        BY <1>3, <3>2, <4>1 DEF Acquirable
      <4> QED BY <1>3, <4>1, <4>2 DEF ProtocolIInv
    <3> QED BY <3>1, <3>2
  <2> QED BY <2>2, <2>3, <2>4 DEF ProtocolIInv, WorkerHoldsLease
<1> QED BY <1>1, <1>2, <1>3 DEF StartRun

LEMMA StepRunStep ==
  ASSUME ProtocolIInv, NEW p \in Servers, NEW r \in Runs, StepRun(p, r)
  PROVE  ProtocolIInv'
<1>1. Working(execution, p, r) /\ lapsed' = lapsed
  BY DEF StepRun, Working, traces
<1>2. ASSUME NEW rows, Leave(p, r, rows) PROVE ProtocolIInv'
  BY <1>1, <1>2, LeaveEnds
<1>3. ASSUME NEW row, AfterStep(p, r, row) PROVE ProtocolIInv'
  BY <1>1, <1>3, StepWritten
<1>4. ASSUME NEW rows, NEW where, GoOn(p, r, rows, where) PROVE ProtocolIInv'
  BY <1>1, <1>4, ExecutionGoesOn
<1>5. ASSUME NEW row, Fork(p, r, row) PROVE ProtocolIInv'
  <2>1. PICK R : execution' = Requested(p, R, [execution EXCEPT ![p][r] = Off])
    BY <1>5 DEF Fork
  <2>2. \/ runLease' = runLease
        \/ runLease[r].owner = p /\ runLease' = [runLease EXCEPT ![r] = NoHold]
    BY <1>5 DEF Fork
  <2> QED BY <1>1, <2>1, <2>2, EndOfExecution
<1>6. ASSUME NEW row, Join(p, r, row) PROVE ProtocolIInv'
  BY <1>2, <1>3, <1>6 DEF Join, Throws
<1>7. ASSUME NEW row, Dispatch(p, r, row) PROVE ProtocolIInv'
  BY <1>3, <1>7 DEF Dispatch
<1> QED BY <1>2, <1>3, <1>4, <1>5, <1>6, <1>7 DEF StepRun

LEMMA TurnReturnsStep ==
  ASSUME ProtocolIInv, NEW p \in Servers, NEW r \in Runs, TurnReturns(p, r)
  PROVE  ProtocolIInv'
<1>1. Working(execution, p, r) /\ lapsed' = lapsed
  BY DEF TurnReturns, Working
<1>2. \/ \E rows : Leave(p, r, rows)
      \/ \E row : AfterStep(p, r, row)
      \/ \E rows, where : GoOn(p, r, rows, where)
  BY DEF TurnReturns, Throws
<1> QED BY <1>1, <1>2, LeaveEnds, StepWritten, ExecutionGoesOn

LEMMA SessionRequestSteps ==
  ASSUME ProtocolIInv, NEW p \in Servers,
         \/ CreateRun(p) \/ RecoverRuns(p)
         \/ \E r \in Runs : Act(p, r)
         \/ \E t \in Errands : WakeFromErrand(p, t)
  PROVE  ProtocolIInv'
<1>1. runLease' = runLease /\ lapsed' = lapsed
  BY DEF CreateRun, RecoverRuns, Act, WakeFromErrand, traces
<1>2. CASE CreateRun(p)
  BY <1>1, <1>2, OnlyRequests DEF CreateRun, Announce
<1>3. CASE RecoverRuns(p)
  BY <1>1, <1>3, OnlyRequests DEF RecoverRuns
<1>4. CASE \E r \in Runs : Act(p, r)
  <2>1. \E R : execution' = Requested(p, R, execution)
    BY <1>4 DEF Act, Announce
  <2> QED BY <1>1, <2>1, OnlyRequests
<1>5. CASE \E t \in Errands : WakeFromErrand(p, t)
  BY <1>1, <1>5, OnlyRequests DEF WakeFromErrand
<1> QED BY <1>2, <1>3, <1>4, <1>5

LEMMA SessionCrashStep ==
  ASSUME ProtocolIInv, NEW p \in Servers, ServerCrashes(p)
  PROVE  ProtocolIInv'
<1>1. /\ IsTable(execution')
      /\ \A q \in Servers, s \in Runs :
           Working(execution', q, s) => q # p /\ Working(execution, q, s)
  BY DEF ServerCrashes, ProtocolIInv, IsTable, Working, Off
<1>2. runLease' \in [Runs -> Leases]
  BY DEF ServerCrashes, ProtocolIInv, Leases
<1>3. \A s \in Runs, q \in Servers :
        q # p /\ runLease[s].owner = q => runLease'[s] = runLease[s]
  BY DEF ServerCrashes
<1> QED BY <1>1, <1>2, <1>3 DEF ServerCrashes, ProtocolIInv, WorkerHoldsLease

LEMMA LeaseLapsesStep ==
  ASSUME ProtocolIInv, NEW r \in Runs, RunLeaseLapses(r)
  PROVE  ProtocolIInv'
<1>1. execution' = execution /\ runLease' = [runLease EXCEPT ![r].live = FALSE]
  BY DEF RunLeaseLapses
<1>2. runLease' \in [Runs -> Leases]
  BY <1>1 DEF ProtocolIInv, Leases
<1>3. ASSUME NEW s \in Runs \ lapsed', NEW q \in Servers, Working(execution', q, s)
      PROVE  runLease'[s].owner = q /\ runLease'[s].live
  <2>1. s \notin lapsed
    BY <1>3 DEF RunLeaseLapses
  <2>2. runLease[s].owner = q /\ runLease[s].live
    BY <1>1, <1>3, <2>1 DEF ProtocolIInv, WorkerHoldsLease
  <2>3. s # r
    BY <1>3, <2>2, ProtocolAssumption DEF RunLeaseLapses
  <2> QED BY <1>1, <2>2, <2>3 DEF ProtocolIInv
<1> QED BY <1>1, <1>2, <1>3 DEF ProtocolIInv, WorkerHoldsLease

-----------------------------------------------------------------------------
(* The theorems about the lease *)

LEMMA ProtocolStarts == ProtocolInit => ProtocolIInv
BY DEF ProtocolInit, ProtocolIInv, IsTable, WorkerHoldsLease, Working, Off, NoHold, Leases

LEMMA HolderStep == ProtocolIInv /\ [ProtocolNext]_protocolVars => ProtocolIInv'
<1> SUFFICES ASSUME ProtocolIInv, [ProtocolNext]_protocolVars PROVE ProtocolIInv'
  OBVIOUS
<1>1. ASSUME NEW p \in Servers, EventLoop(p) PROVE ProtocolIInv'
  BY <1>1, StartRunStep, StepRunStep, TurnReturnsStep, SessionRequestSteps DEF EventLoop
<1>2. ASSUME NEW p \in Servers, CreateRun(p) \/ \E r \in Runs : Act(p, r) PROVE ProtocolIInv'
  BY <1>2, SessionRequestSteps
<1>3. ASSUME NEW p \in Servers, ServerCrashes(p) PROVE ProtocolIInv'
  BY <1>3, SessionCrashStep
<1>4. ASSUME NEW p \in Servers, NEW t \in Errands, ErrandEnds(p, t) PROVE ProtocolIInv'
  BY <1>4 DEF ErrandEnds, traces, ProtocolIInv, WorkerHoldsLease
<1>5. ASSUME NEW r \in Runs, RunLeaseLapses(r) PROVE ProtocolIInv'
  BY <1>5, LeaseLapsesStep
<1>6. CASE UNCHANGED protocolVars
  BY <1>6 DEF protocolVars, traces, ProtocolIInv, WorkerHoldsLease
<1> QED BY <1>1, <1>2, <1>3, <1>4, <1>5, <1>6 DEF ProtocolNext

\* A working process holds the live lease of its run, through crashes, operators'
\* actions, forks, joins and late turns: tryAcquireRuntimeLock, the renewals of
\* runProtocolRun and its finally block fit each other.
THEOREM LeaseOfWorker == ProtocolSpec => []ProtocolIInv
BY ProtocolStarts, HolderStep, PTL DEF ProtocolSpec

\* Two processes never work on one run (runProtocolRun), unless its lease ran out
\* under a turn.
THEOREM NeverTwoExecutors == ProtocolSpec => []OneExecutor
<1>1. ProtocolIInv => OneExecutor
  BY DEF ProtocolIInv, WorkerHoldsLease, Working, OneExecutor, WorksOn
<1> QED BY <1>1, LeaseOfWorker, PTL

-----------------------------------------------------------------------------
(* What the rows and the copies of the runs hold *)

Sessions ==
  [status : RunStatuses, step : Nat \ {0}, said : 0 .. Speakers - 1,
   errand : Errands \cup {NoErrand}, branch : [Branches -> RunStatuses], joined : BOOLEAN]

\* The cursor of r is in its plan or just behind it; it is on the step whose task
\* the row names, and a branch waits for nothing but a task.
InPlan(r, row) ==
  /\ row \in Sessions /\ row.step <= Len(StepsOf(r)) + 1
  /\ row.errand # NoErrand => KindOf(r, row) = "dispatch"
  /\ r \in Branches /\ row.status = "waiting" => KindOf(r, row) = "dispatch"

AllInPlan(rows) == rows \in [Runs -> Sessions] /\ \A r \in Runs : InPlan(r, rows[r])

TurnKinds == {"discuss", "decide"}

\* The copy that a turn of r writes back.
IsCopy(r, c) ==
  InPlan(r, c) /\ KindOf(r, c) \in TurnKinds /\ c.status \in {"running", "waiting", "failed"}

\* e is the execution of r, whose row has the given status.
IsEntry(r, e, status) ==
  /\ e.at \in {"off", "queued", "between", "turn"}
  /\ e.at # "off" => status # "none"
  /\ e.at = "turn" => IsCopy(r, e.copy)

AreEntries(all, rows) == \A p \in Servers, r \in Runs : IsEntry(r, all[p][r], rows[r].status)

RunsInv ==
  /\ plan \in Plans /\ AllInPlan(stored) /\ AreEntries(execution, stored)
  /\ upsets \in 0 .. MaxUpsets

LEMMA StepsOfRun ==
  ASSUME plan \in Plans, NEW r \in Runs
  PROVE  /\ StepsOf(r) \in Seq(StepKinds) /\ Len(StepsOf(r)) \in Nat
         /\ \A row \in Sessions : KindOf(r, row) \in StepKinds \cup {"end"}
         /\ \A row \in Sessions : KindOf(r, row) # "end" <=> row.step <= Len(StepsOf(r))
         /\ \A row \in Sessions : KindOf(r, row) \in {"parallel", "join"} => r = MainRun
         /\ \A row \in Sessions : KindOf(r, row) = "parallel" => row.step = 1
<1>1. /\ plan \in Seq(StepKinds) /\ BranchPlan \in Seq({"discuss", "decide", "dispatch"})
      /\ \A i \in DOMAIN plan : plan[i] = "parallel" => i = 1
  BY ProtocolAssumption
<1>2. /\ \A i \in 1 .. Len(plan) : plan[i] \in StepKinds
      /\ \A i \in 1 .. Len(BranchPlan) : BranchPlan[i] \in {"discuss", "decide", "dispatch"}
      /\ Len(plan) \in Nat /\ Len(BranchPlan) \in Nat /\ DOMAIN plan = 1 .. Len(plan)
  BY <1>1
<1>3. StepsOf(r) \in Seq(StepKinds) /\ Len(StepsOf(r)) \in Nat
  <2>1. BranchPlan \in Seq(StepKinds)
    BY <1>1 DEF StepKinds
  <2> QED BY <1>1, <2>1 DEF StepsOf
<1>4. ASSUME NEW row \in Sessions
      PROVE  /\ KindOf(r, row) \in StepKinds \cup {"end"}
             /\ KindOf(r, row) # "end" <=> row.step <= Len(StepsOf(r))
             /\ KindOf(r, row) \in {"parallel", "join"} => r = MainRun
             /\ KindOf(r, row) = "parallel" => row.step = 1
  <2>1. row.step \in Nat \ {0}
    BY DEF Sessions
  <2> QED BY <1>1, <1>2, <1>3, <2>1 DEF KindOf, StepsOf, StepKinds
<1> QED BY <1>3, <1>4

\* A row at the same step.
LEMMA SameStepInPlan ==
  ASSUME NEW r, NEW row, InPlan(r, row), NEW next \in Sessions, next.step = row.step,
         next.errand # NoErrand => next.errand = row.errand \/ KindOf(r, row) = "dispatch",
         next.status = "waiting" => row.status = "waiting" \/ r = MainRun \/ KindOf(r, row) = "dispatch"
  PROVE  InPlan(r, next)
<1>1. KindOf(r, next) = KindOf(r, row)
  BY DEF KindOf
<1>2. r = MainRun => r \notin Branches
  BY ProtocolAssumption
<1> QED BY <1>1, <1>2 DEF InPlan

\* A row one step further, and one behind the last step.
LEMMA NextStepInPlan ==
  ASSUME plan \in Plans, NEW r \in Runs, NEW row, InPlan(r, row), NEW next \in Sessions,
         \/ next.step = row.step + 1 /\ KindOf(r, row) # "end"
         \/ next.step = Len(StepsOf(r)) + 1,
         next.errand = NoErrand, next.status = "waiting" => r = MainRun
  PROVE  InPlan(r, next)
<1>1. Len(StepsOf(r)) \in Nat /\ row.step \in Nat /\ row \in Sessions
  BY StepsOfRun DEF InPlan, Sessions
<1>2. next.step <= Len(StepsOf(r)) + 1
  BY <1>1, StepsOfRun
<1>3. r = MainRun => r \notin Branches
  BY ProtocolAssumption
<1> QED BY <1>2, <1>3 DEF InPlan

LEMMA OnwardFields ==
  ASSUME NEW row \in Sessions
  PROVE  /\ Onward(row) \in Sessions /\ Onward(row).step = row.step + 1
         /\ Onward(row).said = 0 /\ Onward(row).errand = NoErrand
         /\ Onward(row).status = row.status /\ Onward(row).branch = row.branch
         /\ Onward(row).joined = row.joined
<1>1. 0 \in 0 .. Speakers - 1 /\ row.step + 1 \in Nat \ {0}
  BY ProtocolAssumption DEF Sessions
<1>2. [row EXCEPT !.step = @ + 1] \in Sessions
  BY <1>1 DEF Sessions
<1>3. [[row EXCEPT !.step = @ + 1] EXCEPT !.said = 0] \in Sessions
  BY <1>1, <1>2 DEF Sessions
<1>4. [[[row EXCEPT !.step = @ + 1] EXCEPT !.said = 0] EXCEPT !.errand = NoErrand] \in Sessions
  BY <1>3 DEF Sessions
<1>5. Onward(row) = [[[row EXCEPT !.step = @ + 1] EXCEPT !.said = 0] EXCEPT !.errand = NoErrand]
  BY DEF Onward
<1> QED BY <1>4, <1>5 DEF Sessions

\* The parent is told of r; nothing else changes.
LEMMA SyncedFields ==
  ASSUME NEW rows, AllInPlan(rows), NEW r \in Runs
  PROVE  /\ AllInPlan(Synced(rows, r))
         /\ \A s \in Runs : /\ Synced(rows, r)[s].status = rows[s].status
                            /\ Synced(rows, r)[s].step = rows[s].step
                            /\ Synced(rows, r)[s].errand = rows[s].errand
                            /\ Synced(rows, r)[s].joined = rows[s].joined
         /\ \A b \in Branches : Synced(rows, r)[MainRun].branch[b] =
              IF r = b /\ rows[MainRun].branch[b] # "none" THEN rows[b].status
              ELSE rows[MainRun].branch[b]
<1>1. MainRun \in Runs /\ MainRun \notin Branches /\ rows \in [Runs -> Sessions]
  BY ProtocolAssumption DEF Runs, AllInPlan
<1>2. CASE r \in Branches /\ rows[MainRun].branch[r] # "none"
  <2> DEFINE told == [rows EXCEPT ![MainRun].branch[r] = rows[r].status]
             parent == [rows[MainRun] EXCEPT !.branch = [@ EXCEPT ![r] = rows[r].status]]
  <2>1. Synced(rows, r) = told
    BY <1>2 DEF Synced
  <2>2. rows[MainRun] \in Sessions /\ rows[r].status \in RunStatuses
    BY <1>1 DEF Sessions
  <2>3. /\ parent \in Sessions
        /\ parent.status = rows[MainRun].status /\ parent.step = rows[MainRun].step
        /\ parent.errand = rows[MainRun].errand /\ parent.joined = rows[MainRun].joined
        /\ \A b \in Branches :
             parent.branch[b] = IF r = b THEN rows[b].status ELSE rows[MainRun].branch[b]
    BY <2>2, <1>2 DEF Sessions
  <2>4. told = [rows EXCEPT ![MainRun] = parent]
    BY <1>1, <2>2 DEF Sessions
  <2>5. told \in [Runs -> Sessions] /\ told[MainRun] = parent
        /\ \A s \in Branches : told[s] = rows[s]
    <3> HIDE DEF told, parent
    <3> QED BY <1>1, <2>3, <2>4 DEF Runs
  <2>6. InPlan(MainRun, rows[MainRun])
    BY <1>1 DEF AllInPlan
  <2>7. InPlan(MainRun, parent)
    <3> HIDE DEF parent
    <3> QED BY <2>3, <2>6, SameStepInPlan
  <2> HIDE DEF told, parent
  <2>8. AllInPlan(told)
    BY <2>5, <2>7 DEF AllInPlan, Runs
  <2> QED BY <1>2, <2>1, <2>3, <2>5, <2>8 DEF Runs
<1>3. CASE ~(r \in Branches /\ rows[MainRun].branch[r] # "none")
  <2>1. Synced(rows, r) = rows
    BY <1>3 DEF Synced
  <2> QED BY <1>3, <2>1
<1> QED BY <1>2, <1>3

\* One row is written.
LEMMA PutInPlan ==
  ASSUME AllInPlan(stored), NEW r \in Runs, NEW row, InPlan(r, row)
  PROVE  /\ AllInPlan([stored EXCEPT ![r] = row])
         /\ [stored EXCEPT ![r] = row][r] = row
         /\ \A s \in Runs \ {r} : [stored EXCEPT ![r] = row][s] = stored[s]
BY DEF AllInPlan, InPlan

-----------------------------------------------------------------------------
(* What a step writes *)

Puts(r, row) == stored' = [stored EXCEPT ![r] = row]
Tells(r, row) == stored' = Synced([stored EXCEPT ![r] = row], r)

\* Every row and every execution is as RunsInv wants it, in the next state.
StaysInPlan == AllInPlan(stored') /\ AreEntries(execution', stored')

LEMMA PutFields ==
  ASSUME AllInPlan(stored), NEW r \in Runs, NEW row, InPlan(r, row), Puts(r, row) \/ Tells(r, row)
  PROVE  /\ AllInPlan(stored')
         /\ \A s \in Runs : LET old == IF s = r THEN row ELSE stored[s]
                            IN /\ stored'[s].status = old.status /\ stored'[s].step = old.step
                               /\ stored'[s].joined = old.joined
         /\ \A b \in Branches :
              stored'[MainRun].branch[b] =
                IF r = b /\ Tells(r, row) /\ stored[MainRun].branch[b] # "none" THEN row.status
                ELSE IF r = MainRun THEN row.branch[b] ELSE stored[MainRun].branch[b]
<1> DEFINE rows == [stored EXCEPT ![r] = row]
<1>0. MainRun \in Runs /\ MainRun \notin Branches
  BY ProtocolAssumption DEF Runs
<1>1. AllInPlan(rows) /\ rows[r] = row /\ \A s \in Runs \ {r} : rows[s] = stored[s]
  BY PutInPlan
<1>2. CASE stored' = rows
  <2> HIDE DEF rows
  <2>1. ASSUME Tells(r, row), NEW b \in Branches, r = b
        PROVE  stored[MainRun].branch[b] # "none" => stored'[MainRun].branch[b] = row.status
    <3>1. stored' = Synced(rows, r)
      BY <2>1 DEF Tells, rows
    <3>2. rows[MainRun] = stored[MainRun] /\ rows[b] = row
      BY <1>0, <1>1, <2>1
    <3> QED BY <1>1, <2>1, <3>1, <3>2, SyncedFields
  <2> QED BY <1>0, <1>1, <1>2, <2>1
<1>3. CASE stored' = Synced(rows, r)
  <2>1. Tells(r, row)
    BY <1>3 DEF Tells
  <2> HIDE DEF rows
  <2>2. /\ AllInPlan(stored')
        /\ \A s \in Runs : /\ stored'[s].status = rows[s].status
                           /\ stored'[s].step = rows[s].step
                           /\ stored'[s].joined = rows[s].joined
        /\ \A b \in Branches : stored'[MainRun].branch[b] =
              IF r = b /\ rows[MainRun].branch[b] # "none" THEN rows[b].status
              ELSE rows[MainRun].branch[b]
    BY <1>1, <1>3, SyncedFields
  <2>3. ASSUME NEW b \in Branches
        PROVE  stored'[MainRun].branch[b] =
                 IF r = b /\ Tells(r, row) /\ stored[MainRun].branch[b] # "none" THEN row.status
                 ELSE IF r = MainRun THEN row.branch[b] ELSE stored[MainRun].branch[b]
    <3>1. rows[MainRun] = IF r = MainRun THEN row ELSE stored[MainRun]
      BY <1>0, <1>1
    <3>2. CASE r = b
      <4>1. r # MainRun /\ rows[b] = row
        BY <1>0, <1>1, <3>2
      <4>2. rows[MainRun] = stored[MainRun]
        BY <3>1, <4>1
      <4> QED BY <2>1, <2>2, <3>2, <4>1, <4>2
    <3>3. CASE r # b
      BY <2>2, <3>1, <3>3
    <3> QED BY <3>2, <3>3
  <2> QED BY <1>1, <2>2, <2>3
<1> QED BY <1>2, <1>3 DEF Puts, Tells

\* What is requested is queued where it was off.
LEMMA RequestedEntries ==
  ASSUME NEW all, IsTable(all), NEW p \in Servers, NEW R
  PROVE  \A q \in Servers, s \in Runs :
           Requested(p, R, all)[q][s] =
             IF q = p /\ s \in R /\ all[p][s].at = "off" THEN Queued ELSE all[q][s]
<1> DEFINE line == [r \in Runs |-> IF r \in R /\ all[p][r].at = "off" THEN Queued ELSE all[p][r]]
<1>1. Requested(p, R, all) = [all EXCEPT ![p] = line]
  BY DEF Requested
<1>2. \A q \in Servers : [all EXCEPT ![p] = line][q] = IF q = p THEN line ELSE all[q]
  BY DEF IsTable
<1> HIDE DEF line
<1>3. \A s \in Runs : line[s] = IF s \in R /\ all[p][s].at = "off" THEN Queued ELSE all[p][s]
  BY DEF line
<1> QED BY <1>1, <1>2, <1>3

\* p changes one execution, or none, and requests R.
LEMMA EntriesAfter ==
  ASSUME RunsInv, IsTable(execution), NEW p \in Servers, NEW r \in Runs, NEW e, NEW one, NEW R,
         \/ one = execution
         \/ ReplacesEntry(execution, one, p, r, e) /\ IsEntry(r, e, stored'[r].status),
         execution' = one \/ execution' = Requested(p, R, one),
         \A s \in Runs : s \in R \/ stored[s].status # "none" => stored'[s].status # "none"
  PROVE  AreEntries(execution', stored')
<1>1. IsTable(one)
  BY DEF ReplacesEntry
<1>2. ASSUME NEW q \in Servers, NEW s \in Runs
      PROVE  IsEntry(s, one[q][s], stored'[s].status)
  <2>1. IsEntry(s, execution[q][s], stored[s].status)
    BY DEF RunsInv, AreEntries
  <2>2. one[q][s] = execution[q][s] => IsEntry(s, one[q][s], stored'[s].status)
    BY <2>1 DEF IsEntry
  <2> QED BY <2>2 DEF ReplacesEntry
<1>3. ASSUME NEW q \in Servers, NEW s \in Runs
      PROVE  IsEntry(s, execution'[q][s], stored'[s].status)
  <2>1. s \in R => IsEntry(s, Queued, stored'[s].status)
    BY DEF IsEntry, Queued
  <2>2. execution'[q][s] = one[q][s] \/ (s \in R /\ execution'[q][s] = Queued)
    BY <1>1, RequestedEntries
  <2> QED BY <1>2, <2>1, <2>2
<1> QED BY <1>3 DEF AreEntries

LEMMA EntryReplaced ==
  ASSUME IsTable(execution), NEW p \in Servers, NEW r \in Runs, NEW e
  PROVE  ReplacesEntry(execution, [execution EXCEPT ![p][r] = e], p, r, e)
BY DEF ReplacesEntry, IsTable

LEMMA TellWrites ==
  ASSUME RunsInv, IsTable(execution), NEW p \in Servers, NEW r \in Runs, NEW row, InPlan(r, row),
         row.status # "none", NEW e, NEW one, NEW R, R \subseteq {r},
         \/ one = execution
         \/ ReplacesEntry(execution, one, p, r, e) /\ IsEntry(r, e, row.status),
         Announce(p, r, [stored EXCEPT ![r] = row], R, one)
  PROVE  StaysInPlan /\ Tells(r, row)
<1>1. Tells(r, row)
  BY DEF Announce, Tells
<1>2. /\ AllInPlan(stored')
      /\ \A s \in Runs : stored'[s].status = IF s = r THEN row.status ELSE stored[s].status
  BY <1>1, PutFields DEF RunsInv
<1>3. PICK Q : execution' = Requested(p, Q, one) /\ Q = R \cup ToResume(stored', r)
  BY DEF Announce
<1>4. \A s \in Q : stored'[s].status # "none"
  BY <1>2, <1>3 DEF ToResume
<1>5. AreEntries(execution', stored')
  <2>1. \A s \in Runs : s \in Q \/ stored[s].status # "none" => stored'[s].status # "none"
    BY <1>2, <1>4
  <2> QED BY <1>2, <1>3, <2>1, EntriesAfter
<1> QED BY <1>1, <1>2, <1>5 DEF StaysInPlan

LEMMA LeaveWrites ==
  ASSUME RunsInv, IsTable(execution), NEW p \in Servers, NEW r \in Runs, NEW row, InPlan(r, row),
         row.status # "none", Leave(p, r, [stored EXCEPT ![r] = row])
  PROVE  StaysInPlan /\ Tells(r, row)
<1>1. IsEntry(r, Off, row.status)
  BY DEF IsEntry, Off
<1> QED BY <1>1, EntryReplaced, TellWrites DEF Leave

LEMMA GoOnWrites ==
  ASSUME RunsInv, IsTable(execution), NEW p \in Servers, NEW r \in Runs, NEW row, InPlan(r, row),
         row.status # "none", NEW where, IsEntry(r, where, row.status),
         GoOn(p, r, [stored EXCEPT ![r] = row], where)
  PROVE  StaysInPlan /\ Puts(r, row)
<1>1. Puts(r, row) /\ execution' = [execution EXCEPT ![p][r] = where]
  BY DEF GoOn, Puts
<1>2. /\ AllInPlan(stored')
      /\ \A s \in Runs : stored'[s].status = IF s = r THEN row.status ELSE stored[s].status
  BY <1>1, PutFields DEF RunsInv
<1>3. AreEntries(execution', stored')
  <2> DEFINE one == [execution EXCEPT ![p][r] = where]
             none == {}
  <2>1. \A s \in Runs : s \in none \/ stored[s].status # "none" => stored'[s].status # "none"
    BY <1>2
  <2>2. ReplacesEntry(execution, one, p, r, where) /\ execution' = one
    BY <1>1, EntryReplaced
  <2>3. IsEntry(r, where, stored'[r].status)
    BY <1>2
  <2> HIDE DEF one, none
  <2> QED BY <2>1, <2>2, <2>3, EntriesAfter
<1> QED BY <1>1, <1>2, <1>3 DEF StaysInPlan

LEMMA AfterStepWrites ==
  ASSUME RunsInv, IsTable(execution), NEW p \in Servers, NEW r \in Runs, NEW row, InPlan(r, row),
         row.status # "none", AfterStep(p, r, row)
  PROVE  /\ StaysInPlan
         /\ Tells(r, row) \/ (Puts(r, row) /\ row.status \in {"running", "draft"})
<1>1. IsEntry(r, Between, row.status)
  BY DEF IsEntry, Between
<1> QED BY <1>1, LeaveWrites, GoOnWrites DEF AfterStep

LEMMA RestoredRow ==
  ASSUME AllInPlan(stored), NEW r \in Runs
  PROVE  stored = [stored EXCEPT ![r] = stored[r]] /\ InPlan(r, stored[r])
BY DEF AllInPlan

LEMMA StatusFields ==
  ASSUME NEW row \in Sessions, NEW status \in RunStatuses
  PROVE  /\ [row EXCEPT !.status = status] \in Sessions
         /\ [row EXCEPT !.status = status].status = status
         /\ [row EXCEPT !.status = status].step = row.step
         /\ [row EXCEPT !.status = status].said = row.said
         /\ [row EXCEPT !.status = status].errand = row.errand
         /\ [row EXCEPT !.status = status].branch = row.branch
         /\ [row EXCEPT !.status = status].joined = row.joined
BY DEF Sessions

-----------------------------------------------------------------------------
(* Every step, by what it does to the rows *)

\* A turn of r ends, in some process.
TurnEndsOf(r) ==
  \E p \in Servers : execution[p][r].at = "turn" /\ execution'[p][r] # execution[p][r]

KeepsEnd(r, row) == stored[r].status \in Terminals => row.status \in Terminals

\* row follows the stored row of r: the cursor never goes back, a join is passed where
\* the cursor is on it and every branch has ended, and what was stopped goes on only
\* by an operator or at the end of a turn.  The parent is told of an end undone.
CarriesOn(r, row) ==
  /\ row.step >= stored[r].step /\ row.branch = stored[r].branch
  /\ row.joined # stored[r].joined =>
       r = MainRun /\ KindOf(MainRun, stored[MainRun]) = "join" /\ JoinReady(stored[MainRun])
  /\ stored[r].status \in Halted /\ row.status # stored[r].status =>
       upsets' # upsets \/ TurnEndsOf(r)
  /\ Tells(r, row) \/ KeepsEnd(r, row)

\* row follows the copy of a turn that ends; revived keeps an end undone.
ComesFromTurn(r, row) ==
  /\ \E p \in Servers :
       /\ execution[p][r].at = "turn" /\ execution'[p][r] # execution[p][r]
       /\ row.step >= execution[p][r].copy.step /\ row.joined = execution[p][r].copy.joined
  /\ Tells(r, row) \/ KeepsEnd(r, row) \/ r \in revived' \/ r = MainRun

RowWritten(r, row) ==
  /\ InPlan(r, row) /\ (Puts(r, row) \/ Tells(r, row))
  /\ row.status # "none" /\ (r \in Branches => stored[r].status # "none")
  /\ CarriesOn(r, row) \/ ComesFromTurn(r, row)

\* The parallel step of the main run.
Forks ==
  LET old == stored[MainRun]
      new == stored'[MainRun]
  IN /\ KindOf(MainRun, old) = "parallel" /\ old.status \notin Halted
     /\ new.step = old.step + 1 /\ new.joined = old.joined
     /\ \A b \in Branches : new.branch[b] \notin Terminals

\* Runs that waited are woken; the main run may learn what has become of its branches.
Wakes ==
  /\ \A r \in Runs : /\ \/ stored'[r].status = stored[r].status
                        \/ stored[r].status = "waiting" /\ stored'[r].status = "running"
                     /\ stored'[r].step >= stored[r].step
                     /\ stored'[r].joined = stored[r].joined
  /\ \A b \in Branches :
       stored'[MainRun].branch[b] \in {stored[MainRun].branch[b], stored[b].status}

Outcome ==
  /\ StaysInPlan
  /\ stored' = stored \/ Forks \/ Wakes \/ \E r \in Runs, row \in Sessions : RowWritten(r, row)

\* The steps of EndOfExecution that write nothing.
LEMMA NoRowWritten ==
  ASSUME RunsInv, IsTable(execution), NEW p \in Servers, NEW r \in Runs,
         execution' = [execution EXCEPT ![p][r] = Off], stored' = stored
  PROVE  Outcome
<1> DEFINE one == [execution EXCEPT ![p][r] = Off]
           none == {}
<1>1. ReplacesEntry(execution, one, p, r, Off)
  BY EntryReplaced
<1>2. IsEntry(r, Off, stored'[r].status)
  BY DEF IsEntry, Off
<1>3. \A s \in Runs : s \in none \/ stored[s].status # "none" => stored'[s].status # "none"
  OBVIOUS
<1>4. execution' = one
  OBVIOUS
<1> HIDE DEF one, none
<1>5. AreEntries(execution', stored')
  BY <1>1, <1>2, <1>3, <1>4, EntriesAfter
<1> QED BY <1>5 DEF Outcome, StaysInPlan, RunsInv

LEMMA StartRunOutcome ==
  ASSUME RunsInv, IsTable(execution), NEW p \in Servers, NEW r \in Runs, StartRun(p, r)
  PROVE  Outcome
<1>0. /\ stored = [stored EXCEPT ![r] = stored[r]] /\ InPlan(r, stored[r]) /\ stored[r] \in Sessions
  BY RestoredRow DEF RunsInv, InPlan
<1>1. CASE execution' = [execution EXCEPT ![p][r] = Off] /\ stored' = stored
  BY <1>1, NoRowWritten
<1>2. CASE /\ stored[r].status = "failed"
           /\ Announce(p, r, stored, {}, [execution EXCEPT ![p][r] = Off])
  <2> DEFINE one == [execution EXCEPT ![p][r] = Off]
             none == {}
             row == stored[r]
  <2>1. ReplacesEntry(execution, one, p, r, Off) /\ IsEntry(r, Off, row.status)
    BY EntryReplaced DEF IsEntry, Off
  <2>2. Announce(p, r, [stored EXCEPT ![r] = row], none, one) /\ none \subseteq {r}
    BY <1>0, <1>2
  <2>3. InPlan(r, row) /\ row.status # "none"
    BY <1>0, <1>2
  <2> HIDE DEF one, none, row
  <2>4. StaysInPlan /\ Tells(r, row)
    BY <2>1, <2>2, <2>3, TellWrites
  <2>5. CarriesOn(r, row)
    BY <1>0, <2>4 DEF CarriesOn, row, Sessions
  <2> QED BY <1>0, <2>3, <2>4, <2>5 DEF Outcome, RowWritten, row
<1>3. ASSUME stored[r].status \in {"draft", "running", "waiting"},
             NEW status, status = IF stored[r].status = "waiting" THEN "running" ELSE stored[r].status,
             NEW row, row = [stored[r] EXCEPT !.status = status],
             Announce(p, r, [stored EXCEPT ![r] = row], {}, [execution EXCEPT ![p][r] = Between])
      PROVE  Outcome
  <2> DEFINE one == [execution EXCEPT ![p][r] = Between]
             none == {}
  <2>0. status \in RunStatuses /\ status \in {"draft", "running"}
    BY <1>3 DEF RunStatuses
  <2>1. /\ row \in Sessions /\ row.status = status /\ row.step = stored[r].step
        /\ row.errand = stored[r].errand /\ row.branch = stored[r].branch
        /\ row.joined = stored[r].joined
    BY <1>0, <1>3, <2>0, StatusFields
  <2>2. InPlan(r, row) /\ row.status # "none"
    BY <1>0, <2>0, <2>1, SameStepInPlan
  <2>3. ReplacesEntry(execution, one, p, r, Between) /\ IsEntry(r, Between, row.status)
    BY <2>2, EntryReplaced DEF IsEntry, Between
  <2>4. Announce(p, r, [stored EXCEPT ![r] = row], none, one) /\ none \subseteq {r}
    BY <1>3
  <2> HIDE DEF one, none
  <2>5. StaysInPlan /\ Tells(r, row)
    BY <2>2, <2>3, <2>4, TellWrites
  <2>6. stored[r].status \notin Halted /\ stored[r].status # "none"
    BY <1>3 DEF Halted
  <2>7. CarriesOn(r, row)
    <3>1. row.step >= stored[r].step
      BY <1>0, <2>1 DEF Sessions
    <3> QED BY <2>1, <2>5, <2>6, <3>1 DEF CarriesOn
  <2> QED BY <2>1, <2>2, <2>5, <2>6, <2>7 DEF Outcome, RowWritten
<1> QED BY <1>1, <1>2, <1>3 DEF StartRun

LEMMA BegunFields ==
  ASSUME NEW row \in Sessions
  PROVE  /\ Begun(row) \in Sessions /\ Begun(row).step = row.step /\ Begun(row).said = row.said
         /\ Begun(row).errand = row.errand /\ Begun(row).branch = row.branch
         /\ Begun(row).joined = row.joined
         /\ Begun(row).status = (IF row.status = "draft" THEN "running" ELSE row.status)
<1> DEFINE status == IF row.status = "draft" THEN "running" ELSE row.status
<1>1. status \in RunStatuses
  BY DEF Sessions, RunStatuses
<1>2. Begun(row) = [row EXCEPT !.status = status]
  BY DEF Begun
<1> HIDE DEF status
<1>3. status = (IF row.status = "draft" THEN "running" ELSE row.status)
  BY DEF status
<1> QED BY <1>1, <1>2, <1>3, StatusFields

\* A step writes a row that follows the one it has read, and its execution goes on or ends.
LEMMA StepFollows ==
  ASSUME RunsInv, IsTable(execution), NEW p \in Servers, NEW r \in Runs, NEW row \in Sessions,
         execution[p][r].at = "between", stored[r].status \notin Halted,
         InPlan(r, row), row.status # "none",
         row.step >= stored[r].step, row.branch = stored[r].branch,
         row.joined # stored[r].joined =>
           r = MainRun /\ KindOf(MainRun, stored[MainRun]) = "join" /\ JoinReady(stored[MainRun]),
         \/ Leave(p, r, [stored EXCEPT ![r] = row])
         \/ /\ KeepsEnd(r, row)
            /\ \E where : IsEntry(r, where, row.status) /\ GoOn(p, r, [stored EXCEPT ![r] = row], where)
  PROVE  Outcome
<1>1. StaysInPlan /\ (Puts(r, row) \/ Tells(r, row)) /\ (Tells(r, row) \/ KeepsEnd(r, row))
  BY LeaveWrites, GoOnWrites
<1>2. stored[r].status # "none"
  BY DEF RunsInv, AreEntries, IsEntry
<1>3. CarriesOn(r, row)
  BY <1>1 DEF CarriesOn
<1> QED BY <1>1, <1>2, <1>3 DEF Outcome, RowWritten

\* AfterStep, for StepFollows.  A failed run is not carried on as a running one.
LEMMA AfterStepFollows ==
  ASSUME NEW p, NEW r, NEW row, AfterStep(p, r, row), row.status # "none",
         stored[r].status \in Terminals => row.status \notin {"running", "draft"}
  PROVE  \/ Leave(p, r, [stored EXCEPT ![r] = row])
         \/ /\ KeepsEnd(r, row)
            /\ \E where : IsEntry(r, where, row.status) /\ GoOn(p, r, [stored EXCEPT ![r] = row], where)
<1>1. IsEntry(r, Between, row.status)
  BY DEF IsEntry, Between
<1> QED BY <1>1 DEF AfterStep, KeepsEnd

LEMMA ThrowsFollows ==
  ASSUME RunsInv, IsTable(execution), NEW p \in Servers, NEW r \in Runs,
         execution[p][r].at = "between", stored[r].status \notin Halted, Throws(p, r)
  PROVE  Outcome
<1> DEFINE row == [stored[r] EXCEPT !.status = "failed"]
<1>0. InPlan(r, stored[r]) /\ stored[r] \in Sessions /\ "failed" \in RunStatuses
  BY DEF RunsInv, AllInPlan, InPlan, RunStatuses, Terminals
<1>1. /\ row \in Sessions /\ row.status = "failed" /\ row.step = stored[r].step
      /\ row.errand = stored[r].errand /\ row.branch = stored[r].branch
      /\ row.joined = stored[r].joined
  BY <1>0, StatusFields
<1>2. Leave(p, r, [stored EXCEPT ![r] = row])
  BY DEF Throws
<1> HIDE DEF row
<1>3. InPlan(r, row) /\ row.step >= stored[r].step
  BY <1>0, <1>1, SameStepInPlan DEF Sessions
<1> QED BY <1>1, <1>2, <1>3, StepFollows

LEMMA JoinFollows ==
  ASSUME RunsInv, IsTable(execution), NEW p \in Servers, NEW r \in Runs,
         execution[p][r].at = "between", stored[r].status \notin Halted,
         NEW row, row = Begun(stored[r]), KindOf(r, row) = "join", Join(p, r, row)
  PROVE  Outcome
<1>0. InPlan(r, stored[r]) /\ stored[r] \in Sessions /\ plan \in Plans
  BY DEF RunsInv, AllInPlan, InPlan
<1>1. /\ row \in Sessions /\ row.step = stored[r].step /\ row.branch = stored[r].branch
      /\ row.errand = stored[r].errand /\ row.joined = stored[r].joined
      /\ row.status = (IF stored[r].status = "draft" THEN "running" ELSE stored[r].status)
  BY <1>0, BegunFields
<1>2. KindOf(r, stored[r]) = "join" /\ r = MainRun
  BY <1>0, <1>1, StepsOfRun DEF KindOf
<1>3. stored[r].status # "none" /\ row.status # "none"
  BY <1>1 DEF RunsInv, AreEntries, IsEntry
<1>4. InPlan(r, row)
  BY <1>0, <1>1, <1>2, SameStepInPlan
<1>5. CASE Throws(p, r)
  BY <1>5, ThrowsFollows
<1>6. CASE AfterStep(p, r, [row EXCEPT !.status = "waiting"])
  <2> DEFINE next == [row EXCEPT !.status = "waiting"]
  <2>1. /\ next \in Sessions /\ next.status = "waiting" /\ next.step = row.step
        /\ next.errand = row.errand /\ next.branch = row.branch /\ next.joined = row.joined
    BY <1>1, StatusFields DEF RunStatuses
  <2>2. AfterStep(p, r, next)
    BY <1>6
  <2> HIDE DEF next
  <2>3. InPlan(r, next) /\ next.step >= stored[r].step
    BY <1>1, <1>2, <1>4, <2>1, SameStepInPlan DEF Sessions
  <2>4. Leave(p, r, [stored EXCEPT ![r] = next])
    BY <2>1, <2>2 DEF AfterStep
  <2> QED BY <1>1, <2>1, <2>3, <2>4, StepFollows
<1>7. CASE JoinReady(row) /\ AfterStep(p, r, [Onward(row) EXCEPT !.joined = TRUE])
  <2> DEFINE next == [Onward(row) EXCEPT !.joined = TRUE]
  <2>1. /\ next \in Sessions /\ next.status = row.status /\ next.step = row.step + 1
        /\ next.errand = NoErrand /\ next.branch = row.branch
    <3>1. /\ Onward(row) \in Sessions /\ Onward(row).step = row.step + 1
          /\ Onward(row).errand = NoErrand /\ Onward(row).status = row.status
          /\ Onward(row).branch = row.branch
      BY <1>1, OnwardFields
    <3>2. ASSUME NEW n \in Sessions
          PROVE  /\ [n EXCEPT !.joined = TRUE] \in Sessions
                 /\ [n EXCEPT !.joined = TRUE].status = n.status
                 /\ [n EXCEPT !.joined = TRUE].step = n.step
                 /\ [n EXCEPT !.joined = TRUE].errand = n.errand
                 /\ [n EXCEPT !.joined = TRUE].branch = n.branch
      BY DEF Sessions
    <3> QED BY <3>1, <3>2
  <2>2. AfterStep(p, r, next)
    BY <1>7
  <2> HIDE DEF next
  <2>3. InPlan(r, next)
    BY <1>0, <1>2, <1>4, <2>1, NextStepInPlan
  <2>4. next.step >= stored[r].step
    BY <1>0, <1>1, <2>1 DEF Sessions
  <2>5. JoinReady(stored[MainRun])
    BY <1>1, <1>2, <1>7 DEF JoinReady
  <2>6. stored[r].status \in Terminals => next.status \notin {"running", "draft"}
    BY <1>1, <2>1 DEF Terminals
  <2>7. \/ Leave(p, r, [stored EXCEPT ![r] = next])
        \/ /\ KeepsEnd(r, next)
           /\ \E where : IsEntry(r, where, next.status) /\ GoOn(p, r, [stored EXCEPT ![r] = next], where)
    BY <1>3, <2>1, <2>2, <2>6, AfterStepFollows
  <2>8. next.status # "none" /\ next.branch = stored[r].branch
    BY <1>1, <1>3, <2>1
  <2> QED BY <1>2, <2>1, <2>3, <2>4, <2>5, <2>7, <2>8, StepFollows
<1> QED BY <1>5, <1>6, <1>7 DEF Join

LEMMA DispatchFollows ==
  ASSUME RunsInv, IsTable(execution), NEW p \in Servers, NEW r \in Runs,
         execution[p][r].at = "between", stored[r].status \notin Halted,
         NEW row, row = Begun(stored[r]), KindOf(r, row) = "dispatch", Dispatch(p, r, row)
  PROVE  Outcome
<1>0. InPlan(r, stored[r]) /\ stored[r] \in Sessions /\ plan \in Plans
  BY DEF RunsInv, AllInPlan, InPlan
<1>1. /\ row \in Sessions /\ row.step = stored[r].step /\ row.branch = stored[r].branch
      /\ row.joined = stored[r].joined
  BY <1>0, BegunFields
<1>2. PICK t \in Errands : AfterStep(p, r, [row EXCEPT !.status = "waiting", !.errand = t])
  BY DEF Dispatch
<1> DEFINE next == [row EXCEPT !.status = "waiting", !.errand = t]
<1>3. /\ next \in Sessions /\ next.status = "waiting" /\ next.step = row.step
      /\ next.errand = t /\ next.branch = row.branch /\ next.joined = row.joined
  BY <1>1 DEF Sessions, RunStatuses
<1>4. AfterStep(p, r, next)
  BY <1>2
<1> HIDE DEF next
<1>5. InPlan(r, next) /\ next.step >= stored[r].step
  <2>1. KindOf(r, next) = "dispatch" /\ KindOf(r, row) = KindOf(r, stored[r])
    BY <1>1, <1>3 DEF KindOf
  <2> QED BY <1>0, <1>1, <1>3, <2>1, SameStepInPlan DEF Sessions
<1>6. Leave(p, r, [stored EXCEPT ![r] = next])
  BY <1>3, <1>4 DEF AfterStep
<1> QED BY <1>1, <1>3, <1>5, <1>6, StepFollows

LEMMA FreshSession ==
  /\ NoSession \in Sessions /\ NoSession.status = "none" /\ NoSession.step = 1
  /\ NoSession.errand = NoErrand /\ NoSession.joined = FALSE
  /\ \A b \in Branches : NoSession.branch[b] = "none"
<1>1. 0 \in 0 .. Speakers - 1 /\ 1 \in Nat \ {0} /\ "none" \in RunStatuses
  BY ProtocolAssumption DEF RunStatuses
<1>2. [b \in Branches |-> "none"] \in [Branches -> RunStatuses]
  BY <1>1
<1> QED BY <1>1, <1>2 DEF NoSession, Sessions

LEMMA ForkFollows ==
  ASSUME RunsInv, IsTable(execution), NEW p \in Servers, NEW r \in Runs,
         execution[p][r].at = "between", stored[r].status \notin Halted,
         NEW row, row = Begun(stored[r]), KindOf(r, row) = "parallel", Fork(p, r, row)
  PROVE  Outcome
<1> DEFINE child == [NoSession EXCEPT !.status = "draft"]
           parent == [Onward(row) EXCEPT !.status = "waiting",
                                         !.branch = [b \in Branches |-> "draft"]]
           one == [execution EXCEPT ![p][r] = Off]
           rows == [s \in Runs |-> IF s = r THEN parent ELSE child]
<1>0. InPlan(r, stored[r]) /\ stored[r] \in Sessions /\ plan \in Plans
  BY DEF RunsInv, AllInPlan, InPlan
<1>1. /\ row \in Sessions /\ row.step = stored[r].step /\ row.joined = stored[r].joined
      /\ row.errand = stored[r].errand
  BY <1>0, BegunFields
<1>2. r = MainRun /\ KindOf(r, stored[r]) = "parallel"
  BY <1>0, <1>1, StepsOfRun DEF KindOf
<1>3. \A s \in Runs : s # r <=> s \in Branches
  BY <1>2, ProtocolAssumption DEF Runs
<1>4. child \in Sessions /\ child.status = "draft" /\ child.step = 1 /\ child.errand = NoErrand
  BY FreshSession, StatusFields DEF RunStatuses
<1>5. /\ parent \in Sessions /\ parent.status = "waiting" /\ parent.step = row.step + 1
      /\ parent.errand = NoErrand /\ parent.joined = row.joined
      /\ \A b \in Branches : parent.branch[b] = "draft"
  <2>1. /\ Onward(row) \in Sessions /\ Onward(row).step = row.step + 1
        /\ Onward(row).errand = NoErrand /\ Onward(row).joined = row.joined
    BY <1>1, OnwardFields
  <2>2. ASSUME NEW n \in Sessions, NEW view \in [Branches -> RunStatuses]
        PROVE  /\ [n EXCEPT !.status = "waiting", !.branch = view] \in Sessions
               /\ [n EXCEPT !.status = "waiting", !.branch = view].status = "waiting"
               /\ [n EXCEPT !.status = "waiting", !.branch = view].step = n.step
               /\ [n EXCEPT !.status = "waiting", !.branch = view].errand = n.errand
               /\ [n EXCEPT !.status = "waiting", !.branch = view].joined = n.joined
               /\ [n EXCEPT !.status = "waiting", !.branch = view].branch = view
    BY DEF Sessions, RunStatuses
  <2> DEFINE view == [b \in Branches |-> "draft"]
             next == Onward(row)
  <2>3. view \in [Branches -> RunStatuses] /\ \A b \in Branches : view[b] = "draft"
    BY DEF RunStatuses
  <2>4. parent = [next EXCEPT !.status = "waiting", !.branch = view]
    OBVIOUS
  <2> HIDE DEF view, parent
  <2>5. /\ parent \in Sessions /\ parent.status = "waiting" /\ parent.step = next.step
        /\ parent.errand = next.errand /\ parent.joined = next.joined /\ parent.branch = view
    <3> HIDE DEF next
    <3> QED BY <2>1, <2>2, <2>3, <2>4 DEF next
  <2> QED BY <2>1, <2>3, <2>5
<1>6. /\ stored' = rows
      /\ \E R : execution' = Requested(p, R, one) /\ R \subseteq Branches
  BY <1>3 DEF Fork
<1>7. rows[r] = parent /\ \A s \in Runs \ {r} : rows[s] = child
  OBVIOUS
<1>8. rows \in [Runs -> Sessions]
  BY <1>4, <1>5
<1> HIDE DEF child, parent, rows
<1>9. InPlan(r, parent)
  <2>1. InPlan(r, row)
    BY <1>0, <1>1, <1>2, SameStepInPlan
  <2> QED BY <1>0, <1>2, <1>5, <2>1, NextStepInPlan
<1>10. ASSUME NEW s \in Runs PROVE InPlan(s, rows[s])
  <2>1. CASE s = r
    BY <1>7, <1>9, <2>1
  <2>2. CASE s # r
    <3>1. Len(StepsOf(s)) \in Nat /\ rows[s] = child
      BY <1>0, <1>7, <2>2, StepsOfRun
    <3> QED BY <1>4, <3>1 DEF InPlan
  <2> QED BY <2>1, <2>2
<1>11. AllInPlan(stored')
  BY <1>6, <1>8, <1>10 DEF AllInPlan
<1>12. \A s \in Runs : stored'[s].status # "none"
  BY <1>4, <1>5, <1>6, <1>7
<1>13. AreEntries(execution', stored')
  <2>1. ReplacesEntry(execution, one, p, r, Off) /\ IsEntry(r, Off, stored'[r].status)
    BY EntryReplaced DEF IsEntry, Off
  <2>2. PICK R : execution' = Requested(p, R, one)
    BY <1>6
  <2> HIDE DEF one
  <2>3. \A s \in Runs : s \in R \/ stored[s].status # "none" => stored'[s].status # "none"
    BY <1>12
  <2> QED BY <2>1, <2>2, <2>3, EntriesAfter
<1>14. Forks
  <2>1. stored'[MainRun] = parent /\ MainRun = r
    BY <1>2, <1>6, <1>7
  <2>2. \A b \in Branches : parent.branch[b] \notin Terminals
    BY <1>5 DEF Terminals
  <2> QED BY <1>1, <1>2, <1>5, <2>1, <2>2 DEF Forks
<1> QED BY <1>11, <1>13, <1>14 DEF Outcome, StaysInPlan

LEMMA StepRunOutcome ==
  ASSUME RunsInv, IsTable(execution), NEW p \in Servers, NEW r \in Runs, StepRun(p, r)
  PROVE  Outcome
<1> DEFINE row == Begun(stored[r])
<1>0. InPlan(r, stored[r]) /\ stored[r] \in Sessions /\ plan \in Plans
  BY DEF RunsInv, AllInPlan, InPlan
<1>1. execution[p][r].at = "between" /\ stored[r].status # "none"
  BY DEF StepRun, RunsInv, AreEntries, IsEntry
<1>2. /\ row \in Sessions /\ row.step = stored[r].step /\ row.branch = stored[r].branch
      /\ row.errand = stored[r].errand /\ row.joined = stored[r].joined
      /\ row.status = (IF stored[r].status = "draft" THEN "running" ELSE stored[r].status)
  BY <1>0, BegunFields
<1>3. \/ stored[r].status \in Halted /\ Leave(p, r, stored)
      \/ /\ stored[r].status \notin Halted
         /\ \/ KindOf(r, row) = "end" /\ AfterStep(p, r, [row EXCEPT !.status = "completed"])
            \/ /\ KindOf(r, row) \in TurnKinds
               /\ GoOn(p, r, [stored EXCEPT ![r] = row], [at |-> "turn", copy |-> row])
            \/ KindOf(r, row) = "parallel" /\ Fork(p, r, row)
            \/ KindOf(r, row) = "join" /\ Join(p, r, row)
            \/ KindOf(r, row) = "dispatch" /\ Dispatch(p, r, row)
  BY DEF StepRun, Stopped, TurnKinds
<1> HIDE DEF row
<1>4. InPlan(r, row) /\ row.step >= stored[r].step /\ row.status \notin {"none", "draft"}
  BY <1>0, <1>1, <1>2, SameStepInPlan DEF Sessions
<1>5. CASE stored[r].status \in Halted /\ Leave(p, r, stored)
  <2> DEFINE same == stored[r]
  <2>1. Leave(p, r, [stored EXCEPT ![r] = same]) /\ InPlan(r, same) /\ same.status # "none"
    BY <1>1, <1>5, RestoredRow DEF RunsInv
  <2>2. same.step >= stored[r].step
    BY <1>0 DEF Sessions
  <2>3. same = stored[r]
    OBVIOUS
  <2> HIDE DEF same
  <2>4. StaysInPlan /\ Tells(r, same)
    BY <2>1, LeaveWrites
  <2> QED BY <1>0, <1>1, <2>1, <2>2, <2>3, <2>4 DEF Outcome, RowWritten, CarriesOn
<1>6. CASE /\ stored[r].status \notin Halted /\ KindOf(r, row) = "end"
           /\ AfterStep(p, r, [row EXCEPT !.status = "completed"])
  <2> DEFINE next == [row EXCEPT !.status = "completed"]
  <2>1. /\ next \in Sessions /\ next.status = "completed" /\ next.step = row.step
        /\ next.errand = row.errand /\ next.branch = row.branch /\ next.joined = row.joined
    BY <1>2, StatusFields DEF RunStatuses, Terminals
  <2>2. AfterStep(p, r, next)
    BY <1>6
  <2> HIDE DEF next
  <2>3. InPlan(r, next) /\ next.step >= stored[r].step
    BY <1>4, <2>1, SameStepInPlan
  <2>4. Leave(p, r, [stored EXCEPT ![r] = next])
    BY <2>1, <2>2 DEF AfterStep
  <2> QED BY <1>1, <1>2, <1>6, <2>1, <2>3, <2>4, StepFollows
<1>7. CASE /\ stored[r].status \notin Halted /\ KindOf(r, row) \in TurnKinds
           /\ GoOn(p, r, [stored EXCEPT ![r] = row], [at |-> "turn", copy |-> row])
  <2>0. row.status \in {"running", "waiting", "failed"}
    BY <1>2, <1>4, <1>7 DEF Halted, Sessions, RunStatuses, Terminals
  <2>1. IsEntry(r, [at |-> "turn", copy |-> row], row.status)
    BY <1>4, <1>7, <2>0 DEF IsEntry, IsCopy
  <2>2. KeepsEnd(r, row)
    BY <1>2 DEF KeepsEnd, Terminals
  <2>3. \E where : IsEntry(r, where, row.status) /\ GoOn(p, r, [stored EXCEPT ![r] = row], where)
    BY <1>7, <2>1
  <2> QED BY <1>1, <1>2, <1>4, <1>7, <2>2, <2>3, StepFollows
<1>8. CASE stored[r].status \notin Halted /\ KindOf(r, row) = "parallel" /\ Fork(p, r, row)
  BY <1>1, <1>8, ForkFollows DEF row
<1>9. CASE stored[r].status \notin Halted /\ KindOf(r, row) = "join" /\ Join(p, r, row)
  BY <1>1, <1>9, JoinFollows DEF row
<1>10. CASE stored[r].status \notin Halted /\ KindOf(r, row) = "dispatch" /\ Dispatch(p, r, row)
  BY <1>1, <1>10, DispatchFollows DEF row
<1> QED BY <1>3, <1>5, <1>6, <1>7, <1>8, <1>9, <1>10

LEMMA LeaveEntry ==
  ASSUME IsTable(execution), NEW p \in Servers, NEW r \in Runs, NEW rows, Leave(p, r, rows)
  PROVE  execution'[p][r].at \in {"off", "queued"}
<1> DEFINE one == [execution EXCEPT ![p][r] = Off]
<1>1. ReplacesEntry(execution, one, p, r, Off)
  BY EntryReplaced
<1>2. PICK R : execution' = Requested(p, R, one)
  BY DEF Leave, Announce
<1> HIDE DEF one
<1>3. execution'[p][r] = Queued \/ execution'[p][r] = Off
  BY <1>1, <1>2, RequestedEntries DEF ReplacesEntry
<1> QED BY <1>3 DEF Queued, Off

LEMMA GoOnEntry ==
  ASSUME IsTable(execution), NEW p \in Servers, NEW r \in Runs, NEW rows, NEW where,
         GoOn(p, r, rows, where)
  PROVE  execution'[p][r] = where
BY DEF GoOn, IsTable

LEMMA TurnReturnsOutcome ==
  ASSUME RunsInv, IsTable(execution), NEW p \in Servers, NEW r \in Runs, TurnReturns(p, r)
  PROVE  Outcome
<1> DEFINE c == execution[p][r].copy
<1>0. /\ InPlan(r, stored[r]) /\ stored[r] \in Sessions /\ plan \in Plans
      /\ r \in Branches => r # MainRun
  BY ProtocolAssumption DEF RunsInv, AllInPlan, InPlan
<1>1. /\ execution[p][r].at = "turn" /\ stored[r].status # "none" /\ IsCopy(r, c)
  BY DEF TurnReturns, RunsInv, AreEntries, IsEntry
<1>2. /\ c \in Sessions /\ InPlan(r, c) /\ KindOf(r, c) \in TurnKinds
      /\ c.status \in {"running", "waiting", "failed"}
      /\ c.status = "waiting" => r = MainRun
  BY <1>1 DEF IsCopy, InPlan, TurnKinds, Runs
<1>3. \/ /\ c.said + 1 < Speakers
         /\ GoOn(p, r, [stored EXCEPT ![r] = [c EXCEPT !.said = @ + 1]],
                 [at |-> "turn", copy |-> [c EXCEPT !.said = @ + 1]])
      \/ AfterStep(p, r, Onward(c))
      \/ Throws(p, r)
  BY DEF TurnReturns
<1>4. stored[r].status \in Terminals /\ stored'[r].status = "running" => r \in revived'
  BY DEF TurnReturns
<1> HIDE DEF c
<1>5. ASSUME NEW row \in Sessions, InPlan(r, row), row.status = c.status, row.step >= c.step,
             row.joined = c.joined, StaysInPlan, execution'[p][r] # execution[p][r],
             Tells(r, row) \/ Puts(r, row)
      PROVE  Outcome
  <2>1. stored'[r].status = row.status
    BY <1>5, PutFields DEF RunsInv
  <2>2. Tells(r, row) \/ KeepsEnd(r, row) \/ r \in revived' \/ r = MainRun
    BY <1>2, <1>4, <1>5, <2>1 DEF KeepsEnd, Terminals
  <2>3. ComesFromTurn(r, row)
    BY <1>1, <1>5, <2>2 DEF ComesFromTurn, c
  <2>4. row.status # "none"
    BY <1>2, <1>5
  <2> QED BY <1>1, <1>5, <2>3, <2>4 DEF Outcome, RowWritten
<1>6. CASE /\ c.said + 1 < Speakers
           /\ GoOn(p, r, [stored EXCEPT ![r] = [c EXCEPT !.said = @ + 1]],
                   [at |-> "turn", copy |-> [c EXCEPT !.said = @ + 1]])
  <2> DEFINE next == [c EXCEPT !.said = @ + 1]
             where == [at |-> "turn", copy |-> next]
  <2>0. c.said + 1 \in 0 .. Speakers - 1 /\ c.said + 1 # c.said
    BY <1>2, <1>6, ProtocolAssumption DEF Sessions
  <2>1. /\ next \in Sessions /\ next.said = c.said + 1 /\ next.status = c.status
        /\ next.step = c.step /\ next.errand = c.errand /\ next.joined = c.joined
    BY <1>2, <2>0 DEF Sessions
  <2>2. GoOn(p, r, [stored EXCEPT ![r] = next], where)
    BY <1>6
  <2>3. where.at = "turn" /\ where.copy = next
    OBVIOUS
  <2> HIDE DEF next, where
  <2>4. InPlan(r, next) /\ next.step >= c.step
    BY <1>2, <2>1, SameStepInPlan DEF Sessions
  <2>5. IsEntry(r, where, next.status) /\ next.status # "none"
    <3>1. KindOf(r, next) = KindOf(r, c)
      BY <2>1 DEF KindOf
    <3> QED BY <1>2, <2>1, <2>3, <2>4, <3>1 DEF IsEntry, IsCopy
  <2>6. StaysInPlan /\ Puts(r, next)
    BY <2>2, <2>4, <2>5, GoOnWrites
  <2>7. execution'[p][r] # execution[p][r]
    <3>1. execution'[p][r] = where
      BY <2>2, GoOnEntry
    <3> QED BY <2>0, <2>1, <2>3, <3>1 DEF c
  <2> QED BY <1>5, <2>1, <2>4, <2>6, <2>7
<1>7. CASE AfterStep(p, r, Onward(c))
  <2> DEFINE next == Onward(c)
  <2>1. /\ next \in Sessions /\ next.step = c.step + 1 /\ next.errand = NoErrand
        /\ next.status = c.status /\ next.joined = c.joined
    BY <1>2, OnwardFields
  <2>2. AfterStep(p, r, next)
    BY <1>7
  <2> HIDE DEF next
  <2>3. InPlan(r, next) /\ next.step >= c.step /\ next.status # "none"
    <3>1. KindOf(r, c) # "end" /\ (next.status = "waiting" => r = MainRun)
      BY <1>2, <2>1 DEF TurnKinds
    <3>2. InPlan(r, next)
      BY <1>0, <1>2, <2>1, <3>1, NextStepInPlan
    <3> QED BY <1>2, <2>1, <3>2 DEF Sessions
  <2>4. StaysInPlan /\ (Tells(r, next) \/ Puts(r, next))
    BY <2>2, <2>3, AfterStepWrites
  <2>5. execution'[p][r] # execution[p][r]
    BY <1>1, <2>2, LeaveEntry, GoOnEntry DEF AfterStep, Between
  <2> QED BY <1>5, <2>1, <2>3, <2>4, <2>5
<1>8. CASE Throws(p, r)
  <2> DEFINE row == [stored[r] EXCEPT !.status = "failed"]
  <2>1. /\ row \in Sessions /\ row.status = "failed" /\ row.step = stored[r].step
        /\ row.errand = stored[r].errand /\ row.branch = stored[r].branch
        /\ row.joined = stored[r].joined
    BY <1>0, StatusFields DEF RunStatuses, Terminals
  <2>2. Leave(p, r, [stored EXCEPT ![r] = row])
    BY <1>8 DEF Throws
  <2> HIDE DEF row
  <2>3. InPlan(r, row) /\ row.step >= stored[r].step
    BY <1>0, <2>1, SameStepInPlan DEF Sessions
  <2>4. StaysInPlan /\ Tells(r, row)
    BY <2>1, <2>2, <2>3, LeaveWrites
  <2>5. TurnEndsOf(r)
    BY <1>1, <2>2, LeaveEntry DEF TurnEndsOf
  <2>6. CarriesOn(r, row)
    BY <2>1, <2>3, <2>4, <2>5 DEF CarriesOn
  <2> QED BY <1>1, <2>1, <2>3, <2>4, <2>6 DEF Outcome, RowWritten
<1> QED BY <1>3, <1>6, <1>7, <1>8

LEMMA OperatorFollows ==
  ASSUME RunsInv, IsTable(execution), NEW p \in Servers, NEW r \in Runs, NEW row \in Sessions,
         InPlan(r, row), row.status # "none", row.step >= stored[r].step,
         row.branch = stored[r].branch, row.joined = stored[r].joined,
         stored[r].status \in Halted => upsets' # upsets,
         r \in Branches => stored[r].status # "none",
         NEW R, R \subseteq {r}, Announce(p, r, [stored EXCEPT ![r] = row], R, execution)
  PROVE  Outcome
<1>1. StaysInPlan /\ Tells(r, row)
  <2> DEFINE one == execution
  <2>1. Announce(p, r, [stored EXCEPT ![r] = row], R, one) /\ one = execution
    OBVIOUS
  <2> HIDE DEF one
  <2> QED BY <2>1, TellWrites
<1>2. CarriesOn(r, row)
  BY <1>1 DEF CarriesOn
<1> QED BY <1>1, <1>2 DEF Outcome, RowWritten

LEMMA CreateRunOutcome ==
  ASSUME RunsInv, IsTable(execution), NEW p \in Servers, CreateRun(p)
  PROVE  Outcome
<1> DEFINE row == [stored[MainRun] EXCEPT !.status = "running"]
           R == {MainRun}
<1>0. /\ MainRun \in Runs /\ MainRun \notin Branches /\ InPlan(MainRun, stored[MainRun])
      /\ stored[MainRun] \in Sessions
  BY ProtocolAssumption DEF RunsInv, AllInPlan, InPlan, Runs
<1>1. /\ row \in Sessions /\ row.status = "running" /\ row.step = stored[MainRun].step
      /\ row.errand = stored[MainRun].errand /\ row.branch = stored[MainRun].branch
      /\ row.joined = stored[MainRun].joined
  BY <1>0, StatusFields DEF RunStatuses
<1>2. /\ Announce(p, MainRun, [stored EXCEPT ![MainRun] = row], R, execution)
      /\ R \subseteq {MainRun} /\ stored[MainRun].status = "none"
  BY DEF CreateRun
<1> HIDE DEF row, R
<1>3. InPlan(MainRun, row) /\ row.step >= stored[MainRun].step
  BY <1>0, <1>1, SameStepInPlan DEF Sessions
<1>4. stored[MainRun].status \notin Halted
  BY <1>2 DEF Halted
<1> QED BY <1>0, <1>1, <1>2, <1>3, <1>4, OperatorFollows

LEMMA ActOutcome ==
  ASSUME RunsInv, IsTable(execution), NEW p \in Servers, NEW r \in Runs, Act(p, r)
  PROVE  Outcome
<1> DEFINE old == stored[r]
           none == {}
           self == {r}
<1>0. /\ InPlan(r, old) /\ old \in Sessions /\ old.status # "none" /\ plan \in Plans
      /\ stored \in [Runs -> Sessions] /\ upsets' # upsets /\ old.step >= old.step
  BY DEF Act, Upset, RunsInv, AllInPlan, InPlan, Sessions
<1>1. none \subseteq {r} /\ self \subseteq {r}
  OBVIOUS
<1>2. ASSUME NEW row \in Sessions, InPlan(r, row), row.status # "none", row.step >= old.step,
             row.branch = old.branch, row.joined = old.joined,
             \/ Announce(p, r, [stored EXCEPT ![r] = row], none, execution)
             \/ Announce(p, r, [stored EXCEPT ![r] = row], self, execution)
      PROVE  Outcome
  <2> HIDE DEF none, self
  <2>1. row.step >= stored[r].step /\ row.branch = stored[r].branch /\ row.joined = stored[r].joined
    BY <1>2
  <2> HIDE DEF old
  <2>2. stored[r].status # "none"
    BY <1>0 DEF old
  <2> QED BY <1>0, <1>1, <1>2, <2>1, <2>2, OperatorFollows
<1>3. ASSUME NEW status \in {"cancelled", "paused", "archived", "running"}
      PROVE  /\ [old EXCEPT !.status = status] \in Sessions
             /\ [old EXCEPT !.status = status].status # "none"
             /\ [old EXCEPT !.status = status].step >= old.step
             /\ [old EXCEPT !.status = status].branch = old.branch
             /\ [old EXCEPT !.status = status].joined = old.joined
             /\ InPlan(r, [old EXCEPT !.status = status])
  <2> DEFINE row == [old EXCEPT !.status = status]
  <2> HIDE DEF old
  <2>1. /\ row \in Sessions /\ row.status = status /\ row.step = old.step
        /\ row.errand = old.errand /\ row.branch = old.branch /\ row.joined = old.joined
    BY <1>0, StatusFields DEF RunStatuses, Terminals
  <2> HIDE DEF row
  <2>2. InPlan(r, row)
    BY <1>0, <2>1, SameStepInPlan
  <2>3. row.status # "none" /\ row.step >= old.step
    BY <1>0, <2>1
  <2>4. row = [old EXCEPT !.status = status]
    BY DEF row
  <2> QED BY <2>1, <2>2, <2>3, <2>4
<1>4. CASE \E end \in {"cancelled", "paused", "archived"} :
             Announce(p, r, [stored EXCEPT ![r].status = end], none, execution)
  <2>1. PICK end \in {"cancelled", "paused", "archived"} :
             Announce(p, r, [stored EXCEPT ![r].status = end], none, execution)
    BY <1>4
  <2> DEFINE row == [old EXCEPT !.status = end]
  <2>2. Announce(p, r, [stored EXCEPT ![r] = row], none, execution)
    BY <2>1
  <2>3. /\ row \in Sessions /\ row.status # "none" /\ row.step >= old.step
        /\ row.branch = old.branch /\ row.joined = old.joined /\ InPlan(r, row)
    BY <1>3
  <2> HIDE DEF row, old, none, self
  <2> QED BY <1>2, <2>2, <2>3
<1>5. CASE Announce(p, r, [stored EXCEPT ![r].status = "running"], self, execution)
  <2> DEFINE row == [old EXCEPT !.status = "running"]
  <2>2. Announce(p, r, [stored EXCEPT ![r] = row], self, execution)
    BY <1>5
  <2>3. /\ row \in Sessions /\ row.status # "none" /\ row.step >= old.step
        /\ row.branch = old.branch /\ row.joined = old.joined /\ InPlan(r, row)
    BY <1>3
  <2> HIDE DEF row, old, none, self
  <2> QED BY <1>2, <2>2, <2>3
<1>6. CASE Announce(p, r, [stored EXCEPT ![r].status = "running", ![r].said = 0,
                                         ![r].errand = NoErrand], self, execution)
  <2> DEFINE row == [old EXCEPT !.status = "running", !.said = 0, !.errand = NoErrand]
  <2>1. [stored EXCEPT ![r].status = "running", ![r].said = 0, ![r].errand = NoErrand]
          = [stored EXCEPT ![r] = row]
    BY <1>0
  <2>2. Announce(p, r, [stored EXCEPT ![r] = row], self, execution)
    BY <1>6, <2>1
  <2>3. 0 \in 0 .. Speakers - 1
    BY ProtocolAssumption
  <2> HIDE DEF old, none, self
  <2>4. /\ row \in Sessions /\ row.status = "running" /\ row.step = old.step
        /\ row.errand = NoErrand /\ row.branch = old.branch /\ row.joined = old.joined
    BY <1>0, <2>3 DEF Sessions, RunStatuses
  <2> HIDE DEF row
  <2>5. InPlan(r, row)
    BY <1>0, <2>4, SameStepInPlan
  <2>6. row.status # "none" /\ row.step >= old.step
    BY <1>0, <2>4
  <2> QED BY <1>2, <2>2, <2>4, <2>5, <2>6
<1>7. ASSUME NEW status, NEW step, NEW row, row = [Onward(old) EXCEPT !.status = status, !.step = step],
             \/ /\ old.step >= Len(StepsOf(r)) /\ status = "completed"
                /\ step = Len(StepsOf(r)) + 1
                /\ Announce(p, r, [stored EXCEPT ![r] = row], none, execution)
             \/ /\ ~(old.step >= Len(StepsOf(r))) /\ status = "running"
                /\ step = Onward(old).step
                /\ Announce(p, r, [stored EXCEPT ![r] = row], self, execution)
      PROVE  Outcome
  <2> DEFINE n == Onward(old)
  <2>1. /\ n \in Sessions /\ n.step = old.step + 1 /\ n.errand = NoErrand
        /\ n.branch = old.branch /\ n.joined = old.joined
    BY <1>0, OnwardFields
  <2>2. Len(StepsOf(r)) \in Nat /\ old.step \in Nat \ {0} /\ old.step <= Len(StepsOf(r)) + 1
    BY <1>0, StepsOfRun DEF Sessions, InPlan
  <2>3. /\ status \in RunStatuses /\ step \in Nat \ {0} /\ step >= old.step
        /\ status \in {"completed", "running"}
    BY <1>7, <2>1, <2>2 DEF RunStatuses, Terminals
  <2>4. row = [n EXCEPT !.status = status, !.step = step]
    BY <1>7
  <2>5. \/ step = old.step + 1 /\ KindOf(r, old) # "end"
        \/ step = Len(StepsOf(r)) + 1
    <3>1. KindOf(r, old) # "end" <=> old.step <= Len(StepsOf(r))
      BY <1>0, StepsOfRun
    <3> HIDE DEF old
    <3> QED BY <1>7, <2>1, <2>2, <3>1
  <2> HIDE DEF n, none, self, old
  <2>6. /\ row \in Sessions /\ row.status = status /\ row.step = step
        /\ row.errand = NoErrand /\ row.branch = old.branch /\ row.joined = old.joined
    BY <2>1, <2>3, <2>4 DEF Sessions
  <2>7. InPlan(r, row)
    BY <1>0, <2>3, <2>5, <2>6, NextStepInPlan
  <2>8. row.status # "none" /\ row.step >= old.step
    BY <2>3, <2>6
  <2> QED BY <1>2, <1>7, <2>6, <2>7, <2>8
<1>8. CASE /\ old.step >= Len(StepsOf(r))
           /\ Announce(p, r, [stored EXCEPT ![r] = [Onward(old) EXCEPT !.status = "completed",
                                              !.step = Len(StepsOf(r)) + 1]], none, execution)
  <2> HIDE DEF old, none, self
  <2> QED BY <1>7, <1>8
<1>9. CASE /\ ~(old.step >= Len(StepsOf(r)))
           /\ Announce(p, r, [stored EXCEPT ![r] = [Onward(old) EXCEPT !.status = "running",
                                              !.step = @]], self, execution)
  <2> HIDE DEF old, none, self
  <2> QED BY <1>7, <1>9
<1> QED BY <1>4, <1>5, <1>6, <1>8, <1>9 DEF Act

\* Runs that wait for a task are woken.
LEMMA AwokenFields ==
  ASSUME plan \in Plans, NEW rows, AllInPlan(rows), NEW R, \A r \in R : rows[r].errand # NoErrand
  PROVE  /\ AllInPlan(Awoken(rows, R))
         /\ \A r \in Runs :
              /\ Awoken(rows, R)[r].status = IF r \in R THEN "running" ELSE rows[r].status
              /\ Awoken(rows, R)[r].step >= rows[r].step
              /\ Awoken(rows, R)[r].joined = rows[r].joined
              /\ Awoken(rows, R)[r].branch = rows[r].branch
<1>1. ASSUME NEW r \in Runs
      PROVE  /\ InPlan(r, Awoken(rows, R)[r]) /\ Awoken(rows, R)[r] \in Sessions
             /\ Awoken(rows, R)[r].status = IF r \in R THEN "running" ELSE rows[r].status
             /\ Awoken(rows, R)[r].step >= rows[r].step
             /\ Awoken(rows, R)[r].joined = rows[r].joined
             /\ Awoken(rows, R)[r].branch = rows[r].branch
  <2>1. InPlan(r, rows[r]) /\ rows[r] \in Sessions /\ rows[r].step \in Nat
    BY DEF AllInPlan, InPlan, Sessions
  <2>2. CASE r \notin R
    <3>1. Awoken(rows, R)[r] = rows[r]
      BY <2>2 DEF Awoken
    <3> QED BY <2>1, <2>2, <3>1
  <2>3. CASE r \in R
    <3> DEFINE n == Onward(rows[r])
               next == [n EXCEPT !.status = "running"]
    <3>1. Awoken(rows, R)[r] = next
      BY <2>3 DEF Awoken
    <3>2. /\ n \in Sessions /\ n.step = rows[r].step + 1 /\ n.errand = NoErrand
          /\ n.branch = rows[r].branch /\ n.joined = rows[r].joined
      BY <2>1, OnwardFields
    <3> HIDE DEF n
    <3>3. /\ next \in Sessions /\ next.status = "running" /\ next.step = rows[r].step + 1
          /\ next.errand = NoErrand /\ next.branch = rows[r].branch /\ next.joined = rows[r].joined
      BY <3>2, StatusFields DEF RunStatuses
    <3> HIDE DEF next
    <3>4. InPlan(r, next)
      <4>1. KindOf(r, rows[r]) # "end"
        BY <2>1, <2>3 DEF InPlan
      <4> QED BY <2>1, <3>3, <4>1, NextStepInPlan
    <3> QED BY <2>1, <2>3, <3>1, <3>3, <3>4
  <2> QED BY <2>2, <2>3
<1>2. Awoken(rows, R) \in [Runs -> Sessions]
  <2>1. Awoken(rows, R) = [r \in Runs |-> Awoken(rows, R)[r]]
    BY DEF Awoken
  <2> QED BY <1>1, <2>1
<1> QED BY <1>1, <1>2 DEF AllInPlan

LEMMA RequestEntries ==
  ASSUME RunsInv, IsTable(execution), NEW p \in Servers, NEW R,
         execution' = Requested(p, R, execution),
         \A s \in Runs : s \in R \/ stored[s].status # "none" => stored'[s].status # "none"
  PROVE  AreEntries(execution', stored')
<1> DEFINE one == execution
<1>1. one = execution /\ execution' = Requested(p, R, one) /\ MainRun \in Runs
  BY DEF Runs
<1> HIDE DEF one
<1> QED BY <1>1, EntriesAfter

LEMMA WakeFromErrandOutcome ==
  ASSUME RunsInv, IsTable(execution), NEW p \in Servers, NEW t \in Errands, WakeFromErrand(p, t)
  PROVE  Outcome
<1> DEFINE R == WaitsFor(stored, t)
<1>1. stored' = Awoken(stored, R) /\ execution' = Requested(p, R, execution)
  BY DEF WakeFromErrand
<1>2. \A r \in R : stored[r].errand # NoErrand /\ stored[r].status = "waiting"
  BY ProtocolAssumption DEF WaitsFor
<1> HIDE DEF R
<1>3. /\ AllInPlan(stored')
      /\ \A r \in Runs :
           /\ stored'[r].status = IF r \in R THEN "running" ELSE stored[r].status
           /\ stored'[r].step >= stored[r].step
           /\ stored'[r].joined = stored[r].joined
           /\ stored'[r].branch = stored[r].branch
  BY <1>1, <1>2, AwokenFields DEF RunsInv
<1>4. AreEntries(execution', stored')
  <2>1. \A s \in Runs : s \in R \/ stored[s].status # "none" => stored'[s].status # "none"
    BY <1>3
  <2> QED BY <1>1, <2>1, RequestEntries
<1>5. Wakes
  BY <1>2, <1>3 DEF Wakes, Runs
<1> QED BY <1>3, <1>4, <1>5 DEF Outcome, StaysInPlan

LEMMA RecoverRunsOutcome ==
  ASSUME RunsInv, IsTable(execution), NEW p \in Servers, RecoverRuns(p)
  PROVE  Outcome
<1> DEFINE old == stored[MainRun].branch
           view == [b \in Branches |-> IF old[b] = "none" THEN old[b] ELSE stored[b].status]
           parent == [stored[MainRun] EXCEPT !.branch = view]
           rows == [stored EXCEPT ![MainRun].branch = view]
           cut == CutOff(stored)
           resumed == UNION {ToResume(rows, b) : b \in Branches}
           ended == {t \in Errands : errand[t] \in {"completed", "failed"}}
           awoken == UNION {WaitsFor(rows, t) : t \in ended} \ cut
           R == cut \cup resumed \cup awoken
<1>0. /\ MainRun \in Runs /\ MainRun \notin Branches /\ stored \in [Runs -> Sessions]
      /\ stored[MainRun] \in Sessions /\ InPlan(MainRun, stored[MainRun]) /\ plan \in Plans
      /\ \A b \in Branches : b \in Runs /\ stored[b].status \in RunStatuses
  BY ProtocolAssumption DEF RunsInv, AllInPlan, InPlan, Runs, Sessions
<1>1. stored' = Awoken(rows, awoken) /\ execution' = Requested(p, R, execution)
  BY DEF RecoverRuns
<1>2. rows = [stored EXCEPT ![MainRun] = parent]
  OBVIOUS
<1>3. /\ view \in [Branches -> RunStatuses]
      /\ \A b \in Branches : view[b] \in {old[b], stored[b].status}
  BY <1>0 DEF Sessions
<1>4. /\ parent \in Sessions /\ parent.branch = view
      /\ parent.status = stored[MainRun].status /\ parent.step = stored[MainRun].step
      /\ parent.errand = stored[MainRun].errand /\ parent.joined = stored[MainRun].joined
  <2> HIDE DEF view
  <2> QED BY <1>0, <1>3 DEF Sessions
<1>5. \A r \in awoken : rows[r].errand # NoErrand /\ rows[r].status = "waiting"
  BY ProtocolAssumption DEF WaitsFor
<1>6. \A r \in resumed : rows[r].status = "waiting"
  BY DEF ToResume
<1>7. \A r \in cut : stored[r].status # "none"
  BY DEF CutOff
<1>8. \A r \in R : r \in cut \/ r \in resumed \/ r \in awoken
  OBVIOUS
<1> HIDE DEF view, parent, rows, cut, resumed, ended, awoken, R
<1>9. InPlan(MainRun, parent)
  BY <1>0, <1>4, SameStepInPlan
<1>10. /\ AllInPlan(rows)
       /\ \A r \in Runs : /\ rows[r].status = stored[r].status /\ rows[r].step = stored[r].step
                          /\ rows[r].joined = stored[r].joined
       /\ rows[MainRun].branch = view
  <2>1. AllInPlan(rows) /\ rows[MainRun] = parent /\ \A s \in Runs \ {MainRun} : rows[s] = stored[s]
    BY <1>0, <1>2, <1>9, PutInPlan DEF RunsInv
  <2> QED BY <1>4, <2>1
<1>11. /\ AllInPlan(stored')
       /\ \A r \in Runs :
            /\ stored'[r].status = IF r \in awoken THEN "running" ELSE rows[r].status
            /\ stored'[r].step >= rows[r].step
            /\ stored'[r].joined = rows[r].joined
            /\ stored'[r].branch = rows[r].branch
  BY <1>0, <1>1, <1>5, <1>10, AwokenFields
<1>12. AreEntries(execution', stored')
  <2>1. \A s \in Runs : s \in R \/ stored[s].status # "none" => stored'[s].status # "none"
    BY <1>5, <1>6, <1>7, <1>8, <1>10, <1>11
  <2> QED BY <1>1, <2>1, RequestEntries
<1>13. Wakes
  <2>1. \A r \in Runs : /\ \/ stored'[r].status = stored[r].status
                           \/ stored[r].status = "waiting" /\ stored'[r].status = "running"
                        /\ stored'[r].step >= stored[r].step
                        /\ stored'[r].joined = stored[r].joined
    BY <1>5, <1>10, <1>11
  <2>2. \A b \in Branches : stored'[MainRun].branch[b] \in {old[b], stored[b].status}
    BY <1>0, <1>3, <1>10, <1>11
  <2> QED BY <2>1, <2>2 DEF Wakes
<1> QED BY <1>11, <1>12, <1>13 DEF Outcome, StaysInPlan

\* Steps that write no row and start nothing.
LEMMA CrashOutcome ==
  ASSUME RunsInv, IsTable(execution), NEW p \in Servers, ServerCrashes(p)
  PROVE  Outcome
<1>1. stored' = stored
  BY DEF ServerCrashes
<1>2. ASSUME NEW q \in Servers, NEW s \in Runs
      PROVE  IsEntry(s, execution'[q][s], stored'[s].status)
  <2>1. execution'[q][s] = execution[q][s] \/ execution'[q][s] = Off
    BY DEF ServerCrashes, IsTable
  <2>2. IsEntry(s, Off, stored'[s].status)
    BY DEF IsEntry, Off
  <2> QED BY <1>1, <2>1, <2>2 DEF RunsInv, AreEntries
<1> QED BY <1>1, <1>2 DEF Outcome, StaysInPlan, AreEntries, RunsInv

LEMMA QuietOutcome ==
  ASSUME RunsInv, stored' = stored, execution' = execution
  PROVE  Outcome
BY DEF Outcome, StaysInPlan, RunsInv

LEMMA AnyOutcome ==
  ASSUME RunsInv, IsTable(execution), [ProtocolNext]_protocolVars
  PROVE  Outcome
<1>1. ASSUME NEW p \in Servers, EventLoop(p) PROVE Outcome
  BY <1>1, RecoverRunsOutcome, StartRunOutcome, StepRunOutcome, TurnReturnsOutcome,
     WakeFromErrandOutcome DEF EventLoop
<1>2. ASSUME NEW p \in Servers, CreateRun(p) \/ ServerCrashes(p) \/ \E r \in Runs : Act(p, r)
      PROVE  Outcome
  BY <1>2, CreateRunOutcome, CrashOutcome, ActOutcome
<1>3. ASSUME NEW p \in Servers, NEW t \in Errands, ErrandEnds(p, t) PROVE Outcome
  BY <1>3, QuietOutcome DEF ErrandEnds
<1>4. ASSUME NEW r \in Runs, RunLeaseLapses(r) PROVE Outcome
  BY <1>4, QuietOutcome DEF RunLeaseLapses
<1>5. CASE UNCHANGED protocolVars
  BY <1>5, QuietOutcome DEF protocolVars
<1> QED BY <1>1, <1>2, <1>3, <1>4, <1>5 DEF ProtocolNext

-----------------------------------------------------------------------------
(* Where a turn has its copy from *)

\* A turn goes on, or begins with the row that is stored now.
TurnsHaveRows ==
  \A q \in Servers, s \in Runs :
    execution'[q][s].at = "turn" =>
      execution'[q][s] = execution[q][s] \/ execution'[q][s].copy = stored'[s]

LEMMA TurnsAfter ==
  ASSUME IsTable(execution), NEW p \in Servers, NEW r \in Runs, NEW e, NEW one, NEW R,
         \/ one = execution
         \/ /\ ReplacesEntry(execution, one, p, r, e)
            /\ e.at = "turn" => e.copy = stored'[r],
         execution' = one \/ execution' = Requested(p, R, one)
  PROVE  TurnsHaveRows
<1>1. IsTable(one)
  BY DEF ReplacesEntry
<1>2. ASSUME NEW q \in Servers, NEW s \in Runs, execution'[q][s].at = "turn"
      PROVE  execution'[q][s] = execution[q][s] \/ execution'[q][s].copy = stored'[s]
  <2>1. execution'[q][s] = one[q][s]
    BY <1>1, <1>2, RequestedEntries DEF Queued
  <2> QED BY <1>2, <2>1 DEF ReplacesEntry
<1> QED BY <1>2 DEF TurnsHaveRows

LEMMA LeaveTurns ==
  ASSUME IsTable(execution), NEW p \in Servers, NEW r \in Runs,
         \/ execution' = [execution EXCEPT ![p][r] = Off]
         \/ execution' = [execution EXCEPT ![p][r] = Between]
         \/ \E R : \/ execution' = Requested(p, R, [execution EXCEPT ![p][r] = Off])
                   \/ execution' = Requested(p, R, [execution EXCEPT ![p][r] = Between])
  PROVE  TurnsHaveRows
<1>1. ASSUME NEW e \in {Off, Between}, NEW R,
             \/ execution' = [execution EXCEPT ![p][r] = e]
             \/ execution' = Requested(p, R, [execution EXCEPT ![p][r] = e])
      PROVE  TurnsHaveRows
  <2> DEFINE one == [execution EXCEPT ![p][r] = e]
  <2>1. ReplacesEntry(execution, one, p, r, e) /\ (execution' = one \/ execution' = Requested(p, R, one))
    BY <1>1, EntryReplaced
  <2>2. e.at # "turn"
    BY DEF Off, Between
  <2> HIDE DEF one
  <2> QED BY <2>1, <2>2, TurnsAfter
<1> QED BY <1>1

LEMMA GoOnTurns ==
  ASSUME AllInPlan(stored), IsTable(execution), NEW p \in Servers, NEW r \in Runs, NEW row,
         NEW where, where.at = "turn" => where.copy = row,
         GoOn(p, r, [stored EXCEPT ![r] = row], where)
  PROVE  TurnsHaveRows
<1> DEFINE one == [execution EXCEPT ![p][r] = where]
<1>1. ReplacesEntry(execution, one, p, r, where) /\ execution' = one
  BY EntryReplaced DEF GoOn
<1>2. stored'[r] = row
  BY DEF GoOn, AllInPlan
<1> HIDE DEF one
<1> QED BY <1>1, <1>2, TurnsAfter

LEMMA AfterStepTurns ==
  ASSUME AllInPlan(stored), IsTable(execution), NEW p \in Servers, NEW r \in Runs, NEW row,
         AfterStep(p, r, row)
  PROVE  TurnsHaveRows
<1>1. Between.at # "turn"
  BY DEF Between
<1>2. CASE GoOn(p, r, [stored EXCEPT ![r] = row], Between)
  <2> DEFINE where == Between
  <2>1. GoOn(p, r, [stored EXCEPT ![r] = row], where) /\ where.at # "turn"
    BY <1>1, <1>2
  <2> HIDE DEF where
  <2> QED BY <2>1, GoOnTurns
<1>3. CASE Leave(p, r, [stored EXCEPT ![r] = row])
  BY <1>3, LeaveTurns DEF Leave, Announce
<1> QED BY <1>2, <1>3 DEF AfterStep

LEMMA EventLoopTurns ==
  ASSUME RunsInv, IsTable(execution), NEW p \in Servers, NEW r \in Runs,
         StartRun(p, r) \/ StepRun(p, r) \/ TurnReturns(p, r)
  PROVE  TurnsHaveRows
<1>0. AllInPlan(stored)
  BY DEF RunsInv
<1>1. CASE StartRun(p, r)
  BY <1>1, LeaveTurns DEF StartRun, Announce
<1>2. ASSUME NEW rows, Leave(p, r, rows) PROVE TurnsHaveRows
  BY <1>2, LeaveTurns DEF Leave, Announce
<1>3. ASSUME NEW row, GoOn(p, r, [stored EXCEPT ![r] = row], [at |-> "turn", copy |-> row])
      PROVE  TurnsHaveRows
  <2> DEFINE where == [at |-> "turn", copy |-> row]
  <2>1. GoOn(p, r, [stored EXCEPT ![r] = row], where) /\ where.copy = row
    BY <1>3
  <2> HIDE DEF where
  <2> QED BY <1>0, <2>1, GoOnTurns
<1>4. ASSUME NEW row, AfterStep(p, r, row) PROVE TurnsHaveRows
  BY <1>0, <1>4, AfterStepTurns
<1>5. CASE StepRun(p, r)
  <2>1. ASSUME NEW row, Fork(p, r, row) PROVE TurnsHaveRows
    BY <2>1, LeaveTurns DEF Fork
  <2> QED BY <1>2, <1>3, <1>4, <1>5, <2>1 DEF StepRun, Join, Dispatch, Throws
<1>6. CASE TurnReturns(p, r)
  <2>1. \/ \E row : GoOn(p, r, [stored EXCEPT ![r] = row], [at |-> "turn", copy |-> row])
        \/ \E row : AfterStep(p, r, row)
        \/ \E rows : Leave(p, r, rows)
    BY <1>6 DEF TurnReturns, Throws
  <2> QED BY <1>2, <1>3, <1>4, <2>1
<1> QED BY <1>1, <1>5, <1>6

LEMMA RequestTurns ==
  ASSUME IsTable(execution), NEW p \in Servers, NEW R, execution' = Requested(p, R, execution)
  PROVE  TurnsHaveRows
<1> DEFINE one == execution
<1>1. one = execution /\ execution' = Requested(p, R, one) /\ MainRun \in Runs
  BY DEF Runs
<1> HIDE DEF one
<1> QED BY <1>1, TurnsAfter

LEMMA AnyTurns ==
  ASSUME RunsInv, IsTable(execution), [ProtocolNext]_protocolVars
  PROVE  TurnsHaveRows
<1>1. ASSUME execution' = execution PROVE TurnsHaveRows
  BY <1>1 DEF TurnsHaveRows
<1>2. ASSUME NEW p \in Servers, EventLoop(p) PROVE TurnsHaveRows
  <2>1. CASE RecoverRuns(p) \/ \E t \in Errands : WakeFromErrand(p, t)
    <3>1. \E R : execution' = Requested(p, R, execution)
      BY <2>1 DEF RecoverRuns, WakeFromErrand
    <3> QED BY <3>1, RequestTurns
  <2> QED BY <1>2, <2>1, EventLoopTurns DEF EventLoop
<1>3. ASSUME NEW p \in Servers, CreateRun(p) \/ \E r \in Runs : Act(p, r) PROVE TurnsHaveRows
  <2>1. \E R : execution' = Requested(p, R, execution)
    BY <1>3 DEF CreateRun, Act, Announce
  <2> QED BY <2>1, RequestTurns
<1>4. ASSUME NEW p \in Servers, ServerCrashes(p) PROVE TurnsHaveRows
  BY <1>4 DEF ServerCrashes, TurnsHaveRows, IsTable, Off
<1>5. ASSUME NEW p \in Servers, NEW t \in Errands, ErrandEnds(p, t) PROVE TurnsHaveRows
  BY <1>1, <1>5 DEF ErrandEnds
<1>6. ASSUME NEW r \in Runs, RunLeaseLapses(r) PROVE TurnsHaveRows
  BY <1>1, <1>6 DEF RunLeaseLapses
<1>7. CASE UNCHANGED protocolVars
  BY <1>1, <1>7 DEF protocolVars
<1> QED BY <1>2, <1>3, <1>4, <1>5, <1>6, <1>7 DEF ProtocolNext

-----------------------------------------------------------------------------
(* The other variables *)

OthersInv ==
  /\ hasRecovered \in [Servers -> BOOLEAN]
  /\ errand \in [Errands -> {"none", "queued", "completed", "failed"}]
  /\ callbacks \subseteq Servers \X Errands /\ untold \subseteq Errands
  /\ lapsed \subseteq Runs /\ forgotten \subseteq Runs /\ revived \subseteq Runs

LEMMA OthersStep ==
  ASSUME OthersInv, upsets \in 0 .. MaxUpsets, [ProtocolNext]_protocolVars
  PROVE  OthersInv' /\ plan' = plan /\ upsets' \in 0 .. MaxUpsets /\ revived \subseteq revived'
<1> DEFINE Kept == OthersInv' /\ plan' = plan /\ upsets' \in 0 .. MaxUpsets /\ revived \subseteq revived'
<1>0. MaxUpsets \in Nat
  BY ProtocolAssumption
<1>1. ASSUME NEW p \in Servers, NEW r \in Runs, StartRun(p, r) PROVE Kept
  BY <1>1 DEF StartRun, OthersInv
<1>2. ASSUME NEW p \in Servers, NEW r \in Runs, StepRun(p, r) PROVE Kept
  <2>1. /\ plan' = plan /\ upsets' = upsets /\ hasRecovered' = hasRecovered
        /\ callbacks' = callbacks /\ lapsed' = lapsed /\ forgotten' = forgotten
        /\ revived' = revived /\ untold' = untold
    BY <1>2 DEF StepRun, traces
  <2>2. errand' = errand \/ \E t \in Errands : errand' = [errand EXCEPT ![t] = "queued"]
    BY <1>2 DEF StepRun, Dispatch
  <2> QED BY <2>1, <2>2 DEF OthersInv
<1>3. ASSUME NEW p \in Servers, NEW r \in Runs, TurnReturns(p, r) PROVE Kept
  BY <1>3 DEF TurnReturns, OthersInv
<1>4. ASSUME NEW p \in Servers, CreateRun(p) \/ \E r \in Runs : Act(p, r) PROVE Kept
  <2>1. /\ plan' = plan /\ hasRecovered' = hasRecovered /\ errand' = errand
        /\ callbacks' = callbacks /\ lapsed' = lapsed /\ forgotten' = forgotten
        /\ revived' = revived /\ untold' = untold
        /\ upsets' = upsets \/ (upsets < MaxUpsets /\ upsets' = upsets + 1)
    <3>1. CASE CreateRun(p)
      BY <3>1 DEF CreateRun, traces
    <3>2. ASSUME NEW r \in Runs, Act(p, r)
          PROVE  UNCHANGED <<plan, hasRecovered, errand, callbacks, traces>> /\ Upset
      BY <3>2 DEF Act
    <3> QED BY <1>4, <3>1, <3>2 DEF Upset, traces
  <2> QED BY <1>0, <2>1 DEF OthersInv
<1>5. ASSUME NEW p \in Servers, RecoverRuns(p) PROVE Kept
  BY <1>5 DEF RecoverRuns, traces, OthersInv
<1>6. ASSUME NEW p \in Servers, NEW t \in Errands, WakeFromErrand(p, t) \/ ErrandEnds(p, t)
      PROVE  Kept
  BY <1>6 DEF WakeFromErrand, ErrandEnds, ErrandDone, ErrandClosed, traces, OthersInv
<1>7. ASSUME NEW p \in Servers, ServerCrashes(p) PROVE Kept
  BY <1>0, <1>7 DEF ServerCrashes, Upset, OthersInv
<1>8. ASSUME NEW r \in Runs, RunLeaseLapses(r) PROVE Kept
  BY <1>0, <1>8 DEF RunLeaseLapses, Upset, OthersInv
<1>9. CASE UNCHANGED protocolVars
  BY <1>9 DEF protocolVars, traces, OthersInv
<1> QED BY <1>1, <1>2, <1>3, <1>4, <1>5, <1>6, <1>7, <1>8, <1>9 DEF ProtocolNext, EventLoop

LEMMA RunsStep ==
  ASSUME RunsInv, IsTable(execution), OthersInv, [ProtocolNext]_protocolVars
  PROVE  RunsInv'
<1>1. plan' = plan /\ upsets' \in 0 .. MaxUpsets
  BY OthersStep DEF RunsInv
<1>2. AllInPlan(stored') /\ AreEntries(execution', stored')
  BY AnyOutcome DEF Outcome, StaysInPlan
<1>3. \A r \in Runs : StepsOf(r)' = StepsOf(r)
  BY <1>1 DEF StepsOf
<1>4. ASSUME NEW r \in Runs, NEW row PROVE KindOf(r, row)' = KindOf(r, row)
  BY <1>1 DEF KindOf, StepsOf
<1> QED BY <1>1, <1>2 DEF RunsInv, AllInPlan, AreEntries, IsEntry, IsCopy, InPlan, KindOf, StepsOf

-----------------------------------------------------------------------------
(* A parallel step runs once *)

\* Before the parallel step no branch has been created.
ForkedOnce ==
  KindOf(MainRun, stored[MainRun]) = "parallel" => \A b \in Branches : stored[b].status = "none"

SessionInv ==
  /\ ProtocolIInv /\ RunsInv /\ OthersInv /\ ForkedOnce

LEMMA WrittenFields ==
  ASSUME RunsInv, NEW r \in Runs, NEW row \in Sessions, RowWritten(r, row)
  PROVE  /\ AllInPlan(stored')
         /\ \A s \in Runs : LET old == IF s = r THEN row ELSE stored[s]
                            IN /\ stored'[s].status = old.status /\ stored'[s].step = old.step
                               /\ stored'[s].joined = old.joined
         /\ \A b \in Branches :
              stored'[MainRun].branch[b] =
                IF r = b /\ Tells(r, row) /\ stored[MainRun].branch[b] # "none" THEN row.status
                ELSE IF r = MainRun THEN row.branch[b] ELSE stored[MainRun].branch[b]
BY PutFields DEF RowWritten, RunsInv

LEMMA ForkedOnceStep ==
  ASSUME RunsInv, ForkedOnce, Outcome, plan' = plan
  PROVE  ForkedOnce'
<1>0. /\ MainRun \in Runs /\ MainRun \notin Branches /\ plan \in Plans
      /\ stored[MainRun] \in Sessions /\ stored'[MainRun] \in Sessions
      /\ stored[MainRun].step \in Nat \ {0} /\ stored'[MainRun].step \in Nat \ {0}
      /\ \A b \in Branches : b \in Runs
  BY ProtocolAssumption DEF Outcome, StaysInPlan, RunsInv, AllInPlan, Runs, Sessions
<1> SUFFICES ASSUME KindOf(MainRun, stored'[MainRun]) = "parallel", NEW b \in Branches
             PROVE  stored'[b].status = "none"
  BY DEF ForkedOnce, KindOf, StepsOf
<1>1. stored'[MainRun].step = 1
  BY <1>0, StepsOfRun
<1>2. ASSUME NEW row \in Sessions, row.step = 1 PROVE KindOf(MainRun, row) = "parallel"
  BY <1>1, <1>2 DEF KindOf
<1>3. stored[MainRun].step <= 1 => stored[b].status = "none"
  BY <1>0, <1>2 DEF ForkedOnce
<1>4. CASE stored' = stored
  BY <1>0, <1>1, <1>3, <1>4
<1>5. CASE Forks
  BY <1>0, <1>1, <1>5 DEF Forks
<1>6. CASE Wakes
  <2>1. stored[MainRun].step <= 1
    BY <1>0, <1>1, <1>6 DEF Wakes
  <2> QED BY <1>0, <1>3, <1>6, <2>1 DEF Wakes
<1>7. ASSUME NEW r \in Runs, NEW row \in Sessions, RowWritten(r, row)
      PROVE  stored'[b].status = "none"
  <2>1. /\ stored'[b].status = (IF b = r THEN row ELSE stored[b]).status
        /\ stored'[MainRun].step = (IF MainRun = r THEN row ELSE stored[MainRun]).step
    BY <1>0, <1>7, WrittenFields
  <2>2. CASE r = MainRun
    <3>1. row.step = 1 /\ stored'[b].status = stored[b].status
      BY <1>0, <1>1, <2>1, <2>2
    <3>2. CASE CarriesOn(r, row)
      BY <1>0, <1>3, <2>2, <3>1, <3>2 DEF CarriesOn
    <3>3. CASE ComesFromTurn(r, row)
      <4>1. PICK p \in Servers : /\ execution[p][r].at = "turn"
                                 /\ row.step >= execution[p][r].copy.step
        BY <3>3 DEF ComesFromTurn
      <4>2. IsCopy(r, execution[p][r].copy)
        BY <4>1 DEF RunsInv, AreEntries, IsEntry
      <4> DEFINE c == execution[p][r].copy
      <4>3. c \in Sessions /\ KindOf(r, c) \in TurnKinds
        BY <4>2 DEF IsCopy, InPlan
      <4> HIDE DEF c
      <4>4. c.step \in Nat \ {0} /\ row.step >= c.step
        BY <4>1, <4>3 DEF Sessions, c
      <4>5. KindOf(r, c) = "parallel"
        BY <1>2, <2>2, <3>1, <4>3, <4>4
      <4> QED BY <4>3, <4>5 DEF TurnKinds
    <3> QED BY <1>7, <3>2, <3>3 DEF RowWritten
  <2>3. CASE r # MainRun
    <3>1. stored[MainRun].step = 1 /\ r \in Branches
      BY <1>1, <2>1, <2>3 DEF Runs
    <3>2. \A q \in Branches : stored[q].status = "none"
      BY <1>0, <1>2, <3>1 DEF ForkedOnce
    <3> QED BY <1>7, <3>1, <3>2 DEF RowWritten
  <2> QED BY <2>2, <2>3
<1> QED BY <1>4, <1>5, <1>6, <1>7 DEF Outcome

-----------------------------------------------------------------------------
(* A join looks at what its branches are *)

\* No join comes after a turn of its run.  Where a turn of the parent comes between,
\* it writes the branches back as they were when it began.
JoinsBeforeTurns ==
  \A steps \in Plans : \A i, j \in DOMAIN steps :
    i < j /\ steps[i] \in TurnKinds => steps[j] # "join"

JoinAhead(step) == \E i \in DOMAIN plan : i >= step /\ plan[i] = "join"

\* Where the parent has seen a branch end, the branch has ended.
ViewTrue ==
  JoinAhead(stored[MainRun].step) =>
    \A b \in Branches \ revived :
      stored[MainRun].branch[b] \in Terminals => stored[b].status \in Terminals

\* A turn of the parent knows whether its join was passed.
TurnsAfterJoin ==
  \A p \in Servers : execution[p][MainRun].at = "turn" =>
    /\ ~JoinAhead(stored[MainRun].step)
    /\ execution[p][MainRun].copy.joined = stored[MainRun].joined

JoinInv == ViewTrue /\ TurnsAfterJoin

LEMMA NoJoinAhead ==
  ASSUME JoinsBeforeTurns, plan \in Plans,
         NEW row \in Sessions, KindOf(MainRun, row) \in TurnKinds
  PROVE  \A n \in Nat : n >= row.step => ~JoinAhead(n)
<1>1. plan \in Seq(StepKinds) /\ Len(plan) \in Nat /\ DOMAIN plan = 1 .. Len(plan)
  BY ProtocolAssumption
<1>2. row.step \in Nat \ {0}
  BY DEF Sessions
<1>3. row.step \in DOMAIN plan /\ plan[row.step] \in TurnKinds
  BY <1>1, <1>2 DEF KindOf, StepsOf, TurnKinds
<1>4. ASSUME NEW i \in DOMAIN plan, i >= row.step PROVE plan[i] # "join"
  BY <1>1, <1>2, <1>3, <1>4 DEF JoinsBeforeTurns, TurnKinds
<1>5. ASSUME NEW n \in Nat, n >= row.step, NEW i \in DOMAIN plan, i >= n PROVE i >= row.step
  BY <1>1, <1>2, <1>5
<1> QED BY <1>4, <1>5 DEF JoinAhead

LEMMA JoinAheadBack ==
  ASSUME plan \in Plans, NEW n \in Nat, NEW m \in Nat, m >= n, JoinAhead(m)
  PROVE  JoinAhead(n)
<1>1. DOMAIN plan \subseteq Nat
  BY ProtocolAssumption
<1> QED BY <1>1 DEF JoinAhead

\* What a step of the main run may do to its cursor and to joined.
LEMMA MainRunMoves ==
  ASSUME RunsInv, JoinInv, JoinsBeforeTurns, Outcome, plan' = plan
  PROVE  /\ JoinAhead(stored'[MainRun].step) => JoinAhead(stored[MainRun].step)
         /\ stored'[MainRun].joined # stored[MainRun].joined =>
              JoinAhead(stored[MainRun].step) /\ JoinReady(stored[MainRun])
<1> DEFINE old == stored[MainRun]
           new == stored'[MainRun]
<1>0. /\ MainRun \in Runs /\ plan \in Plans /\ old \in Sessions /\ new \in Sessions
      /\ old.step \in Nat \ {0} /\ new.step \in Nat \ {0}
  BY DEF Outcome, StaysInPlan, RunsInv, AllInPlan, Runs, Sessions
<1>1. new.step >= old.step => (JoinAhead(new.step) => JoinAhead(old.step))
  BY <1>0, JoinAheadBack
<1>2. CASE stored' = stored
  BY <1>2
<1>3. CASE Forks
  BY <1>0, <1>1, <1>3 DEF Forks
<1>4. CASE Wakes
  BY <1>0, <1>1, <1>4 DEF Wakes
<1>5. ASSUME NEW r \in Runs, NEW row \in Sessions, RowWritten(r, row)
      PROVE  /\ JoinAhead(new.step) => JoinAhead(old.step)
             /\ new.joined # old.joined => JoinAhead(old.step) /\ JoinReady(old)
  <2>1. /\ new.step = (IF MainRun = r THEN row ELSE old).step
        /\ new.joined = (IF MainRun = r THEN row ELSE old).joined
    BY <1>0, <1>5, WrittenFields
  <2>2. CASE r # MainRun
    BY <2>1, <2>2
  <2>3. CASE r = MainRun /\ CarriesOn(r, row)
    <3>1. new.step >= old.step
      BY <2>1, <2>3 DEF CarriesOn
    <3>2. ASSUME new.joined # old.joined
          PROVE  JoinAhead(old.step) /\ JoinReady(old)
      <4>1. KindOf(MainRun, old) = "join" /\ JoinReady(old)
        BY <2>1, <2>3, <3>2 DEF CarriesOn
      <4>2. old.step \in DOMAIN plan /\ plan[old.step] = "join"
        <5>1. DOMAIN plan = 1 .. Len(plan) /\ Len(plan) \in Nat
          BY <1>0, ProtocolAssumption
        <5> QED BY <1>0, <4>1, <5>1 DEF KindOf, StepsOf
      <4> QED BY <1>0, <4>1, <4>2 DEF JoinAhead
    <3> QED BY <1>1, <3>1, <3>2
  <2>4. CASE r = MainRun /\ ComesFromTurn(r, row)
    <3>1. PICK p \in Servers : /\ execution[p][r].at = "turn"
                               /\ row.step >= execution[p][r].copy.step
                               /\ row.joined = execution[p][r].copy.joined
      BY <2>4 DEF ComesFromTurn
    <3> DEFINE c == execution[p][r].copy
    <3>2. c \in Sessions /\ KindOf(MainRun, c) \in TurnKinds
      BY <2>4, <3>1 DEF RunsInv, AreEntries, IsEntry, IsCopy, InPlan
    <3>3. c.joined = old.joined
      BY <2>4, <3>1 DEF JoinInv, TurnsAfterJoin
    <3>4. ~JoinAhead(new.step)
      BY <1>0, <2>1, <2>4, <3>1, <3>2, NoJoinAhead
    <3> QED BY <2>1, <2>4, <3>1, <3>3, <3>4
  <2> QED BY <1>5, <2>2, <2>3, <2>4 DEF RowWritten
<1> QED BY <1>2, <1>3, <1>4, <1>5 DEF Outcome

LEMMA ViewTrueStep ==
  ASSUME RunsInv, JoinInv, JoinsBeforeTurns, Outcome, plan' = plan, revived \subseteq revived'
  PROVE  ViewTrue'
<1> SUFFICES ASSUME JoinAhead(stored'[MainRun].step), NEW b \in Branches, b \notin revived',
                    stored'[MainRun].branch[b] \in Terminals
             PROVE  stored'[b].status \in Terminals
  BY DEF ViewTrue, JoinAhead
<1>0. /\ b \in Runs /\ b # MainRun /\ MainRun \in Runs /\ b \notin revived
      /\ "waiting" \notin Terminals /\ "none" \notin Terminals
      /\ stored'[MainRun] \in Sessions
  BY ProtocolAssumption DEF Runs, Terminals, Outcome, StaysInPlan, AllInPlan
<1>1. stored[MainRun].branch[b] \in Terminals => stored[b].status \in Terminals
  BY <1>0, MainRunMoves DEF JoinInv, ViewTrue
<1>2. CASE stored' = stored
  BY <1>1, <1>2
<1>3. CASE Forks
  BY <1>3 DEF Forks
<1>4. CASE Wakes
  <2>1. stored[b].status \in Terminals
    BY <1>1, <1>4 DEF Wakes
  <2> QED BY <1>0, <1>4, <2>1 DEF Wakes
<1>5. ASSUME NEW r \in Runs, NEW row \in Sessions, RowWritten(r, row)
      PROVE  stored'[b].status \in Terminals
  <2>1. /\ stored'[b].status = (IF b = r THEN row ELSE stored[b]).status
        /\ stored'[MainRun].step = (IF MainRun = r THEN row ELSE stored[MainRun]).step
        /\ stored'[MainRun].branch[b] =
             IF r = b /\ Tells(r, row) /\ stored[MainRun].branch[b] # "none" THEN row.status
             ELSE IF r = MainRun THEN row.branch[b] ELSE stored[MainRun].branch[b]
    BY <1>0, <1>5, WrittenFields
  <2>2. CASE r = b
    <3>1. CASE Tells(r, row) /\ stored[MainRun].branch[b] # "none"
      BY <2>1, <2>2, <3>1
    <3>2. CASE ~Tells(r, row) /\ stored[MainRun].branch[b] # "none"
      <4>1. stored[b].status \in Terminals
        BY <1>0, <1>1, <2>1, <2>2, <3>2
      <4>2. KeepsEnd(r, row)
        BY <1>0, <1>5, <2>2, <3>2 DEF RowWritten, CarriesOn, ComesFromTurn
      <4> QED BY <2>1, <2>2, <4>1, <4>2 DEF KeepsEnd
    <3>3. CASE stored[MainRun].branch[b] = "none"
      BY <1>0, <2>1, <2>2, <3>3
    <3> QED BY <3>1, <3>2, <3>3
  <2>3. CASE r = MainRun /\ CarriesOn(r, row)
    BY <1>0, <1>1, <2>1, <2>3 DEF CarriesOn
  <2>4. CASE r = MainRun /\ ComesFromTurn(r, row)
    <3>1. PICK p \in Servers : /\ execution[p][r].at = "turn"
                               /\ row.step >= execution[p][r].copy.step
      BY <2>4 DEF ComesFromTurn
    <3> DEFINE c == execution[p][r].copy
    <3>2. c \in Sessions /\ KindOf(MainRun, c) \in TurnKinds
      BY <2>4, <3>1 DEF RunsInv, AreEntries, IsEntry, IsCopy, InPlan
    <3>3. ~JoinAhead(stored'[MainRun].step)
      <4>1. stored'[MainRun].step \in Nat /\ plan \in Plans
        BY <1>0 DEF Sessions, RunsInv
      <4> QED BY <2>1, <2>4, <3>1, <3>2, <4>1, NoJoinAhead
    <3> QED BY <3>3
  <2>5. CASE r # MainRun /\ r # b
    BY <1>1, <2>1, <2>5
  <2> QED BY <1>5, <2>2, <2>3, <2>4, <2>5 DEF RowWritten
<1> QED BY <1>2, <1>3, <1>4, <1>5 DEF Outcome

LEMMA TurnsAfterJoinStep ==
  ASSUME RunsInv, JoinInv, JoinsBeforeTurns, Outcome, TurnsHaveRows, plan' = plan
  PROVE  TurnsAfterJoin'
<1>0. MainRun \in Runs /\ plan \in Plans
  BY DEF Runs, RunsInv
<1> SUFFICES ASSUME NEW p \in Servers, execution'[p][MainRun].at = "turn"
             PROVE  /\ ~JoinAhead(stored'[MainRun].step)
                    /\ execution'[p][MainRun].copy.joined = stored'[MainRun].joined
  BY DEF TurnsAfterJoin, JoinAhead
<1>1. CASE execution'[p][MainRun] = execution[p][MainRun]
  <2>1. /\ ~JoinAhead(stored[MainRun].step)
        /\ execution[p][MainRun].copy.joined = stored[MainRun].joined
    BY <1>1 DEF JoinInv, TurnsAfterJoin
  <2> QED BY <1>1, <2>1, MainRunMoves
<1>2. CASE execution'[p][MainRun].copy = stored'[MainRun]
  <2>1. IsCopy(MainRun, stored'[MainRun])
    BY <1>0, <1>2 DEF Outcome, StaysInPlan, AreEntries, IsEntry
  <2>2. stored'[MainRun] \in Sessions /\ KindOf(MainRun, stored'[MainRun]) \in TurnKinds
    BY <2>1 DEF IsCopy, InPlan
  <2>3. stored'[MainRun].step \in Nat
    BY <2>2 DEF Sessions
  <2> QED BY <1>0, <1>2, <2>2, <2>3, NoJoinAhead
<1> QED BY <1>0, <1>1, <1>2 DEF TurnsHaveRows

-----------------------------------------------------------------------------
(* Theorems about the runs *)

LEMMA SessionStep ==
  ASSUME SessionInv, [ProtocolNext]_protocolVars, ProtocolIInv'
  PROVE  /\ SessionInv' /\ Outcome /\ TurnsHaveRows
         /\ plan' = plan /\ revived \subseteq revived'
<1>1. IsTable(execution) /\ RunsInv /\ OthersInv /\ ForkedOnce /\ upsets \in 0 .. MaxUpsets
  BY DEF SessionInv, ProtocolIInv, RunsInv
<1>2. Outcome /\ TurnsHaveRows
  BY <1>1, AnyOutcome, AnyTurns
<1>3. OthersInv' /\ plan' = plan /\ revived \subseteq revived'
  BY <1>1, OthersStep
<1>4. RunsInv'
  BY <1>1, RunsStep
<1>5. ForkedOnce'
  BY <1>1, <1>2, <1>3, ForkedOnceStep
<1> QED BY <1>2, <1>3, <1>4, <1>5 DEF SessionInv

LEMMA SessionStarts == ProtocolInit => SessionInv
<1> SUFFICES ASSUME ProtocolInit PROVE SessionInv
  OBVIOUS
<1>1. stored = [r \in Runs |-> NoSession] /\ plan \in Plans
  BY DEF ProtocolInit
<1>2. AllInPlan(stored)
  <2>1. ASSUME NEW r \in Runs PROVE InPlan(r, NoSession)
    <3>1. Len(StepsOf(r)) \in Nat
      BY <1>1, StepsOfRun
    <3> QED BY <3>1, FreshSession DEF InPlan
  <2> QED BY <1>1, <2>1, FreshSession DEF AllInPlan
<1>3. AreEntries(execution, stored)
  BY DEF ProtocolInit, AreEntries, IsEntry, Off
<1>4. upsets \in 0 .. MaxUpsets
  BY ProtocolAssumption DEF ProtocolInit
<1>5. OthersInv
  BY DEF ProtocolInit, OthersInv
<1>6. ForkedOnce
  BY <1>1, FreshSession DEF ForkedOnce, Runs
<1> QED BY <1>1, <1>2, <1>3, <1>4, <1>5, <1>6, ProtocolStarts DEF SessionInv, RunsInv

LEMMA SessionInvStep == SessionInv /\ [ProtocolNext]_protocolVars => SessionInv'
BY HolderStep, SessionStep DEF SessionInv

\* Rows, copies of turns and executions fit each other (protocol-step-processors.ts,
\* protocol-run-lifecycle.ts), and a parallel step is run once.
THEOREM SessionInvariance == ProtocolSpec => []SessionInv
BY SessionStarts, SessionInvStep, PTL DEF ProtocolSpec

LEMMA SessionIsTyped == SessionInv => ProtocolTypeOK
<1> SUFFICES ASSUME SessionInv PROVE ProtocolTypeOK
  OBVIOUS
<1>1. ASSUME NEW r \in Runs
      PROVE  /\ stored[r].status \in RunStatuses /\ stored[r].step \in 1 .. Len(StepsOf(r)) + 1
             /\ stored[r].said \in 0 .. Speakers - 1 /\ stored[r].errand \in Errands \cup {NoErrand}
             /\ stored[r].branch \in [Branches -> RunStatuses] /\ stored[r].joined \in BOOLEAN
  <2>1. stored[r] \in Sessions /\ stored[r].step <= Len(StepsOf(r)) + 1
    BY DEF SessionInv, RunsInv, AllInPlan, InPlan
  <2>2. Len(StepsOf(r)) \in Nat
    BY StepsOfRun DEF SessionInv, RunsInv
  <2> QED BY <2>1, <2>2 DEF Sessions
<1>2. ASSUME NEW p \in Servers, NEW r \in Runs
      PROVE  /\ execution[p][r].at \in {"off", "queued", "between", "turn"}
             /\ execution[p][r].at # "off" => stored[r].status # "none"
  BY DEF SessionInv, RunsInv, AreEntries, IsEntry
<1>3. /\ plan \in Plans /\ DOMAIN stored = Runs /\ upsets \in 0 .. MaxUpsets
      /\ runLease \in [Runs -> Leases]
  BY DEF SessionInv, RunsInv, AllInPlan, ProtocolIInv
<1> QED BY <1>1, <1>2, <1>3 DEF ProtocolTypeOK, SessionInv, OthersInv, Leases

\* Every variable stays in its range: the cursor in the plan of its run, whatever is
\* skipped, retried, woken or written back late; and only what was created executes.
THEOREM SessionTypes == ProtocolSpec => []ProtocolTypeOK
BY SessionInvariance, SessionIsTyped, PTL

\* A run that was paused, cancelled, archived or completed is taken up again only by
\* an operator or by a turn under way: recovery, callbacks, requests, leases and the
\* ends of branches leave it alone, in any number of processes.
THEOREM StopsAreKept == ProtocolSpec => StopUndoneOnlyByTurn
<1> DEFINE Kept ==
      \A r \in Runs :
        stored[r].status \in Halted /\ stored'[r].status # stored[r].status
        => upsets' # upsets \/ TurnEndsOf(r)
<1>1. ASSUME SessionInv, Outcome PROVE Kept
  <2> SUFFICES ASSUME NEW r \in Runs, stored[r].status \in Halted,
                      stored'[r].status # stored[r].status
               PROVE  upsets' # upsets \/ TurnEndsOf(r)
    OBVIOUS
  <2>1. RunsInv /\ ForkedOnce
    BY <1>1 DEF SessionInv
  <2>2. "none" \notin Halted /\ "waiting" \notin Halted
    BY DEF Halted
  <2>3. ~Forks
    BY <2>1, <2>2 DEF Forks, ForkedOnce, Runs
  <2>4. ~Wakes
    BY <2>2 DEF Wakes
  <2>5. PICK s \in Runs, row \in Sessions : RowWritten(s, row)
    BY <1>1, <2>3, <2>4 DEF Outcome
  <2>6. stored'[r].status = (IF r = s THEN row ELSE stored[r]).status
    BY <2>1, <2>5, WrittenFields
  <2>7. r = s /\ row.status # stored[r].status
    BY <2>6
  <2>8. CASE CarriesOn(s, row)
    BY <2>7, <2>8 DEF CarriesOn
  <2>9. CASE ComesFromTurn(s, row)
    BY <2>7, <2>9 DEF ComesFromTurn, TurnEndsOf
  <2> QED BY <2>5, <2>8, <2>9 DEF RowWritten
<1>2. SessionInv /\ [ProtocolNext]_protocolVars /\ ProtocolIInv' => Kept
  BY <1>1, SessionStep
<1>3. Kept => \A r \in Runs :
                stored[r].status \in Halted /\ stored'[r].status # stored[r].status
                => \/ upsets' # upsets
                   \/ \E p \in Servers : /\ execution[p][r].at = "turn"
                                        /\ execution'[p][r] # execution[p][r]
  BY DEF TurnEndsOf
<1> HIDE DEF Kept
<1> QED BY <1>2, <1>3, LeaseOfWorker, SessionInvariance, PTL DEF ProtocolSpec, StopUndoneOnlyByTurn

\* A join is passed only when every branch has ended, or was taken back from its end
\* by a late turn, for any plans in which no join comes after a turn of its run.
THEOREM JoinsWait ==
  ASSUME JoinsBeforeTurns
  PROVE  ProtocolSpec => JoinAfterBranches
<1> DEFINE Waits ==
      ~stored[MainRun].joined /\ stored'[MainRun].joined
      => \A b \in Branches \ revived : stored[b].status \in Terminals
<1>1. ProtocolInit => JoinInv
  BY FreshSession DEF ProtocolInit, JoinInv, ViewTrue, TurnsAfterJoin, Off, Runs, Terminals
<1>2. SessionInv /\ JoinInv /\ [ProtocolNext]_protocolVars /\ ProtocolIInv' => JoinInv' /\ Waits
  <2> SUFFICES ASSUME SessionInv, JoinInv, [ProtocolNext]_protocolVars, ProtocolIInv'
               PROVE  JoinInv' /\ Waits
    OBVIOUS
  <2>1. RunsInv /\ Outcome /\ TurnsHaveRows /\ plan' = plan /\ revived \subseteq revived'
    BY SessionStep DEF SessionInv
  <2>2. JoinInv'
    BY <2>1, ViewTrueStep, TurnsAfterJoinStep DEF JoinInv
  <2>3. Waits
    <3> SUFFICES ASSUME ~stored[MainRun].joined, stored'[MainRun].joined,
                        NEW b \in Branches \ revived
                 PROVE  stored[b].status \in Terminals
      OBVIOUS
    <3>1. stored'[MainRun].joined # stored[MainRun].joined
      OBVIOUS
    <3>2. JoinAhead(stored[MainRun].step) /\ JoinReady(stored[MainRun])
      BY <2>1, <3>1, MainRunMoves
    <3> QED BY <3>2 DEF JoinReady, JoinInv, ViewTrue
  <2> QED BY <2>2, <2>3
<1> HIDE DEF Waits
<1>3. Waits => (~stored[MainRun].joined /\ stored'[MainRun].joined
                  => \A b \in Branches \ revived : stored[b].status \in Terminals)
  BY DEF Waits
<1> QED BY <1>1, <1>2, <1>3, LeaseOfWorker, SessionInvariance, PTL
        DEF ProtocolSpec, JoinAfterBranches
=============================================================================
