------------------------- MODULE CompositionProofs -------------------------
(***************************************************************************)
(* Type correctness of the modules that are checked together: the board    *)
(* with the structured sessions, and the services with the board in        *)
(* several processes.  Each part takes its own steps, or stands still; so  *)
(* the parts' own invariants hold of the whole.                            *)
(***************************************************************************)
EXTENDS MCTaskQueue, MCServices, TaskQueueProofs, ProtocolRunProofs, DaemonLeaseProofs,
        WatchJobsProofs, ServiceProofs, TLAPS

\* The board, and the sessions beside it.
BoardTyped == Typed /\ SessionInv

\* Every variable of the board and of the sessions stays in its range, for any number
\* of tasks, processes, runs and branches: no task stands twice in the queue
\* (pushQueueUnique), and only a run that was created executes.
THEOREM BoardAndSessionTypes == BoardSpec => []BoardTypeOK
<1>1. BoardInit => BoardTyped
  <2> SUFFICES ASSUME BoardInit PROVE BoardTyped
    OBVIOUS
  <2>1. \E resumed \in BOOLEAN : EmptyBoard(resumed)
    BY DEF BoardInit, Init
  <2> QED BY <2>1, TypedFromStart, SessionStarts DEF BoardInit, BoardTyped
<1>2. BoardTyped /\ [BoardNext]_<<about, vars, protocolVars>> => BoardTyped'
  <2> SUFFICES ASSUME BoardTyped, [BoardNext]_<<about, vars, protocolVars>> PROVE BoardTyped'
    OBVIOUS
  <2>1. [Next]_vars /\ [ProtocolNext]_protocolVars
    BY DEF BoardNext, Next
  <2> QED BY <2>1, TypedStep, SessionInvStep DEF BoardTyped
<1>3. BoardTyped => BoardTypeOK
  BY TypedIsTypeOK, SessionIsTyped DEF BoardTyped, BoardTypeOK
<1> QED BY <1>1, <1>2, <1>3, PTL DEF BoardSpec

-----------------------------------------------------------------------------
ServicesTyped ==
  /\ Typed /\ LeaseIInv /\ PoolIInv /\ WatchTyped /\ WakeTyped /\ ScheduleIInv /\ QuestionsIInv

\* Every variable of every service stays in its range, for any values of the
\* constants.  In particular what waits in a wake queue or in a script is bounded,
\* a tick writes rows of known watches only, and a schedule's handler leaves two
\* statements at most to do.
THEOREM ServiceTypes == ServicesSpec => []ServicesTypeOK
<1>1. ServicesInit => ServicesTyped
  BY TypedFromStart, LeaseStarts, PoolStarts, WatchTypedStarts, WakeTypedStarts, ScheduleStarts,
     QuestionsStart DEF ServicesInit, ServicesTyped, Init
<1>2. ServicesTyped /\ [ServicesNext]_servicesVars => ServicesTyped'
  <2> SUFFICES ASSUME ServicesTyped, [ServicesNext]_servicesVars PROVE ServicesTyped'
    OBVIOUS
  <2>1. /\ [Next]_vars /\ [LeaseNext]_leaseVars /\ [PoolNext]_poolVars /\ [WatchNext]_watchVars
        /\ [WakeNext]_wakeVars /\ [ScheduleNext]_scheduleVars /\ [QuestionsNext]_questionVars
    BY DEF ServicesNext, Still, servicesVars
  <2>2. LeaseIInv'
    BY <2>1, TypeStep, SoundStep DEF ServicesTyped, LeaseIInv
  <2> QED BY <2>1, <2>2, TypedStep, PoolStep, WatchTypedStep, WakeTypedStep, ScheduleStep,
             QuestionsStep DEF ServicesTyped
<1>3. ServicesTyped => ServicesTypeOK
  <2> SUFFICES ASSUME ServicesTyped PROVE ServicesTypeOK
    OBVIOUS
  <2>1. TypeOK /\ WatchTypeOK /\ WakeTypeOK
    BY TypedIsTypeOK, WatchIsTyped, WakeIsTyped DEF ServicesTyped
  <2>2. LeaseTypeOK /\ PoolTypeOK /\ ScheduleTypeOK
    BY DEF ServicesTyped, LeaseIInv, PoolIInv, ScheduleIInv, ScheduleTyped
  <2>3. QuestionsTypeOK
    BY DEF ServicesTyped, QuestionsIInv, QuestionsTyped, Fits, QuestionsTypeOK
  <2> QED BY <2>1, <2>2, <2>3 DEF ServicesTypeOK
<1> QED BY <1>1, <1>2, <1>3, PTL DEF ServicesSpec
=============================================================================
