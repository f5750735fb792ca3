----------------------------- MODULE MCTaskQueue -----------------------------
(***************************************************************************)
(* Instances for TLC of the task queue, and of the structured sessions     *)
(* that dispatch tasks to it and see only what becomes of them.  They      *)
(* share no state here: each behaviour is about one of the two.            *)
(***************************************************************************)
EXTENDS TaskQueueProperties, ProtocolRun

CONSTANTS web, daemon, main, b1, b2

Chain == <<{}, {1}>>       \* the second task waits for the first
SessionPlans == {<<"parallel", "join">>, <<"dispatch", "discuss">>}
OneDecision == <<"decide">>

VARIABLE about

\* The board beside a session has nothing to do.
BoardInit ==
  /\ ProtocolInit
  /\ \/ about = "tasks" /\ Init /\ plan[1] = "dispatch"
     \/ about = "session" /\ EmptyBoard(TRUE)

\* A process that is alone never holds an outdated copy: Expire has nothing to do.
BoardNext ==
  \/ about = "tasks" /\ Steps /\ UNCHANGED <<about, protocolVars>>
  \/ about = "session" /\ ProtocolNext /\ UNCHANGED <<about, vars>>

BoardSpec ==
  BoardInit /\ [][BoardNext]_<<about, vars, protocolVars>> /\ Fairness /\ ProtocolFairness

\* Every variable of both stays in its range, no task stands twice in the queue, and
\* a run that executes has been created.
BoardTypeOK == TypeOK /\ ProtocolTypeOK
=============================================================================
