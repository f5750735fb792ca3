----------------------------- MODULE RunLifecycle -----------------------------
(***************************************************************************)
(* What a caller of enqueueSessionRun is promised about its run, whatever  *)
(* queues, timers, leases and recoveries are behind it (SessionRunStatus   *)
(* of types.ts, as the caller's promise sees it): a run is born waiting or *)
(* executing; a turn that starts executes once; a run that never executed  *)
(* does not complete; a run told to stop that stops ends cancelled; an end *)
(* is final; a restart loses every live run at once, and only those.       *)
(***************************************************************************)
EXTENDS Naturals

CONSTANT N    \* bound: runs ever created

Run == 1 .. N

VARIABLES born,     \* runs 1..born exist
          phase     \* of each run

Live == {"waiting", "executing", "stopping"}
Ended == {"completed", "failed", "cancelled"}
Phases == {"unborn", "lost"} \cup Live \cup Ended

\* The steps one run may take while the process lives.
Hops == {<<"waiting", "executing">>, <<"waiting", "stopping">>,
         <<"waiting", "failed">>, <<"waiting", "cancelled">>,
         <<"executing", "stopping">>, <<"executing", "completed">>,
         <<"executing", "failed">>, <<"executing", "cancelled">>,
         <<"stopping", "cancelled">>}

Init == born = 0 /\ phase = [r \in Run |-> "unborn"]

\* One call may move many runs: a steering message cancels what waits, a
\* returning turn starts its successor.
Advance(R) == \A r \in R : phase'[r] = phase[r] \/ <<phase[r], phase'[r]>> \in Hops

Serve ==
  /\ phase' \in [Run -> Phases]
  /\ born' = born
  /\ Advance(Run)

\* A new run joins, next in number.
Submit ==
  /\ phase' \in [Run -> Phases]
  /\ born < N /\ born' = born + 1
  /\ phase'[born + 1] \in {"waiting", "executing"}
  /\ Advance(Run \ {born + 1})

\* A run that was stopping may have been recorded cancelled already.
Restart ==
  /\ phase' \in [Run -> Phases]
  /\ born' = born
  /\ \A r \in Run : IF phase[r] \in Live
                    THEN phase'[r] \in (IF phase[r] = "stopping" THEN {"lost", "cancelled"} ELSE {"lost"})
                    ELSE phase'[r] = phase[r]

Next == Serve \/ Submit \/ Restart

Spec == Init /\ [][Next]_<<born, phase>>
=============================================================================
