----------------------------- MODULE MCServices -----------------------------
(***************************************************************************)
(* Instances of the smaller services for TLC, and of the task queue in two *)
(* processes.  They share no state here, so each behaviour is about one of *)
(* them, which its first state chooses; the others stand still, in a state *)
(* where their fairness asks for nothing.                                  *)
(***************************************************************************)
EXTENDS TaskQueueProperties, DaemonLeaseProperties, McpPool, WatchJobs, WakeQueue, Scheduler,
        HumanQuestions

CONSTANTS p1, p2, p3

Waits == <<{}, {1}>>
TwoMachines == {{p1}, {p2}}
Urgencies == <<1, 2, 2>>             \* one event is less urgent than the others

VARIABLE part   \* the service that this behaviour is about

Parts == {"tasks", "lease", "pool", "watch", "wake", "schedule", "questions"}

ServicesInit ==
  /\ part \in Parts
  /\ Init /\ LeaseInit /\ PoolInit /\ WatchInit /\ WakeInit /\ ScheduleInit /\ QuestionsInit
  /\ part # "schedule" => kind = "once" /\ mode = "task"
  /\ part # "lease" => \A p \in Candidates : ~starting[p]

\* The variables of the other services, by service.
Still(service) ==
  /\ UNCHANGED part
  /\ service # "tasks" => UNCHANGED vars
  /\ service # "lease" => UNCHANGED leaseVars
  /\ service # "pool" => UNCHANGED poolVars
  /\ service # "watch" => UNCHANGED watchVars
  /\ service # "wake" => UNCHANGED wakeVars
  /\ service # "schedule" => UNCHANGED scheduleVars
  /\ service # "questions" => UNCHANGED questionVars

ServicesNext ==
  \/ part = "tasks" /\ Next /\ Still("tasks")
  \/ part = "lease" /\ LeaseNext /\ Still("lease")
  \/ part = "pool" /\ PoolNext /\ Still("pool")
  \/ part = "watch" /\ WatchNext /\ Still("watch")
  \/ part = "wake" /\ WakeNext /\ Still("wake")
  \/ part = "schedule" /\ ScheduleNext /\ Still("schedule")
  \/ part = "questions" /\ QuestionsNext /\ Still("questions")

servicesVars == <<part, vars, leaseVars, poolVars, watchVars, wakeVars, scheduleVars, questionVars>>

ServicesSpec ==
  /\ ServicesInit /\ [][ServicesNext]_servicesVars
  /\ LeaseFairness /\ WatchFairness /\ WakeFairness

\* Every variable of every service stays in its range.
ServicesTypeOK ==
  /\ TypeOK /\ LeaseTypeOK /\ PoolTypeOK /\ WatchTypeOK /\ WakeTypeOK /\ ScheduleTypeOK
  /\ QuestionsTypeOK
=============================================================================
