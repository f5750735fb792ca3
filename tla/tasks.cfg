SPECIFICATION BoardSpec
CONSTANTS
  web = web  daemon = daemon
  Procs = {daemon}
  Daemons = {daemon}
  NumTasks = 2
  BlockedBy <- Chain
  Operations = {"queue", "cancel", "retry", "complete"}
  MaxConcurrent = 1
  MaxAttempts = 2
  MaxOrphan = 1
  MaxMisses = 0
  MaxKicks = 1
  MaxRequests = 2
  MaxStalls = 1
  MaxCrashes = 1
  main = main  b1 = b1  b2 = b2
  Servers = {web, daemon}
  Desks = {web}
  MainRun = main
  Branches = {b1, b2}
  Plans <- SessionPlans
  BranchPlan <- OneDecision
  Speakers = 2
  Errands = {1, 2, 3}
  Gone = Gone  NoServer = NoServer  NoErrand = NoErrand
  MaxUpsets = 2
INVARIANTS BoardTypeOK NothingForgotten BoundedTries OneExecutor
PROPERTIES CancelledStays TasksMoveOn JoinAfterBranches StopUndoneOnlyByTurn RunsGoOn
CHECK_DEADLOCK FALSE
