SPECIFICATION ServicesSpec
CONSTANTS
  p1 = p1  p2 = p2  p3 = p3
  Procs = {p1, p2}
  Daemons = {}
  NumTasks = 2
  BlockedBy <- Waits
  Operations = {"queue", "complete"}
  MaxConcurrent = 1
  MaxAttempts = 1
  MaxOrphan = 1
  MaxMisses = 1
  MaxKicks = 1
  MaxRequests = 2
  MaxStalls = 0
  MaxCrashes = 0
  Hosts <- TwoMachines
  MaxStops = 1
  MaxBreaks = 1
  Ghost = Ghost  Nobody = Nobody
  Turns = {p1, p2, p3}
  NoClient = NoClient
  MaxEdits = 2
  MaxConnects = 3
  Polled = {p1}
  Told = {p2}
  Ticks = {1, 2}
  MaxWatchFaults = 1
  Events = {1, 2, 3}
  Urgency <- Urgencies
  MaxWakeEvents = 2
  Kinds = {"once", "interval"}
  Modes = {"task", "wake", "protocol"}
  MaxBoard = 2
  MaxScheduleEdits = 2
  MaxScheduleFaults = 1
  Questions = {1, 2}
  Cards = {1}
  MaxSlips = 1
INVARIANTS ServicesTypeOK OneTurnUnlessRetaken OneDaemon PooledIsOpen WokenOnce EveryEventAccounted OneRunInFlight OnceIsNotLost CardIsAnswerable ResumedOnce
PROPERTIES DependentsWait TwoDaemonsEnd LostOnlyByLateDelete WatchEnds EventsSettle
CHECK_DEADLOCK FALSE
