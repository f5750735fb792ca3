SPECIFICATION Spec
CONSTANTS
  p1 = p1  p2 = p2  text = text
  Procs = {p1}
  Keys = {text}
  Requests <- Tasks
  MaxEntries = 1
  BatchSize = 1
  MaxAttempts = 2
  RetryBase = 1  RetryMax = 4
  ClaimStale = 3
  DedupeWindow = 2
  MaxDelay = 1
  MaxLag = 3
  MaxCrashes = 0
  MaxStops = 0
INVARIANTS RetriedUntilSent
