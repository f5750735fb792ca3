SPECIFICATION Spec
CONSTANTS
  p1 = p1  p2 = p2  text = text
  Procs = {p1, p2}
  Keys = {text}
  Requests <- FollowUps
  MaxEntries = 2
  BatchSize = 1
  MaxAttempts = 1
  RetryBase = 1  RetryMax = 2
  ClaimStale = 2
  DedupeWindow = 1
  MaxDelay = 1
  MaxLag = 2
  MaxCrashes = 0
  MaxStops = 1
SYMMETRY Workers
INVARIANTS TwiceOnlyIfDoubted
PROPERTIES EndsAreFinal
