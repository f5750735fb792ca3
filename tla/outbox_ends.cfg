SPECIFICATION FairSpec
CONSTANTS
  p1 = p1  p2 = p2  text = text
  Procs = {p1}
  Keys = {text}
  Requests <- Tasks
  MaxEntries = 2
  BatchSize = 1
  MaxAttempts = 2
  RetryBase = 1  RetryMax = 2
  ClaimStale = 2
  DedupeWindow = 2
  MaxDelay = 1
  MaxLag = 2
  MaxCrashes = 1
  MaxStops = 0
PROPERTIES EveryEntryEnds
