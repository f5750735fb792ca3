SPECIFICATION FairSpec
CONSTANTS
  a = a  b = b  g = g
  Sessions = {a}
  Groups = {}
  Inputs <- ChatAndHeartbeat
  MaxRuns = 2
  MaxCrashes = 0
  MaxEstops = 1
  MaxHolds = 1
  MaxForeign = 0
INVARIANTS AllStopEmptiesQueues
PROPERTIES EveryRunSettles LeaseLetGo
