SPECIFICATION Spec
CONSTANTS
  a = a  b = b  g = g
  Sessions = {a}
  Groups = {}
  Inputs <- ChatAndHeartbeat
  MaxRuns = 3
  MaxCrashes = 0
  MaxEstops = 1
  MaxHolds = 0
  MaxForeign = 0
INVARIANTS LeasePublished
