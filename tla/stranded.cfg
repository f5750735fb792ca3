SPECIFICATION Spec
CONSTANTS
  a = a  b = b  g = g
  Sessions = {a, b}
  Groups = {g}
  Inputs <- SwarmTraffic
  MaxRuns = 2
  MaxCrashes = 0
  MaxEstops = 0
  MaxHolds = 1
  MaxForeign = 1
INVARIANTS NoStrandedQueue
