SPECIFICATION Spec
CONSTANTS
  a = a  b = b  g = g
  Sessions = {a}
  Groups = {}
  Inputs <- ChatTraffic
  MaxRuns = 3
  MaxCrashes = 0
  MaxEstops = 0
  MaxHolds = 0
  MaxForeign = 1
INVARIANTS SerialUntilAbort
PROPERTIES VerdictIsFinal HeartbeatYields ImplementsLifecycle
