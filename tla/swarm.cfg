SPECIFICATION Spec
CONSTANTS
  a = a  b = b  g = g
  Sessions = {a, b}
  Groups = {g}
  Inputs <- SwarmTraffic
  MaxRuns = 3
  MaxCrashes = 1
  MaxEstops = 0
  MaxHolds = 1
  MaxForeign = 0
INVARIANTS NoRunLost WorkCountBacked NoGhostRuns RecoveredOnce
PROPERTIES FifoWithinClass StrandedOnlyByRepair
