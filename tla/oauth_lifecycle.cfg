SPECIFICATION MCSpec
CONSTANTS
  None = None
  Procs = {a, b}
  NumCalls = 3
  MaxCreds = 2
  MaxFaults = 1
CHECK_DEADLOCK FALSE
INVARIANTS QuietIsCoherent AskedOnce NobodyIsStuck
PROPERTIES OnlyCurrentIsUsed
