SPECIFICATION MCSpec
CONSTANTS
  None = None
  Profiles = {p1, p2}
  ByName = "read"
  MaxFaults = 1
CHECK_DEADLOCK FALSE
INVARIANTS TrustedHintsDecide
