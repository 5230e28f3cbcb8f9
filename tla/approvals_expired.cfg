CONSTANTS
  Bindings = {b1, b2}
  Modes = {"form"}
  MaxJobs = 3
  MaxRecords = 2
  MaxBearers = 2
SPECIFICATION Spec
INVARIANTS ExpiredIsFinal
CHECK_DEADLOCK FALSE
SYMMETRY Symmetry
