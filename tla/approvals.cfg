CONSTANTS
  Bindings = {b1, b2}
  Modes = {"form", "delegated"}
  MaxJobs = 4
  MaxRecords = 1
  MaxBearers = 2
SPECIFICATION FairSpec
CHECK_DEADLOCK FALSE
INVARIANTS GrantIsEarned DelegatedTrail
PROPERTIES EverythingAnswered
