CONSTANTS
  Upstreams = {u1}
  Profiles = {p1}
  Stdio = {u1}
  OAuth = {}
  MaxProfiles = 1
  RestartOnCrash = TRUE
  MaxRestarts = 2
  IdleShutdown = TRUE
  MaxRequests = 1
  Gets = 2
  Restarts = 1
  CloseProfiles = 0
  Crashes = 2
  Requests = 2
  Budget <- MCBudget
SPECIFICATION Spec
INVARIANTS NoOrphan
CHECK_DEADLOCK FALSE
