CONSTANTS
  Upstreams = {u1, u2}
  Profiles = {p1, p2}
  Stdio = {u1}
  OAuth = {u2}
  MaxProfiles = 1
  RestartOnCrash = FALSE
  MaxRestarts = 1
  IdleShutdown = FALSE
  MaxRequests = 1
  Gets = 2
  Restarts = 1
  CloseProfiles = 0
  Crashes = 1
  Requests = 0
  Budget <- MCBudget
SPECIFICATION Spec
PROPERTIES ImplementsCapacity
CHECK_DEADLOCK FALSE
