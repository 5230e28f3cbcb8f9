CONSTANTS
  Upstreams = {u1}
  Profiles = {p1}
  Stdio = {u1}
  OAuth = {}
  MaxProfiles = 1
  RestartOnCrash = TRUE
  MaxRestarts = 2
  IdleShutdown = TRUE
  MaxRequests = 2
  Gets = 2
  Restarts = 0
  CloseProfiles = 1
  Crashes = 1
  Requests = 2
  Budget <- MCBudget
SPECIFICATION FairSpec
CHECK_DEADLOCK FALSE
INVARIANTS SessionIsCurrent NoOrphan ScheduleIsExclusive CloseLeavesNothing
PROPERTIES SessionEndsProperly SlotsAreGivenBack EverythingSettles
