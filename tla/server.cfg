CONSTANTS
  None = None
  Profiles = {p1, p2}
  Upstreams = {u1, u2}
  Uris = {r1}
  Pages = 2
  MaxCursors = 1
  NumTasks = 3
  MaxOpen = 2
  MaxVer = 1
  MaxEvents = 1
  NumOps = 3
  MaxSessions = 2
  MaxSweeps = 1
  MaxUpdates = 1
  MaxFaults = 1
  Failure = Failure
  Callers = {c1, c2}
  MaxProbes = 3
  MaxEpoch = 1
  ByName = "destructive"
  Undefined = Undefined
  Default = p1
SPECIFICATION ServerSpec
CHECK_DEADLOCK FALSE
INVARIANTS ToolsAreCurrent CatalogIsCurrent  IdentityIsHonest DecisionsAreSafe RecordsAreHonest CallsAreDecided
