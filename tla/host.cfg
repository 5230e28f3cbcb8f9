CONSTANTS
  None = None
  Records = {r1, r2}
  MaxSessions = 1
  Contenders = {c1, c2}
  Older = {o1}
  Neighbours = {x1, x2}
  NumFallbacks = 2
SPECIFICATION HostSpec
CHECK_DEADLOCK FALSE
INVARIANTS SessionsServe LockIsExclusive ProcessesContained
PROPERTIES CloseIsHonest EverythingSettles
