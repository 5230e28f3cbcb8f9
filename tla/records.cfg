SPECIFICATION RecordsSpec
CONSTANTS
  None = None
  Services = {s1, s2}
  Chats = {chat, other}
  Ahead <- MCAhead
  MaxLife = 2
  Lifetimes = {2, 3}
  AuthLife = 2
  Skew = 1
  Lag = 1
  Capacity = 1
  NumCalls = 3
  MaxOpen = 2
  MaxTime = 2
  MaxRings = 2
  MaxFaults = 1
  Idle = Idle
  BackupSticks = FALSE
  MaxRecords = 4
  MaxFailures = 3
  MaxBytes = 2
  Retains <- MCRetains
CHECK_DEADLOCK FALSE
INVARIANTS JournalRecovers ContextsLast
PROPERTIES ImplementsLog NothingRollsBack
