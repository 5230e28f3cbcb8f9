SPECIFICATION MCSpec
CONSTANTS
  None = None
  Torn = Torn
  Writers = {r, w}
  Renamer = r
  Inodes = {1, 2, 3, 4, 5, 6}
  Texts = {source, target, edit1, edit2}
  Origin = source
  Target = target
  MaxFaults = 1
  Bindings = {b1, b2}
  Credentials = {c1, c2}
  TornJournals = FALSE
  StaleRuntimes = FALSE
CHECK_DEADLOCK FALSE
INVARIANTS NoTextLost OutcomeAgrees RecoveryWorks
PROPERTIES ImplementsMove
