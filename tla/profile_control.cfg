CONSTANTS
  Clients = {c1}
  Profiles = {home, work}
  DefaultProfile = home
  Leased = {work}
  Confirmations = {TRUE, FALSE}
  MaxRequests = 3
SPECIFICATION FairSpec
CHECK_DEADLOCK FALSE
INVARIANTS SelectionsAreKept FileHoldsLastSwitch
PROPERTIES ActsAsSelected EverythingAnswered
