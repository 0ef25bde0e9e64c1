SPECIFICATION RecoverySpec
CONSTANTS
  Revisions = {a, b}
  Workers = {w1}
  MaxAttempts = 2
  MaxClaims = 4
  MaxChanges = 3
  MaxFaults = 2
  Intents = {i1, i2, i3, i4}
  Hopeless = {i1}
  Blocked = {i2}
  Limit = 3
  MaxSetbacks = 1
  None = None
CHECK_DEADLOCK FALSE
PROPERTIES
  JobEnds
  RecoveryReachesAll
