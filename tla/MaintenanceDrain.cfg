SPECIFICATION FairSpec
CONSTANTS
  Scopes = {a, b, c}
  Tasks = {t1, t2}
  Windows = {w1, w2}
  MaxEpoch = 2
  RecordLimit = 2
  None = None
CHECK_DEADLOCK FALSE
INVARIANTS
  DrainedIsQuiet
  WorkIsFenced
PROPERTIES
  DrainCompletes
  KeepsGate
