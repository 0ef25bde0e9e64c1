SPECIFICATION FairSpec
CONSTANTS
  Uploads = {a, b}
  Keys = {k}
  Workers = {w1, w2}
  Capacity = 1
  MaxAttempts = 2
  MaxRetries = 1
  MaxFaults = 2
  None = None
CHECK_DEADLOCK FALSE
INVARIANTS
  OneParserAtATime
  OriginalKept
  ResultKept
  SameKeySameAsset
PROPERTIES
  JobSettles
