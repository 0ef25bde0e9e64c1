SPECIFICATION Spec
CONSTANTS
  Revisions = {a, b}
  Workers = {w1, w2}
  MaxAttempts = 2
  MaxClaims = 3
  MaxChanges = 4
  MaxFaults = 1
  None = None
SYMMETRY Symmetry
CHECK_DEADLOCK FALSE
INVARIANTS
  OnlyCurrentIsFound
  TrashedIsNotFound
