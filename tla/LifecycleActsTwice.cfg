SPECIFICATION Spec
CONSTANTS
  Revisions = {a, b}
  First = a
  Admins = {x}
  Requests = {w1, w2, w3}
  Calls <- RetryCalls
  Numbers = {n1, n2}
  n1 = n1
  n2 = n2
  MaxCrashes = 1
  None = None
SYMMETRY Symmetry
CHECK_DEADLOCK FALSE
INVARIANTS
  OperationActsOnce
