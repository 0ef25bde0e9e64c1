SPECIFICATION Spec
CONSTANTS
  s1 = s1  ann = ann  bob = bob
  form = form  other = other
  item = item
  r1 = r1  r2 = r2  r3 = r3  w1 = w1
  n1 = n1  n2 = n2
  None = None
  Submissions = {s1}
  Reviewers = {ann, bob}
  Inputs = {form, other}
  Items = {item}
  Requests = {r1, r2, r3}
  Sweepers = {}
  Calls <- ContendedCalls
  Numbers = {n1, n2}
  Unsteady = {item, ann, form}
  MaxCrashes = 0
SYMMETRY RequestSymmetry
CHECK_DEADLOCK FALSE
INVARIANTS
  OneOutcome
  SameOperationSameAnswer
PROPERTIES
  RefusalsAreExplained
