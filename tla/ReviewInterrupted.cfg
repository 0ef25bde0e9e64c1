SPECIFICATION FairSpec
CONSTANTS
  s1 = s1  ann = ann  bob = bob
  form = form  other = other
  item = item
  r1 = r1  r2 = r2  r3 = r3  w1 = w1
  n1 = n1  n2 = n2
  None = None
  Submissions = {s1}
  Reviewers = {ann, bob}
  Inputs = {form, other}
  Items = {item}
  Requests = {r1, r2}
  Sweepers = {w1}
  Calls <- InterruptedCalls
  Numbers = {n1, n2}
  Unsteady = {s1, item}
  MaxCrashes = 1
CHECK_DEADLOCK FALSE
INVARIANTS
  ContentBeforeRevision
  AnswersAreTrue
PROPERTIES
  RecoveryFinishes
  KeepsPromise
