SPECIFICATION Spec
CONSTANTS
  g = g
  h = h
  w = w
  e1 = e1
  e2 = e2
  e3 = e3
  x = x
  y = y
  z = z
  Requests = {r1, r2, r3}
  Founder = founder
  Identities = {g, h, w}
  WeChat = {w}
  Bootstrap = {e1, w}
  Emails = {e1, e2, e3}
  EmailsOf <- Email
  Codes = {x, y}
  RegistrationLimit = 1
  CodeAttempts = 2
  First = first
  Passwords = {x, y}
  Threshold = 2
  LockTime = 1
  SessionLife = 2
  MaxSessions = 1
  MaxTime = 2
  MaxSwitches = 1
  TaskTargets = {"doing", "done"}
  TagLists = {z, g}
  NoTags = z
  DrainLimit = 1
  MaxClock = 1
  Others = {z}
  TaskLimit = 1
  MaxInboxClock = 1
  Keys = {x, y}
  Questions = {x, y}
  Prompts = {x, y}
  SubmissionKeys = {x, y}
  Inputs = {x, y, z}
  ContentOf <- Content
  MaxOperations = 4
  Consumers = {x, y}
  Logins = {login}
  LoginEnd <- SessionEnd
  TicketLife = 1
  RenewAfter = 0
  MaxMoment = 1
  MaxGeneration = 2
  MaxCalls = 2
  MaxTroubles = 1
  Entries = {g, z}
  SystemMenus = {z}
  MenuKeys = {g, h, z}
  MaxDepth = 2
  MenuLimit = 4
  Shelves = {x, y}
  RequestKeys = {z}
  None = None
SYMMETRY Symmetry
CHECK_DEADLOCK FALSE
INVARIANTS
  TypeOK
  OnePersonOneMember
  TrailIsTrue
  ChangesAreNotified
  OneTaskPerItem
  ReceiptMatchesMessage
  OneAnswerPerTurn
  SameKeySameSubmission
  OneOriginal
  OneConnection
  NavigationIsATree
  CollectionsFormTrees
PROPERTIES
  ConflictIsExplained
  LockIsEarned
  NoSessionForDisabled
  ReviewedTextStays
  OnlyShownIsRemoved
