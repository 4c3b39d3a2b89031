SPECIFICATION Spec
CONSTANTS
  r1 = r1
  r2 = r2
  r3 = r3
  a1 = a1
  a2 = a2
  Requests = {r1, r2, r3}
  Urls = {u1}
  NoUrl = NoUrl
  Ok = Ok
  Err = Err
  Free = Free
  LapseAt = {}
  CodesGuessable = FALSE
  RedisFaults = {"resolve"}
  PostgresFaults = {"resolve"}
  Cancels = {"resolve"}
  Writers = {r3}
  Apps = {a1, a2}
  AppOf <- TwoApps
  Cells = {c1, c2, c3, c4}
  NoCell = NoCell
  Pending = Pending
  FullTtl = 1
  Extension = 1
  RollBelow = 1
SYMMETRY Symmetry
INVARIANTS
  TypeOK
  GuardedHoldLease
  NoFrozenCell
  NeverInvented
  NoDeadLink
  Coherent
PROPERTIES
  AnswersFromTheFlight
  NoStaleFill
CHECK_DEADLOCK FALSE
