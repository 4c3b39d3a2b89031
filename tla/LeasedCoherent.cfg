SPECIFICATION Spec
CONSTANTS
  Requests = {r1, r2, r3, r4}
  Urls = {u1, u2}
  NoUrl = NoUrl
  Ok = Ok
  Err = Err
  Free = Free
  LapseAt = {}
  CodesGuessable = FALSE
  RedisFaults = {"shorten", "resolve"}
  PostgresFaults = {"shorten", "resolve"}
  Cancels = {"shorten", "resolve"}
SYMMETRY Symmetry
INVARIANTS
  TypeOK
  GuardedHoldLease
  Coherent
PROPERTY NoStaleFill
PROPERTY ImplementsLink
CHECK_DEADLOCK FALSE
