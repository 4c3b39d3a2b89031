SPECIFICATION LiveSpec
CONSTANTS
  r1 = r1
  r2 = r2
  r3 = r3
  a1 = a1
  a2 = a2
  Requests = {r1, r2}
  Urls = {u1}
  NoUrl = NoUrl
  Ok = Ok
  Err = Err
  Free = Free
  LapseAt = {"write_query", "invalidate", "write_release", "select", "populate", "miss_release"}
  CodesGuessable = FALSE
  RedisFaults = {"write", "resolve"}
  PostgresFaults = {"resolve"}
  Cancels = {"write", "resolve"}
  Writers = {r1, r2}
  Apps = {a1}
  AppOf <- OneApp
  Cells = {c1, c2, c3}
  NoCell = NoCell
  Pending = Pending
  FullTtl = 3
  Extension = 1
  RollBelow = 2
PROPERTY EveryRequestEnds
PROPERTY StaleEntryExpires
CHECK_DEADLOCK FALSE
