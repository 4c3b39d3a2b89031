SPECIFICATION Spec
CONSTANTS
  Requests = {r1, r2, r3}
  Urls = {u1, u2}
  NoUrl = NoUrl
  Ok = Ok
  Err = Err
  Free = Free
  LapseAt = {"write_query", "invalidate", "write_release", "select", "populate", "miss_release"}
  CodesGuessable = TRUE
  RedisFaults = {"shorten", "write", "resolve"}
  PostgresFaults = {"shorten", "write"}
  Cancels = {"shorten", "write", "resolve"}
SYMMETRY Symmetry
INVARIANTS
  NeverInvented
  NoDeadLink
PROPERTY ReadsSurviveRedis
