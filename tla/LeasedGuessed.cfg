SPECIFICATION Spec
CONSTANTS
  Requests = {r1, r2}
  Urls = {u1, u2}
  NoUrl = NoUrl
  Ok = Ok
  Err = Err
  Free = Free
  LapseAt = {}
  CodesGuessable = TRUE
  RedisFaults = {}
  PostgresFaults = {}
  Cancels = {}
SYMMETRY Symmetry
INVARIANT Coherent
