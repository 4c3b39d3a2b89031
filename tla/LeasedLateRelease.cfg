SPECIFICATION Spec
CONSTANTS
  Requests = {r1, r2, r3}
  Urls = {u1, u2}
  NoUrl = NoUrl
  Ok = Ok
  Err = Err
  Free = Free
  LapseAt = {"miss_release"}
  CodesGuessable = FALSE
  RedisFaults = {}
  PostgresFaults = {}
  Cancels = {}
SYMMETRY Symmetry
INVARIANT Coherent
