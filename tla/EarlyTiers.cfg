SPECIFICATION EarlySpec
CONSTANTS
  Requests = {r1, r2, r3}
  Urls = {u1, u2}
  NoUrl = NoUrl
  Ok = Ok
  Err = Err
  Free = Free
  LapseAt = {}
  CodesGuessable = TRUE
  RedisFaults = {"shorten", "resolve"}
  PostgresFaults = {"shorten", "resolve"}
  Cancels = {"shorten", "resolve"}
  Base = 3
  MaxWord = 15
  MaxLen = 3
  Texts <- AllTexts
INVARIANTS AsideTypeOK RoundTrip CodesAreValid OverflowIsExact
PROPERTY ImplementsLink
SYMMETRY Symmetry
CHECK_DEADLOCK FALSE
