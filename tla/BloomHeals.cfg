SPECIFICATION LiveSpec
CONSTANTS
  Apps = {a1, a2}
  Codes = {1}
  PageSize = 1
  NoKey = NoKey
  NoSnap = NoSnap
  NoApp = NoApp
  CodesAge = TRUE
  FlushDuringReadyPass = FALSE
  ClearDuringJob = FALSE
  LocksMayDrop = TRUE
  Crashes = TRUE
  CrashDuringJob = FALSE
INVARIANTS
  OnlyLostMissing
PROPERTY FilterHeals
