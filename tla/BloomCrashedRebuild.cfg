SPECIFICATION Spec
CONSTANTS
  Apps = {a1}
  Codes = {1, 2}
  PageSize = 1
  NoKey = NoKey
  NoSnap = NoSnap
  NoApp = NoApp
  CodesAge = FALSE
  FlushDuringReadyPass = FALSE
  ClearDuringJob = FALSE
  LocksMayDrop = FALSE
  Crashes = TRUE
  CrashDuringJob = TRUE
INVARIANT OldLinksHeld
