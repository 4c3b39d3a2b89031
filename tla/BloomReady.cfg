SPECIFICATION Spec
CONSTANTS
  Apps = {a1, a2}
  Codes = {1, 2, 3}
  PageSize = 1
  NoKey = NoKey
  NoSnap = NoSnap
  NoApp = NoApp
  CodesAge = TRUE
  FlushDuringReadyPass = FALSE
  ClearDuringJob = FALSE
  LocksMayDrop = FALSE
  Crashes = FALSE
  CrashDuringJob = FALSE
SYMMETRY Symmetry
INVARIANTS
  TypeOK
  OnlyLostMissing
  SnapshotCovers
