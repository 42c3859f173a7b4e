SPECIFICATION Spec
CONSTANTS
  MaxVer = 3
  PowerLoss = TRUE
  DirSyncFails = FALSE
  ReadFails = FALSE
  BadJournals = FALSE
  LaunchGap = FALSE
INVARIANT DiskNeverDiverges
