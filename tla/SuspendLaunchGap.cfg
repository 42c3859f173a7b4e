SPECIFICATION Spec
CONSTANTS
  MaxVer = 1
  PowerLoss = FALSE
  DirSyncFails = FALSE
  ReadFails = FALSE
  BadJournals = FALSE
  LaunchGap = TRUE
INVARIANT OneHypervisor
