SPECIFICATION FairSpec
CONSTANTS
  MaxVer = 3
  PowerLoss = FALSE
  DirSyncFails = TRUE
  ReadFails = TRUE
  BadJournals = TRUE
  LaunchGap = FALSE
INVARIANTS TypeOK OneHypervisor SavedNeverRuns NeverStale SavedIsNewest RecoverResolves
PROPERTIES ImplementsGuestMemory Terminates
