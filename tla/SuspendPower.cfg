SPECIFICATION Spec
CONSTANTS
  MaxVer = 3
  PowerLoss = TRUE
  DirSyncFails = TRUE
  ReadFails = FALSE
  BadJournals = FALSE
  LaunchGap = FALSE
INVARIANTS QuitIsDurable NoStrandedGuest SuspendKeepsSaved RestoredNeverResurrected
PROPERTY GuestNeverLost
