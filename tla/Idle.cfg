SPECIFICATION FairSpec
CONSTANTS
  Interval = 1
  After = 1
  FlapWindow = 2
  MaxPenalty = 4
  PenaltyResetAfter = 4
  MaxFailures = 2
  MaxEvents = 4
  Stalls = FALSE
INVARIANT IdleIsReal
PROPERTY PenaltyFollowsFlaps
PROPERTY QuietMachineSuspends
PROPERTY FlapsSlowDown
