SPECIFICATION FairSpec
CONSTANTS
  Keys = {k1, k2}
  Redirected = {k1}
  Addrs = {a1, a2}
  None = none
  Engine = engine
  ReloadEvery = 2
  MaxEvents = 3
  SaveFails = FALSE
INVARIANT RecordedBeforeExposed
INVARIANT TriggerNotLost
PROPERTY OthersStay
PROPERTY Converges
PROPERTY AnchorHeals
CHECK_DEADLOCK FALSE
