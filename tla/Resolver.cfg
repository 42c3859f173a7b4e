SPECIFICATION FairSpec
CONSTANTS
  Ports = {1, 2}
  Lists = {"home", "vpn"}
  MaxCommands = 3
  MaxFaults = 3
  CheckFails = FALSE
INVARIANT UndisturbedStartHeals
PROPERTY PushedListFollows
CHECK_DEADLOCK FALSE
