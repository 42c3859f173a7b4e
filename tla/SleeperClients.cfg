SPECIFICATION FairSpec
CONSTANTS
  Clients = {c1}
  Pids = {p1, p2}
  Nobody = nobody
  MaxHeld = 1
  MaxEvents = 3
  Kills = TRUE
  Deaths = TRUE
PROPERTIES HeldClientWakes HeldClientServed RunningIsServed SuspendedIsHeld
CHECK_DEADLOCK FALSE
