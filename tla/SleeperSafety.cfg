SPECIFICATION Spec
CONSTANTS
  Clients = {c1, c2}
  Pids = {p1, p2}
  Nobody = nobody
  MaxHeld = 1
  MaxEvents = 4
  Kills = TRUE
  Deaths = TRUE
INVARIANTS ClientCancelsFreeze
PROPERTY ServedSocketStays
SYMMETRY Symmetry
CHECK_DEADLOCK FALSE
