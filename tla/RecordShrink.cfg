SPECIFICATION Spec
CONSTANTS
  Procs = {p1}
  Nobody = nobody
  Mems = {2, 4}
  Arcs = {0, 3}
  MinArc = 1
  DefaultArc = 1
  Disks = {1, 2, 3}
  InitDisks = {1}
  ImageSize = 1
  Addrs = {0, 1}
  DefaultAddr = 0
  Summed = {"v1"}
  Plain = {}
  Byo = {}
  ConcurrentInit = FALSE
  MarkerGap = FALSE
  SmallReuse = FALSE
  MaxCalls = 3
  MaxFaults = 1
  FlagSets = {{"disk"}}
CHECK_DEADLOCK FALSE
INVARIANT PoolFitsDisk
