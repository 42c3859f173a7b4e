SPECIFICATION Spec
CONSTANTS
  Procs = {p1, p2}
  Nobody = nobody
  Mems = {2, 4}
  Arcs = {0, 3}
  MinArc = 1
  DefaultArc = 1
  Disks = {1, 2, 3}
  InitDisks = {1, 2}
  ImageSize = 1
  Addrs = {0, 1}
  DefaultAddr = 0
  Summed = {"v1", "own"}
  Plain = {"url"}
  Byo = {"own", "url"}
  ConcurrentInit = FALSE
  MarkerGap = FALSE
  SmallReuse = FALSE
  MaxCalls = 3
  MaxFaults = 1
  FlagSets = {{"mem"}, {"arc"}, {"mem", "arc"}, {"disk"}, {"addr"}}
INVARIANTS ArcFits DisksAgree HardwareIsRecord ArcAgrees TrustedIsVerified
PROPERTY OnlyAskedChanges
SYMMETRY Symmetry
CHECK_DEADLOCK FALSE
