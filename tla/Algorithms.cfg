SPECIFICATION Spec
CONSTANTS
  HostIP = "loopback"
  AnyIP = "everywhere"
  MaxPort = 2
  Containers = {"c1", "c2"}
  Protocols = {"tcp", "udp"}
  HostAddresses = {"none", "guest", "any", "lan"}
  MaxShares = 2
  FileNames = {"a", "b", "c", "d", "e"}
  Alias = "alias"
  AllowIPv6 = FALSE
  MinUDP = 1
  MaxUDP = 2
  StatusName = "status"
  Ids = {"alias", "x", "y", "lo", "ll", "any", "mc"}
  AliasTable <- Internal
  ReverseNames = {"arpa"}
  MaxProbeCandidates = 2
  Names = {"host", "other", "arpa", "internal", "internal6"}
  PlanInputs <- Plans
  NormaliseInputs <- Requests
  MountInputs <- Mounts
  DnsInputs <- Lookups
  Paths <- Looks
INVARIANTS PlanIsFaithful SharesKeepAccess AnswersAreTheHosts ParityAgrees
CHECK_DEADLOCK FALSE
