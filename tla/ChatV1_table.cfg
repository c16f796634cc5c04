SPECIFICATION Spec
CONSTANTS
  MaxFd = 3
  MaxSock = 2
  MaxQueue = 1
  MaxConn = 2
  Dest = {"me", "peer"}
  Caller = {"peer", "other"}
  MyIp = "me"
  Loopback = "loopback"
  MallocMayFail = FALSE
INVARIANTS
  TableMatchesDescriptors
  DescriptorsOwned
  ServedByOwnThread
  NoDuplicateDestination
  GoodbyeLeavesAccepted
  IInv
PROPERTIES
  AnnouncedIdIsOwn
  RegistrySpec
