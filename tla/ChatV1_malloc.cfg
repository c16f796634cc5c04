SPECIFICATION Spec
CONSTANTS
  MaxFd = 2
  MaxSock = 1
  MaxQueue = 1
  MaxConn = 1
  Dest = {"peer"}
  Caller = {"other"}
  MyIp = "me"
  Loopback = "loopback"
  MallocMayFail = TRUE
INVARIANT TableMatchesDescriptors
