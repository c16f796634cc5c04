SPECIFICATION Spec
CONSTANTS
  MaxFd = 2
  MaxSock = 2
  MaxQueue = 1
  MaxConn = 1
  Dest = {"peer"}
  Caller = {"other"}
  MyIp = "me"
  Loopback = "loopback"
  MallocMayFail = FALSE
PROPERTY DropsOnlyItsPeer
