SPECIFICATION FairSpec
CONSTANTS
  MaxFd = 1
  MaxSock = 2
  MaxQueue = 1
  MaxConn = 2
  Dest = {}
  Caller = {"other"}
  MyIp = "me"
  Loopback = "loopback"
  MallocMayFail = FALSE
PROPERTIES
  PeerCloseDelists
  MessagesAreRead
