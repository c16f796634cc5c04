SPECIFICATION FairSpec
CONSTANTS
  MaxFd = 0
  MaxSock = 3
  MaxQueue = 0
  MaxConn = 1
  ExitBound = 1
PROPERTY PeerCloseDelists
