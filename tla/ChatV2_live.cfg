SPECIFICATION FairSpec
CONSTANTS
  MaxFd = 0
  MaxSock = 2
  MaxQueue = 1
  MaxConn = 1
  ExitBound = 1
PROPERTY HandlerEndsOrStrays
