SPECIFICATION Spec
CONSTANTS
  MaxFd = 3
  MaxSock = 2
  MaxQueue = 0
  MaxConn = 1
  ExitBound = 1
INVARIANT ClosesOnlyItsOwn
