SPECIFICATION Spec
CONSTANTS
  MaxFd = 3
  MaxSock = 2
  MaxQueue = 1
  MaxConn = 1
  ExitBound = 2
INVARIANTS
  IInv
  DescriptorsAccounted
  ListedHasHandler
PROPERTY
  RegistrySpec
