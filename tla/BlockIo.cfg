SPECIFICATION BackendsSpec
CONSTANTS
  Confs <- MCConfs
  Tasks = {1, 2}
  Queues = {0, 1}
  DevSize = 8
  Sector = 2
  IoqSize = 2
  MaxEvents = 1
  Page = 2
  Blk = 4
  IovMax = 2
  LCores = 3
  MaxSched = 2
  Worlds <- MCWorlds
  SdThreads = {1, 2}
  SdMaxQps = 3
  SdUsers = {1, 2, 3}
  SdMaxQd = 3
  SdExecutions = 2
  Threads = {1, 2}
  Clients = {1, 2}
  MaxSends <- MCMaxSends
  SockBuf = 1
INVARIANTS  IoAccounted SameDisk SlotsOwned
PROPERTY EveryCallReturns
CHECK_DEADLOCK FALSE
