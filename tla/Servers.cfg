SPECIFICATION ServersSpec
CONSTANTS
  Nodes = {1, 2, 3}
  Keys = {0, 1}
  Topologies <- MCTopologies
  MaxTries = 1
  PoolSize = 1
  Clients = {1, 2}
  McKeys = {1, 2}
  Scripts <- MCScripts
  Stores <- MCStores
  MaxTime = 4
  RealtimeMaxDelta = 2
  MaxDigits = 4
  WordSize = 200
  McPoolSize = 1
  McMaxTries = 1
  McFaults = {"alloc", "put", "intr", "uninit", "cap"}
INVARIANTS AnswersMatch FramingKept ItemsServedIntact AnsweredOnce
PROPERTY ServersReturn
CHECK_DEADLOCK FALSE
