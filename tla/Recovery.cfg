SPECIFICATION Spec
CONSTANTS
  k1 = k1
  k2 = k2
  Keys = {k1, k2}
  Hash <- MCHash
  SegNr = 4
  SegSize = 2
  Threads = {1, 2}
  Confs <- MCConfs
  MaxVal = 3
  MaxTs = 4
INVARIANT EntriesKeepSegments
PROPERTIES  StampsNew
CHECK_DEADLOCK FALSE
