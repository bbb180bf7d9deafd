CONSTANTS
  r1 = r1
  r2 = r2
  r3 = r3
  Readers = {r1, r2, r3}
  LocksNr = 2
  Tid <- MCTid
  Bias = 4
  MaxGrows = 2
  MaxIntr = 2
  t1 = t1
  t2 = t2
  t3 = t3
  sA = sA
  sB = sB
  sC = sC
  RwTasks = {t1, t2, t3}
  RwScheds = {sA, sB}
  OnSched <- Together
  Growers = {t2, t3}
  NoAo = NoAo
  Nobody = Nobody
  o1 = o1
  o2 = o2
  MapOps = {o1, o2}
  Hashes <- MCHashes
  RegionEntries = 150
  RestoreLockNr = 16
  HopBucketSize = 8
  MaxDisplace = 2
  NoOp = NoOp
SPECIFICATION MCSpec
PROPERTIES EveryTrtTaskEnds
CHECK_DEADLOCK FALSE
