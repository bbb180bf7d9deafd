CONSTANTS
  kA = kA  kB = kB  kD = kD  c1 = c1  c2 = c2
  Keys = {kA, kB, kD}
  Hash <- MCHash
  NoKey = NoKey
  Clients = {c1, c2}
  PutOps = {"UPSERT", "CREATE", "REPLACE"}
  PutKeys = {kA, kB, kD}
  GetKeys = {kA}
  DelKeys = {kD}
  Putters = {c1, c2}
  Getters = {c2}
  Deleters = {c1}
  Plays = {"shift"}
  HighWm = 3
  Evicting = {TRUE, FALSE}
  Segs = {s1, s2, s3, s4}
  NoSeg = NoSeg
  SegSize = 2
  StreamsNr = 1
  MaxTs = 3
  HomesNr = 8
  BucketSize = 2
  MaxDisplace = 4
  TagsNr = 2
  MaxKvSize = 1
  Pbas <- Grains
  NoPba = NoPba
SYMMETRY SegSymmetry
SPECIFICATION MCSpec
CHECK_DEADLOCK FALSE
INVARIANT RemoveMeetsItsKey
