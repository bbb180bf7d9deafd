CONSTANTS
  k1 = k1
  k2 = k2
  k3 = k3
  k4 = k4
  k5 = k5
  p6 = p6
  Keys = {k1, k2, k3, k4, k5}
  Hash <- MCHash
  DelKeys = {k1, k3, k4}
  PutOps = {"UPSERT", "CREATE", "REPLACE"}
  MaxDir = 2
  HomesNr = 8
  BucketSize = 2
  MaxDisplace = 4
  TagsNr = 2
  MaxKvSize = 1
  Pbas = {p1, p2, p3, p4, p5, p6}
  NoPba = NoPba
SYMMETRY PbaSymmetry
SPECIFICATION MCSpec
CHECK_DEADLOCK FALSE
INVARIANTS FoundWithoutHoles EntriesKept CopyKeeps
