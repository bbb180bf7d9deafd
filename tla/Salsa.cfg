SPECIFICATION SalsaSpec
CONSTANTS
  g1 = g1  g2 = g2  g3 = g3  g4 = g4  g5 = g5  g6 = g6
  NoSeg = NoSeg
  Segs <- MCSegs
  Order <- MCOrder
  SegSize = 2
  bin_nr = 2
  Types = {"NBIN", "3BIN", "DYN", "XNP", "OVRW", "INTRPT", "PATENT", "CIRCULAR", "GREEDY"}
  low_watermark = 4
  high_watermark = 5
  xnp_circ_buf_len = 1
  xnp_max_capacity = 2
  MIN_REL = 1
  xnp_thr = 2
  CHERRY_PICK = 50
  Clients = {"p1", "p2"}
  Gcs = {"gc"}
  RecordSizes = {1}
  max_capacity = 3
  MaxWrites = 2
  MaxErrors = 1
  RANGES_MAX = 3
  Confs <- MCConfs
  Ctlrs = {1, 2, 3}
  PAGE = 4
  SECTOR = 2
  MDSIZE = 3
  MAX_CTLRS = 2
  MAX_STREAMS = 8
  SEGMD = 2
  MaxFaults = 1
INVARIANTS SegmentsPlaced CapacityAccounted  StreamsHaveSegments
PROPERTY FreedAfterLastUse StoreKeepsGeometry StartReturns
CHECK_DEADLOCK FALSE
