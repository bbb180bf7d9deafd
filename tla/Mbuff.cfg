SPECIFICATION Spec
CONSTANTS
  b1 = b1  b2 = b2  b3 = b3  m1 = m1  m2 = m2
  Mbuffs <- MCMbuffs
  Buffers <- MCBuffers
  Size <- MCSize
  Align = 3
  INLINE = 2
  Threads = {"t1", "t2"}
  Private = {"t1"}
  Data <- MCData
  Fill = "z"
  MaxWrites = 2
  Prefix = 1
  Suffix = 1
  Grain = 2
  Sector = 2
  Iov = 1
  ApiOps = {"get", "put", "del", "exists"}
SYMMETRY MCSymmetry
CHECK_DEADLOCK FALSE
INVARIANTS ContentKept BuffersAccounted
