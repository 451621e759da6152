CONSTANTS
  p1 = p1  p2 = p2  p3 = p3  b1 = b1  b2 = b2  c1 = c1  c2 = c2  f1 = f1  f2 = f2
  Peer = {p1, p2, p3}
  Ops <- Mixed
  Blk <- MixedBlk
  Size <- Sizes
  Stored = {b1, b2}
  Conn = {c1, c2}
  Fio = {f1, f2}
  FioMax = 1
  FioIdle = 1
  FioBatch = 1
  RefillLevel = 0
  BufCap = 1
  TxCap = 2
  MayFail = TRUE
SPECIFICATION Spec
INVARIANTS PublishedWhole Accounted  OwnStream 
CHECK_DEADLOCK FALSE
