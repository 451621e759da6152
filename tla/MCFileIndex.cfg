CONSTANTS
  Root = Root
  d = d
  f = f
  g = g
  h = h
  Key = {Root, d, f, h}
  Path <- SibPath
  Obj = {o1, o2, o3, o4, o5}
  Blk = {b1, b2}
  IndexNum = 5
  BlkLimit = 2
  MaxEntries = 1
  Width = 8
  RmUnclosed = FALSE
  NoObj = NoObj
  Dangling = Dangling
  NoKey = NoKey
SYMMETRY Symmetry
CHECK_DEADLOCK FALSE
SPECIFICATION Spec
INVARIANTS TypeOK PoolNeverDry TreeSound CountSound ParentsFirst
PROPERTIES BlocksFollowFiles DriftOnlyByTimeout NamespaceSpec 
VIEW View
