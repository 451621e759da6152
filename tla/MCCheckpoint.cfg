CONSTANTS
  Root = Root
  a = a
  b = b
  c = c
  Key = {Root, a, b, c}
  Parent <- MCParent
  Ops = {"mkdir", "create", "close"}
  CkpNum = 1
  Thread = {t1, t2}
  MaxLog = 4
  SaveFails = TRUE
SPECIFICATION Spec
CHECK_DEADLOCK FALSE
INVARIANTS  OneWriter DiskPaired
