CONSTANTS
  r1 = r1  r2 = r2  r3 = r3  r4 = r4  t1 = t1  t2 = t2  px = px  tx = tx
  Request = {r1, r2, r3, r4}
  Logged = {r1}
  Silent = {r3}
  Bad = {}
  Big = {r4}
  TaskThread = {t1}
  Paxos = px
  Elsewhere = tx
  Slot <- OneSlot
  QueueSize = 1
  MaxTask = 2
  InCap = 2
  OutCap = 2
SPECIFICATION Spec
INVARIANTS NodesAccounted PoolDestroyedLast OneAnswer NoLostWakeup NeverStalls
CHECK_DEADLOCK FALSE
