CONSTANTS
  r1 = r1  r2 = r2  r3 = r3  r4 = r4  t1 = t1  t2 = t2  px = px  tx = tx
  Request = {r1, r2, r3}
  Logged = {r1}
  Silent = {}
  Bad = {r3}
  Big = {}
  TaskThread = {t1}
  Paxos = px
  Elsewhere = tx
  Slot <- TwoSlots
  QueueSize = 2
  MaxTask = 1
  InCap = 1
  OutCap = 1
SPECIFICATION ReadingSpec
PROPERTIES Answered Accepted Reclaimed
CHECK_DEADLOCK FALSE
