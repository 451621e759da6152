CONSTANTS
  n1 = n1  t1 = t1  t2 = t2  t3 = t3  w1 = w1  w2 = w2
  Net = {n1}
  Task = {t1, t2, t3}
  Owner <- MCOwner
  Worker = {w1, w2}
  MaxThread = 2
  MaxIdle = 1
  PreStart = 2
  MaxQue = 2
SPECIFICATION Spec
INVARIANTS NoticeGiven SomeStay
PROPERTIES AsyncIoSpec ReleaseEnds
CHECK_DEADLOCK FALSE
