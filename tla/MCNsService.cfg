CONSTANTS
  n1 = n1  b1 = b1  o1 = o1  o2 = o2
  NameNode = {n1}
  Block = {b1}
  Object = {o1, o2}
  HeartbeatInterval = 1
  DeleteOnce = 1
  FaultKind = {"break", "lost", "expire", "restart", "crash"}
  MaxFaults = 2
SPECIFICATION FairSpec
INVARIANTS QueuesSound KnownBlocksStored
PROPERTIES HeartbeatsGoOn BlocksBecomeKnown 
CHECK_DEADLOCK FALSE
