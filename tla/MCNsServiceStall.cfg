CONSTANTS
  n1 = n1  b1 = b1  o1 = o1  o2 = o2
  NameNode = {n1}
  Block = {b1}
  Object = {o1, o2}
  HeartbeatInterval = 3
  DeleteOnce = 1
  FaultKind = {}
  MaxFaults = 0
SPECIFICATION PromptSpec
PROPERTY HeartbeatsGoOn
CHECK_DEADLOCK FALSE
