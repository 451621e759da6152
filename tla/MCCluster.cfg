CONSTANTS
  c1 = c1  c2 = c2  c3 = c3  n1 = n1  n2 = n2  d1 = d1
  Client = {c1, c2, c3}
  Cmds <- PutPutRm
  Homes <- NnHomes
  Nn = {n1, n2}
  Dn = {d1}
  MaxFaults = 1
SPECIFICATION Spec
INVARIANTS SameAsLog ChecksHold BlocksKept
CHECK_DEADLOCK FALSE
