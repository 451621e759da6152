CONSTANTS
  d1 = d1  d2 = d2  b1 = b1  b2 = b2  s1 = s1  s2 = s2
  DataNode = {d1, d2}
  Block = {b1, b2}
  Store = {s1, s2}
  DnTimeout = 2
  DeleteOnce = 1
  Alias <- NoAlias
SPECIFICATION Spec
SYMMETRY Symmetric
INVARIANTS StoresAccounted AliveIsListed OrdersOnce
PROPERTY OrdersKept
