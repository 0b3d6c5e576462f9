\* Lookups: three nodes, two of which fold to one inode number.
CONSTANTS
  d1 = d1
  c1 = c1
  n1 = n1
  n2 = n2
  n3 = n3
  Task = {d1, c1}
  Caller = {c1}
  Node = {n1, n2, n3}
  Shared = {n1, n2}
  SharedIno = n1
  InoOf <- Fold
  ReadCall = {"read", "select"}
  MaxUnique = 5
SPECIFICATION Spec
INVARIANTS LookupBalance
CHECK_DEADLOCK FALSE
