\* A recursive mutex and a condition variable: four threads, three broadcasts.
CONSTANTS
  a = a
  b = b
  c = c
  d = d
  Thread = {a, b, c, d}
  Type = "recursive"
  MaxDepth = 2
  MaxGen = 3
SPECIFICATION Spec
SYMMETRY Symmetry
INVARIANTS MutualExclusion OwnerExact NoLostSignal
CHECK_DEADLOCK FALSE
