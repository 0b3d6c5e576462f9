\* Joins: two threads besides the first, two entries and two stacks, a key with a destructor.
CONSTANTS
  m = m
  a = a
  b = b
  s1 = s1
  s2 = s2
  v = v
  Thread = {m, a, b}
  Main = m
  Stack = {s1, s2}
  MaxThreads = 2
  Value = {v}
  Use = {"kill"}
  MaxKeys = 1
  MaxGen = 1
  Passes = 2
SPECIFICATION KFairSpec
INVARIANTS StackLive
PROPERTIES JoinReturns
CHECK_DEADLOCK FALSE
