\* Detached threads: the reaper frees a stack that a task still runs on.
CONSTANTS
  m = m
  a = a
  b = b
  s1 = s1
  s2 = s2
  v = v
  Thread = {m, a, b}
  Main = m
  Stack = {s1, s2}
  MaxThreads = 2
  Value = {v}
  Use = {"detach"}
SPECIFICATION Spec
INVARIANTS StackLive
CHECK_DEADLOCK FALSE
