\* Two threads besides the first, joined or detached, a first thread that leaves, interrupted
\* waits; a key that is created twice.
CONSTANTS
  m = m
  a = a
  b = b
  s1 = s1
  s2 = s2
  v = v
  Thread = {m, a, b}
  Main = m
  Stack = {s1, s2}
  MaxThreads = 2
  Value = {v}
  Use = {"detach", "main exits", "signal"}
  MaxKeys = 1
  MaxGen = 2
  Passes = 2
SPECIFICATION KSpec
SYMMETRY Symmetry
INVARIANTS TcbOwned JoinSettled TlsOwned DtorsRun
CHECK_DEADLOCK FALSE
