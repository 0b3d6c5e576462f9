\* Two tasks over a ring of two bytes; writes of one byte, the ring, and more.
CONSTANTS
  t1 = t1
  t2 = t2
  Task = {t1, t2}
  PIPE_BUF = 2
  Count = {1, 2, 3}
SPECIFICATION FairSpec
INVARIANTS NoLostWakeup
PROPERTIES ImplementsQueue HangupReturns
CHECK_DEADLOCK FALSE
