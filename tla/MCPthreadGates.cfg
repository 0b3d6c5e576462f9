\* Three threads, a barrier for two of them, two phases.
CONSTANTS
  a = a
  b = b
  c = c
  Thread = {a, b, c}
  Total = 2
  MaxPhase = 2
  MaxReads = 1
SPECIFICATION FairSpec
INVARIANTS RwExclusion BarrierTogether OnceFirst
PROPERTIES GatesOpen
CHECK_DEADLOCK FALSE
