\* Uevents: a ring of two entries, overrun by four events; readers of both kinds.
CONSTANTS
  t1 = t1
  t2 = t2
  none = none
  Task = {t1, t2}
  Root = {t1}
  Name = {}
  LongName = {}
  ShortName = none
  Stored <- Cut
  ReadCall = {"wait_event", "select"}
  MaxProcs = 2
  MaxServices = 0
  RingSize = 2
  MaxTxns = 1
  MaxHandles = 0
  MaxUevents = 4
SPECIFICATION Spec
SYMMETRY Symmetry
INVARIANTS RingInv NoLostWakeup
PROPERTIES LossOnlyOnOverrun
CHECK_DEADLOCK FALSE
