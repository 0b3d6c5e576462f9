\* Calls and registry: three tasks, two slots, one table entry for three names, of which
\* one is too long to be stored; two transactions, handles that outlive their services.
CONSTANTS
  t1 = t1
  t2 = t2
  t3 = t3
  n1 = n1
  n2 = n2
  n3 = n3
  Task = {t1, t2, t3}
  Root = {t1}
  Name = {n1, n2, n3}
  LongName = {n3}
  ShortName = n2
  Stored <- Cut
  ReadCall = {"recv"}
  MaxProcs = 2
  MaxServices = 1
  RingSize = 1
  MaxTxns = 2
  MaxHandles = 2
  MaxUevents = 0
SPECIFICATION Spec
SYMMETRY Symmetry
INVARIANTS FilesInv ListsInv SenderInv NoLeak FifoDelivery NoLostWakeup RegistryInv
PROPERTIES DoneByTarget ImplementsRpc HandleNeverRebound
CHECK_DEADLOCK FALSE
