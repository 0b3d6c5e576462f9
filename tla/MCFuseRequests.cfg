\* Requests: a daemon that may use its own mount, a caller and a further task, which may hold
\* the device or unmount; a handshake and three requests, under fair scheduling.
CONSTANTS
  d1 = d1
  c1 = c1
  c2 = c2
  n1 = n1
  Task = {d1, c1, c2}
  Caller = {d1, c1}
  Node = {n1}
  Shared = {}
  SharedIno = n1
  InoOf <- Fold
  ReadCall = {"read"}
  MaxUnique = 4
SPECIFICATION FairSpec
INVARIANTS ConnInv NoLostWakeup NoDangling InitFirst UmountAlone
PROPERTIES ImplementsService NoHang
CHECK_DEADLOCK FALSE
