\* A room two peers come and go from, in connections that reach their session.
SPECIFICATION Spec
CONSTANTS
  Peers = {p1, p2}
  MaxSessions = 2
  MaxFaults = 1
  HandshakeFaults = {}
INVARIANTS
  TypeOK
  RemovedIsUnused
  StampedIsIdle
PROPERTIES
  LatchCleared
  KernelReclaimed
CHECK_DEADLOCK FALSE
