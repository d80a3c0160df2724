\* A handshake that has to send its capabilities, to peers that may be gone.
SPECIFICATION Spec
CONSTANTS
  Peers = {p1, p2}
  MaxSessions = 2
  MaxFaults = 0
  HandshakeFaults = {"capabilities"}
PROPERTIES
  KernelReclaimed
CHECK_DEADLOCK FALSE
