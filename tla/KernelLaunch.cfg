CONSTANTS
  MaxLaunches = 2
  MaxShutdowns = 1
  MaxFaults = 1
SPECIFICATION Spec
INVARIANTS
  TypeOK
  GateIsOwned
  NoLostWaiter
  NoKernelAfterShutdown
  SlotsAgree
PROPERTIES
  TerminalSticks
  NewerAgentSurvives
  GateReopens
CHECK_DEADLOCK FALSE
