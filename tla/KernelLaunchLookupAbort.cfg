CONSTANTS
  MaxLaunches = 2
  MaxShutdowns = 0
  MaxFaults = 1
SPECIFICATION Spec
INVARIANTS
  RunningHasAgent
CHECK_DEADLOCK FALSE
