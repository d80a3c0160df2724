CONSTANTS
  MaxExecs = 2
  MaxGenerations = 1
  MaxDeathReports = 1
  DocWrites = {TRUE}
SPECIFICATION Spec
INVARIANTS
  InterruptGateHolds
