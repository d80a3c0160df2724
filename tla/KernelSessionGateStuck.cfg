CONSTANTS
  MaxExecs = 1
  MaxGenerations = 1
  MaxDeathReports = 1
  DocWrites = {TRUE}
SPECIFICATION FairSpec
PROPERTIES
  GateOpens
