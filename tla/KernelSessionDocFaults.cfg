CONSTANTS
  MaxExecs = 1
  MaxGenerations = 2
  MaxDeathReports = 1
  DocWrites = {TRUE, FALSE}
SPECIFICATION Spec
INVARIANTS
  SubmittedOncePerGeneration
