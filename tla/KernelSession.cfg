CONSTANTS
  MaxExecs = 2
  MaxGenerations = 2
  MaxDeathReports = 1
  DocWrites = {TRUE}
SPECIFICATION FairSpec
INVARIANTS
  TypeOK
  NoOrphanedRunning
  NoForgottenQueued
  ErrorNeverRecordedDone
  QueueProjected
  OneRequestInKernel
PROPERTIES
  LedgerKept
  AdmittedSettles
  ExitIsNoticed
