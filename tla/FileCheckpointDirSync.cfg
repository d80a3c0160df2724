CONSTANTS
  Savers = {s1}
  NoSaver = none
  MaxSaves = 1
  MaxRevisions = 2
  MaxExternal = 0
  MaxCrashes = 1
  Faults = {"dirsync"}
SPECIFICATION Spec
INVARIANTS
  ConflictIsReal
