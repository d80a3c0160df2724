CONSTANTS
  Savers = {s1, s2}
  NoSaver = none
  MaxSaves = 3
  MaxRevisions = 2
  MaxExternal = 0
  MaxCrashes = 1
  Faults = {}
SPECIFICATION Spec
INVARIANTS
  ConflictIsReal
