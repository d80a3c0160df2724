CONSTANTS
  Savers = {s1, s2, s3}
  NoSaver = none
  MaxSaves = 3
  MaxRevisions = 2
  MaxExternal = 1
  MaxCrashes = 1
  Faults = {"temp", "append", "rename"}
SPECIFICATION Spec
INVARIANTS
  TypeOK
  JournalExplainsDisk
  ConflictHasCause
  AckedIsDurable
  BaselineSettles
  NoLeakedIntent
PROPERTIES
  DiskNeverOlder
