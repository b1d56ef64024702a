CONSTANTS
  Imports = {1, 2}
  Spare = {5}
  MaxEdits = 1
SPECIFICATION FairSpec
CHECK_DEADLOCK FALSE
INVARIANTS ImportIsAtomic
PROPERTIES SnapshotIsTrue NothingOverwritten ImportEnds
