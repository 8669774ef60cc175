SPECIFICATION Spec
CONSTANTS
  FlushEvery = 2
  FileSize = 2
  Retention = 1
  MaxTx = 4
  MaxSnapshots = 2
  MaxReplaces = 0
  MaxPromotions = 1
  MaxCrashes = 1
INVARIANT CrashKeepsAlways
CHECK_DEADLOCK FALSE
