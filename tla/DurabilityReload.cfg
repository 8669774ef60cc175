SPECIFICATION Spec
CONSTANTS
  FlushEvery = 2
  FileSize = 2
  Retention = 1
  MaxTx = 3
  MaxSnapshots = 2
  MaxReplaces = 1
  MaxPromotions = 0
  MaxCrashes = 1
INVARIANT RestartRestores
CHECK_DEADLOCK FALSE
