SPECIFICATION Spec
CONSTANTS
  FlushEvery = 2
  FileSize = 2
  Retention = 1
  MaxTx = 3
  MaxSnapshots = 2
  MaxReplaces = 1
  MaxPromotions = 1
  MaxCrashes = 1
INVARIANTS
  CrashKeepsCommits
  PowerLossKeepsSynced
  ReplaceYieldsHistory
CHECK_DEADLOCK FALSE
