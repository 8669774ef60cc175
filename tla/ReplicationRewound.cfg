SPECIFICATION Spec
CONSTANTS
  Modes = {"SYNC"}
  MaxTs = 2
  MaxFaults = 2
  MaxChecks = 2
  Retention = 1
INVARIANT ReadyIsRecovered
CHECK_DEADLOCK FALSE
