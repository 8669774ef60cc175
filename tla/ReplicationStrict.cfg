SPECIFICATION FairSpec
CONSTANTS
  Modes = {"STRICT_SYNC"}
  MaxTs = 1
  MaxFaults = 1
  MaxChecks = 1
  Retention = 1
PROPERTY HeartbeatRecovers
CHECK_DEADLOCK FALSE
