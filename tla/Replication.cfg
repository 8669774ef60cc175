SPECIFICATION FairSpec
CONSTANTS
  Modes = {"SYNC", "ASYNC", "STRICT_SYNC"}
  MaxTs = 3
  MaxFaults = 1
  MaxChecks = 1
  Retention = 1
INVARIANTS TypeOK GaplessPrefix ReadyIsCurrent AckedIsReplicated SentFileIsOpen ChainUnbroken
PROPERTY EventuallyCurrent
CHECK_DEADLOCK FALSE
