SPECIFICATION FairSpec
CONSTANTS
  Threads = {t1, t2, t3}
  MaxRequests = 1
INVARIANTS TypeOK Exclusion CountsAgree NoLostWakeup
PROPERTIES ImplementsModes RequestAnswered
CHECK_DEADLOCK FALSE
