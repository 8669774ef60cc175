SPECIFICATION FairSpec
CONSTANTS
  Instances = {"a", "b"}
  Coordinators = {"c1", "c2"}
  FirstMain = "a"
  FirstLeader = "c1"
  Nobody = "nobody"
  MaxCommits = 2
  MaxDisturbances = 2
INVARIANTS TypeOK DivergedIsNoticed ReadyIsEqual AckedSurvives OneMainPerUuid
PROPERTY EventuallyRepaired
CHECK_DEADLOCK FALSE
