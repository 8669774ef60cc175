SPECIFICATION Spec
CONSTANTS
  Instances = {"a", "b"}
  Coordinators = {"c1"}
  FirstMain = "a"
  FirstLeader = "c1"
  Nobody = "nobody"
  MaxCommits = 2
  MaxDisturbances = 2
INVARIANT AckedSurvivesAlways
CHECK_DEADLOCK FALSE
