SPECIFICATION FairSpec
CONSTANTS
  Names = {"memgraph", "a"}
  DefaultName = "memgraph"
  Databases = {d0, d1, d2}
  Default = d0
  Sessions = {s1, s2}
  None = None
  Indexed = {}
  Labels = {}
PROPERTIES PooledEnds
CHECK_DEADLOCK FALSE
