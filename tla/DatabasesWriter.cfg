SPECIFICATION FairSpec
CONSTANTS
  Names = {"memgraph", "a"}
  DefaultName = "memgraph"
  Databases = {d0, d1}
  Default = d0
  Sessions = {s1}
  None = None
  Indexed = {d1}
  Labels = {l1}
PROPERTIES DropNeedsNoClient
CHECK_DEADLOCK FALSE
