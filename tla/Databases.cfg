SPECIFICATION FairSpec
CONSTANTS
  Names = {"memgraph", "a", "b"}
  DefaultName = "memgraph"
  Databases = {d0, d1}
  Default = d0
  Sessions = {s1, s2}
  None = None
  Indexed = {d1}
  Labels = {l1, l2}
INVARIANTS NoDanglingAccess CountExact IndexerStopsFirst
PROPERTIES DropEndsUnlessStuck DeferredEnds
CHECK_DEADLOCK FALSE
