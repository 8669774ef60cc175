SPECIFICATION Spec
CONSTANTS
  kBlockSize = 2
  kIdsInField = 1
  MaxId = 5
  Accessors = {a1, a2}
  NoOne = NoOne
INVARIANTS ProtectedWhileExact NothingHeldBack DurableGrows
