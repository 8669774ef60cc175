SPECIFICATION Spec
CONSTANTS
  kBlockSize = 2
  kIdsInField = 2
  MaxId = 9
INVARIANTS TypeOK MarksExactly
PROPERTY ImplementsSet
