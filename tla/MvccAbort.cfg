SPECIFICATION SpecBetweenRuns
CONSTANTS
  N = 3
  MaxDeltas = 4
  a = a
  b = b
  Null = Null
  Vertices = {a}
  EdgeEnds <- MCLoop
  Settable = {}
  Writers = {1, 2}
  Commands = {}
  MaxCommand = 1
INVARIANTS ReadsSnapshot
CHECK_DEADLOCK FALSE
