SPECIFICATION SpecBetweenRuns
CONSTANTS
  N = 3
  MaxDeltas = 2
  a = a
  b = b
  Null = Null
  Vertices = {a}
  EdgeEnds <- MCLoop
  Settable = {a}
  Writers = {1, 2, 3}
  Commands = {}
  MaxCommand = 1
INVARIANTS ReadsSnapshot
CHECK_DEADLOCK FALSE
