SPECIFICATION Spec
CONSTANTS
  N = 3
  MaxDeltas = 2
  a = a
  b = b
  Null = Null
  Vertices = {a}
  EdgeEnds <- MCLoop
  Settable = {a}
  Writers = {1, 3}
  Commands = {1}
  MaxCommand = 1
INVARIANTS ReadsProperty NoDanglingRead
