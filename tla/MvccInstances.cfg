SPECIFICATION MCSpec
CONSTANTS
  N = 3
  MaxDeltas = 3
  a = a
  b = b
  Null = Null
  Vertices = {a, b}
  EdgeEnds <- MCEnds
  Settable = {a, b}
  Writers = {1, 2, 3}
  Commands = {2}
  MaxCommand = 1
INVARIANTS TypeOK AbortRestores FlagCovers NoLostUpdate ReadsProperty NoDanglingRead
PROPERTY EventuallyFreed
