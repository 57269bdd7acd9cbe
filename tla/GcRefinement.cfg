SPECIFICATION FairSpec
CONSTANTS
  g = g
  f = f
  a = a
  b = b
  Addr = {g, f, a}
  Pinned = {g}
  Base = f
  BaseKids = {}
  InitVals <- MCInitVals
  GC_THRESHOLD = 1
  MaxStack = 1
  MaxLocals = 2
  MaxKids = 2
PROPERTIES
  CollectionEnds
  ImplementsHeap
