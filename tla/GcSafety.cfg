SPECIFICATION Spec
CONSTANTS
  g = g
  f = f
  a = a
  b = b
  Addr = {g, f, a, b}
  Pinned = {g}
  Base = f
  BaseKids = {}
  InitVals <- MCInitVals
  GC_THRESHOLD = 2
  MaxStack = 1
  MaxLocals = 2
  MaxKids = 1
SYMMETRY MCSymmetry
INVARIANTS
  IInv
  NoDangling
PROPERTIES
  CollectionIsExact
  HeapBounded
