CONSTANTS
  Proc = {p0, p1, p2}
  INITPROC = p0
  NFrame = 5
  NPage = 4
  PGSIZE = 2
  NSeg = 1
  RefMod = 4
  MaxCalls = 2
  MaxCopies = 4
  Stored = {0, 2}
  NONE = NONE
SPECIFICATION Spec
SYMMETRY Symmetric
CHECK_DEADLOCK FALSE
INVARIANT FramesExact
PROPERTY ImplementsPrivateMemory
