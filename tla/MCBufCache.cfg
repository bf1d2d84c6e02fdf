\* Three usable buffers for four blocks, so that buffers are recycled in an
\* order that matters, pinned and read back.
CONSTANTS
  Procs = {p1, p2}
  Blocks = {b1, b2, b3, b4}
  NBUF = 4
  NoBlock = NoBlock
  None = None
SPECIFICATION Spec
CHECK_DEADLOCK FALSE
SYMMETRY Symmetry
INVARIANTS   LockSleeperHasWaker
PROPERTIES ImplementsLru PanicOnlyWhenFull
