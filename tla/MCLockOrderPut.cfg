\* fork beside put of the last reference to a linked inode.
CONSTANTS
  NPROC = 3
  CPUs = {c1, c2}
  None = None
  Paths = {"fork", "put_linked"}
SPECIFICATION Spec
SYMMETRY Symmetry
INVARIANT PutSafe
