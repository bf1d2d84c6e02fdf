\* Three CPUs and every path but put_linked, whose lock order MCLockOrderPut
\* refutes.
CONSTANTS
  NPROC = 4
  CPUs = {c1, c2, c3}
  None = None
  Paths = {"fork", "exit", "wait_reap", "wait_sleep", "yield", "cond_sleep",
           "close", "put_unlinked", "cons_read", "cons_write"}
SPECIFICATION Spec
SYMMETRY Symmetry
INVARIANTS NoCircularWait 
