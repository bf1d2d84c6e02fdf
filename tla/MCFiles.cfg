CONSTANTS
  MaxCalls = 3
  Proc = {p1,p2,p3}
  NFILE = 3
  NOFILE = 2
  PipeId = {x1}
  PIPESIZE = 2
  Inode = {i1}
  MaxWrite = 3
  NONE = NONE
SPECIFICATION Spec
SYMMETRY Symmetric
CHECK_DEADLOCK FALSE
INVARIANTS CountsExact  SleepersHaveReason
PROPERTY ImplementsPipeQueue
