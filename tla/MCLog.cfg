\* Two processes, two blocks of two values, a log with room for two
\* reservations of two blocks; an operation logs one of them.
CONSTANTS
  Procs = {p1, p2}
  Blocks = {b1, b2}
  Val = {v1, v2}
  LOGBLOCKS = 4
  MAXOPBLOCKS = 2
  OpBlocks = 1
  NoBlock = NoBlock
  NotCached = NotCached
SPECIFICATION FairSpec
VIEW View
INVARIANTS QuiescentIsDurable  SleeperHasWaker
PROPERTIES ImplementsTxnDisk RecoveryEnds
