\* Two chains fit the eight descriptors, so the third process waits; the
\* indices wrap; the third process also reuses the buffer of the first.
CONSTANTS
  p1 = p1
  p2 = p2
  p3 = p3
  b1 = b1
  b2 = b2
  b3 = b3
  Procs = {p1, p2, p3}
  Bufs = {b1, b2, b3}
  BufsOf <- MCBufsOf
  NUM = 8
  IDX = 16
  None = None
SPECIFICATION FairSpec
VIEW View
INVARIANTS DmaOwned CompletionsKnown SleeperHasWaker
PROPERTY TransferReturns
