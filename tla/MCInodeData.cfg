CONSTANTS
  Proc = {p1, p2}
  Inode = {1, 2}
  File = {1, 2}
  Opens <- MCOpens
  NBlock = 5
  NDIRECT = 1
  NINDIRECT = 3
  BSIZE = 2
  MAXOPBLOCKS = 6
  Lengths = {7}
  MaxCalls = 2
  NONE = NONE
SPECIFICATION Spec
CHECK_DEADLOCK FALSE
INVARIANTS BitmapExact ContentExact 
PROPERTY WriteEnds
