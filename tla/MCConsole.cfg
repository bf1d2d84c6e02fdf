CONSTANTS
  Proc = {p1, p2}
  FIFO = 3
  MaxOut = 2
  NONE = NONE
  INTR = INTR
  INPUT_BUF_SIZE = 2
  Plain = {x}
  NL = NL
  EOT = EOT
  BS = BS
  NAK = NAK
  ETX = ETX
  ReadLen = 3
  MaxKeys = 3
  MaxCalls = 3
SPECIFICATION Spec
CHECK_DEADLOCK FALSE
 
PROPERTIES ImplementsLineTty 
