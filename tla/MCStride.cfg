CONSTANTS
  NPROC = 3
  Cpu = {1, 2}
  Onlines <- MCOnlines
  MaxPass = 3
  Strides = {1, 2}
  Ticketed = {2}
  NONE = NONE
SPECIFICATION Spec
 
CHECK_DEADLOCK FALSE
PROPERTY NoStarvation
