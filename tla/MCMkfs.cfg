CONSTANTS
  nblocks = 12
  nlog = 2
  ninodes = 4
  size = 20
  BSIZE = 2
  NDIRECT = 1
  BPB = 24
  MaxFiles = 3
  MaxLen = 5
SPECIFICATION Spec
CHECK_DEADLOCK FALSE
INVARIANT DataOutsideLog
