CONSTANTS
  p1 = p1
  p2 = p2
  d1 = d1
  Proc = {p1, p2}
  Byte = {d1}
  PIPESIZE = 2
  UINT = 4
  MaxN = 2
  None = None
SPECIFICATION FairSpec
CHECK_DEADLOCK FALSE
INVARIANTS NoLostWakeup FreedUnreachable
PROPERTIES FifoChannel WaitsEnd
