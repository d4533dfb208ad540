CONSTANTS
  p0 = p0
  p1 = p1
  p2 = p2
  Slot = {p0, p1, p2}
  initproc = p0
  MaxPid = 4
  None = None
SPECIFICATION Spec
CHECK_DEADLOCK FALSE
INVARIANT KillOnlyTarget
