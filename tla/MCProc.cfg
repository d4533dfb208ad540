CONSTANTS
  p0 = p0
  p1 = p1
  p2 = p2
  Slot = {p0, p1, p2}
  initproc = p0
  MaxPid = 3
  None = None
SPECIFICATION PartSpec
CHECK_DEADLOCK FALSE
INVARIANTS TreeOK NoWaitLost RunsAsWritten
PROPERTIES KilledDies OrphansReaped PromptReturns
