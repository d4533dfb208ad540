CONSTANTS
  NUM_INTSRC = 2
  PIC_TIMER01 = 1
SPECIFICATION IrqSpec
CHECK_DEADLOCK FALSE
INVARIANT VectorsReachHandlers
