CONSTANTS
  nblocks = 12
  nlog = 2
  ninodes = 4
  size = 20
  BSIZE = 2
  NDIRECT = 1
  BPB = 24
  MaxFiles = 3
  MaxLen = 7
  NUM_INTSRC = 2
  PIC_TIMER01 = 1
SPECIFICATION PartsSpec
VIEW PartsView
INVARIANTS MkfsConsistent BlocksExact HeapIntact MatchesMeaning ParsesGrammar InterruptsHandled RoutinesMeet
PROPERTIES  RingIsLineBuffer
