CONSTANTS
  p1 = p1
  p2 = p2
  b1 = b1
  b2 = b2
  b3 = b3
  d1 = d1
  d2 = d2
  Proc = {p1, p2}
  Block = {b1, b2, b3}
  Data = {d1, d2}
  LOGSIZE = 3
  SIZE = 3
  None = None
SPECIFICATION FairSpec
INVARIANTS OneTransaction
PROPERTIES AtomicTransactions WaiterWakes RecoveryEnds
