CONSTANTS
  p1 = p1
  p2 = p2
  b1 = b1
  b2 = b2
  b3 = b3
  s1 = s1
  s2 = s2
  v0 = v0
  v1 = v1
  Zero = v0
  None = None
  Proc = {p1, p2}
  Writer = {p1}
  Buf = {b1, b2, b3}
  Data = {s1, s2}
  LOGSIZE = 1
  Value = {v0, v1}
SPECIFICATION FairSpec
INVARIANTS OneBufferPerSector ReadsLatest CommittedOnDisk
PROPERTY RequestServed
