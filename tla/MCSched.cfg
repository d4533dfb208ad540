CONSTANTS
  ptable = ptable
  la = la
  lb = lb
  Lock = {ptable, la, lb}
  PtableLock = ptable
  NPROC = 2
  RecordCpu = TRUE
SPECIFICATION Spec
SYMMETRY Symmetry
INVARIANTS MutualExclusion RestoresInterrupts
