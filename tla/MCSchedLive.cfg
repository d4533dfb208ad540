CONSTANTS
  ptable = ptable
  la = la
  lb = lb
  Lock = {ptable}
  PtableLock = ptable
  NPROC = 2
  RecordCpu = TRUE
SPECIFICATION FairSpec
PROPERTY RunnableRuns
