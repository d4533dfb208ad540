CONSTANTS
  t1 = t1
  t2 = t2
  p1 = p1
  p2 = p2
  f1 = f1
  f2 = f2
  f3 = f3
  c1 = c1
  c2 = c2
  g1 = g1
  g2 = g2
  g3 = g3
  g4 = g4
  g5 = g5
  g6 = g6
  g7 = g7
  g8 = g8
  Thread = {t1, t2}
  Boot = t1
  PGSIZE = 2
  END = 3
  ENTRYTOP = 8
  TOP = 11
  None = None
SPECIFICATION ResSpec
VIEW ResView
INVARIANTS NoDoubleAlloc ListIntact NoPageLost KernelMapped PagesAccounted MappedBelowSz RefExact InodeRefExact LinksExact AllocatedWhileUsed
