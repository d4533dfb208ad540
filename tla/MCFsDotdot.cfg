CONSTANTS
  p1 = p1
  Proc = {p1}
  NInodes = 3
  Name = {"a"}
  Path <- DeepPaths
  None = None
SPECIFICATION Spec
INVARIANT TruncUnreferenced
