SPECIFICATION Spec
CONSTANTS
  Threads = {t1, t2}
  Pools = {p1, p2, p3}
  None = none
SYMMETRY Symmetry
INVARIANT RetriesCleanly
