SPECIFICATION Spec
CONSTANTS
  Threads = {t1, t2, t3}
  Pools = {p1, p2, p3, p4}
  None = none
SYMMETRY Symmetry
INVARIANTS TypeOK RetriesCleanlyAlone ClosedPoolIsLeaving
