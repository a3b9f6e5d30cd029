SPECIFICATION Spec
CONSTANTS
  Readers = {r1, r2}
  MaxRows = 3
  TTL = 3
  MaxLag = 2
SYMMETRY Symmetry
INVARIANTS TypeOK BoundedStaleness
