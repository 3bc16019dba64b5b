SPECIFICATION Spec
CONSTANTS
  Callers = {c1}
  Readers = {r1, r2, r3, r4, r5}
  NBUF = 6
  NBLOCKS = 7
  MAXOPBLOCKS = 2
  LOGBLOCKS = 6
  OpBlocks = 1
  MaxBreads = 2
  MaxOps = 6
SYMMETRY Symmetry
INVARIANTS BgetReturns
