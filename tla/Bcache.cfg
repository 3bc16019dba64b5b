SPECIFICATION Spec
CONSTANTS
  Callers = {c1, c2}
  Readers = {r1}
  NBUF = 5
  NBLOCKS = 3
  MAXOPBLOCKS = 3
  LOGBLOCKS = 3
  OpBlocks = 2
  MaxBreads = 2
  MaxOps = 3
SYMMETRY Symmetry
INVARIANTS BuffersExact UpdatesKept NoPanic
