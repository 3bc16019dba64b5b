SPECIFICATION AllSpec
CONSTANTS
  Procs = {p1, p2}
  Blocks = {b1, b2}
  MAXOPBLOCKS = 3
  LOGBLOCKS = 6
  OpBlocks = 2
  MaxOps = 3
INVARIANTS CrashConsistent NoPanic InodesExact TreeNoPanic TreeConsistent
PROPERTIES NeverRolledBack ImplementsAtomicDisk
