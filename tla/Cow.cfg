SPECIFICATION Spec
CONSTANTS
  Procs = {p1, p2}
  init = p1
  NVA = 2
  Pages = {m1, m2, m3}
  MaxRare = 1
SYMMETRY Symmetry
CHECK_DEADLOCK FALSE
INVARIANTS PagesExact
PROPERTY ImplementsPrivateMemory
