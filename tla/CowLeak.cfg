SPECIFICATION Spec
CONSTANTS
  Procs = {p1, p2}
  init = p1
  NVA = 1
  Pages = {m1, m2}
  MaxRare = 1
SYMMETRY Symmetry
INVARIANT NoLeak
CHECK_DEADLOCK FALSE
