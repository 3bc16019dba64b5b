SPECIFICATION Spec
CONSTANTS
  Harts = {h0, h1}
  hart0 = h0
  Procs = {p1, p2}
  WIDTH = 2
  MaxN = 2
  MaxIntr = 6
INVARIANT UptimeCountsInterrupts
