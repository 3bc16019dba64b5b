SPECIFICATION AllSpec
CONSTANTS
  Readers = {r1, r2}
  Writers = {w1, w2}
  Bytes = {x, y}
  PIPESIZE = 2
  WIDTH = 2
  MaxN = 2
  Victims = {r1, w1}
SYMMETRY Symmetry
INVARIANTS FilesTypeOK SleepersWait ReferencesExact ContentExact ImageExact
PROPERTY ImplementsFifo
