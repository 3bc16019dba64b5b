SPECIFICATION Spec
CONSTANTS
  NPROC = 2
  NCPU = 1
  MaxPid = 2
  KillPids = {0}
PROPERTY KillFindsProcess
