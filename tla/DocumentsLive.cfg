SPECIFICATION Spec
CONSTANTS
  Jobs = {j1, j2}
  NSegs = 2
  MaxActive = 2
  CmdCap = 2
  MaxOps = 3
  MaxCrashes = 0
  None = None
CHECK_DEADLOCK FALSE
PROPERTIES JobEnds ShutdownStops
