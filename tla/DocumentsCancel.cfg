SPECIFICATION Spec
CONSTANTS
  Jobs = {j1}
  NSegs = 2
  MaxActive = 2
  CmdCap = 2
  MaxOps = 2
  MaxCrashes = 0
  None = None
CHECK_DEADLOCK FALSE
PROPERTY CancelSticks
