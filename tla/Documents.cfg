SPECIFICATION Spec
CONSTANTS
  Jobs = {j1, j2, j3}
  NSegs = 2
  MaxActive = 2
  CmdCap = 2
  MaxOps = 3
  MaxCrashes = 1
  None = None
CHECK_DEADLOCK FALSE
SYMMETRY JobSymmetry
INVARIANTS TypeOK ActiveIsRunning CompletedIsWhole OneStream WithinCapacity SlotIsCurrent
PROPERTY RequestsStick
