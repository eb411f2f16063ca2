SPECIFICATION Spec
CONSTANTS
  Ids = {i1, i2}
  Cfgs = {c1}
  Disabled = {}
  Models = {m1}
  Secrets = {"none"}
  None = None
  MaxOps = 5
  MaxCrashes = 1
  CmdCap = 6
  Unawaited = {}
CHECK_DEADLOCK FALSE
INVARIANTS StoreRestorable UpToDate ServedByShown OneAnswer
PROPERTY WaitEnds
