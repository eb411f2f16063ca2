SPECIFICATION Spec
CONSTANTS
  Ids = {i1, i2}
  Cfgs = {c1}
  Disabled = {}
  Models = {m1}
  Secrets = {"persistent"}
  None = None
  MaxOps = 4
  MaxCrashes = 0
  CmdCap = 1
  Unawaited = {"test", "cleanup", "storage"}
CHECK_DEADLOCK FALSE
INVARIANT SavedInStore
PROPERTIES ImplementsAppState PendingAnswered
